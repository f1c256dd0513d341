------------------------- MODULE TargetReloadProofs -------------------------
(***************************************************************************)
(* Theorems about TargetReload for any number of targets and commands, and *)
(* any number of loop numbers that is large enough for them.               *)
(***************************************************************************)
EXTENDS TargetReload, FiniteSetTheorems, FunctionTheorems, TLAPS

(* The inductive invariant.                                                *)

\* The lock is held while there are sessions left to stop or one is joined; the
\* shutdown holds it only before it goes on.
LockInv ==
    /\ holder = None => left = {} /\ joining = None
    /\ holder = "shutdown" => daemon = "stop"
    /\ \A n \in left : sessions[n] # None

\* A session that its holder has dealt with was told to stop; unless a join timed
\* out it has ended, or is waited for.
HeldInv ==
    holder # None => \A n \in Names \ left : sessions[n] # None =>
       /\ loops[sessions[n]] = Ended \/ loops[sessions[n]].told
       /\ ~late => sessions[n] = joining \/ loops[sessions[n]] = Ended

\* Unless a join timed out, a loop that dials, serves or closes a link is the session
\* of its target, and there is none once the shutdown has unlocked.
WorksInv ==
    ~late => \A i \in Ids : loops[i].state \in {"works", "held"} =>
       sessions[loops[i].name] = i /\ daemon \in {"run", "stop"}

\* One after the other: the sessions are those of a document.
Follows(document) ==
    \A n \in Names :
       IF document[n] # None
       THEN sessions[n] # None /\ loops[sessions[n]].as = document[n] /\ ~loops[sessions[n]].told
       ELSE sessions[n] = None

\* While commands run one after the other, the one under way has the file in its
\* hands, the sessions are gone from where it forgets them to where it starts new
\* ones, and they follow the file at all other times, unless the
\* last reload could not read it.
SerialInv ==
    ~overlapped =>
       /\ \A c, d \in Commands : Underway(c) /\ Underway(d) => c = d
       /\ \A c \in Commands :
             /\ at[c] \in {"edit", "lock", "stop", "set", "start"} => doc[c] = file
             /\ at[c] = "snapshot" => targets = file
             /\ at[c] \in {"set", "snapshot", "start"} => \A n \in Names : sessions[n] = None
       /\ ~unread /\ daemon = "run" /\ (\A c \in Commands : at[c] \in {"ready", "edit", "done"})
             => Follows(file)

\* The numbers that a loop or a session has, and the bound on how many there are.
Used == {i \in Ids : loops[i] # Ended \/ \E n \in Names : sessions[n] = i}
Finished == {c \in Commands : at[c] = "done"}
NumberInv == Cardinality(Used) <= Cardinality(Names) * Cardinality(Finished)

IInv == /\ TypeOK /\ LockInv /\ EveryLoopIsASession /\ HeldInv /\ WorksInv /\ SerialInv
        /\ NumberInv
-----------------------------------------------------------------------------
(* Numbers.                                                                *)

\* A finite set that is no larger than another can be numbered by it.
LEMMA Numbering ==
    ASSUME NEW S, NEW T, IsFiniteSet(S), IsFiniteSet(T), Cardinality(S) <= Cardinality(T)
    PROVE  \E f \in [S -> T] : \A x, y \in S : f[x] = f[y] => x = y
<1> DEFINE m == Cardinality(S)
           n == Cardinality(T)
<1>1. m \in Nat /\ n \in Nat /\ 1..m \subseteq 1..n
  BY FS_CardinalityType
<1>2. ExistsBijection(1..m, S) /\ ExistsBijection(1..n, T)
  BY FS_CardinalityType
<1> HIDE DEF m, n
<1>3. ExistsBijection(S, 1..m)
  BY <1>2, Fun_ExistsBijSymmetric
<1>4. PICK a \in Bijection(S, 1..m) : TRUE
  BY <1>3, Fun_ExistsBij
<1>5. PICK b \in Bijection(1..n, T) : TRUE
  BY <1>2, Fun_ExistsBij
<1>6. a \in [S -> 1..m] /\ \A x, y \in S : a[x] = a[y] => x = y
  BY <1>4, Fun_BijectionProperties
<1>7. b \in [1..n -> T] /\ \A i, j \in 1..n : b[i] = b[j] => i = j
  BY <1>5, Fun_BijectionProperties
<1> DEFINE f == [x \in S |-> b[a[x]]]
<1>8. \A x \in S : a[x] \in 1..n
  BY <1>1, <1>6
<1>9. f \in [S -> T] /\ \A x, y \in S : f[x] = f[y] => x = y
  BY <1>6, <1>7, <1>8
<1>10. QED BY <1>9

\* A product grows with its factors.
LEMMA Product ==
    ASSUME NEW k \in Nat, NEW a \in Nat, NEW b \in Nat, a <= b
    PROVE  k * a <= k * b /\ k * (b + 1) = k * b + k /\ k * a \in Nat /\ k * b \in Nat
<1>1. PICK d \in Nat : b = a + d
  <2>1. b - a \in Nat /\ b = a + (b - a)
    OBVIOUS
  <2>2. QED BY <2>1
<1>2. k * d \in Nat /\ k * b = k * a + k * d
  <2>1. k * d \in Nat /\ k * (a + d) = k * a + k * d
    OBVIOUS
  <2>2. QED BY <1>1, <2>1
<1>3. k * (b + 1) = k * b + k /\ k * a \in Nat /\ k * b \in Nat
  OBVIOUS
<1>4. QED BY <1>2, <1>3

Free == {i \in Ids : loops[i] = Ended /\ \A n \in Names : sessions[n] # i}

\* While a command has still to start its loops, there are numbers for them that
\* nobody uses.
LEMMA FreshNumbers ==
    ASSUME NumberInv, NEW c \in Commands, at[c] # "done", NEW names \in SUBSET Names
    PROVE  /\ Numbers(names) \in [names -> Free]
           /\ \A m, n \in names : Numbers(names)[m] = Numbers(names)[n] => m = n
<1> DEFINE N == Cardinality(Names)
           C == Cardinality(Commands)
           F == Cardinality(Finished)
<1>1. N \in Nat /\ C \in Nat /\ Cardinality(Ids) \in Nat /\ Cardinality(Ids) >= N * C
  BY ReloadAssumption, FS_CardinalityType
<1>2. F \in Nat /\ F + 1 <= C
  <2>1. IsFiniteSet(Commands \ {c}) /\ Cardinality(Commands \ {c}) = C - 1
    BY ReloadAssumption, FS_RemoveElement
  <2>2. Finished \in SUBSET (Commands \ {c})
    BY DEF Finished
  <2>3. IsFiniteSet(Finished) /\ F <= C - 1
    BY <2>1, <2>2, FS_Subset
  <2>4. F \in Nat
    BY <2>3, FS_CardinalityType
  <2>5. QED BY <1>1, <2>3, <2>4
<1>3. IsFiniteSet(Used) /\ Cardinality(Used) \in Nat /\ Ids \cap Used = Used
  <2>1. Used \in SUBSET Ids
    BY DEF Used
  <2>2. QED BY <2>1, ReloadAssumption, FS_Subset, FS_CardinalityType
<1>4. IsFiniteSet(Free) /\ Cardinality(Free) = Cardinality(Ids) - Cardinality(Used)
  <2>1. Free = Ids \ Used
    BY DEF Free, Used
  <2>2. QED BY <1>3, <2>1, ReloadAssumption, FS_Difference
<1>5. Cardinality(Used) + N <= N * C /\ N * C \in Nat
  <2>1. N * (F + 1) <= N * C /\ N * (F + 1) = N * F + N /\ N * F \in Nat /\ N * C \in Nat
    <3>1. N * (F + 1) <= N * C /\ N * C \in Nat
      BY <1>1, <1>2, Product
    <3>2. N * (F + 1) = N * F + N /\ N * F \in Nat
      BY <1>1, <1>2, Product
    <3>3. QED BY <3>1, <3>2
  <2>2. Cardinality(Used) <= N * F
    BY DEF NumberInv
  <2>3. QED BY <1>1, <1>3, <2>1, <2>2
<1>6. N <= Cardinality(Free)
  BY <1>1, <1>3, <1>4, <1>5
<1>7. IsFiniteSet(names) /\ Cardinality(names) <= N /\ Cardinality(names) \in Nat
  BY ReloadAssumption, FS_Subset, FS_CardinalityType
<1>8. Cardinality(Free) \in Nat
  BY <1>4, FS_CardinalityType
<1>9. Cardinality(names) <= Cardinality(Free)
  BY <1>1, <1>6, <1>7, <1>8
<1>10. \E f \in [names -> Free] : \A m, n \in names : f[m] = f[n] => m = n
  BY <1>4, <1>7, <1>9, Numbering
<1>11. QED BY <1>10 DEF Numbers, Free
-----------------------------------------------------------------------------
(* Types.                                                                  *)

Loops == {Ended} \cup [name : Names, as : Commands \cup {Original},
                       state : {"top", "works", "held"}, told : BOOLEAN]

\* A loop of its own for each of some names.
LEMMA NewLoops ==
    ASSUME TypeOK, NumberInv, NEW c \in Commands, at[c] # "done",
           NEW names \in SUBSET Listed(doc[c]), StartLoops(c, names)
    PROVE  LET number == Numbers(names) IN
           /\ \A n \in Names : sessions'[n] = IF n \in names THEN number[n] ELSE sessions[n]
           /\ sessions' \in [Names -> Ids \cup {None}] /\ loops' \in [Ids -> Loops]
           /\ \A n \in names : number[n] \in Free /\
                 loops'[number[n]] = [name |-> n, as |-> doc[c][n], state |-> "top", told |-> FALSE]
           /\ \A i \in Ids : (\A n \in names : number[n] # i) => loops'[i] = loops[i]
<1> DEFINE number == Numbers(names)
           loop(n) == [name |-> n, as |-> doc[c][n], state |-> "top", told |-> FALSE]
<1>1. names \in SUBSET Names
  BY DEF Listed
<1>2. /\ number \in [names -> Free]
      /\ \A m, n \in names : number[m] = number[n] => m = n
  BY <1>1, FreshNumbers
<1>3. Free \subseteq Ids
  BY DEF Free
<1>4. ASSUME NEW n \in names PROVE loop(n) \in Loops
  <2>1. doc[c][n] \in Commands \cup {Original}
    BY <1>1 DEF TypeOK, Documents, Listed
  <2>2. QED BY <1>1, <2>1 DEF Loops
<1>5. sessions' = [n \in Names |-> IF n \in names THEN number[n] ELSE sessions[n]]
  BY DEF StartLoops
<1>6. loops' = [i \in Ids |->
                IF \E n \in names : number[n] = i
                THEN loop(CHOOSE n \in names : number[n] = i)
                ELSE loops[i]]
  BY DEF StartLoops
<1>7. \A n \in names : (CHOOSE m \in names : number[m] = number[n]) = n
  BY <1>2
<1>8. \A n \in names : loops'[number[n]] = loop(n)
  BY <1>2, <1>3, <1>6, <1>7
<1>9. loops' \in [Ids -> Loops]
  <2>1. \A i \in Ids : loops'[i] \in Loops
    <3> SUFFICES ASSUME NEW i \in Ids PROVE loops'[i] \in Loops
      OBVIOUS
    <3>1. CASE \E n \in names : number[n] = i
      BY <1>4, <1>8, <3>1
    <3>2. CASE ~\E n \in names : number[n] = i
      BY <1>6, <3>2 DEF TypeOK, Loops
    <3>3. QED BY <3>1, <3>2
  <2>2. loops' = [i \in Ids |-> loops'[i]]
    BY <1>6
  <2>3. QED BY <2>1, <2>2
<1>10. sessions' \in [Names -> Ids \cup {None}]
  BY <1>2, <1>3, <1>5 DEF TypeOK
<1>11. \A i \in Ids : (\A n \in names : number[n] # i) => loops'[i] = loops[i]
  BY <1>6
<1>12. QED BY <1>2, <1>5, <1>8, <1>9, <1>10, <1>11

\* The lock is where it was, and so is who waits for it and who has it.
LEMMA PlaceTypes ==
    ASSUME TypeOK, NEW c \in Commands, NEW place \in Places, Goto(c, place),
           at[c] # "stop", place # "stop", UNCHANGED holder
    PROVE  at' \in [Commands -> Places] /\ \A d \in Commands : at'[d] = "stop" <=> holder' = d
BY DEF TypeOK, Goto

\* The steps of a command keep every variable in its range ...
LEMMA TypesCommand ==
    ASSUME TypeOK, LockInv, NumberInv, NEW c \in Commands,
           LoadTargets(c) \/ Save(c) \/ ReloadStep(c)
    PROVE  TypeOK'
<1> USE ReloadAssumption DEF locking, flags
<1>1. overlapped' \in BOOLEAN /\ unread' \in BOOLEAN /\ late' \in BOOLEAN
  BY DEF LoadTargets, Save, ReloadStep, Reload, NoDaemon, Lock, Forget, SetTargets, Snapshot,
         StartMissing, TypeOK
<1>2. NoDocument \in Documents
  BY DEF NoDocument, Documents
<1>3. {"edit", "call", "done", "lock", "stop", "set", "snapshot"} \subseteq Places
  BY DEF Places
<1>4. ASSUME NEW d \in Documents, doc' = [doc EXCEPT ![c] = d] PROVE doc' \in [Commands -> Documents]
  BY <1>4 DEF TypeOK
<1>5. CASE LoadTargets(c)
  <2>1. doc' \in [Commands -> Documents]
    BY <1>5 DEF LoadTargets, TypeOK
  <2>2. at' \in [Commands -> Places] /\ \A d \in Commands : at'[d] = "stop" <=> holder' = d
    BY <1>3, <1>5, PlaceTypes DEF LoadTargets
  <2>3. QED BY <1>1, <1>5, <2>1, <2>2 DEF LoadTargets, TypeOK
<1>6. CASE Save(c)
  <2>1. doc' \in [Commands -> Documents]
    BY <1>2, <1>4, <1>6 DEF Save
  <2>2. at' \in [Commands -> Places] /\ \A d \in Commands : at'[d] = "stop" <=> holder' = d
    BY <1>3, <1>6, PlaceTypes DEF Save
  <2>3. file' \in Documents
    <3>1. doc[c] \in Documents /\ file \in Documents
      BY DEF TypeOK
    <3>2. \A n \in Names : /\ [doc[c] EXCEPT ![n] = c] \in Documents
                          /\ [doc[c] EXCEPT ![n] = None] \in Documents
      BY <3>1 DEF Documents
    <3>3. QED BY <1>6, <3>1, <3>2, Zenon DEF Save
  <2>4. QED BY <1>1, <1>6, <2>1, <2>2, <2>3 DEF Save, TypeOK
<1>7. CASE NoDaemon(c)
  <2>1. at' \in [Commands -> Places] /\ \A d \in Commands : at'[d] = "stop" <=> holder' = d
    BY <1>3, <1>7, PlaceTypes DEF NoDaemon
  <2>2. QED BY <1>1, <1>7, <2>1 DEF NoDaemon, TypeOK
<1>8. CASE Reload(c)
  <2>1. doc' \in [Commands -> Documents]
    BY <1>4, <1>8 DEF Reload, TypeOK
  <2>2. at' \in [Commands -> Places] /\ \A d \in Commands : at'[d] = "stop" <=> holder' = d
    BY <1>3, <1>8, PlaceTypes DEF Reload
  <2>3. QED BY <1>1, <1>8, <2>1, <2>2 DEF Reload, TypeOK
<1>9. CASE Lock(c)
  <2>1. at' \in [Commands -> Places] /\ \A d \in Commands : at'[d] = "stop" <=> holder' = d
    BY <1>3, <1>9 DEF Lock, Goto, TypeOK
  <2>2. QED BY <1>1, <1>9, <2>1 DEF Lock, TypeOK
<1>10. CASE Forget(c)
  <2>1. at' \in [Commands -> Places] /\ \A d \in Commands : at'[d] = "stop" <=> holder' = d
    BY <1>3, <1>10 DEF Forget, Goto, TypeOK
  <2>2. QED BY <1>1, <1>10, <2>1 DEF Forget, TypeOK
<1>11. CASE SetTargets(c)
  <2>1. doc' \in [Commands -> Documents] /\ targets' \in Documents
    BY <1>2, <1>4, <1>11 DEF SetTargets, TypeOK
  <2>2. at' \in [Commands -> Places] /\ \A d \in Commands : at'[d] = "stop" <=> holder' = d
    BY <1>3, <1>11, PlaceTypes DEF SetTargets
  <2>3. QED BY <1>1, <1>11, <2>1, <2>2 DEF SetTargets, TypeOK
<1>12. CASE Snapshot(c)
  <2>1. doc' \in [Commands -> Documents]
    BY <1>4, <1>12 DEF Snapshot, TypeOK
  <2>2. "start" \in Places
    BY DEF Places
  <2>3. at' \in [Commands -> Places] /\ \A d \in Commands : at'[d] = "stop" <=> holder' = d
    BY <1>12, <2>2, PlaceTypes DEF Snapshot
  <2>4. QED BY <1>1, <1>12, <2>1, <2>3 DEF Snapshot, TypeOK
<1>13. CASE StartMissing(c)
  <2>1. doc' \in [Commands -> Documents]
    BY <1>2, <1>4, <1>13 DEF StartMissing
  <2>2. at' \in [Commands -> Places] /\ \A d \in Commands : at'[d] = "stop" <=> holder' = d
    BY <1>3, <1>13, PlaceTypes DEF StartMissing
  <2>3. sessions' \in [Names -> Ids \cup {None}] /\ loops' \in [Ids -> Loops]
    <3> DEFINE names == {n \in Listed(doc[c]) : sessions[n] = None}
    <3>1. StartLoops(c, names) /\ names \in SUBSET Listed(doc[c]) /\ at[c] # "done"
      BY <1>13 DEF StartMissing
    <3>2. QED BY <3>1, NewLoops
  <2>4. QED BY <1>1, <1>13, <2>1, <2>2, <2>3 DEF StartMissing, TypeOK, Loops
<1>14. QED BY <1>5, <1>6, <1>7, <1>8, <1>9, <1>10, <1>11, <1>12, <1>13 DEF ReloadStep

\* What a stop or a step does to one loop leaves it a loop.
LEMMA LoopTypes ==
    ASSUME TypeOK, NEW i \in Ids, loops[i] # Ended
    PROVE  /\ [loops EXCEPT ![i].told = TRUE] \in [Ids -> Loops]
           /\ [loops EXCEPT ![i].told = TRUE][i] = [loops[i] EXCEPT !.told = TRUE]
           /\ [loops[i] EXCEPT !.told = TRUE].told
           /\ [loops[i] EXCEPT !.told = TRUE].name = loops[i].name
           /\ [loops[i] EXCEPT !.told = TRUE].as = loops[i].as
           /\ [loops[i] EXCEPT !.told = TRUE].state = loops[i].state
           /\ [loops[i] EXCEPT !.state = "works"] \in Loops
           /\ [loops[i] EXCEPT !.state = "works"].told = loops[i].told
           /\ [loops[i] EXCEPT !.state = "works"].name = loops[i].name
           /\ [loops[i] EXCEPT !.state = "works"].as = loops[i].as
           /\ [loops[i] EXCEPT !.state = "held"] \in Loops
           /\ [loops[i] EXCEPT !.state = "held"].told = loops[i].told
           /\ [loops[i] EXCEPT !.state = "held"].name = loops[i].name
           /\ [loops[i] EXCEPT !.state = "held"].as = loops[i].as
           /\ [loops[i] EXCEPT !.state = "held"].state = "held"
<1>1. loops[i] \in [name : Names, as : Commands \cup {Original},
                    state : {"top", "works", "held"}, told : BOOLEAN]
  BY DEF TypeOK
<1>2. /\ [loops[i] EXCEPT !.told = TRUE] \in Loops /\ [loops[i] EXCEPT !.state = "works"] \in Loops
      /\ [loops[i] EXCEPT !.state = "held"] \in Loops
  BY <1>1 DEF Loops
<1>3. loops \in [Ids -> Loops]
  BY DEF TypeOK, Loops
<1>4. QED BY <1>1, <1>2, <1>3

\* ... and so do those of a stop and of the shutdown, ...
LEMMA TypesStop ==
    ASSUME TypeOK, LockInv, StopStep \/ Stop \/ ShutdownStep
    PROVE  TypeOK'
<1> USE ReloadAssumption DEF locking, flags
<1>1. overlapped' \in BOOLEAN /\ unread' \in BOOLEAN /\ late' \in BOOLEAN
  BY DEF StopStep, TellStop, Closed, Join, Stop, ShutdownStep, LockForShutdown, Unlock, Return, TypeOK
<1>2. CASE TellStop
  <2>1. PICK n \in left :
           /\ joining' = sessions[n] /\ left' = left \ {n}
           /\ loops' = IF loops[sessions[n]] = Ended THEN loops
                       ELSE [loops EXCEPT ![sessions[n]].told = TRUE]
    BY <1>2 DEF TellStop
  <2>2. sessions[n] \in Ids /\ None \notin Ids
    BY DEF TypeOK, LockInv
  <2>3. loops' \in [Ids -> Loops]
    BY <2>1, <2>2, LoopTypes DEF TypeOK, Loops
  <2>4. QED BY <1>1, <1>2, <2>1, <2>2, <2>3 DEF TellStop, TypeOK, Loops
<1>3. CASE Closed \/ Join
  <2>1. UNCHANGED <<file, targets, sessions, loops, holder, left, at, doc, daemon>>
    BY <1>3 DEF Closed, Join
  <2>2. joining' \in Ids \cup {None} /\ closing' \in BOOLEAN /\ (closing' => joining' # None)
    <3>1. CASE Closed
      BY <3>1 DEF Closed, TypeOK
    <3>2. CASE Join
      BY <3>2 DEF Join, TypeOK
    <3>3. QED BY <1>3, <3>1, <3>2
  <2>3. QED BY <1>1, <2>1, <2>2 DEF TypeOK
<1>4. CASE Stop
  BY <1>1, <1>4 DEF Stop, TypeOK
<1>5. CASE LockForShutdown
  BY <1>1, <1>5 DEF LockForShutdown, TypeOK
<1>6. CASE Unlock
  BY <1>1, <1>6 DEF Unlock, TypeOK
<1>7. CASE Return
  BY <1>1, <1>7 DEF Return, TypeOK
<1>8. QED BY <1>2, <1>3, <1>4, <1>5, <1>6, <1>7 DEF StopStep, ShutdownStep

\* ... and those of a loop.
LEMMA TypesLoop ==
    ASSUME TypeOK, NEW i \in Ids, LoopStep(i) \/ Hold(i)
    PROVE  TypeOK'
<1>1. overlapped' \in BOOLEAN /\ unread' \in BOOLEAN /\ late' \in BOOLEAN
  BY DEF LoopStep, Top, Leave, Hold, Loop, flags, TypeOK
<1>2. loops[i] # Ended
  BY DEF LoopStep, Top, Leave, Hold, Ended
<1>3. loops' \in [Ids -> Loops]
  <2>1. /\ Ended \in Loops /\ [loops[i] EXCEPT !.state = "works"] \in Loops
        /\ [loops[i] EXCEPT !.state = "held"] \in Loops
    BY <1>2, LoopTypes DEF Loops
  <2>2. \E loop \in Loops : loops' = [loops EXCEPT ![i] = loop]
    <3>1. CASE Top(i) \/ Leave(i)
      BY <2>1, <3>1 DEF Top, Leave, Loop
    <3>2. CASE Hold(i)
      BY <2>1, <3>2 DEF Hold, Loop
    <3>3. QED BY <3>1, <3>2 DEF LoopStep
  <2>3. loops \in [Ids -> Loops]
    BY DEF TypeOK, Loops
  <2>4. QED BY <2>2, <2>3
<1>4. QED BY <1>1, <1>3 DEF LoopStep, Top, Leave, Hold, Loop, locking, TypeOK, Loops

\* So every step does.
LEMMA TypesStep == TypeOK /\ LockInv /\ NumberInv /\ [Next]_vars => TypeOK'
<1> SUFFICES ASSUME TypeOK, LockInv, NumberInv, [Next]_vars PROVE TypeOK'
  OBVIOUS
<1>1. CASE UNCHANGED vars
  BY <1>1 DEF vars, TypeOK
<1>2. QED BY <1>1, TypesCommand, TypesStop, TypesLoop DEF Next
-----------------------------------------------------------------------------
(* Numbers in use.                                                         *)

\* A command that starts its loops takes at most one number for each target and is
\* finished with it; every other step leaves fewer numbers or as many in use.
LEMMA NumberStep == TypeOK /\ LockInv /\ NumberInv /\ [Next]_vars => NumberInv'
<1> SUFFICES ASSUME TypeOK, LockInv, NumberInv, [Next]_vars PROVE NumberInv'
  OBVIOUS
<1> DEFINE N == Cardinality(Names)
<1>1. N \in Nat /\ IsFiniteSet(Used) /\ Cardinality(Used) \in Nat
  <2>1. Used \in SUBSET Ids
    BY DEF Used
  <2>2. QED BY <2>1, ReloadAssumption, FS_Subset, FS_CardinalityType
<1>2. /\ IsFiniteSet(Finished') /\ Cardinality(Finished') \in Nat
      /\ IsFiniteSet(Finished) /\ Cardinality(Finished) \in Nat
  <2>1. Finished \in SUBSET Commands /\ Finished' \in SUBSET Commands
    BY DEF Finished
  <2>2. QED BY <2>1, ReloadAssumption, FS_Subset, FS_CardinalityType
<1>3. ASSUME Used' \subseteq Used, Finished \subseteq Finished' PROVE NumberInv'
  <2>1. Cardinality(Used') <= Cardinality(Used) /\ Cardinality(Used') \in Nat
    BY <1>1, <1>3, FS_Subset, FS_CardinalityType
  <2>2. Cardinality(Finished) <= Cardinality(Finished')
    BY <1>2, <1>3, FS_Subset
  <2>3. N * Cardinality(Finished) <= N * Cardinality(Finished')
    BY <1>1, <1>2, <2>2, Product
  <2>4. /\ N * Cardinality(Finished) \in Nat /\ N * Cardinality(Finished') \in Nat
    BY <1>1, <1>2
  <2>5. QED BY <1>1, <2>1, <2>3, <2>4 DEF NumberInv
<1>4. UNCHANGED <<sessions, loops>> => Used' = Used
  BY DEF Used
<1>5. ASSUME NEW c \in Commands, at[c] # "done", NEW place, Goto(c, place)
      PROVE  Finished \subseteq Finished'
  BY <1>5 DEF Finished, Goto, TypeOK
<1>6. ASSUME NEW c \in Commands, StartMissing(c) PROVE NumberInv'
  <2> DEFINE names == {n \in Listed(doc[c]) : sessions[n] = None}
             number == Numbers(names)
             taken == {number[n] : n \in names}
  <2>1. StartLoops(c, names) /\ names \in SUBSET Listed(doc[c]) /\ at[c] = "start" /\ Goto(c, "done")
    BY <1>6 DEF StartMissing
  <2>2. names \in SUBSET Names
    BY DEF Listed
  <2>3. number \in [names -> Free]
    BY <2>1, <2>2, FreshNumbers
  <2> HIDE DEF names, number
  <2>4. Used' \subseteq Used \cup taken
    <3> SUFFICES ASSUME NEW i \in Ids, i \in Used', i \notin taken PROVE i \in Used
      BY DEF Used
    <3>1. loops'[i] = loops[i]
      BY <2>1, NewLoops DEF number
    <3>2. \A n \in Names : sessions'[n] = i => sessions[n] = i
      BY <2>1, NewLoops DEF number
    <3>3. QED BY <3>1, <3>2 DEF Used
  <2>5. IsFiniteSet(names) /\ Cardinality(names) <= N /\ Cardinality(names) \in Nat
    BY <2>2, ReloadAssumption, FS_Subset, FS_CardinalityType
  <2>6. IsFiniteSet(taken) /\ Cardinality(taken) <= Cardinality(names)
    <3>1. number \in Surjection(names, taken)
      BY <2>3 DEF Surjection
    <3>2. QED BY <2>5, <3>1, FS_Surjection
  <2>7. Cardinality(Used') <= Cardinality(Used) + N /\ Cardinality(Used') \in Nat
    <3>1. /\ IsFiniteSet(Used \cup taken)
          /\ Cardinality(Used \cup taken) = Cardinality(Used) + Cardinality(taken)
                                            - Cardinality(Used \cap taken)
      BY <1>1, <2>6, FS_Union
    <3>2. Cardinality(Used \cap taken) \in Nat /\ Cardinality(taken) \in Nat
      BY <1>1, <2>6, FS_Intersection, FS_CardinalityType
    <3>3. IsFiniteSet(Used') /\ Cardinality(Used') <= Cardinality(Used \cup taken)
      BY <2>4, <3>1, FS_Subset
    <3>4. Cardinality(Used') \in Nat
      BY <3>3, FS_CardinalityType
    <3>5. QED BY <1>1, <2>5, <2>6, <3>1, <3>2, <3>3, <3>4
  <2>8. Cardinality(Finished') = Cardinality(Finished) + 1
    <3>1. Finished' = Finished \cup {c} /\ c \notin Finished
      BY <2>1 DEF Finished, Goto, TypeOK
    <3>2. QED BY <1>2, <3>1, FS_AddElement
  <2>9. /\ N * Cardinality(Finished) \in Nat
        /\ N * Cardinality(Finished') = N * Cardinality(Finished) + N
    <3>1. /\ N * Cardinality(Finished) \in Nat
          /\ N * (Cardinality(Finished) + 1) = N * Cardinality(Finished) + N
      BY <1>1, <1>2, Product
    <3>2. QED BY <2>8, <3>1
  <2>10. QED BY <1>1, <2>7, <2>9 DEF NumberInv
<1>7. ASSUME NEW c \in Commands, Forget(c) PROVE NumberInv'
  <2>1. Used' \subseteq Used
    BY <1>7, ReloadAssumption DEF Forget, Used
  <2>2. Finished \subseteq Finished'
    BY <1>7, <1>5 DEF Forget, TypeOK
  <2>3. QED BY <1>3, <2>1, <2>2
<1>8. ASSUME NEW c \in Commands,
             \/ LoadTargets(c) \/ Save(c) \/ NoDaemon(c) \/ Reload(c) \/ Lock(c)
             \/ SetTargets(c) \/ Snapshot(c)
      PROVE  NumberInv'
  <2>1. UNCHANGED <<sessions, loops>> /\ at[c] # "done" /\ \E place : Goto(c, place)
    BY <1>8 DEF LoadTargets, Save, NoDaemon, Reload, Lock, SetTargets, Snapshot
  <2>2. QED BY <1>3, <1>4, <1>5, <2>1
<1>9. CASE TellStop
  <2>1. UNCHANGED <<sessions, at>>
    BY <1>9 DEF TellStop
  <2>2. ASSUME NEW i \in Ids, loops'[i] # Ended PROVE loops[i] # Ended
    <3>1. PICK n \in left : loops' = IF loops[sessions[n]] = Ended THEN loops
                                      ELSE [loops EXCEPT ![sessions[n]].told = TRUE]
      BY <1>9 DEF TellStop
    <3>2. QED BY <2>2, <3>1 DEF TypeOK
  <2>3. QED BY <1>3, <2>1, <2>2 DEF Used, Finished
<1>10. CASE Closed \/ Join \/ Stop \/ ShutdownStep \/ UNCHANGED vars
  <2>1. UNCHANGED <<sessions, loops, at>>
    BY <1>10 DEF Closed, Join, Stop, ShutdownStep, LockForShutdown, Unlock, Return, vars
  <2>2. QED BY <1>3, <1>4, <2>1 DEF Finished
<1>11. ASSUME NEW i \in Ids, LoopStep(i) \/ Hold(i) PROVE NumberInv'
  <2>1. UNCHANGED <<sessions, at>> /\ loops[i] # Ended
    BY <1>11 DEF LoopStep, Top, Leave, Hold, Loop, Ended
  <2>2. \A j \in Ids : j # i => loops'[j] = loops[j]
    BY <1>11 DEF LoopStep, Top, Leave, Hold, Loop, TypeOK
  <2>3. QED BY <1>3, <2>1, <2>2 DEF Used, Finished
<1>12. QED BY <1>6, <1>7, <1>8, <1>9, <1>10, <1>11 DEF Next, ReloadStep, StopStep
-----------------------------------------------------------------------------
(* The lock, the sessions and the loops.                                   *)

CoreInv == LockInv /\ EveryLoopIsASession /\ HeldInv /\ WorksInv

\* A step that touches none of them, nor the daemon, keeps what is known of them.
LEMMA CoreFrame ==
    CoreInv /\ UNCHANGED <<holder, left, joining, sessions, loops, late, daemon>> => CoreInv'
BY DEF CoreInv, LockInv, EveryLoopIsASession, HeldInv, WorksInv

\* Who takes the lock has every session to stop.
LEMMA CoreLock ==
    ASSUME TypeOK, CoreInv, (\E c \in Commands : Lock(c)) \/ LockForShutdown
    PROVE  CoreInv'
<1> USE ReloadAssumption DEF CoreInv
<1>1. /\ holder = None /\ holder' # None /\ left' = {n \in Names : sessions[n] # None}
      /\ UNCHANGED <<sessions, loops, joining, daemon, late>>
      /\ holder' = "shutdown" => daemon = "stop"
  BY DEF Lock, LockForShutdown, flags
<1>2. LockInv'
  BY <1>1 DEF LockInv
<1>3. EveryLoopIsASession' /\ WorksInv'
  BY <1>1 DEF EveryLoopIsASession, WorksInv
<1>4. HeldInv'
  BY <1>1 DEF HeldInv
<1>5. QED BY <1>2, <1>3, <1>4

\* A session that is stopped is told so, and is the one to be joined.
LEMMA CoreTell ==
    ASSUME TypeOK, CoreInv, TellStop
    PROVE  CoreInv'
<1> USE ReloadAssumption DEF CoreInv
<1>1. PICK n \in left :
         /\ joining' = sessions[n] /\ left' = left \ {n}
         /\ loops' = IF loops[sessions[n]] = Ended THEN loops
                     ELSE [loops EXCEPT ![sessions[n]].told = TRUE]
  BY DEF TellStop
<1>2. /\ holder # None /\ joining = None
      /\ UNCHANGED <<sessions, holder, daemon, late>>
  BY DEF TellStop, flags
<1>3. n \in Names /\ sessions[n] \in Ids
  BY DEF TypeOK, LockInv
<1>4. /\ \A i \in Ids : i # sessions[n] => loops'[i] = loops[i]
      /\ loops'[sessions[n]] = IF loops[sessions[n]] = Ended THEN Ended
                               ELSE [loops[sessions[n]] EXCEPT !.told = TRUE]
  BY <1>1, <1>3, LoopTypes DEF TypeOK
<1>5. \A i \in Ids :
         /\ loops'[i].state = loops[i].state /\ loops'[i].name = loops[i].name
         /\ loops'[i] = Ended <=> loops[i] = Ended
         /\ loops[i].told => loops'[i].told
  <2>1. CASE loops[sessions[n]] = Ended
    BY <1>3, <1>4, <2>1
  <2>2. CASE loops[sessions[n]] # Ended
    <3> DEFINE l == loops[sessions[n]]
    <3>1. loops'[sessions[n]] = [l EXCEPT !.told = TRUE]
      BY <1>4, <2>2
    <3>2. /\ [l EXCEPT !.told = TRUE].state = l.state /\ [l EXCEPT !.told = TRUE].name = l.name
          /\ [l EXCEPT !.told = TRUE].told
      BY <1>3, <2>2, LoopTypes
    <3>3. l.state # "ended"
      BY <1>3, <2>2 DEF TypeOK
    <3>4. [l EXCEPT !.told = TRUE] # Ended
      BY <3>2, <3>3 DEF Ended
    <3>5. QED BY <1>4, <2>2, <3>1, <3>2, <3>4
  <2>3. QED BY <2>1, <2>2
<1>6. loops'[sessions[n]] = Ended \/ loops'[sessions[n]].told
  BY <1>3, <1>4, LoopTypes
<1>7. LockInv'
  BY <1>1, <1>2 DEF LockInv
<1>8. EveryLoopIsASession'
  BY <1>2, <1>5 DEF EveryLoopIsASession
<1>9. WorksInv'
  BY <1>2, <1>5 DEF WorksInv
<1>10. HeldInv'
  <2> SUFFICES ASSUME NEW m \in Names \ left', sessions[m] # None
               PROVE  /\ loops'[sessions[m]] = Ended \/ loops'[sessions[m]].told
                      /\ ~late => sessions[m] = joining' \/ loops'[sessions[m]] = Ended
    BY <1>2 DEF HeldInv
  <2>1. CASE m = n
    BY <1>1, <1>6, <2>1
  <2>2. CASE m # n
    <3>1. m \in Names \ left /\ sessions[m] \in Ids
      BY <1>1, <2>2 DEF TypeOK
    <3>2. loops[sessions[m]] = Ended \/ loops[sessions[m]].told
      BY <1>2, <3>1 DEF HeldInv
    <3>3. ~late => loops[sessions[m]] = Ended
      BY <1>2, <3>1 DEF HeldInv
    <3>4. QED BY <1>5, <3>1, <3>2, <3>3
  <2>3. QED BY <2>1, <2>2
<1>11. QED BY <1>7, <1>8, <1>9, <1>10

\* A join ends with the loop's end, or is given up.
LEMMA CoreJoin ==
    ASSUME TypeOK, CoreInv, Join
    PROVE  CoreInv'
<1> USE ReloadAssumption DEF CoreInv
<1>1. /\ joining' = None /\ joining # None
      /\ UNCHANGED <<sessions, loops, holder, left, daemon>>
      /\ ~late' => ~late /\ loops[joining] = Ended
  BY DEF Join
<1>2. LockInv' /\ EveryLoopIsASession' /\ WorksInv'
  BY <1>1 DEF LockInv, EveryLoopIsASession, WorksInv
<1>3. HeldInv'
  BY <1>1 DEF HeldInv
<1>4. QED BY <1>2, <1>3

\* A reload forgets sessions that were told to stop and have ended.
LEMMA CoreForget ==
    ASSUME TypeOK, CoreInv, NEW c \in Commands, Forget(c)
    PROVE  CoreInv'
<1> USE ReloadAssumption DEF CoreInv
<1>1. /\ holder # None /\ left = {} /\ joining = None /\ holder' = None
      /\ sessions' = [n \in Names |-> None]
      /\ UNCHANGED <<loops, left, joining, daemon, late>>
  BY DEF Forget, flags
<1>2. LockInv' /\ HeldInv'
  BY <1>1 DEF LockInv, HeldInv
<1>3. ASSUME NEW i \in Ids, loops[i] # Ended
      PROVE  loops[i].name \in Names /\ loops[i].state \in {"top", "works", "held"}
  BY <1>3 DEF TypeOK
<1>4. EveryLoopIsASession'
  <2>1. ASSUME NEW i \in Ids, loops[i] # Ended PROVE loops[i].told
    <3>1. loops[i].told \/ sessions[loops[i].name] = i
      BY <2>1 DEF EveryLoopIsASession
    <3>2. sessions[loops[i].name] = i => loops[i].told
      BY <1>1, <1>3, <2>1 DEF HeldInv
    <3>3. QED BY <3>1, <3>2
  <2>2. QED BY <1>1, <2>1 DEF EveryLoopIsASession
<1>5. WorksInv'
  <2>1. ASSUME ~late, NEW i \in Ids PROVE loops[i].state \notin {"works", "held"}
    <3>1. SUFFICES ASSUME loops[i].state \in {"works", "held"} PROVE FALSE
      OBVIOUS
    <3>2. loops[i] # Ended /\ sessions[loops[i].name] = i
      BY <2>1, <3>1 DEF WorksInv, Ended
    <3>3. loops[i].name \in Names
      BY <1>3, <3>2
    <3>4. QED BY <1>1, <2>1, <3>2, <3>3 DEF HeldInv
  <2>2. QED BY <1>1, <2>1 DEF WorksInv
<1>6. QED BY <1>2, <1>4, <1>5

\* Loops are started for targets that have no session, under numbers of their own.
LEMMA CoreStart ==
    ASSUME TypeOK, NumberInv, CoreInv, NEW c \in Commands, StartMissing(c)
    PROVE  CoreInv'
<1> USE ReloadAssumption DEF CoreInv
<1> DEFINE names == {n \in Listed(doc[c]) : sessions[n] = None}
           number == Numbers(names)
<1>1. /\ holder = None /\ StartLoops(c, names) /\ at[c] # "done"
      /\ UNCHANGED <<holder, left, joining, daemon, late>>
  BY DEF StartMissing, locking, flags
<1>2. names \in SUBSET Listed(doc[c])
  OBVIOUS
<1>3. names \subseteq Names
  BY <1>2 DEF Listed
<1>4. \A n \in names : sessions[n] = None
  OBVIOUS
<1> HIDE DEF names
<1>5. /\ \A n \in Names : sessions'[n] = IF n \in names THEN number[n] ELSE sessions[n]
      /\ \A n \in names : number[n] \in Free /\
            loops'[number[n]] = [name |-> n, as |-> doc[c][n], state |-> "top", told |-> FALSE]
      /\ \A i \in Ids : (\A n \in names : number[n] # i) => loops'[i] = loops[i]
  BY <1>1, <1>2, NewLoops
<1> HIDE DEF number
<1>6. LockInv' /\ HeldInv'
  BY <1>1 DEF LockInv, HeldInv
<1>7. ASSUME NEW i \in Ids, NEW n \in names, number[n] = i
      PROVE  loops'[i].state = "top" /\ loops'[i].name = n /\ sessions'[n] = i
  <2>1. loops'[i] = [name |-> n, as |-> doc[c][n], state |-> "top", told |-> FALSE]
    BY <1>5, <1>7
  <2>2. sessions'[n] = i
    BY <1>3, <1>5, <1>7
  <2>3. QED BY <2>1, <2>2
<1>8. ASSUME NEW i \in Ids, \A n \in names : number[n] # i
      PROVE  /\ loops'[i] = loops[i]
             /\ \A n \in Names : sessions[n] = i => sessions'[n] = i
  BY <1>5, <1>4, <1>8
<1>9. \A i \in Ids : loops[i] # Ended => loops[i].name \in Names
  BY DEF TypeOK
<1>10. EveryLoopIsASession'
  BY <1>7, <1>8, <1>9 DEF EveryLoopIsASession
<1>11. WorksInv'
  <2> SUFFICES ASSUME ~late, NEW i \in Ids, loops'[i].state \in {"works", "held"}
               PROVE  sessions'[loops'[i].name] = i /\ daemon \in {"run", "stop"}
    BY <1>1 DEF WorksInv
  <2>1. \A n \in names : number[n] # i
    BY <1>7
  <2>2. loops'[i] = loops[i] /\ loops[i] # Ended
    BY <1>8, <2>1 DEF Ended
  <2>3. QED BY <1>8, <1>9, <2>1, <2>2 DEF WorksInv
<1>12. QED BY <1>6, <1>10, <1>11

\* The shutdown goes on when all loops have ended that dialed or served a link.
LEMMA CoreShutdown ==
    ASSUME TypeOK, CoreInv, Stop \/ Unlock \/ Return
    PROVE  CoreInv'
<1> USE ReloadAssumption DEF CoreInv, locking, flags
<1>1. UNCHANGED <<sessions, loops, late, left, joining>>
  BY DEF Stop, Unlock, Return
<1>2. EveryLoopIsASession'
  BY <1>1 DEF EveryLoopIsASession
<1>3. CASE Stop
  BY <1>1, <1>2, <1>3 DEF Stop, LockInv, HeldInv, WorksInv
<1>4. CASE Unlock
  <2>1. LockInv' /\ HeldInv'
    BY <1>1, <1>4 DEF Unlock, LockInv, HeldInv
  <2>2. ASSUME ~late, NEW i \in Ids PROVE loops[i].state \notin {"works", "held"}
    <3>1. SUFFICES ASSUME loops[i].state \in {"works", "held"} PROVE FALSE
      OBVIOUS
    <3>2. loops[i] # Ended /\ sessions[loops[i].name] = i
      BY <2>2, <3>1 DEF WorksInv, Ended
    <3>3. loops[i].name \in Names
      BY <3>2 DEF TypeOK
    <3>4. QED BY <1>4, <2>2, <3>2, <3>3 DEF Unlock, HeldInv
  <2>3. WorksInv'
    BY <1>1, <2>2 DEF WorksInv
  <2>4. QED BY <1>2, <2>1, <2>3
<1>5. CASE Return
  BY <1>1, <1>2, <1>5 DEF Return, LockInv, HeldInv, WorksInv
<1>6. QED BY <1>3, <1>4, <1>5

\* A loop that was told, or whose daemon stops, only ends, or is held up while it ends.
LEMMA CoreLoop ==
    ASSUME TypeOK, CoreInv, NEW i \in Ids, LoopStep(i) \/ Hold(i)
    PROVE  CoreInv'
<1> USE ReloadAssumption DEF CoreInv
<1>1. UNCHANGED <<sessions, holder, left, joining, daemon, late>>
  BY DEF LoopStep, Top, Leave, Hold, Loop, locking, flags
<1>2. loops[i] # Ended
  BY DEF LoopStep, Top, Leave, Hold, Ended
<1>3. \A j \in Ids : j # i => loops'[j] = loops[j]
  BY DEF LoopStep, Top, Leave, Hold, Loop, TypeOK
<1>4. \/ loops'[i] = Ended
      \/ ~Halted(i) /\ loops'[i] = [loops[i] EXCEPT !.state = "works"]
      \/ loops[i].state = "works" /\ loops'[i] = [loops[i] EXCEPT !.state = "held"]
  <2>1. CASE LoopStep(i) /\ Halted(i)
    BY <2>1 DEF LoopStep, Top, Leave, Loop, TypeOK
  <2>2. CASE LoopStep(i) /\ ~Halted(i)
    BY <2>2 DEF LoopStep, Top, Leave, Loop, TypeOK
  <2>3. CASE Hold(i)
    BY <2>3 DEF Hold, Loop, TypeOK
  <2>4. QED BY <2>1, <2>2, <2>3
<1>5. \/ loops'[i] = Ended
      \/ /\ loops'[i].name = loops[i].name /\ loops'[i].told = loops[i].told
         /\ \/ ~loops[i].told /\ daemon = "run"
            \/ loops[i].state = "works"
  <2>1. /\ [loops[i] EXCEPT !.state = "works"].name = loops[i].name
        /\ [loops[i] EXCEPT !.state = "works"].told = loops[i].told
        /\ [loops[i] EXCEPT !.state = "held"].name = loops[i].name
        /\ [loops[i] EXCEPT !.state = "held"].told = loops[i].told
    BY <1>2, LoopTypes
  <2>2. QED BY <1>4, <2>1 DEF Halted
<1>6. LockInv'
  BY <1>1 DEF LockInv
<1>7. EveryLoopIsASession'
  BY <1>1, <1>2, <1>3, <1>5 DEF EveryLoopIsASession
<1>8. HeldInv'
  <2> SUFFICES ASSUME holder # None, NEW n \in Names \ left, sessions[n] # None
               PROVE  /\ loops'[sessions[n]] = Ended \/ loops'[sessions[n]].told
                      /\ ~late => sessions[n] = joining \/ loops'[sessions[n]] = Ended
    BY <1>1 DEF HeldInv
  <2>1. /\ loops[sessions[n]] = Ended \/ loops[sessions[n]].told
        /\ ~late => sessions[n] = joining \/ loops[sessions[n]] = Ended
    BY DEF HeldInv
  <2>2. CASE sessions[n] = i
    BY <1>2, <1>5, <2>1, <2>2
  <2>3. CASE sessions[n] # i
    BY <1>3, <2>1, <2>3 DEF TypeOK
  <2>4. QED BY <2>2, <2>3
<1>9. WorksInv'
  <2> SUFFICES ASSUME ~late, NEW j \in Ids, loops'[j].state \in {"works", "held"}
               PROVE  sessions[loops'[j].name] = j /\ daemon \in {"run", "stop"}
    BY <1>1 DEF WorksInv
  <2>1. CASE j = i /\ loops[i].state = "works"
    BY <1>2, <1>5, <2>1 DEF WorksInv, Ended
  <2>2. CASE j = i /\ loops[i].state # "works"
    BY <1>2, <1>5, <2>2 DEF EveryLoopIsASession, Ended
  <2>3. CASE j # i
    BY <1>3, <2>3 DEF WorksInv
  <2>4. QED BY <2>1, <2>2, <2>3
<1>10. QED BY <1>6, <1>7, <1>8, <1>9

\* So every step keeps what is known of lock, sessions and loops.
LEMMA CoreStep == TypeOK /\ NumberInv /\ CoreInv /\ [Next]_vars => CoreInv'
<1> SUFFICES ASSUME TypeOK, NumberInv, CoreInv, [Next]_vars PROVE CoreInv'
  OBVIOUS
<1>1. ASSUME NEW c \in Commands,
             \/ LoadTargets(c) \/ Save(c) \/ NoDaemon(c) \/ Reload(c) \/ SetTargets(c)
             \/ Snapshot(c)
      PROVE  CoreInv'
  BY <1>1, CoreFrame
     DEF LoadTargets, Save, NoDaemon, Reload, SetTargets, Snapshot, locking, flags
<1>2. CASE Closed \/ UNCHANGED vars
  BY <1>2, CoreFrame DEF Closed, vars, flags
<1>3. QED BY <1>1, <1>2, CoreLock, CoreTell, CoreJoin, CoreForget, CoreStart, CoreShutdown,
             CoreLoop
          DEF Next, ReloadStep, StopStep, ShutdownStep
-----------------------------------------------------------------------------
(* One command after the other.                                            *)

\* When only one command is under way, what is known of it is all there is to know.
LEMMA OneUnderway ==
    ASSUME NEW c \in Commands,
           \A d \in Commands \ {c} : at'[d] \in {"ready", "done"},
           at'[c] \in {"edit", "lock", "stop", "set", "start"} => doc'[c] = file',
           at'[c] = "snapshot" => targets' = file',
           at'[c] \in {"set", "snapshot", "start"} => \A n \in Names : sessions'[n] = None,
           ~unread' /\ daemon' = "run" /\ at'[c] \in {"ready", "edit", "done"} => Follows(file)'
    PROVE  SerialInv'
<1>1. \A d, e \in Commands : Underway(d)' /\ Underway(e)' => d = e
  BY DEF Underway
<1>2. \A d \in Commands :
         /\ at'[d] \in {"edit", "lock", "stop", "set", "start"} => doc'[d] = file'
         /\ at'[d] = "snapshot" => targets' = file'
         /\ at'[d] \in {"set", "snapshot", "start"} => \A n \in Names : sessions'[n] = None
  <2> SUFFICES ASSUME NEW d \in Commands, at'[d] \notin {"ready", "done"} PROVE d = c
    OBVIOUS
  <2>1. QED OBVIOUS
<1>3. ~unread' /\ daemon' = "run" /\ (\A d \in Commands : at'[d] \in {"ready", "edit", "done"})
      => Follows(file)'
  OBVIOUS
<1>4. QED BY <1>1, <1>2, <1>3 DEF SerialInv

\* A command that is under way is alone, and remains alone.
LEMMA Alone ==
    ASSUME TypeOK, SerialInv, ~overlapped, NEW c \in Commands, Underway(c),
           NEW place, Goto(c, place)
    PROVE  /\ at'[c] = place
           /\ \A d \in Commands \ {c} : at[d] \in {"ready", "done"} /\ at'[d] = at[d]
BY DEF TypeOK, SerialInv, Underway, Goto

\* What is followed before a step that changes no session and no loop is followed after it.
LEMMA FollowsFrame ==
    ASSUME Follows(file), UNCHANGED <<sessions, loops, file>>
    PROVE  Follows(file)'
BY DEF Follows

\* Sessions that are started when there are none follow the document.
LEMMA FollowsStart ==
    ASSUME TypeOK, NumberInv, NEW c \in Commands, StartMissing(c), doc[c] = file,
           \A n \in Names : sessions[n] = None
    PROVE  Follows(file)'
<1> USE ReloadAssumption
<1> DEFINE names == {n \in Listed(doc[c]) : sessions[n] = None}
           number == Numbers(names)
<1>1. StartLoops(c, names) /\ at[c] # "done" /\ file' = file
  BY DEF StartMissing
<1>2. names \in SUBSET Listed(doc[c])
  OBVIOUS
<1>3. \A n \in Names : n \in names <=> file[n] # None
  BY DEF Listed
<1> HIDE DEF names
<1>4. /\ \A n \in Names : sessions'[n] = IF n \in names THEN number[n] ELSE sessions[n]
      /\ \A n \in names : number[n] \in Free /\
            loops'[number[n]] = [name |-> n, as |-> doc[c][n], state |-> "top", told |-> FALSE]
  BY <1>1, <1>2, NewLoops
<1> HIDE DEF number
<1>5. ASSUME NEW n \in Names, file[n] # None
      PROVE  sessions'[n] # None /\ loops'[sessions'[n]].as = file[n] /\ ~loops'[sessions'[n]].told
  <2>1. n \in names /\ sessions'[n] = number[n] /\ number[n] \in Ids
    BY <1>3, <1>4, <1>5 DEF Free
  <2>2. loops'[sessions'[n]] = [name |-> n, as |-> file[n], state |-> "top", told |-> FALSE]
    BY <1>4, <2>1
  <2>3. QED BY <2>1, <2>2
<1>6. ASSUME NEW n \in Names, file[n] = None PROVE sessions'[n] = None
  BY <1>3, <1>4, <1>6
<1>7. QED BY <1>1, <1>5, <1>6 DEF Follows

\* A loop that nobody told to stop goes on as what it was started as.
LEMMA FollowsLoop ==
    ASSUME TypeOK, NEW i \in Ids, LoopStep(i) \/ Hold(i), daemon = "run", Follows(file)
    PROVE  Follows(file)'
<1>1. UNCHANGED <<sessions, file>>
  BY DEF LoopStep, Top, Leave, Hold, Loop
<1>2. \A j \in Ids : j # i => loops'[j] = loops[j]
  BY DEF LoopStep, Top, Leave, Hold, Loop, TypeOK
<1>3. ASSUME ~loops[i].told
      PROVE  loops'[i].as = loops[i].as /\ loops'[i].told = loops[i].told
  <2>1. Halted(i) = FALSE
    BY <1>3 DEF Halted
  <2>2. loops' = [loops EXCEPT ![i] = [loops[i] EXCEPT !.state = "works"]]
    BY <2>1 DEF LoopStep, Top, Leave, Hold, Loop
  <2>3. loops[i] # Ended
    BY DEF LoopStep, Top, Leave, Hold, Ended
  <2>4. loops'[i] = [loops[i] EXCEPT !.state = "works"]
    BY <2>2 DEF TypeOK
  <2>5. QED BY <2>3, <2>4, LoopTypes
<1>4. ASSUME NEW n \in Names, file[n] # None
      PROVE  sessions[n] # None /\ loops'[sessions[n]].as = file[n] /\ ~loops'[sessions[n]].told
  <2>1. /\ sessions[n] \in Ids /\ sessions[n] # None
        /\ loops[sessions[n]].as = file[n] /\ ~loops[sessions[n]].told
    BY <1>4 DEF TypeOK, Follows
  <2>2. CASE sessions[n] = i
    BY <1>3, <2>1, <2>2
  <2>3. CASE sessions[n] # i
    BY <1>2, <2>1, <2>3
  <2>4. QED BY <2>2, <2>3
<1>5. QED BY <1>1, <1>4 DEF Follows

\* The first command to be under way is the only one, or they are not one after the
\* other any more.
LEMMA SerialLoad ==
    ASSUME TypeOK, SerialInv, NEW c \in Commands, LoadTargets(c)
    PROVE  SerialInv'
<1> SUFFICES ASSUME ~overlapped' PROVE SerialInv'
  BY DEF SerialInv
<1>1. /\ ~overlapped /\ at[c] = "ready"
      /\ \A d \in Commands \ {c} : ~Underway(d)
      /\ UNCHANGED <<file, targets, sessions, loops, daemon, unread>>
  BY DEF LoadTargets
<1>2. \A d \in Commands \ {c} : at[d] \in {"ready", "done"} /\ at'[d] = at[d]
  BY <1>1 DEF Underway, LoadTargets, Goto, TypeOK
<1>3. at'[c] = "call" \/ (at'[c] = "edit" /\ doc'[c] = file)
  BY DEF LoadTargets, Goto, TypeOK
<1>4. ~unread /\ daemon = "run" => Follows(file)
  BY <1>1, <1>2 DEF SerialInv
<1>5. ~unread' /\ daemon' = "run" => Follows(file)'
  BY <1>1, <1>4, FollowsFrame
<1>6. QED BY <1>1, <1>2, <1>3, <1>5, OneUnderway

\* An edit that is not carried out, or gives another target the default, leaves the
\* sessions right; any other is followed by a reload.
LEMMA SerialSave ==
    ASSUME TypeOK, SerialInv, NEW c \in Commands, Save(c)
    PROVE  SerialInv'
<1> SUFFICES ASSUME ~overlapped' PROVE SerialInv'
  BY DEF SerialInv
<1>1. ~overlapped /\ at[c] = "edit" /\ UNCHANGED <<sessions, loops, daemon, unread>>
  BY DEF Save, flags
<1>2. PICK place \in {"call", "done"} : Goto(c, place)
  BY Zenon DEF Save
<1>3. /\ at'[c] = place
      /\ \A d \in Commands \ {c} : at[d] \in {"ready", "done"} /\ at'[d] = at[d]
  BY <1>1, <1>2, Alone DEF Underway
<1>4. doc[c] = file /\ (~unread /\ daemon = "run" => Follows(file))
  BY <1>1, <1>3 DEF SerialInv
<1>5. at'[c] = "done" => file' = file
  <2>1. Goto(c, "call") \/ file' \in {file, doc[c]}
    BY Zenon DEF Save
  <2>2. Goto(c, "call") => at'[c] = "call"
    BY DEF Goto, TypeOK
  <2>3. QED BY <1>4, <2>1, <2>2
<1>6. ~unread' /\ daemon' = "run" /\ at'[c] = "done" => Follows(file)'
  BY <1>1, <1>4, <1>5, FollowsFrame
<1>7. QED BY <1>2, <1>3, <1>6, OneUnderway

\* A reload hands the file on, from hand to hand, to the loops it starts.
LEMMA SerialReload ==
    ASSUME TypeOK, NumberInv, SerialInv, NEW c \in Commands, ReloadStep(c)
    PROVE  SerialInv'
<1> SUFFICES ASSUME ~overlapped' PROVE SerialInv'
  BY DEF SerialInv
<1>1. ~overlapped /\ Underway(c) /\ daemon' = daemon
  <2>1. overlapped' = overlapped /\ daemon' = daemon
    BY DEF ReloadStep, Reload, NoDaemon, Lock, Forget, SetTargets, Snapshot, StartMissing, flags
  <2>2. at[c] \in {"call", "lock", "stop", "set", "snapshot", "start"}
    BY DEF ReloadStep, Reload, NoDaemon, Lock, Forget, SetTargets, Snapshot, StartMissing, TypeOK
  <2>3. QED BY <2>1, <2>2 DEF Underway
<1>2. PICK place : Goto(c, place)
  BY DEF ReloadStep, Reload, NoDaemon, Lock, Forget, SetTargets, Snapshot, StartMissing
<1>3. \A d \in Commands \ {c} : at[d] \in {"ready", "done"} /\ at'[d] = at[d]
  BY <1>1, <1>2, Alone
<1>4. /\ at[c] \in {"edit", "lock", "stop", "set", "start"} => doc[c] = file
      /\ at[c] = "snapshot" => targets = file
      /\ at[c] \in {"set", "snapshot", "start"} => \A n \in Names : sessions[n] = None
  BY <1>1 DEF SerialInv
<1>5. CASE Reload(c)
  <2>1. \/ at'[c] = "lock" /\ doc'[c] = file'
        \/ at'[c] = "done" /\ unread'
    BY <1>5 DEF Reload, Goto, TypeOK
  <2>2. QED BY <1>3, <2>1, OneUnderway
<1>6. CASE NoDaemon(c)
  <2>1. at'[c] = "done" /\ daemon' = "returned"
    BY <1>6 DEF NoDaemon, Goto, TypeOK
  <2>2. QED BY <1>3, <2>1, OneUnderway
<1>7. CASE Lock(c)
  <2>1. at'[c] = "stop" /\ doc'[c] = file'
    BY <1>4, <1>7 DEF Lock, Goto, TypeOK
  <2>2. QED BY <1>3, <2>1, OneUnderway
<1>8. CASE Forget(c)
  <2>1. at[c] = "stop"
    BY <1>8 DEF Forget, TypeOK
  <2>2. at'[c] = "set" /\ doc'[c] = file' /\ \A n \in Names : sessions'[n] = None
    BY <1>4, <1>8, <2>1 DEF Forget, Goto, TypeOK
  <2>3. QED BY <1>3, <2>2, OneUnderway
<1>9. CASE SetTargets(c)
  <2>1. at'[c] = "snapshot" /\ targets' = file' /\ \A n \in Names : sessions'[n] = None
    BY <1>4, <1>9 DEF SetTargets, Goto, TypeOK
  <2>2. QED BY <1>3, <2>1, OneUnderway
<1>10. CASE Snapshot(c)
  <2>1. at'[c] = "start" /\ doc'[c] = file' /\ \A n \in Names : sessions'[n] = None
    BY <1>4, <1>10 DEF Snapshot, Goto, TypeOK
  <2>2. QED BY <1>3, <2>1, OneUnderway
<1>11. CASE StartMissing(c)
  <2>1. at'[c] = "done" /\ at[c] = "start"
    BY <1>11 DEF StartMissing, Goto, TypeOK
  <2>2. Follows(file)'
    BY <1>4, <1>11, <2>1, FollowsStart
  <2>3. QED BY <1>3, <2>1, <2>2, OneUnderway
<1>12. QED BY <1>5, <1>6, <1>7, <1>8, <1>9, <1>10, <1>11 DEF ReloadStep

\* What the daemon does of itself changes nothing of that: who stops loops is a
\* reload or a shutdown.
LEMMA SerialDaemon ==
    ASSUME TypeOK, LockInv, SerialInv,
           \/ StopStep \/ Stop \/ ShutdownStep \/ UNCHANGED vars
           \/ \E i \in Ids : LoopStep(i) \/ Hold(i)
    PROVE  SerialInv'
<1> SUFFICES ASSUME ~overlapped' PROVE SerialInv'
  BY DEF SerialInv
<1>1. UNCHANGED <<file, targets, sessions, at, doc, overlapped, unread>>
  BY DEF StopStep, TellStop, Closed, Join, Stop, ShutdownStep, LockForShutdown, Unlock, Return,
         vars, LoopStep, Top, Leave, Hold, Loop, flags
<1>2. daemon' = "run" => daemon = "run"
  BY DEF StopStep, TellStop, Closed, Join, Stop, ShutdownStep, LockForShutdown, Unlock, Return,
         vars, LoopStep, Top, Leave, Hold, Loop
<1>3. ASSUME ~unread, daemon = "run", \A c \in Commands : at[c] \in {"ready", "edit", "done"}
      PROVE  Follows(file)'
  <2>1. Follows(file)
    BY <1>1, <1>3 DEF SerialInv
  <2>2. CASE \E i \in Ids : LoopStep(i) \/ Hold(i)
    BY <1>3, <2>1, <2>2, FollowsLoop
  <2>3. CASE TellStop
    <3>1. holder \in Commands \/ holder = "shutdown"
      BY <2>3 DEF TellStop, TypeOK
    <3>2. holder \in Commands => at[holder] = "stop"
      BY DEF TypeOK
    <3>3. QED BY <1>3, <3>1, <3>2 DEF LockInv
  <2>4. CASE Closed \/ Join \/ Stop \/ ShutdownStep \/ UNCHANGED vars
    <3>1. UNCHANGED <<sessions, loops, file>>
      BY <2>4 DEF Closed, Join, Stop, ShutdownStep, LockForShutdown, Unlock, Return, vars
    <3>2. QED BY <2>1, <3>1, FollowsFrame
  <2>5. QED BY <2>2, <2>3, <2>4 DEF StopStep
<1>4. \A c \in Commands : Underway(c)' <=> Underway(c)
  BY <1>1 DEF Underway
<1>5. QED BY <1>1, <1>2, <1>3, <1>4 DEF SerialInv

\* So every step keeps what is known of commands that run one after the other.
LEMMA SerialStep == TypeOK /\ LockInv /\ NumberInv /\ SerialInv /\ [Next]_vars => SerialInv'
BY SerialLoad, SerialSave, SerialReload, SerialDaemon DEF Next
-----------------------------------------------------------------------------
(* The theorems.                                                           *)

\* The invariant holds of the initial state, where Run has still to start the loops of
\* the file's targets.
LEMMA InvInit == Init => IInv
<1> SUFFICES ASSUME Init PROVE IInv
  OBVIOUS
<1> USE ReloadAssumption
<1>1. /\ file \in Documents /\ targets = file /\ NoDocument \in Documents
      /\ \A n \in Names : sessions[n] = None
      /\ \A i \in Ids : loops[i] = Ended
      /\ holder = None /\ left = {} /\ joining = None /\ closing = FALSE
      /\ at = [c \in Commands |-> IF c = Run THEN "snapshot" ELSE "ready"]
      /\ doc = [c \in Commands |-> NoDocument]
      /\ daemon = "run" /\ overlapped = FALSE /\ unread = FALSE /\ late = FALSE
  BY DEF Init, Documents, NoDocument
<1>2. TypeOK
  <2>1. sessions \in [Names -> Ids \cup {None}] /\ loops \in [Ids -> Loops]
    BY DEF Init, Loops
  <2>2. at \in [Commands -> Places] /\ \A c \in Commands : at[c] = "stop" <=> holder = c
    BY <1>1 DEF Places
  <2>3. doc \in [Commands -> Documents]
    BY <1>1
  <2>4. QED BY <1>1, <2>1, <2>2, <2>3 DEF TypeOK, Loops
<1>3. LockInv /\ HeldInv
  BY <1>1 DEF LockInv, HeldInv
<1>4. EveryLoopIsASession /\ WorksInv
  <2>1. \A i \in Ids : loops[i].state = "ended"
    BY <1>1 DEF Ended
  <2>2. QED BY <1>1, <2>1 DEF EveryLoopIsASession, WorksInv
<1>5. SerialInv
  <2>1. \A c \in Commands : IF c = Run THEN at[c] = "snapshot" ELSE at[c] = "ready"
    BY <1>1
  <2>2. QED BY <1>1, <2>1 DEF SerialInv, Underway
<1>6. NumberInv
  <2>1. Used = {} /\ Finished = {}
    BY <1>1 DEF Used, Finished
  <2>2. Cardinality(Used) = 0 /\ Cardinality(Finished) = 0
    BY <2>1, FS_EmptySet
  <2>3. Cardinality(Names) \in Nat
    BY FS_CardinalityType
  <2>4. QED BY <2>2, <2>3 DEF NumberInv
<1>7. QED BY <1>2, <1>3, <1>4, <1>5, <1>6 DEF IInv

\* Every step keeps it.
LEMMA InvStep == IInv /\ [Next]_vars => IInv'
BY TypesStep, NumberStep, CoreStep, SerialStep DEF IInv, CoreInv

\* It holds of every state of every run.
LEMMA InvHolds == Spec => []IInv
BY InvInit, InvStep, PTL DEF Spec

\* Every variable keeps its range, and a command waits for the ends of loops exactly
\* as long as it has the lock (handlers.go:158-160).
THEOREM ReloadTypes == Spec => []TypeOK
BY InvHolds, PTL DEF IInv

\* However reloads and a shutdown overlap, no target has two loops and no loop is out
\* of reach of the next reload or shutdown (handlers.go:158-168, daemon.go:293-297).
THEOREM EveryLoopIsReached == Spec => []EveryLoopIsASession
BY InvHolds, PTL DEF IInv

\* When commands ran one after the other, and the last reload could read the file, the
\* daemon afterwards runs exactly the targets of the file, each by the definition that
\* the file has (handlers.go:153-169).
THEOREM SessionsAreTheFile == Spec => []SessionsFollowTheFile
<1>1. SerialInv => SessionsFollowTheFile
  <2> SUFFICES ASSUME SerialInv, ~overlapped, ~unread, daemon = "run",
                      \A c \in Commands : ~Underway(c)
               PROVE  \A n \in Names :
                         IF n \in Listed(file)
                         THEN /\ sessions[n] # None /\ loops[sessions[n]].as = file[n]
                              /\ ~loops[sessions[n]].told
                         ELSE sessions[n] = None
    BY DEF SessionsFollowTheFile
  <2>1. Follows(file)
    BY DEF SerialInv, Underway
  <2>2. QED BY <2>1 DEF Follows, Listed
<1>2. QED BY <1>1, InvHolds, PTL DEF IInv

\* In a run in which no join timed out, no loop dials, serves or closes a link once Run
\* has returned, whatever reload was under way meanwhile (daemon.go:547-550).
THEOREM NothingRunsOn == Spec => []NothingRunsAfterReturn
<1>1. TypeOK /\ WorksInv => NothingRunsAfterReturn
  <2> SUFFICES ASSUME TypeOK, WorksInv, daemon = "returned", ~late, NEW i \in Ids
               PROVE  loops[i].state \in {"ended", "top"}
    BY DEF NothingRunsAfterReturn
  <2>1. loops[i].state \notin {"works", "held"}
    BY DEF WorksInv
  <2>2. loops[i] = Ended \/ loops[i].state \in {"top", "works", "held"}
    BY DEF TypeOK
  <2>3. QED BY <2>1, <2>2 DEF Ended
<1>2. QED BY <1>1, InvHolds, PTL DEF IInv
=============================================================================
