------------------------- MODULE WriteLedgerProofs -------------------------
(***************************************************************************)
(* Theorems about WriteLedger for any number of calls, ids, connections,   *)
(* runs, credentials and restarts.                                         *)
(***************************************************************************)
EXTENDS WriteLedger, FiniteSetTheorems, TLAPS

USE DEF ledger, calls, link, recon, server, frames, Outcomes, Requests, Unlocked

LedgerTypes ==
    /\ mem \in [Ids -> Entry \cup {None}] /\ disk \in [Ids -> Entry \cup {None}]
    /\ saving \subseteq Changes

\* What an operation changes one entry to, and the two ends of its save, keep
\* the ledger and its file well typed.
LEMMA ChangeTypes ==
    ASSUME TypeOK, NEW id \in Ids, NEW entry \in Entry \cup {None}, Change(id, entry)
    PROVE  LedgerTypes'
BY DEF Change, LedgerTypes, TypeOK, Changes

LEMMA UpdateTypes ==
    ASSUME TypeOK, NEW id \in Ids,
           \/ NoEntry(id) \/ Resolve(id)
           \/ HasEntry(id) /\ (NoteUnknown(id) \/ MarkUnresolved(id))
    PROVE  LedgerTypes'
<1>1. CASE NoEntry(id)
  BY <1>1 DEF NoEntry, LedgerTypes, TypeOK
<1>2. CASE Resolve(id)
  BY <1>2, ChangeTypes DEF Resolve
<1>3. CASE HasEntry(id) /\ (NoteUnknown(id) \/ MarkUnresolved(id))
  <2>1. mem[id] \in Entry
    BY <1>3 DEF HasEntry, TypeOK
  <2>2. \A s \in {"unknown", "unresolved"} : [mem[id] EXCEPT !.state = s] \in Entry
    BY <2>1 DEF Entry
  <2>3. QED BY <1>3, <2>2, ChangeTypes DEF NoteUnknown, MarkUnresolved
<1>4. QED BY <1>1, <1>2, <1>3

LEMMA SaveTypes ==
    ASSUME TypeOK, Saved \/ RolledBack
    PROVE  LedgerTypes'
BY DEF Saved, RolledBack, LedgerTypes, TypeOK, Changes

-----------------------------------------------------------------------------
BaseInv == TypeOK /\ LinkInv

\* Initially every variable is in its range and no connection exists.
LEMMA BaseInit == Init => BaseInv
<1> SUFFICES ASSUME Init PROVE BaseInv
  OBVIOUS
<1>1. 1 \in Runs /\ 1 \in Creds /\ 0 \in 0..MaxConn /\ 0 \in 0..MaxCrash
  BY LedgerAssumption DEF Runs, Creds
<1>2. TypeOK
  BY <1>1 DEF Init, TypeOK, Pcs, Loops, Replies
<1>3. LinkInv
  BY LedgerAssumption DEF Init, LinkInv, Conns
<1>4. QED BY <1>2, <1>3 DEF BaseInv

\* A call that has picked up an adapter names the run of a connection.
LEMMA RoutedRun ==
    ASSUME BaseInv, NEW c \in Calls, pc[c] # "idle"
    PROVE  connRun[via[c]] \in Runs
<1>1. via[c] \in 0..MaxConn /\ via[c] > 0
  BY DEF BaseInv, TypeOK, LinkInv
<1>2. via[c] \in Conns
  BY <1>1, LedgerAssumption DEF Conns
<1>3. QED BY <1>2 DEF BaseInv, TypeOK

\* The steps of callWithID keep the types and the facts about connections.
LEMMA BaseCall ==
    ASSUME BaseInv, NEW c \in Calls, CallStep(c)
    PROVE  BaseInv'
<1> USE LedgerAssumption DEF Pcs, BaseInv
<1>1. CASE Route(c)
  BY <1>1 DEF Route, TypeOK, LinkInv, Conns
<1>2. CASE Refused(c)
  BY <1>2 DEF Refused, TypeOK, LinkInv
<1>3. CASE Admit(c)
  <2>1. connRun[via[c]] \in Runs
    BY <1>3, RoutedRun DEF Admit
  <2>2. [state |-> "unknown", run |-> connRun[via[c]], cred |-> cred] \in Entry
    BY <2>1 DEF TypeOK, Entry
  <2>3. LedgerTypes'
    BY <1>3, <2>2, ChangeTypes DEF Admit
  <2>4. TypeOK'
    BY <1>3, <2>3 DEF Admit, LedgerTypes, TypeOK
  <2>5. LinkInv'
    BY <1>3 DEF Admit, TypeOK, LinkInv
  <2>6. QED BY <2>4, <2>5
<1>4. CASE Send(c)
  BY <1>4 DEF Send, TypeOK, LinkInv
<1>5. CASE NeverSent(c)
  BY <1>5 DEF NeverSent, TypeOK, LinkInv
<1>6. CASE GiveUp(c)
  BY <1>6 DEF GiveUp, TypeOK, LinkInv
<1>7. CASE Answered(c)
  BY <1>7 DEF Answered, TypeOK, LinkInv
<1>8. CASE Settle(c)
  <2>1. LedgerTypes'
    BY <1>8, UpdateTypes DEF Settle
  <2>2. QED BY <1>8, <2>1 DEF Settle, LedgerTypes, TypeOK, LinkInv
<1>9. CASE Admitted(c) \/ Settled(c)
  <2>1. LedgerTypes'
    BY <1>9, SaveTypes DEF Admitted, Settled
  <2>2. TypeOK'
    BY <1>9, <2>1 DEF Admitted, Settled, LedgerTypes, TypeOK
  <2>3. LinkInv'
    BY <1>9 DEF Admitted, Settled, TypeOK, LinkInv
  <2>4. QED BY <2>2, <2>3
<1>10. QED BY <1>1, <1>2, <1>3, <1>4, <1>5, <1>6, <1>7, <1>8, <1>9 DEF CallStep

\* So do the steps of the server ...
LEMMA BaseServer ==
    ASSUME BaseInv, NEW c \in Calls, ServerStep(c)
    PROVE  BaseInv'
<1> USE LedgerAssumption DEF BaseInv, Answering, Replies
<1>1. CASE Receive(c)
  BY <1>1 DEF Receive, TypeOK, LinkInv
<1>2. CASE Execute(c)
  BY <1>2 DEF Execute, TypeOK, LinkInv
<1>3. CASE Fail(c)
  BY <1>3 DEF Fail, TypeOK, LinkInv
<1>4. CASE Drop(c)
  BY <1>4 DEF Drop, TypeOK, LinkInv
<1>5. QED BY <1>1, <1>2, <1>3, <1>4 DEF ServerStep

\* ... those of the session loop and of reconcileUnknown ...
LEMMA BaseLoop ==
    ASSUME BaseInv, LoopStep
    PROVE  BaseInv'
<1> USE LedgerAssumption DEF BaseInv, Loops
<1>1. CASE Connect
  BY <1>1 DEF Connect, TypeOK, LinkInv, Conns, Runs
<1>2. CASE StartReconcile
  <2>1. todo' \subseteq Noted
    BY <1>2 DEF StartReconcile, Recorded, Noted, TypeOK, Entry
  <2>2. QED BY <1>2, <2>1 DEF StartReconcile, TypeOK, LinkInv
<1>3. CASE FinishReconcile
  BY <1>3 DEF FinishReconcile, TypeOK, LinkInv
<1>4. CASE Detach
  BY <1>4 DEF Detach, TypeOK, LinkInv
<1>5. ASSUME NEW e \in todo, ReportScope(e) PROVE BaseInv'
  <2>1. LedgerTypes'
    BY <1>5, UpdateTypes DEF ReportScope, TypeOK, Noted
  <2>2. QED BY <1>5, <2>1 DEF ReportScope, LedgerTypes, TypeOK, LinkInv
<1>6. ASSUME NEW e \in todo, AskFails(e) PROVE BaseInv'
  BY <1>6 DEF AskFails, TypeOK, LinkInv
<1>7. ASSUME NEW e \in todo, Ask(e) PROVE BaseInv'
  <2>1. e.id \in Ids /\ recent[e.id] \in Answers /\ "unsupported" \in Answers
    BY <1>7 DEF Ask, TypeOK, Noted, Answers
  <2>2. asked' \subseteq [id : Ids, answer : Answers]
    BY <1>7, <2>1 DEF Ask
  <2>3. QED BY <1>7, <2>2 DEF Ask, TypeOK, LinkInv
<1>8. ASSUME NEW q \in asked, Apply(q) PROVE BaseInv'
  <2>1. q.id \in Ids
    BY <1>8 DEF TypeOK
  <2>2. LedgerTypes'
    <3>1. CASE UNCHANGED ledger
      BY <3>1 DEF LedgerTypes, TypeOK
    <3>2. CASE \/ NoEntry(q.id) \/ Resolve(q.id)
               \/ HasEntry(q.id) /\ MarkUnresolved(q.id)
      BY <2>1, <3>2, UpdateTypes
    <3>3. QED BY <1>8, <3>1, <3>2 DEF Apply
  <2>3. known' \subseteq Calls /\ loop' \in Loops
    BY <1>8 DEF Apply, TypeOK
  <2>4. TypeOK'
    BY <1>8, <2>2, <2>3 DEF Apply, LedgerTypes, TypeOK
  <2>5. LinkInv'
    BY <1>8 DEF Apply, TypeOK, LinkInv
  <2>6. QED BY <2>4, <2>5
<1>9. CASE Marked
  <2>1. LedgerTypes'
    BY <1>9, SaveTypes DEF Marked
  <2>2. QED BY <1>9, <2>1 DEF Marked, LedgerTypes, TypeOK, LinkInv
<1>10. QED BY <1>1, <1>2, <1>3, <1>4, <1>5, <1>6, <1>7, <1>8, <1>9 DEF LoopStep

\* ... and restarts, disconnections and credential changes.
LEMMA BaseRest ==
    ASSUME BaseInv,
           \/ Disconnect \/ GameRestart \/ RotateCredential \/ DaemonRestart
           \/ UNCHANGED vars
    PROVE  BaseInv'
<1> USE LedgerAssumption DEF BaseInv
<1>1. CASE Disconnect
  BY <1>1 DEF Disconnect, TypeOK, LinkInv
<1>2. CASE GameRestart
  <2>1. gameRun' \in Runs
    BY <1>2 DEF GameRestart, TypeOK, Runs
  <2>2. TypeOK'
    BY <1>2, <2>1 DEF GameRestart, TypeOK
  <2>3. LinkInv'
    BY <1>2 DEF GameRestart, LinkInv, TypeOK, Runs
  <2>4. QED BY <2>2, <2>3
<1>3. CASE RotateCredential
  BY <1>3 DEF RotateCredential, TypeOK, LinkInv, Creds
<1>4. CASE DaemonRestart
  <2>1. pc' \in [Calls -> Pcs] /\ crashes' \in 0..MaxCrash /\ loop' \in Loops
    BY <1>4 DEF DaemonRestart, TypeOK, Pcs, Loops
  <2>2. TypeOK'
    BY <1>4, <2>1 DEF DaemonRestart, TypeOK
  <2>3. LinkInv'
    BY <1>4 DEF DaemonRestart, LinkInv, TypeOK
  <2>4. QED BY <2>2, <2>3
<1>5. CASE UNCHANGED vars
  BY <1>5 DEF vars, TypeOK, LinkInv
<1>6. QED BY <1>1, <1>2, <1>3, <1>4, <1>5

\* Hence every step does ...
LEMMA BaseStep == BaseInv /\ [Next]_vars => BaseInv'
BY BaseCall, BaseServer, BaseLoop, BaseRest DEF Next

\* ... and they hold throughout.
LEMMA BaseHolds == Spec => []BaseInv
BY BaseInit, BaseStep, PTL DEF Spec

\* Every variable of the write path stays in its range: in particular an entry
\* on disk always names a run and a credential that exist.
THEOREM WriteLedgerTypes == Spec => []TypeOK
<1>1. BaseInv => TypeOK
  BY DEF BaseInv
<1>2. QED BY <1>1, BaseHolds, PTL
-----------------------------------------------------------------------------
(* The inductive invariant behind NoForgottenWrite.                        *)

Strengthening ==
    RequestInv /\ TurnInv /\ HolderInv /\ ChangeInv /\ EntryInv /\ CopyInv

\* An update of an entry's state leaves its run alone.
LEMMA StateOnly ==
    ASSUME TypeOK, NEW id \in Ids, HasEntry(id), NoteUnknown(id) \/ MarkUnresolved(id)
    PROVE  mem'[id] # None /\ mem'[id].run = mem[id].run
<1>1. mem[id] \in Entry
  BY DEF HasEntry, TypeOK
<1>2. PICK s \in {"unknown", "unresolved"} : mem' = [mem EXCEPT ![id] = [mem[id] EXCEPT !.state = s]]
  BY DEF NoteUnknown, MarkUnresolved, Change
<1>3. [mem[id] EXCEPT !.state = s] \in Entry /\ [mem[id] EXCEPT !.state = s].run = mem[id].run
  BY <1>1 DEF Entry
<1>4. mem'[id] = [mem[id] EXCEPT !.state = s]
  BY <1>2 DEF TypeOK
<1>5. QED BY <1>3, <1>4, LedgerAssumption

\* A change under the free mutex has the file to go back to.
LEMMA Changed ==
    ASSUME TypeOK, HolderInv, NEW id \in Ids, NEW entry, Change(id, entry)
    PROVE  /\ mem = disk /\ disk' = disk /\ mem'[id] = entry
           /\ saving' = {[id |-> id, previous |-> disk[id]]}
           /\ \A i \in Ids \ {id} : mem'[i] = disk'[i]
BY DEF Change, HolderInv, TypeOK

\* Whoever begins a change under the free mutex is its holder.
LEMMA NewHolder ==
    ASSUME NEW id \in Ids, saving' = {[id |-> id, previous |-> disk[id]]},
           disk' = disk, \A i \in Ids \ {id} : mem'[i] = disk'[i],
           \A c, d \in Holders' : c = d, loop' = "marking" => Holders' = {}
    PROVE  HolderInv'
<1>1. \A s \in saving' : s.id = id /\ s.previous = disk'[id]
  OBVIOUS
<1>2. saving' # {} /\ \A s, t \in saving' : s = t
  OBVIOUS
<1>3. QED BY <1>1, <1>2 DEF HolderInv

\* A save that succeeds keeps the entry of every write that needs it, and
\* gives the call that is being admitted its own.
LEMMA SavedEntries ==
    ASSUME TypeOK, HolderInv, ChangeInv, EntryInv, Saved, UNCHANGED <<via, connRun>>
    PROVE  /\ \A c \in Unknown : OwnEntry(c)'
           /\ \A c \in Calls : Sends(c) => OwnEntry(c)' \/ recent[IdOf[c]] \in Outcomes
           /\ \A c \in Calls : pc[c] = "admitting" => OwnEntry(c)'
<1>1. PICK s \in saving : TRUE
  BY DEF Saved
<1>2. s.id \in Ids /\ Unknown \subseteq Calls /\ \A c \in Calls : IdOf[c] \in Ids
  BY LedgerAssumption DEF TypeOK, Changes, Unknown, MayHaveRun, CanRun
<1>3. ASSUME NEW c \in Calls, OwnEntry(c), IdOf[c] = s.id => mem[s.id] # None
      PROVE  OwnEntry(c)'
  BY <1>1, <1>2, <1>3 DEF OwnEntry, Saved, HolderInv, ChangeInv
<1>4. \A c \in Unknown : OwnEntry(c)'
  BY <1>1, <1>2, <1>3 DEF EntryInv, ChangeInv
<1>5. \A c \in Calls : Sends(c) => OwnEntry(c)' \/ recent[IdOf[c]] \in Outcomes
  BY <1>1, <1>2, <1>3 DEF EntryInv, ChangeInv
<1>6. \A c \in Calls : pc[c] = "admitting" => OwnEntry(c)'
  BY <1>1, <1>2 DEF ChangeInv, OwnEntry, Saved
<1>7. QED BY <1>4, <1>5, <1>6

\* The loop that marks an entry holds the mutex and changes no more than its state.
LEMMA Marking ==
    ASSUME TypeOK, HolderInv, NEW id \in Ids, HasEntry(id), MarkUnresolved(id),
           loop' = "marking", pc' = pc
    PROVE  HolderInv' /\ ChangeInv'
<1>1. PICK entry : Change(id, entry)
  BY DEF MarkUnresolved
<1>2. /\ mem = disk /\ disk' = disk /\ mem'[id] = entry
      /\ saving' = {[id |-> id, previous |-> disk[id]]}
      /\ \A i \in Ids \ {id} : mem'[i] = disk'[i]
  BY <1>1, Changed
<1>3. Holders = {}
  BY <1>1 DEF Change, HolderInv
<1>4. mem'[id] # None /\ mem'[id].run = disk[id].run
  BY <1>2, StateOnly
<1>5. HolderInv'
  <2>1. Holders' = {}
    BY <1>3 DEF Holders
  <2>2. QED BY <1>2, <2>1, NewHolder
<1>6. ChangeInv'
  BY <1>2, <1>3, <1>4 DEF ChangeInv, Holders
<1>7. QED BY <1>5, <1>6

\* At either end of a save memory and file agree.
LEMMA SaveEnds ==
    ASSUME TypeOK, HolderInv, Saved \/ RolledBack
    PROVE  saving' = {} /\ mem' = disk' /\ (RolledBack => disk' = disk)
<1>1. CASE Saved
  BY <1>1 DEF Saved, RolledBack
<1>2. CASE RolledBack
  <2>1. PICK s \in saving : mem' = [mem EXCEPT ![s.id] = s.previous] /\ disk' = disk
    BY <1>2 DEF RolledBack
  <2>2. mem' = disk'
    BY <2>1 DEF HolderInv, TypeOK
  <2>3. QED BY <1>2, <2>2 DEF RolledBack
<1>3. QED BY <1>1, <1>2

\* Initially there are no requests and no entries.
LEMMA StrongInit == Init => Strengthening
BY DEF Init, Strengthening, RequestInv, TurnInv, HolderInv, Holders, ChangeInv, EntryInv,
       CopyInv, Unknown, MayHaveRun, CanRun, InFlight, Sends, Alive

\* The steps of callWithID preserve the invariant; Admit needs the turns.
LEMMA StrongCall ==
    ASSUME ~ReadmitInFlight, BaseInv, Strengthening, NEW c \in Calls, CallStep(c)
    PROVE  Strengthening'
<1> USE LedgerAssumption DEF BaseInv, Strengthening, TypeOK, LinkInv, Unknown, MayHaveRun,
        CanRun, OwnEntry, Sends, Alive, Holders, InFlight
<1>1. CASE Route(c)
  <2>1. RequestInv'
    BY <1>1 DEF Route, RequestInv
  <2>2. TurnInv'
    BY <1>1 DEF Route, TurnInv
  <2>3. EntryInv'
    BY <1>1 DEF Route, EntryInv, RequestInv
  <2>4. CopyInv'
    BY <1>1 DEF Route, CopyInv
  <2>5. HolderInv'
    BY <1>1 DEF Route, HolderInv
  <2>6. ChangeInv'
    BY <1>1 DEF Route, ChangeInv
  <2>7. QED BY <2>1, <2>2, <2>3, <2>4, <2>5, <2>6
<1>2. CASE Refused(c)
  <2>1. RequestInv'
    BY <1>2 DEF Refused, RequestInv
  <2>2. TurnInv'
    BY <1>2 DEF Refused, TurnInv
  <2>3. EntryInv'
    BY <1>2 DEF Refused, EntryInv
  <2>4. CopyInv'
    BY <1>2 DEF Refused, CopyInv
  <2>5. HolderInv'
    BY <1>2 DEF Refused, HolderInv
  <2>6. ChangeInv'
    BY <1>2 DEF Refused, ChangeInv
  <2>7. QED BY <2>1, <2>2, <2>3, <2>4, <2>5, <2>6
<1>3. CASE Admit(c)
  <2> DEFINE new == [state |-> "unknown", run |-> connRun[via[c]], cred |-> cred]
  <2>1. RequestInv'
    BY <1>3 DEF Admit, RequestInv
  <2>2. TurnInv'
    BY <1>3 DEF Admit, TurnInv
  <2>3. EntryInv'
    BY <1>3 DEF Admit, Change, EntryInv
  <2>4. CopyInv'
    BY <1>3 DEF Admit, CopyInv
  <2>5. /\ mem = disk /\ mem'[IdOf[c]] = new /\ disk' = disk /\ mem[IdOf[c]] = None
        /\ saving' = {[id |-> IdOf[c], previous |-> disk[IdOf[c]]]}
        /\ \A i \in Ids \ {IdOf[c]} : mem'[i] = disk'[i]
    BY <1>3, Changed DEF Admit, Admissible
  <2>6. HolderInv'
    <3>1. Holders = {} /\ loop' # "marking"
      BY <1>3 DEF Admit, Change, HolderInv
    <3>2. \A d, e \in Holders' : d = e
      BY <1>3, <3>1 DEF Admit
    <3>3. QED BY <2>5, <3>1, <3>2, NewHolder
  <2>7. new # None /\ new.run = connRun[via[c]]
    <3>1. connRun[via[c]] \in Runs
      BY <1>3, RoutedRun DEF Admit
    <3>2. QED BY <3>1 DEF Entry
  <2>8. ChangeInv'
    <3>1. \A d \in Calls : pc'[d] = "admitting" => d = c
      BY <1>3 DEF Admit, Change, HolderInv
    <3>2. \A d \in Calls : IdOf[d] = IdOf[c] => pc'[d] \notin InFlight
      BY <1>3 DEF Admit
    <3>3. connRun'[via'[c]] = connRun[via[c]]
      BY <1>3 DEF Admit
    <3> HIDE DEF new
    <3>4. QED BY <2>5, <2>7, <3>1, <3>2, <3>3 DEF ChangeInv
  <2>9. QED BY <2>1, <2>2, <2>3, <2>4, <2>6, <2>8
<1>4. CASE Send(c)
  <2>1. RequestInv'
    BY <1>4 DEF Send, RequestInv
  <2>2. TurnInv'
    BY <1>4 DEF Send, TurnInv
  <2>3. EntryInv'
    BY <1>4 DEF Send, EntryInv
  <2>4. CopyInv'
    BY <1>4 DEF Send, CopyInv
  <2>5. HolderInv'
    BY <1>4 DEF Send, HolderInv
  <2>6. ChangeInv'
    BY <1>4 DEF Send, ChangeInv
  <2>7. QED BY <2>1, <2>2, <2>3, <2>4, <2>5, <2>6
<1>5. CASE NeverSent(c)
  <2>1. RequestInv'
    BY <1>5 DEF NeverSent, RequestInv
  <2>2. TurnInv'
    BY <1>5 DEF NeverSent, TurnInv
  <2>3. EntryInv'
    BY <1>5 DEF NeverSent, EntryInv
  <2>4. CopyInv'
    BY <1>5 DEF NeverSent, CopyInv
  <2>5. HolderInv'
    BY <1>5 DEF NeverSent, HolderInv
  <2>6. ChangeInv'
    BY <1>5 DEF NeverSent, ChangeInv
  <2>7. QED BY <2>1, <2>2, <2>3, <2>4, <2>5, <2>6
<1>6. CASE GiveUp(c)
  <2>1. RequestInv'
    BY <1>6 DEF GiveUp, RequestInv
  <2>2. TurnInv'
    BY <1>6 DEF GiveUp, TurnInv
  <2>3. EntryInv'
    BY <1>6 DEF GiveUp, EntryInv
  <2>4. CopyInv'
    BY <1>6 DEF GiveUp, CopyInv
  <2>5. HolderInv'
    BY <1>6 DEF GiveUp, HolderInv
  <2>6. ChangeInv'
    BY <1>6 DEF GiveUp, ChangeInv
  <2>7. QED BY <2>1, <2>2, <2>3, <2>4, <2>5, <2>6
<1>7. CASE Answered(c)
  <2>1. RequestInv'
    BY <1>7 DEF Answered, RequestInv
  <2>2. TurnInv'
    BY <1>7 DEF Answered, TurnInv
  <2>3. EntryInv'
    BY <1>7 DEF Answered, EntryInv
  <2>4. CopyInv'
    BY <1>7 DEF Answered, CopyInv
  <2>5. HolderInv'
    BY <1>7 DEF Answered, HolderInv
  <2>6. ChangeInv'
    BY <1>7 DEF Answered, ChangeInv
  <2>7. QED BY <2>1, <2>2, <2>3, <2>4, <2>5, <2>6
<1>8. CASE Settle(c)
  <2>1. RequestInv'
    BY <1>8 DEF Settle, RequestInv
  <2>2. TurnInv'
    BY <1>8 DEF Settle, TurnInv
  <2>3. EntryInv'
    BY <1>8 DEF Settle, NoEntry, Resolve, NoteUnknown, Change, EntryInv
  <2>4. CopyInv'
    BY <1>8 DEF Settle, CopyInv
  <2>5. CASE NoEntry(IdOf[c])
    BY <1>8, <2>1, <2>2, <2>3, <2>4, <2>5
       DEF Settle, NoEntry, HasEntry, HolderInv, ChangeInv
  <2>6. CASE ~NoEntry(IdOf[c])
    <3>1. PICK entry : Change(IdOf[c], entry)
      BY <1>8, <2>6 DEF Settle, Resolve, NoteUnknown
    <3>2. /\ mem = disk /\ disk' = disk /\ mem'[IdOf[c]] = entry
          /\ saving' = {[id |-> IdOf[c], previous |-> disk[IdOf[c]]]}
          /\ \A i \in Ids \ {IdOf[c]} : mem'[i] = disk'[i]
      BY <3>1, Changed
    <3>3. /\ pc' = [pc EXCEPT ![c] = "settling"] /\ Holders = {} /\ loop' = loop
          /\ loop # "marking" /\ pc[c] \in {"answered", "unsent", "lost"}
      BY <1>8, <2>6, <3>1 DEF Settle, Change, HolderInv
    <3>4. HolderInv'
      <4>1. \A d, e \in Holders' : d = e
        BY <3>3
      <4>2. QED BY <3>2, <3>3, <4>1, NewHolder
    <3>5. Unknown' = Unknown /\ recent' = recent
      BY <1>8 DEF Settle
    <3>6. \A d \in Calls : pc'[d] # "admitting"
      BY <3>3
    <3>7. \/ mem'[IdOf[c]] = None /\ pc[c] \in {"answered", "unsent"}
          \/ mem'[IdOf[c]] # None /\ mem'[IdOf[c]].run = disk[IdOf[c]].run
      BY <1>8, <2>6, <3>2, StateOnly DEF Settle, Resolve, Change
    <3>8. mem'[IdOf[c]] = None =>
            \A d \in Calls : IdOf[d] = IdOf[c] => d \notin Unknown /\ ~Sends(d)'
      <4>1. SUFFICES ASSUME mem'[IdOf[c]] = None, NEW d \in Calls, IdOf[d] = IdOf[c]
                     PROVE  d \notin Unknown /\ pc'[d] # "admitted"
        OBVIOUS
      <4>2. pc[c] \in {"answered", "unsent"}
        BY <3>7, <4>1
      <4>3. QED BY <3>3, <4>1, <4>2 DEF TurnInv, RequestInv
    <3>9. ChangeInv'
      BY <3>2, <3>5, <3>6, <3>7, <3>8 DEF ChangeInv
    <3>10. QED BY <2>1, <2>2, <2>3, <2>4, <3>4, <3>9
  <2>7. QED BY <2>5, <2>6
<1>9. CASE Admitted(c)
  <2>1. RequestInv'
    BY <1>9 DEF Admitted, RequestInv
  <2>2. \A d \in Calls : IdOf[d] = IdOf[c] => pc[d] \notin InFlight /\ d \notin Unknown
    BY <1>9 DEF Admitted, Saved, RolledBack, ChangeInv, HolderInv, EntryInv
  <2>3. TurnInv'
    BY <1>9, <2>2 DEF Admitted, TurnInv
  <2>4. CopyInv'
    BY <1>9 DEF Admitted, CopyInv
  <2>5. saving' = {} /\ mem' = disk' /\ (RolledBack => disk' = disk)
    BY <1>9, SaveEnds DEF Admitted
  <2>6. HolderInv' /\ ChangeInv'
    BY <1>9, <2>5 DEF Admitted, HolderInv, ChangeInv
  <2>7. EntryInv'
    <3>1. CASE Saved
      BY <1>9, <3>1, SavedEntries DEF Admitted, EntryInv
    <3>2. CASE RolledBack /\ pc' = [pc EXCEPT ![c] = "returned"]
      BY <1>9, <2>5, <3>2 DEF Admitted, EntryInv
    <3>3. QED BY <1>9, <3>1, <3>2 DEF Admitted
  <2>8. QED BY <2>1, <2>3, <2>4, <2>6, <2>7
<1>10. CASE Settled(c)
  <2>1. RequestInv'
    BY <1>10 DEF Settled, RequestInv
  <2>2. TurnInv'
    BY <1>10 DEF Settled, TurnInv
  <2>3. CopyInv'
    BY <1>10 DEF Settled, CopyInv
  <2>4. saving' = {} /\ mem' = disk' /\ (RolledBack => disk' = disk)
    BY <1>10, SaveEnds DEF Settled
  <2>5. HolderInv' /\ ChangeInv'
    BY <1>10, <2>4 DEF Settled, HolderInv, ChangeInv
  <2>6. EntryInv'
    <3>1. CASE Saved
      BY <1>10, <3>1, SavedEntries DEF Settled, EntryInv
    <3>2. CASE RolledBack
      BY <1>10, <2>4, <3>2 DEF Settled, EntryInv
    <3>3. QED BY <1>10, <3>1, <3>2 DEF Settled
  <2>7. QED BY <2>1, <2>2, <2>3, <2>5, <2>6
<1>11. QED
  BY <1>1, <1>2, <1>3, <1>4, <1>5, <1>6, <1>7, <1>8, <1>9, <1>10 DEF CallStep

\* The steps of the server preserve the invariant.
LEMMA StrongServer ==
    ASSUME ~ReadmitInFlight, BaseInv, Strengthening, NEW c \in Calls, ServerStep(c)
    PROVE  Strengthening'
<1> USE LedgerAssumption DEF BaseInv, Strengthening, TypeOK, LinkInv, Unknown, MayHaveRun,
        CanRun, OwnEntry, Sends, Alive, Holders, InFlight, Answering
<1>1. CASE Receive(c)
  <2>1. RequestInv'
    BY <1>1 DEF Receive, RequestInv
  <2>2. TurnInv'
    BY <1>1 DEF Receive, TurnInv, RequestInv
  <2>3. EntryInv'
    BY <1>1 DEF Receive, EntryInv
  <2>4. CopyInv'
    BY <1>1 DEF Receive, CopyInv
  <2>5. HolderInv'
    BY <1>1 DEF Receive, HolderInv
  <2>6. ChangeInv'
    BY <1>1 DEF Receive, ChangeInv
  <2>7. QED BY <2>1, <2>2, <2>3, <2>4, <2>5, <2>6
<1>2. CASE Execute(c)
  <2>1. RequestInv'
    BY <1>2 DEF Execute, RequestInv, TurnInv
  <2>2. TurnInv'
    BY <1>2 DEF Execute, TurnInv, RequestInv
  <2>3. EntryInv'
    BY <1>2 DEF Execute, EntryInv, RequestInv
  <2>4. CopyInv'
    BY <1>2 DEF Execute, CopyInv, RequestInv
  <2>5. HolderInv'
    BY <1>2 DEF Execute, HolderInv
  <2>6. ChangeInv'
    BY <1>2 DEF Execute, ChangeInv
  <2>7. QED BY <2>1, <2>2, <2>3, <2>4, <2>5, <2>6
<1>3. CASE Fail(c)
  <2>1. RequestInv'
    BY <1>3 DEF Fail, RequestInv, TurnInv
  <2>2. TurnInv'
    BY <1>3 DEF Fail, TurnInv, RequestInv
  <2>3. EntryInv'
    BY <1>3 DEF Fail, EntryInv, RequestInv
  <2>4. CopyInv'
    BY <1>3 DEF Fail, CopyInv, RequestInv
  <2>5. HolderInv'
    BY <1>3 DEF Fail, HolderInv
  <2>6. ChangeInv'
    BY <1>3 DEF Fail, ChangeInv, RequestInv
  <2>7. QED BY <2>1, <2>2, <2>3, <2>4, <2>5, <2>6
<1>4. CASE Drop(c)
  <2>1. RequestInv'
    BY <1>4 DEF Drop, RequestInv
  <2>2. TurnInv'
    BY <1>4 DEF Drop, TurnInv
  <2>3. EntryInv'
    BY <1>4 DEF Drop, EntryInv
  <2>4. CopyInv'
    BY <1>4 DEF Drop, CopyInv
  <2>5. HolderInv'
    BY <1>4 DEF Drop, HolderInv
  <2>6. ChangeInv'
    BY <1>4 DEF Drop, ChangeInv
  <2>7. QED BY <2>1, <2>2, <2>3, <2>4, <2>5, <2>6
<1>5. QED BY <1>1, <1>2, <1>3, <1>4 DEF ServerStep

\* Restarts, disconnections and credential changes preserve the invariant.
LEMMA StrongRest ==
    ASSUME ~ReadmitInFlight, BaseInv, Strengthening,
           \/ Disconnect \/ GameRestart \/ RotateCredential \/ DaemonRestart
           \/ UNCHANGED vars
    PROVE  Strengthening'
<1> USE LedgerAssumption DEF BaseInv, Strengthening, TypeOK, LinkInv, Unknown, MayHaveRun,
        CanRun, OwnEntry, Sends, Alive, Holders, InFlight, Answering
<1>1. CASE Disconnect
  <2>1. RequestInv'
    BY <1>1 DEF Disconnect, RequestInv
  <2>2. TurnInv'
    BY <1>1 DEF Disconnect, TurnInv
  <2>3. EntryInv'
    BY <1>1 DEF Disconnect, EntryInv
  <2>4. CopyInv'
    BY <1>1 DEF Disconnect, CopyInv
  <2>5. HolderInv'
    BY <1>1 DEF Disconnect, HolderInv
  <2>6. ChangeInv'
    BY <1>1 DEF Disconnect, ChangeInv
  <2>7. QED BY <2>1, <2>2, <2>3, <2>4, <2>5, <2>6
<1>2. CASE GameRestart
  <2>1. RequestInv'
    BY <1>2 DEF GameRestart, RequestInv
  <2>2. TurnInv'
    BY <1>2 DEF GameRestart, TurnInv
  <2>3. EntryInv'
    BY <1>2 DEF GameRestart, EntryInv
  <2>4. CopyInv'
    <3>1. asked # {} => conn \in Conns
      BY DEF Conns
    <3>2. gameRun \in Nat /\ \A k \in Conns : connRun[k] \in Nat /\ connRun[k] <= gameRun
      BY DEF Runs
    <3>3. asked # {} => connRun[conn] # gameRun'
      BY <1>2, <3>1, <3>2 DEF GameRestart
    <3>4. QED BY <1>2, <3>3 DEF GameRestart, CopyInv
  <2>5. HolderInv'
    BY <1>2 DEF GameRestart, HolderInv
  <2>6. ChangeInv'
    BY <1>2 DEF GameRestart, ChangeInv
  <2>7. QED BY <2>1, <2>2, <2>3, <2>4, <2>5, <2>6
<1>3. CASE RotateCredential
  <2>1. RequestInv'
    BY <1>3 DEF RotateCredential, RequestInv
  <2>2. TurnInv'
    BY <1>3 DEF RotateCredential, TurnInv
  <2>3. EntryInv'
    BY <1>3 DEF RotateCredential, EntryInv
  <2>4. CopyInv'
    BY <1>3 DEF RotateCredential, CopyInv
  <2>5. HolderInv'
    BY <1>3 DEF RotateCredential, HolderInv
  <2>6. ChangeInv'
    BY <1>3 DEF RotateCredential, ChangeInv
  <2>7. QED BY <2>1, <2>2, <2>3, <2>4, <2>5, <2>6
<1>4. CASE DaemonRestart
  <2>1. RequestInv'
    BY <1>4 DEF DaemonRestart, RequestInv
  <2>2. TurnInv'
    BY <1>4 DEF DaemonRestart, TurnInv
  <2>3. EntryInv'
    BY <1>4 DEF DaemonRestart, EntryInv
  <2>4. CopyInv'
    BY <1>4 DEF DaemonRestart, CopyInv
  <2>5. HolderInv'
    BY <1>4 DEF DaemonRestart, HolderInv
  <2>6. ChangeInv'
    BY <1>4 DEF DaemonRestart, ChangeInv
  <2>7. QED BY <2>1, <2>2, <2>3, <2>4, <2>5, <2>6
<1>5. CASE UNCHANGED vars
  <2>1. RequestInv'
    BY <1>5 DEF vars, RequestInv
  <2>2. TurnInv'
    BY <1>5 DEF vars, TurnInv
  <2>3. EntryInv'
    BY <1>5 DEF vars, EntryInv
  <2>4. CopyInv'
    BY <1>5 DEF vars, CopyInv
  <2>5. HolderInv'
    BY <1>5 DEF vars, HolderInv
  <2>6. ChangeInv'
    BY <1>5 DEF vars, ChangeInv
  <2>7. QED BY <2>1, <2>2, <2>3, <2>4, <2>5, <2>6
<1>6. QED BY <1>1, <1>2, <1>3, <1>4, <1>5

\* The steps of the session loop preserve the invariant; applying an answer
\* needs that what was asked is still what matters.
LEMMA StrongLoop ==
    ASSUME ~ReadmitInFlight, BaseInv, Strengthening, LoopStep
    PROVE  Strengthening'
<1> USE LedgerAssumption DEF BaseInv, Strengthening, TypeOK, LinkInv, Unknown, MayHaveRun,
        CanRun, OwnEntry, Sends, Alive, Holders, InFlight
<1>1. CASE Connect
  <2>1. \A c \in Calls : connRun'[via[c]] = connRun[via[c]]
    BY <1>1 DEF Connect
  <2>2. RequestInv'
    BY <1>1, <2>1 DEF Connect, RequestInv
  <2>3. TurnInv'
    BY <1>1 DEF Connect, TurnInv
  <2>4. EntryInv'
    BY <1>1, <2>1 DEF Connect, EntryInv
  <2>5. CopyInv'
    BY <1>1 DEF Connect, CopyInv
  <2>6. HolderInv'
    BY <1>1 DEF Connect, HolderInv
  <2>7. ChangeInv'
    BY <1>1, <2>1 DEF Connect, ChangeInv
  <2>8. QED BY <2>2, <2>3, <2>4, <2>5, <2>6, <2>7
<1>2. CASE StartReconcile
  <2>1. RequestInv'
    BY <1>2 DEF StartReconcile, RequestInv
  <2>2. TurnInv'
    BY <1>2 DEF StartReconcile, TurnInv
  <2>3. EntryInv'
    BY <1>2 DEF StartReconcile, EntryInv
  <2>4. CopyInv'
    BY <1>2 DEF StartReconcile, CopyInv, EntryInv, HolderInv, Recorded
  <2>5. HolderInv'
    BY <1>2 DEF StartReconcile, HolderInv
  <2>6. ChangeInv'
    BY <1>2 DEF StartReconcile, ChangeInv
  <2>7. QED BY <2>1, <2>2, <2>3, <2>4, <2>5, <2>6
<1>3. CASE FinishReconcile
  <2>1. RequestInv'
    BY <1>3 DEF FinishReconcile, RequestInv
  <2>2. TurnInv'
    BY <1>3 DEF FinishReconcile, TurnInv
  <2>3. EntryInv'
    BY <1>3 DEF FinishReconcile, EntryInv
  <2>4. CopyInv'
    BY <1>3 DEF FinishReconcile, CopyInv
  <2>5. HolderInv'
    BY <1>3 DEF FinishReconcile, HolderInv
  <2>6. ChangeInv'
    BY <1>3 DEF FinishReconcile, ChangeInv
  <2>7. QED BY <2>1, <2>2, <2>3, <2>4, <2>5, <2>6
<1>4. CASE Detach
  <2>1. RequestInv'
    BY <1>4 DEF Detach, RequestInv
  <2>2. TurnInv'
    BY <1>4 DEF Detach, TurnInv
  <2>3. EntryInv'
    BY <1>4 DEF Detach, EntryInv
  <2>4. CopyInv'
    BY <1>4 DEF Detach, CopyInv
  <2>5. HolderInv'
    BY <1>4 DEF Detach, HolderInv
  <2>6. ChangeInv'
    BY <1>4 DEF Detach, ChangeInv
  <2>7. QED BY <2>1, <2>2, <2>3, <2>4, <2>5, <2>6
<1>5. ASSUME NEW e \in todo, ReportScope(e) PROVE Strengthening'
  <2>1. e.id \in Ids
    BY DEF Noted
  <2>2. RequestInv'
    BY <1>5 DEF ReportScope, RequestInv
  <2>3. TurnInv'
    BY <1>5 DEF ReportScope, TurnInv
  <2>4. EntryInv'
    BY <1>5 DEF ReportScope, NoEntry, MarkUnresolved, Change, EntryInv
  <2>5. CopyInv'
    BY <1>5 DEF ReportScope, CopyInv
  <2>6. CASE NoEntry(e.id) /\ UNCHANGED loop
    <3>1. HolderInv'
      BY <1>5, <2>6 DEF ReportScope, NoEntry, HolderInv
    <3>2. ChangeInv'
      BY <1>5, <2>6 DEF ReportScope, NoEntry, ChangeInv
    <3>3. QED BY <2>2, <2>3, <2>4, <2>5, <3>1, <3>2
  <2>7. CASE HasEntry(e.id) /\ MarkUnresolved(e.id) /\ loop' = "marking"
    <3>1. HolderInv' /\ ChangeInv'
      BY <1>5, <2>1, <2>7, Marking DEF ReportScope
    <3>2. QED BY <2>2, <2>3, <2>4, <2>5, <3>1
  <2>8. QED BY <1>5, <2>6, <2>7 DEF ReportScope
<1>6. ASSUME NEW e \in todo, AskFails(e) PROVE Strengthening'
  <2>1. RequestInv'
    BY <1>6 DEF AskFails, RequestInv
  <2>2. TurnInv'
    BY <1>6 DEF AskFails, TurnInv
  <2>3. EntryInv'
    BY <1>6 DEF AskFails, EntryInv
  <2>4. CopyInv'
    BY <1>6 DEF AskFails, CopyInv
  <2>5. HolderInv'
    BY <1>6 DEF AskFails, HolderInv
  <2>6. ChangeInv'
    BY <1>6 DEF AskFails, ChangeInv
  <2>7. QED BY <2>1, <2>2, <2>3, <2>4, <2>5, <2>6
<1>7. ASSUME NEW e \in todo, Ask(e) PROVE Strengthening'
  <2>1. RequestInv'
    BY <1>7 DEF Ask, RequestInv
  <2>2. TurnInv'
    BY <1>7 DEF Ask, TurnInv
  <2>3. EntryInv'
    BY <1>7 DEF Ask, EntryInv
  <2>4. CopyInv'
    BY <1>7 DEF Ask, InScope, CopyInv
  <2>5. HolderInv'
    BY <1>7 DEF Ask, HolderInv
  <2>6. ChangeInv'
    BY <1>7 DEF Ask, ChangeInv
  <2>7. QED BY <2>1, <2>2, <2>3, <2>4, <2>5, <2>6
<1>8. ASSUME NEW q \in asked, Apply(q) PROVE Strengthening'
  <2>1. q.id \in Ids
    OBVIOUS
  <2>2. RequestInv'
    BY <1>8 DEF Apply, RequestInv
  <2>3. TurnInv'
    BY <1>8 DEF Apply, TurnInv
  <2>4. disk' = disk /\ Unknown' \subseteq Unknown
    BY <1>8 DEF Apply, NoEntry, Resolve, MarkUnresolved, Change
  <2>5. EntryInv'
    BY <1>8, <2>4 DEF Apply, EntryInv
  <2>6. CopyInv'
    BY <1>8 DEF Apply, CopyInv
  <2>7. CASE UNCHANGED ledger
    <3>1. HolderInv'
      BY <1>8, <2>7 DEF Apply, NoEntry, Resolve, MarkUnresolved, Change, HolderInv
    <3>2. ChangeInv'
      BY <1>8, <2>7 DEF Apply, ChangeInv
    <3>3. QED BY <2>2, <2>3, <2>5, <2>6, <3>1, <3>2
  <2>8. CASE q.answer \in Outcomes /\ Resolve(q.id) /\ loop' = "marking"
    <3>1. \A c \in Unknown' : IdOf[c] # q.id
      BY <1>8, <2>8 DEF Apply, CopyInv, RequestInv
    <3>2. \A c \in Calls : Sends(c) /\ IdOf[c] = q.id => recent[q.id] \in Outcomes
      BY <1>8, <2>8 DEF CopyInv
    <3>3. /\ mem = disk /\ mem'[q.id] = None
          /\ saving' = {[id |-> q.id, previous |-> disk[q.id]]}
          /\ \A i \in Ids \ {q.id} : mem'[i] = disk'[i]
      BY <2>1, <2>8, Changed DEF Resolve
    <3>4. Holders = {}
      BY <2>8 DEF Resolve, Change, HolderInv
    <3>5. UNCHANGED <<pc, via, recent, conn, up>>
      BY <1>8 DEF Apply
    <3>6. HolderInv'
      <4>1. Holders' = {}
        BY <3>4, <3>5
      <4>2. QED BY <2>1, <2>4, <3>3, <4>1, NewHolder
    <3>7. ChangeInv'
      BY <3>1, <3>2, <3>3, <3>4, <3>5 DEF ChangeInv
    <3>8. QED BY <2>2, <2>3, <2>5, <2>6, <3>6, <3>7
  <2>9. CASE HasEntry(q.id) /\ MarkUnresolved(q.id) /\ loop' = "marking"
    <3>1. HolderInv' /\ ChangeInv'
      BY <1>8, <2>1, <2>4, <2>9, Marking DEF Apply
    <3>2. QED BY <2>2, <2>3, <2>5, <2>6, <3>1
  <2>10. QED BY <1>8, <2>7, <2>8, <2>9 DEF Apply, NoEntry
<1>9. CASE Marked
  <2>1. RequestInv'
    BY <1>9 DEF Marked, RequestInv
  <2>2. TurnInv'
    BY <1>9 DEF Marked, TurnInv
  <2>3. CopyInv'
    BY <1>9 DEF Marked, CopyInv
  <2>4. saving' = {} /\ mem' = disk' /\ (RolledBack => disk' = disk)
    BY <1>9, SaveEnds DEF Marked
  <2>5. HolderInv' /\ ChangeInv'
    BY <1>9, <2>4 DEF Marked, HolderInv, ChangeInv
  <2>6. EntryInv'
    <3>1. CASE Saved
      BY <1>9, <3>1, SavedEntries DEF Marked, EntryInv
    <3>2. CASE RolledBack
      BY <1>9, <2>4, <3>2 DEF Marked, EntryInv
    <3>3. QED BY <1>9, <3>1, <3>2 DEF Marked
  <2>7. QED BY <2>1, <2>2, <2>3, <2>5, <2>6
<1>10. QED BY <1>1, <1>2, <1>3, <1>4, <1>5, <1>6, <1>7, <1>8, <1>9 DEF LoopStep

\* Hence every step preserves the invariant.
LEMMA StrongStep ==
    ASSUME ~ReadmitInFlight
    PROVE  BaseInv /\ Strengthening /\ [Next]_vars => Strengthening'
BY StrongCall, StrongServer, StrongLoop, StrongRest DEF Next

\* The invariant of the proofs is the one the runs check.
LEMMA InvariantHolds ==
    ASSUME ~ReadmitInFlight
    PROVE  Spec => []IInv
<1>1. Spec => []Strengthening
  BY BaseHolds, StrongInit, StrongStep, PTL DEF Spec
<1>2. BaseInv /\ Strengthening => IInv
  BY DEF BaseInv, Strengthening, IInv
<1>3. QED BY <1>1, <1>2, BaseHolds, PTL

\* While no caller reuses an id of a call that has not returned, every write
\* that may have run without the daemon knowing its outcome is on disk.
THEOREM NothingForgotten ==
    ASSUME ~ReadmitInFlight
    PROVE  Spec => []NoForgottenWrite
<1>1. IInv => NoForgottenWrite
  BY DEF IInv, EntryInv, OwnEntry, Unknown, NoForgottenWrite
<1>2. QED BY <1>1, InvariantHolds, PTL
-----------------------------------------------------------------------------
(* The ledger and its file.                                                *)

CapInv == WithinCap /\ Cardinality(OnRecord) <= Cap
FileInv == BaseInv /\ LedgerMatchesDisk /\ CapInv

\* A set within one that is within the cap is within it.
LEMMA Fewer ==
    ASSUME NEW S \in SUBSET Ids, NEW T \in SUBSET S, Cardinality(S) <= Cap
    PROVE  Cardinality(T) <= Cap
<1>1. IsFiniteSet(S)
  BY LedgerAssumption, FS_Subset
<1>2. IsFiniteSet(T) /\ Cardinality(T) <= Cardinality(S)
  BY <1>1, FS_Subset
<1>3. Cardinality(T) \in Nat /\ Cardinality(S) \in Nat
  BY <1>1, <1>2, FS_CardinalityType
<1>4. QED BY <1>2, <1>3, LedgerAssumption

\* An operation changes one entry in memory only, and Admit adds one id below
\* the cap; otherwise the ledger is as it was, or its save ends.
LedgerChange ==
    \/ UNCHANGED ledger
    \/ \E id \in Ids, entry \in Entry \cup {None} :
          /\ Change(id, entry)
          /\ entry = None \/ HasEntry(id) \/ Admissible(id)
    \/ Saved \/ RolledBack
    \/ mem' = disk /\ UNCHANGED disk /\ saving' = {}

\* Every step is one of these.
LEMMA UpdatedLedger ==
    ASSUME BaseInv, NEW id \in Ids,
           \/ NoEntry(id) \/ Resolve(id)
           \/ HasEntry(id) /\ (NoteUnknown(id) \/ MarkUnresolved(id))
    PROVE  LedgerChange
<1>1. CASE NoEntry(id) \/ Resolve(id)
  BY <1>1 DEF NoEntry, Resolve, LedgerChange
<1>2. CASE HasEntry(id) /\ (NoteUnknown(id) \/ MarkUnresolved(id))
  <2>1. mem[id] \in Entry
    BY <1>2 DEF HasEntry, BaseInv, TypeOK
  <2>2. \A s \in {"unknown", "unresolved"} : [mem[id] EXCEPT !.state = s] \in Entry
    BY <2>1 DEF Entry
  <2>3. QED BY <1>2, <2>2 DEF NoteUnknown, MarkUnresolved, LedgerChange
<1>3. QED BY <1>1, <1>2

LEMMA EveryStep ==
    ASSUME BaseInv, [Next]_vars
    PROVE  LedgerChange
<1>1. ASSUME NEW c \in Calls, CallStep(c) PROVE LedgerChange
  <2>1. CASE Admit(c)
    <3>1. connRun[via[c]] \in Runs
      BY <2>1, RoutedRun DEF Admit
    <3>2. [state |-> "unknown", run |-> connRun[via[c]], cred |-> cred] \in Entry
      BY <3>1 DEF BaseInv, TypeOK, Entry
    <3>3. QED BY <2>1, <3>2, LedgerAssumption DEF Admit, LedgerChange
  <2>2. CASE Settle(c)
    BY <2>2, UpdatedLedger, LedgerAssumption DEF Settle
  <2>3. CASE ~Admit(c) /\ ~Settle(c)
    BY <1>1, <2>3 DEF CallStep, Route, Refused, Admitted, Send, NeverSent, GiveUp, Answered,
                      Settled, LedgerChange
  <2>4. QED BY <2>1, <2>2, <2>3
<1>2. ASSUME NEW c \in Calls, ServerStep(c) PROVE LedgerChange
  BY <1>2 DEF ServerStep, Receive, Execute, Fail, Drop, LedgerChange
<1>3. ASSUME LoopStep PROVE LedgerChange
  <2>1. ASSUME NEW e \in todo, ReportScope(e) PROVE LedgerChange
    BY <2>1, UpdatedLedger DEF ReportScope, BaseInv, TypeOK, Noted
  <2>2. ASSUME NEW q \in asked, Apply(q) PROVE LedgerChange
    <3>1. q.id \in Ids
      BY DEF BaseInv, TypeOK
    <3>2. CASE UNCHANGED ledger
      BY <3>2 DEF LedgerChange
    <3>3. CASE \/ NoEntry(q.id) \/ Resolve(q.id)
               \/ HasEntry(q.id) /\ MarkUnresolved(q.id)
      BY <3>1, <3>3, UpdatedLedger
    <3>4. QED BY <2>2, <3>2, <3>3 DEF Apply
  <2>3. QED
    BY <1>3, <2>1, <2>2
       DEF LoopStep, Connect, StartReconcile, Marked, FinishReconcile, Detach, AskFails, Ask,
           LedgerChange
<1>4. ASSUME \/ Disconnect \/ GameRestart \/ RotateCredential \/ DaemonRestart
             \/ UNCHANGED vars
      PROVE  LedgerChange
  BY <1>4 DEF Disconnect, GameRestart, RotateCredential, DaemonRestart, vars, LedgerChange
<1>5. QED BY <1>1, <1>2, <1>3, <1>4 DEF Next

\* Whatever changes the ledger, it can go back to what the file holds, and
\* neither outgrows the cap.
LEMMA FileStep ==
    ASSUME FileInv, [Next]_vars
    PROVE  LedgerMatchesDisk' /\ CapInv'
<1> USE DEF FileInv, BaseInv, TypeOK
<1>1. LedgerChange
  BY EveryStep
<1>2. CASE UNCHANGED ledger
  BY <1>2 DEF LedgerMatchesDisk, CapInv, WithinCap, Recorded, OnRecord
<1>3. ASSUME NEW id \in Ids, NEW entry \in Entry \cup {None}, Change(id, entry),
             entry = None \/ HasEntry(id) \/ Admissible(id)
      PROVE  LedgerMatchesDisk' /\ CapInv'
  <2>1. LedgerMatchesDisk'
    <3>1. mem = disk /\ disk' = disk /\ mem' = [disk EXCEPT ![id] = entry]
          /\ saving' = {[id |-> id, previous |-> disk[id]]}
      BY <1>3 DEF Change, LedgerMatchesDisk
    <3>2. disk = [[disk EXCEPT ![id] = entry] EXCEPT ![id] = disk[id]]
      OBVIOUS
    <3>3. \A s \in saving' : s.id = id /\ s.previous = disk[id]
      BY <3>1
    <3>4. QED BY <3>1, <3>2, <3>3 DEF LedgerMatchesDisk
  <2>2. OnRecord' = OnRecord /\ Recorded' \subseteq Recorded \cup {id}
    BY <1>3 DEF Change, OnRecord, Recorded
  <2>3. CASE Admissible(id)
    <3>1. IsFiniteSet(Recorded) /\ id \notin Recorded /\ Cardinality(Recorded) < Cap
      BY <2>3, LedgerAssumption, FS_Subset DEF Admissible, Recorded
    <3>2. Cardinality(Recorded \cup {id}) = Cardinality(Recorded) + 1
      BY <3>1, FS_AddElement
    <3>3. Cardinality(Recorded \cup {id}) <= Cap
      BY <3>1, <3>2, FS_CardinalityType, LedgerAssumption
    <3>4. Recorded \cup {id} \in SUBSET Ids /\ Recorded' \in SUBSET (Recorded \cup {id})
      BY <2>2 DEF Recorded
    <3>5. Cardinality(Recorded') <= Cap
      BY <3>3, <3>4, Fewer
    <3>6. QED BY <2>1, <2>2, <3>5 DEF CapInv, WithinCap
  <2>4. CASE entry = None \/ HasEntry(id)
    <3>1. Recorded' \in SUBSET Recorded /\ Recorded \in SUBSET Ids
      BY <1>3, <2>4 DEF Change, HasEntry, Recorded
    <3>2. Cardinality(Recorded') <= Cap
      BY <3>1, Fewer DEF CapInv, WithinCap
    <3>3. QED BY <2>1, <2>2, <3>2 DEF CapInv, WithinCap
  <2>5. QED BY <1>3, <2>3, <2>4
<1>4. CASE Saved
  BY <1>4 DEF Saved, LedgerMatchesDisk, CapInv, WithinCap, Recorded, OnRecord
<1>5. CASE \/ RolledBack
           \/ mem' = disk /\ UNCHANGED disk /\ saving' = {}
  <2>1. mem' = disk /\ disk' = disk /\ saving' = {}
    BY <1>5 DEF RolledBack, LedgerMatchesDisk
  <2>2. QED BY <2>1 DEF LedgerMatchesDisk, CapInv, WithinCap, Recorded, OnRecord
<1>6. QED BY <1>1, <1>2, <1>3, <1>4, <1>5 DEF LedgerChange

\* The empty ledger equals its file and is within the cap.
LEMMA FileInit == Init => LedgerMatchesDisk /\ CapInv
<1> SUFFICES ASSUME Init PROVE LedgerMatchesDisk /\ CapInv
  OBVIOUS
<1>1. Recorded = {} /\ OnRecord = {}
  BY DEF Init, Recorded, OnRecord
<1>2. LedgerMatchesDisk
  BY DEF Init, LedgerMatchesDisk
<1>3. QED BY <1>1, <1>2, FS_EmptySet, LedgerAssumption DEF CapInv, WithinCap

\* Both hold throughout.
LEMMA FileHolds == Spec => []FileInv
<1>1. Init => FileInv
  BY BaseInit, FileInit DEF FileInv
<1>2. FileInv /\ [Next]_vars => FileInv'
  BY BaseStep, FileStep DEF FileInv
<1>3. QED BY <1>1, <1>2, PTL DEF Spec

\* Whoever takes the mutex, or starts after a crash, sees one ledger; during a
\* save what would be put back is what the file holds.
THEOREM FileIsCurrent == Spec => []LedgerMatchesDisk
<1>1. FileInv => LedgerMatchesDisk
  BY DEF FileInv
<1>2. QED BY <1>1, FileHolds, PTL

\* The ledger stays within its admission bound, also when ids are reused while
\* their calls run.
THEOREM LedgerBounded == Spec => []WithinCap
<1>1. FileInv => WithinCap
  BY DEF FileInv, CapInv
<1>2. QED BY <1>1, FileHolds, PTL
-----------------------------------------------------------------------------
(* The write path implements the contract.                                 *)

Kept == [Contract!Next]_(Contract!vars)

\* The empty ledger is a state the contract begins in.
LEMMA ContractInit == Init => Contract!Init
BY LedgerAssumption DEF Init, Contract!Init, OnRecord, MayHaveRun, CanRun

\* A step that touches neither record, requests nor outcomes is a stutter.
LEMMA Stutters ==
    ASSUME UNCHANGED <<disk, known>>, MayHaveRun' = MayHaveRun
    PROVE  Kept
BY DEF Kept, Contract!vars, OnRecord

\* Requests that disappear are an action of the contract.
LEMMA Vanishes ==
    ASSUME UNCHANGED <<disk, known>>, MayHaveRun' \subseteq MayHaveRun,
           MayHaveRun \subseteq Calls
    PROVE  Kept
<1>1. MayHaveRun \ MayHaveRun' \in SUBSET Calls
      /\ MayHaveRun' = MayHaveRun \ (MayHaveRun \ MayHaveRun')
  OBVIOUS
<1>2. OnRecord' = OnRecord
  BY DEF OnRecord
<1>3. \E S \in SUBSET Calls : Contract!Vanish(S)
  BY <1>1, <1>2 DEF Contract!Vanish
<1>4. QED BY <1>3 DEF Kept, Contract!Next

\* A save that succeeds gives up a record only with every outcome known.
LEMMA SaveKeeps ==
    ASSUME IInv, EntryInv', Saved, UNCHANGED <<known, executed, wire, handling, recent>>
    PROVE  Kept
<1> USE DEF IInv
<1>1. PICK s \in saving : /\ s.id \in Ids /\ disk' = mem
                         /\ \A i \in Ids \ {s.id} : disk'[i] = disk[i]
  BY DEF Saved, HolderInv, TypeOK, Changes
<1>2. MayHaveRun' = MayHaveRun
  BY DEF MayHaveRun, CanRun
<1>3. CASE disk'[s.id] # None
  <2>1. OnRecord' = OnRecord \cup {s.id}
    BY <1>1, <1>3 DEF OnRecord
  <2>2. Contract!Claim(s.id)
    BY <1>2, <2>1 DEF Contract!Claim
  <2>3. QED BY <1>1, <2>2 DEF Kept, Contract!Next
<1>4. CASE disk'[s.id] = None
  <2>1. OnRecord' = OnRecord \ {s.id}
    BY <1>1, <1>4 DEF OnRecord
  <2>2. \A c \in MayHaveRun : IdOf[c] = s.id => c \in known
    BY <1>2, <1>4 DEF EntryInv, OwnEntry, Unknown
  <2>3. Contract!Release(s.id)
    BY <1>2, <2>1, <2>2 DEF Contract!Release
  <2>4. QED BY <1>1, <2>3 DEF Kept, Contract!Next
<1>5. QED BY <1>3, <1>4

\* The steps of callWithID are steps of the contract.
LEMMA ContractCall ==
    ASSUME IInv, IInv', NEW c \in Calls, CallStep(c)
    PROVE  Kept
<1> USE LedgerAssumption DEF IInv
<1>1. CASE Admitted(c) \/ Settled(c)
  <2>1. UNCHANGED <<known, executed, wire, handling, recent>>
    BY <1>1 DEF Admitted, Settled
  <2>2. CASE Saved
    BY <2>1, <2>2, SaveKeeps
  <2>3. CASE RolledBack
    BY <2>1, <2>3, Stutters DEF RolledBack, MayHaveRun, CanRun
  <2>4. QED BY <1>1, <2>2, <2>3 DEF Admitted, Settled
<1>2. CASE Send(c)
  <2>1. CASE recent[IdOf[c]] \in Outcomes
    BY <1>2, <2>1, Stutters DEF Send, MayHaveRun, CanRun
  <2>2. CASE recent[IdOf[c]] \notin Outcomes
    <3>1. IdOf[c] \in OnRecord
      BY <1>2, <2>2 DEF Send, EntryInv, OwnEntry, OnRecord, Sends, Alive
    <3>2. MayHaveRun' = MayHaveRun \cup {c}
      BY <1>2, <2>2 DEF Send, MayHaveRun, CanRun
    <3>3. Contract!Begin(c)
      BY <1>2, <3>1, <3>2 DEF Send, Contract!Begin, OnRecord
    <3>4. QED BY <3>3 DEF Kept, Contract!Next
  <2>3. QED BY <2>1, <2>2
<1>3. CASE Answered(c)
  <2>1. PICK S \in SUBSET Calls : known' = known \cup S
    <3>1. known' = known \cup {} \/ known' = known \cup {c}
      BY <1>3 DEF Answered
    <3>2. QED BY <3>1
  <2>2. Contract!Learn(S)
    BY <1>3, <2>1 DEF Answered, Contract!Learn, OnRecord, MayHaveRun, CanRun
  <2>3. QED BY <2>2 DEF Kept, Contract!Next
<1>4. CASE Admit(c) \/ Settle(c)
  BY <1>4, Stutters
     DEF Admit, Settle, NoEntry, Resolve, NoteUnknown, Change, MayHaveRun, CanRun
<1>5. CASE Route(c) \/ Refused(c) \/ NeverSent(c) \/ GiveUp(c)
  BY <1>5, Stutters DEF Route, Refused, NeverSent, GiveUp, MayHaveRun, CanRun
<1>6. QED BY <1>1, <1>2, <1>3, <1>4, <1>5 DEF CallStep

\* The server only lets requests disappear.
LEMMA ContractServer ==
    ASSUME IInv, NEW c \in Calls, ServerStep(c)
    PROVE  Kept
<1> USE LedgerAssumption DEF IInv, TypeOK, MayHaveRun, CanRun, Unknown
<1>1. MayHaveRun \subseteq Calls
  OBVIOUS
<1>2. MayHaveRun' \subseteq MayHaveRun
  <2>1. CASE Receive(c)
    BY <2>1 DEF Receive
  <2>2. CASE Execute(c)
    BY <2>2 DEF Execute, RequestInv
  <2>3. CASE Fail(c)
    BY <2>3 DEF Fail, RequestInv
  <2>4. CASE Drop(c)
    BY <2>4 DEF Drop
  <2>5. QED BY <2>1, <2>2, <2>3, <2>4 DEF ServerStep
<1>3. UNCHANGED <<disk, known>>
  BY DEF ServerStep, Receive, Execute, Fail, Drop
<1>4. QED BY <1>1, <1>2, <1>3, Vanishes

\* The steps of the session loop are steps of the contract.
LEMMA ContractLoop ==
    ASSUME IInv, IInv', LoopStep
    PROVE  Kept
<1> USE DEF IInv
<1>1. MayHaveRun' = MayHaveRun
  BY DEF LoopStep, Connect, StartReconcile, Marked, FinishReconcile, Detach, ReportScope,
         AskFails, Ask, Apply, MayHaveRun, CanRun
<1>2. CASE Marked
  <2>1. UNCHANGED <<known, executed, wire, handling, recent>>
    BY <1>2 DEF Marked
  <2>2. CASE Saved
    BY <2>1, <2>2, SaveKeeps
  <2>3. CASE RolledBack
    BY <1>1, <2>1, <2>3, Stutters DEF RolledBack
  <2>4. QED BY <1>2, <2>2, <2>3 DEF Marked
<1>3. ASSUME NEW e \in todo, ReportScope(e) PROVE Kept
  BY <1>1, <1>3, Stutters DEF ReportScope, NoEntry, MarkUnresolved, Change
<1>4. ASSUME NEW q \in asked, Apply(q) PROVE Kept
  <2>1. disk' = disk
    BY <1>4 DEF Apply, NoEntry, Resolve, MarkUnresolved, Change
  <2>2. PICK S \in SUBSET Calls : known' = known \cup S
    <3>1. executed \subseteq Calls
      BY DEF TypeOK
    <3>2. CASE q.answer \in Outcomes
      BY <1>4, <3>1, <3>2 DEF Apply
    <3>3. CASE q.answer \notin Outcomes
      <4>1. known' = known \cup {}
        BY <1>4, <3>3 DEF Apply
      <4>2. QED BY <4>1
    <3>4. QED BY <3>2, <3>3
  <2>3. Contract!Learn(S)
    BY <1>1, <2>1, <2>2 DEF Contract!Learn, OnRecord
  <2>4. QED BY <2>3 DEF Kept, Contract!Next
<1>5. CASE Connect \/ StartReconcile \/ FinishReconcile \/ Detach
  BY <1>1, <1>5, Stutters DEF Connect, StartReconcile, FinishReconcile, Detach
<1>6. ASSUME NEW e \in todo, AskFails(e) \/ Ask(e) PROVE Kept
  BY <1>1, <1>6, Stutters DEF AskFails, Ask
<1>7. QED BY <1>2, <1>3, <1>4, <1>5, <1>6 DEF LoopStep

\* So are restarts, disconnections and credential changes.
LEMMA ContractRest ==
    ASSUME IInv,
           \/ Disconnect \/ GameRestart \/ RotateCredential \/ DaemonRestart
           \/ UNCHANGED vars
    PROVE  Kept
<1> USE DEF MayHaveRun, CanRun
<1>1. CASE Disconnect \/ RotateCredential
           \/ DaemonRestart \/ UNCHANGED vars
  BY <1>1, Stutters DEF Disconnect, RotateCredential, DaemonRestart, vars
<1>2. CASE GameRestart
  BY <1>2, Vanishes DEF GameRestart, IInv, TypeOK
<1>3. QED BY <1>1, <1>2

\* While no caller reuses an id of a call that has not returned, the write path
\* keeps the promise of WriteContract: a write begins only on record, and a
\* record is given up only with every outcome known.
THEOREM KeepsContract ==
    ASSUME ~ReadmitInFlight
    PROVE  Spec => Implements
<1>1. IInv /\ IInv' /\ [Next]_vars => Kept
  BY ContractCall, ContractServer, ContractLoop, ContractRest DEF Next
<1>2. QED BY <1>1, ContractInit, InvariantHolds, PTL DEF Spec, Implements, Contract!Spec, Kept
-----------------------------------------------------------------------------
(* No id runs twice.                                                       *)

\* An id whose write ran in this run is completed for the server, or its write
\* is one whose outcome is unknown: the turns of TurnInv keep others away.
Ran(c, id) ==
    /\ c \in executed \ known /\ IdOf[c] = id
    /\ connRun[via[c]] = gameRun /\ reply[c] \in {"none", "unsure"}
OnceInv ==
    \A id \in Ids :
        /\ runs[id] <= 1
        /\ runs[id] > 0 /\ recent[id] \notin Outcomes => \E c \in Calls : Ran(c, id)

\* Nothing has run in the beginning.
LEMMA OnceInit == Init => OnceInv
BY DEF Init, OnceInv

\* A step that leaves counts and outcomes alone keeps the witnesses.
LEMMA OnceKept ==
    ASSUME TypeOK, OnceInv, UNCHANGED <<runs, gameRun, executed, known>>,
           \A c \in executed : connRun'[via'[c]] = connRun[via[c]] /\ reply'[c] = reply[c],
           \A id \in Ids : recent[id] \in Outcomes => recent'[id] \in Outcomes
    PROVE  OnceInv'
<1> SUFFICES ASSUME NEW id \in Ids
             PROVE  /\ runs'[id] <= 1
                    /\ runs'[id] > 0 /\ recent'[id] \notin Outcomes
                         => \E c \in Calls : Ran(c, id)'
  BY DEF OnceInv
<1>1. runs[id] <= 1 /\ runs'[id] = runs[id]
  BY DEF OnceInv
<1>2. ASSUME runs'[id] > 0, recent'[id] \notin Outcomes
      PROVE  \E c \in Calls : Ran(c, id)'
  <2>1. PICK c \in Calls : Ran(c, id)
    BY <1>2 DEF OnceInv
  <2>2. Ran(c, id)'
    BY <2>1 DEF Ran
  <2>3. QED BY <2>2
<1>3. QED BY <1>1, <1>2

\* A request that is about to run is the first of its id.
LEMMA FirstRun ==
    ASSUME IInv, OnceInv, NEW c \in handling
    PROVE  IdOf[c] \in Ids /\ runs[IdOf[c]] = 0
<1>1. c \in Calls /\ IdOf[c] \in Ids /\ runs[IdOf[c]] \in Nat
  BY LedgerAssumption DEF IInv, TypeOK
<1>2. recent[IdOf[c]] = "pending"
  BY DEF IInv, RequestInv
<1>3. ~ \E d \in Calls : Ran(d, IdOf[c])
  <2>1. SUFFICES ASSUME NEW d \in Calls, Ran(d, IdOf[c]) PROVE FALSE
    OBVIOUS
  <2>2. d \in Unknown /\ c \in Unknown
    BY <2>1 DEF Ran, Unknown, MayHaveRun, IInv, RequestInv
  <2>3. d = c
    BY <2>1, <2>2 DEF Ran, IInv, TurnInv
  <2>4. QED BY <2>1, <2>3 DEF Ran, IInv, RequestInv
<1>4. QED BY <1>1, <1>2, <1>3 DEF OnceInv

\* A write that runs, with its result kept or not, runs its id once.
LEMMA OnceRun ==
    ASSUME IInv, OnceInv, NEW c \in Calls, Execute(c) \/ Fail(c)
    PROVE  OnceInv'
<1> USE DEF Execute, Fail, Answering
<1>1. c \in handling /\ IdOf[c] \in Ids /\ runs[IdOf[c]] = 0 /\ reply[c] = "none"
      /\ connRun[via[c]] = gameRun /\ c \notin known /\ c \notin executed
  BY FirstRun DEF IInv, RequestInv
<1>2. ASSUME NEW id \in Ids, NEW d \in Calls, Ran(d, id) PROVE Ran(d, id)'
  BY <1>1, <1>2 DEF Ran, IInv, TypeOK
<1>3. ASSUME NEW id \in Ids, id # IdOf[c]
      PROVE  runs'[id] = runs[id] /\ recent'[id] = recent[id]
  BY <1>3 DEF IInv, TypeOK
<1>4. runs'[IdOf[c]] \in {0, 1}
  BY <1>1 DEF IInv, TypeOK
<1>5. runs'[IdOf[c]] > 0 /\ recent'[IdOf[c]] \notin Outcomes => Ran(c, IdOf[c])'
  BY <1>1 DEF Ran, IInv, TypeOK
<1>6. QED BY <1>1, <1>2, <1>3, <1>4, <1>5 DEF OnceInv

\* An outcome that becomes known is that of a completed id, or no write ran.
LEMMA OnceLearned ==
    ASSUME IInv, OnceInv, UNCHANGED <<runs, gameRun, executed, reply, via, connRun, recent>>,
           \A c \in executed \cap (known' \ known) :
               \/ reply[c] \notin {"none", "unsure"}
               \/ connRun[via[c]] = gameRun => recent[IdOf[c]] \in Outcomes
    PROVE  OnceInv'
<1> SUFFICES ASSUME NEW id \in Ids
             PROVE  /\ runs'[id] <= 1
                    /\ runs'[id] > 0 /\ recent'[id] \notin Outcomes
                         => \E c \in Calls : Ran(c, id)'
  BY DEF OnceInv
<1>1. runs[id] <= 1 /\ runs'[id] = runs[id]
  BY DEF OnceInv
<1>2. ASSUME runs'[id] > 0, recent'[id] \notin Outcomes
      PROVE  \E c \in Calls : Ran(c, id)'
  <2>1. PICK c \in Calls : Ran(c, id)
    BY <1>2 DEF OnceInv
  <2>2. Ran(c, id)'
    BY <1>2, <2>1 DEF Ran
  <2>3. QED BY <2>2
<1>3. QED BY <1>1, <1>2

\* Every step keeps the count of runs.
LEMMA OnceStep ==
    ASSUME IInv, OnceInv, [Next]_vars
    PROVE  OnceInv'
<1>1. TypeOK /\ LinkInv
  BY DEF IInv
<1>2. ASSUME NEW c \in Calls, CallStep(c) PROVE OnceInv'
  <2>1. CASE Answered(c)
    BY <2>1, OnceLearned DEF Answered
  <2>2. CASE Route(c)
    <3>1. pc[c] = "idle"
      BY <2>2 DEF Route
    <3>2. \A d \in executed : d # c
      BY <3>1, <1>2 DEF IInv, RequestInv
    <3>3. \A d \in executed : via'[d] = via[d]
      BY <2>2, <3>2, <1>1 DEF Route, TypeOK
    <3>4. QED BY <1>1, <2>2, <3>3, OnceKept DEF Route
  <2>3. CASE ~Answered(c) /\ ~Route(c)
    BY <1>1, <1>2, <2>3, OnceKept
       DEF CallStep, Refused, Admit, Admitted, Send, NeverSent, GiveUp, Settle, Settled
  <2>4. QED BY <2>1, <2>2, <2>3
<1>3. ASSUME NEW c \in Calls, ServerStep(c) PROVE OnceInv'
  <2>1. CASE Receive(c)
    <3>1. \A d \in executed : reply'[d] = reply[d]
      BY <2>1, <1>1 DEF Receive, Answering, IInv, RequestInv, TypeOK
    <3>2. \A id \in Ids : recent[id] \in Outcomes => recent'[id] \in Outcomes
      BY <2>1, <1>1 DEF Receive, TypeOK
    <3>3. QED BY <1>1, <2>1, <3>1, <3>2, OnceKept DEF Receive
  <2>2. CASE Drop(c)
    BY <1>1, <2>2, OnceKept DEF Drop
  <2>3. QED BY <1>3, <2>1, <2>2, OnceRun DEF ServerStep
<1>4. ASSUME LoopStep PROVE OnceInv'
  <2>1. CASE Connect
    <3>1. \A c \in Calls : connRun'[via[c]] = connRun[via[c]]
      BY <2>1, <1>1, LedgerAssumption DEF Connect, LinkInv, TypeOK
    <3>2. QED BY <1>1, <2>1, <3>1, OnceKept DEF Connect, TypeOK
  <2>2. ASSUME NEW q \in asked, Apply(q) PROVE OnceInv'
    <3>1. ASSUME NEW c \in executed, c \in known', c \notin known
          PROVE  connRun[via[c]] = gameRun => recent[IdOf[c]] \in Outcomes
      BY <2>2, <3>1 DEF Apply, IInv, CopyInv
    <3>2. UNCHANGED <<runs, gameRun, executed, reply, via, connRun, recent>>
      BY <2>2 DEF Apply
    <3>3. QED BY <3>1, <3>2, OnceLearned
  <2>3. CASE StartReconcile \/ Marked \/ FinishReconcile \/ Detach
    BY <1>1, <2>3, OnceKept DEF StartReconcile, Marked, FinishReconcile, Detach
  <2>4. ASSUME NEW e \in todo, ReportScope(e) \/ AskFails(e) \/ Ask(e) PROVE OnceInv'
    BY <1>1, <2>4, OnceKept DEF ReportScope, AskFails, Ask
  <2>5. QED BY <1>4, <2>1, <2>2, <2>3, <2>4 DEF LoopStep
<1>5. CASE GameRestart
  BY <1>5 DEF GameRestart, OnceInv
<1>6. CASE Disconnect \/ RotateCredential
           \/ DaemonRestart \/ UNCHANGED vars
  BY <1>1, <1>6, OnceKept DEF Disconnect, RotateCredential, DaemonRestart, vars
<1>7. QED BY <1>2, <1>3, <1>4, <1>5, <1>6 DEF Next

\* While no caller reuses an id of a call that has not returned, one run of the
\* game performs at most one write for it.
THEOREM AtMostOnce ==
    ASSUME ~ReadmitInFlight
    PROVE  Spec => []AtMostOncePerRun
<1>1. IInv /\ OnceInv /\ [Next]_vars => OnceInv'
  BY OnceStep
<1>2. Spec => []OnceInv
  BY <1>1, OnceInit, InvariantHolds, PTL DEF Spec
<1>3. OnceInv => AtMostOncePerRun
  BY DEF OnceInv, AtMostOncePerRun
<1>4. QED BY <1>2, <1>3, PTL
=============================================================================
