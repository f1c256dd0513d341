------------------------ MODULE DaemonProcessProofs ------------------------
(***************************************************************************)
(* Theorems about DaemonProcess for any number of processes, commands and  *)
(* crashes.                                                                *)
(***************************************************************************)
EXTENDS DaemonProcess, FiniteSetTheorems, TLAPS

(* The inductive invariant.                                                *)

Owner == {"run", "stopping", "stuck", "closed", "invalid"}

\* Until two meet there, at most one process is at a delicate place.
DelicateInv == ~raced =>
    \A d, o \in Daemons : pc[d] \in Delicate /\ pc[o] \in Delicate => d = o

\* The file names a daemon that has written it; it names the one that serves, or
\* still has to remove it.
FileInv ==
    /\ file # NoDaemon => pc[file] \in Owner \cup {"exited", "failed"}
    /\ Calm => \A d \in Daemons : pc[d] \in Owner => file = d

\* A daemon that starts dials whom the file names; one that has got past the check
\* starts alone.
StartInv == Calm => \A d \in Daemons :
    /\ pc[d] \in {"dial", "hung"} => found[d] = file
    /\ pc[d] \in {"remove", "bind", "save"} =>
          \A o \in Daemons : pc[o] \notin {"run", "stopping", "stuck"}

\* With a fixed address one process at a time listens.
AddressInv == fixed => \A d, o \in Daemons : Serving(d) /\ Serving(o) => d = o

\* Whom a command has asked had written its file, and is on its way out when the
\* command says so.
AskedInv == \A s \in Stops :
    /\ command[s] \in {"waits", "stopped", "stopping"} =>
          asked[s] \in Daemons /\ pc[asked[s]] \in {"run", "stopping", "stuck", "closed", "exited"}
    /\ Calm /\ command[s] = "stopped" => pc[asked[s]] = "exited"

IInv == TypeOK /\ DelicateInv /\ FileInv /\ StartInv /\ AddressInv /\ AskedInv
-----------------------------------------------------------------------------
Pcs == Delicate \cup {"off", "run", "stopping", "stuck", "exited", "failed"}

\* What a step to another place says of races: there has been none before, and the
\* process is alone at a delicate place.
LEMMA Alone ==
    ASSUME NEW d \in Daemons, NEW place, Goto(d, place), ~raced'
    PROVE  /\ ~raced
           /\ place \in Delicate => \A o \in Daemons : o # d => pc[o] \notin Delicate
BY DEF Goto

\* A process that is at a place, and the others where they were.
LEMMA Moved ==
    ASSUME TypeOK, NEW d \in Daemons, NEW place \in Pcs, Goto(d, place)
    PROVE  /\ pc' \in [Daemons -> Pcs] /\ pc'[d] = place
           /\ \A o \in Daemons : o # d => pc'[o] = pc[o]
           /\ raced' \in BOOLEAN
<1>1. pc' = [pc EXCEPT ![d] = place] /\ pc \in [Daemons -> Pcs]
  BY DEF Goto, TypeOK, Pcs
<1>2. raced' \in BOOLEAN
  BY DEF Goto
<1>3. QED BY <1>1, <1>2

\* A step of one process, which goes from one place to another and may write or
\* remove the file.
Step(d, place) ==
    /\ d \in Daemons /\ place \in Pcs /\ Goto(d, place)
    /\ UNCHANGED <<fixed, told, command, asked>>

\* The places a process can go to from each.
LEMMA Steps ==
    ASSUME TypeOK, NEW d \in Daemons, Launch(d) \/ Run(d) \/ Hang(d) \/ Crash(d)
    PROVE  \E place \in Pcs : Step(d, place)
<1> USE DEF Step, Pcs, Delicate
<1>1. CASE Launch(d)
  BY <1>1 DEF Launch
<1>2. CASE CheckFile(d)
  BY <1>2 DEF CheckFile
<1>3. CASE DialFound(d)
  BY <1>3 DEF DialFound
<1>4. CASE RemoveStale(d)
  BY <1>4 DEF RemoveStale
<1>5. CASE Bind(d)
  BY <1>5 DEF Bind
<1>6. CASE Save(d)
  BY <1>6 DEF Save
<1>7. CASE Shutdown(d)
  BY <1>7 DEF Shutdown
<1>8. CASE Crash(d)
  BY <1>8 DEF Crash
<1>9. CASE DialHangs(d)
  BY <1>9 DEF DialHangs
<1>10. CASE CloseHangs(d)
  BY <1>10 DEF CloseHangs
<1>11. QED BY <1>1, <1>2, <1>3, <1>4, <1>5, <1>6, <1>7, <1>8, <1>9, <1>10 DEF Run, Hang

\* What has misled somebody stays so.
LEMMA Misled ==
    ASSUME TypeOK, NEW d \in Daemons, Launch(d) \/ Run(d) \/ Hang(d) \/ Crash(d)
    PROVE  misled' \in BOOLEAN /\ (~misled' => ~misled)
<1>1. misled' = misled \/ misled' = TRUE
  BY DEF Launch, Run, CheckFile, DialFound, RemoveStale, Bind, Save, Shutdown, Crash,
         Hang, DialHangs, CloseHangs
<1>2. QED BY <1>1 DEF TypeOK

\* Types: in particular a process that dials has somebody to dial.
LEMMA TypesStep == TypeOK /\ [Next]_vars => TypeOK'
<1> SUFFICES ASSUME TypeOK, [Next]_vars PROVE TypeOK'
  OBVIOUS
<1> USE ProcessAssumption
<1>1. ASSUME NEW d \in Daemons, Launch(d) \/ Run(d) \/ Hang(d) \/ Crash(d) PROVE TypeOK'
  <2>1. PICK place \in Pcs : Step(d, place)
    BY <1>1, Steps
  <2>2. /\ pc' \in [Daemons -> Pcs] /\ raced' \in BOOLEAN /\ pc'[d] = place
        /\ \A o \in Daemons : o # d => pc'[o] = pc[o]
    BY <2>1, Moved DEF Step
  <2>3. fixed' \in BOOLEAN /\ told' \subseteq Daemons
    BY <2>1 DEF Step, TypeOK
  <2>4. /\ command' \in [Stops -> {"ready", "waits", "error", "stopped", "stopping"}]
        /\ asked' \in [Stops -> Daemons \cup {NoDaemon}]
    BY <2>1 DEF Step, TypeOK
  <2>5. file' \in Daemons \cup {NoDaemon}
    BY <1>1 DEF Launch, Run, CheckFile, DialFound, RemoveStale, Bind, Save, Shutdown, Crash,
                Hang, DialHangs, CloseHangs, TypeOK
  <2>6. killed' \subseteq Daemons
    BY <1>1 DEF Launch, Run, CheckFile, DialFound, RemoveStale, Bind, Save, Shutdown, Crash,
                Hang, DialHangs, CloseHangs, TypeOK
  <2>9. misled' \in BOOLEAN
    BY <1>1, Misled
  <2>7. /\ found' \in [Daemons -> Daemons \cup {NoDaemon}]
        /\ \A o \in Daemons : pc'[o] \in {"dial", "hung", "remove"} => found'[o] # NoDaemon
    <3>1. CASE CheckFile(d)
      <4>1. \/ pc'[d] = "bind" /\ found' = found
            \/ pc'[d] = "dial" /\ file # NoDaemon /\ found' = [found EXCEPT ![d] = file]
        BY <3>1 DEF CheckFile, Goto, TypeOK
      <4>2. QED BY <2>2, <4>1 DEF TypeOK
    <3>2. CASE DialFound(d) \/ DialHangs(d)
      BY <2>2, <3>2 DEF DialFound, DialHangs, TypeOK
    <3>3. CASE ~CheckFile(d) /\ ~DialFound(d) /\ ~DialHangs(d)
      <4>1. pc'[d] \notin {"dial", "hung", "remove"} /\ UNCHANGED found
        BY <1>1, <3>3 DEF Launch, Run, RemoveStale, Bind, Save, Shutdown, Crash, Hang, CloseHangs,
                          Goto, TypeOK
      <4>2. QED BY <2>2, <4>1 DEF TypeOK
    <3>4. QED BY <3>1, <3>2, <3>3
  <2>8. QED BY <2>2, <2>3, <2>4, <2>5, <2>6, <2>7, <2>9 DEF TypeOK, Pcs
<1>2. ASSUME NEW s \in Stops, AskStop(s) PROVE TypeOK'
  BY <1>2, ZenonT(40) DEF AskStop, TypeOK
<1>3. ASSUME NEW s \in Stops, StopReturns(s) PROVE TypeOK'
  BY <1>3 DEF StopReturns, TypeOK
<1>4. CASE UNCHANGED vars
  BY <1>4 DEF vars, TypeOK
<1>5. QED BY <1>1, <1>2, <1>3, <1>4 DEF Next

\* The invariant holds of the initial state.
LEMMA InvInit == Init => IInv
<1> SUFFICES ASSUME Init PROVE IInv
  OBVIOUS
<1>1. fixed \in BOOLEAN /\ raced \in BOOLEAN /\ misled \in BOOLEAN
  BY DEF Init
<1>2. TypeOK
  BY <1>1 DEF Init, TypeOK
<1>3. DelicateInv /\ FileInv /\ StartInv /\ AddressInv /\ AskedInv
  BY DEF Init, DelicateInv, FileInv, StartInv, AddressInv, AskedInv, Delicate, Owner, Serving
<1>4. QED BY <1>2, <1>3 DEF IInv

\* Every variable stays in its range, and a process that dials or takes a file
\* for stale has read the name of a daemon from it.
THEOREM DaemonTypes == Spec => []TypeOK
<1>1. Init => TypeOK
  BY InvInit DEF IInv
<1>2. QED BY <1>1, TypesStep, PTL DEF Spec
-----------------------------------------------------------------------------
(* The steps of a process keep the parts of the invariant.                 *)

\* Without a race a process goes to a delicate place only if no other is at one.
LEMMA DelicateStep ==
    ASSUME TypeOK, DelicateInv, NEW d \in Daemons, Launch(d) \/ Run(d) \/ Hang(d) \/ Crash(d)
    PROVE  DelicateInv'
<1>1. PICK place \in Pcs : Step(d, place)
  BY Steps
<1>2. /\ pc'[d] = place
      /\ \A o \in Daemons : o # d => pc'[o] = pc[o]
  BY <1>1, Moved DEF Step
<1>3. ~raced' => ~raced /\ (place \in Delicate => \A o \in Daemons : o # d => pc[o] \notin Delicate)
  BY <1>1, Alone DEF Step
<1>4. QED BY <1>2, <1>3 DEF DelicateInv

\* The file is written by the process that serves next, and removed by one that
\* owns it or has found that nobody serves.
LEMMA FileStep ==
    ASSUME IInv, NEW d \in Daemons, Launch(d) \/ Run(d) \/ Hang(d) \/ Crash(d)
    PROVE  FileInv'
<1> USE ProcessAssumption DEF IInv
<1>1. PICK place \in Pcs : Step(d, place)
  BY Steps
<1>2. /\ pc'[d] = place
      /\ \A o \in Daemons : o # d => pc'[o] = pc[o]
  BY <1>1, Moved DEF Step
<1>3. Calm' => Calm
  BY <1>1, Alone, Misled DEF Step, Calm
<1>a. Calm => ~raced
  BY DEF Calm
<1>4. file \in Daemons \cup {NoDaemon}
  BY DEF TypeOK
<1>5. ASSUME UNCHANGED file, pc[d] \notin Owner, place \notin Owner,
             file = d => place \in Owner \cup {"exited", "failed"}
      PROVE  FileInv'
  BY <1>2, <1>3, <1>4, <1>5 DEF FileInv
<1>6. file = d => pc[d] \in Owner \cup {"exited", "failed"}
  BY DEF FileInv
<1>7. CASE Launch(d)
  BY <1>2, <1>5, <1>6, <1>7 DEF Launch, Goto, Owner, TypeOK
<1>8. CASE CheckFile(d) \/ DialFound(d) \/ DialHangs(d) \/ Bind(d)
  <2>1. /\ pc[d] \in {"check", "dial", "hung", "bind"}
        /\ place \in {"bind", "dial", "hung", "exited", "remove", "failed", "save"}
    BY <1>2, <1>8 DEF CheckFile, DialFound, DialHangs, Bind, Goto, TypeOK
  <2>2. UNCHANGED file
    BY <1>8 DEF CheckFile, DialFound, DialHangs, Bind
  <2>3. QED BY <1>5, <1>6, <2>1, <2>2 DEF Owner
<1>9. CASE RemoveStale(d)
  <2>1. pc[d] = "remove" /\ place = "bind" /\ file' = NoDaemon
    BY <1>2, <1>9 DEF RemoveStale, Goto, TypeOK
  <2>2. Calm => \A o \in Daemons : o # d => pc[o] \notin Owner
    BY <1>a, <2>1 DEF StartInv, DelicateInv, Delicate, Owner
  <2>3. QED BY <1>2, <1>3, <2>1, <2>2 DEF FileInv, Owner
<1>10. CASE Save(d)
  <2>1. pc[d] = "save"
    BY <1>10 DEF Save
  <2>2. Calm => \A o \in Daemons : o # d => pc[o] \notin Owner
    BY <1>a, <2>1 DEF StartInv, DelicateInv, Delicate, Owner
  <2>3. CASE file' = d /\ place \in {"run", "invalid"}
    BY <1>2, <1>3, <2>2, <2>3 DEF FileInv, Owner
  <2>4. CASE UNCHANGED file /\ place = "failed"
    BY <1>5, <2>1, <2>4 DEF Owner
  <2>5. QED BY <1>2, <1>10, <2>3, <2>4 DEF Save, Goto, TypeOK
<1>11. CASE Shutdown(d)
  <2>1. CASE pc[d] \in {"run", "stopping"} /\ place \in {"stopping", "closed"} /\ UNCHANGED file
    BY <1>2, <1>3, <1>4, <2>1 DEF FileInv, Owner
  <2>2. CASE pc[d] \in {"closed", "invalid"} /\ place = "exited" /\ file' = NoDaemon
    BY <1>2, <1>3, <2>2 DEF FileInv, Owner
  <2>3. QED BY <1>2, <1>11, <2>1, <2>2 DEF Shutdown, Goto, TypeOK
<1>12. CASE Crash(d)
  <2>1. place = "exited" /\ UNCHANGED file
    BY <1>2, <1>12 DEF Crash, Goto, TypeOK
  <2>2. QED BY <1>2, <1>3, <1>4, <2>1 DEF FileInv, Owner
<1>13. CASE CloseHangs(d)
  <2>1. pc[d] = "stopping" /\ place = "stuck" /\ UNCHANGED file
    BY <1>2, <1>13 DEF CloseHangs, Goto, TypeOK
  <2>2. QED BY <1>2, <1>3, <1>4, <2>1 DEF FileInv, Owner
<1>14. QED BY <1>7, <1>8, <1>9, <1>10, <1>11, <1>12, <1>13 DEF Run, Hang

\* A process gets past the check only when the file names nobody who serves, and
\* nobody begins to serve meanwhile.
LEMMA StartStep ==
    ASSUME IInv, NEW d \in Daemons, Launch(d) \/ Run(d) \/ Hang(d) \/ Crash(d)
    PROVE  StartInv'
<1> USE ProcessAssumption DEF IInv
<1>1. PICK place \in Pcs : Step(d, place)
  BY Steps
<1>2. /\ pc'[d] = place
      /\ \A o \in Daemons : o # d => pc'[o] = pc[o]
  BY <1>1, Moved DEF Step
<1> SUFFICES ASSUME Calm',
                    NEW e \in Daemons
             PROVE  /\ pc'[e] \in {"dial", "hung"} => found'[e] = file'
                    /\ pc'[e] \in {"remove", "bind", "save"} =>
                          \A o \in Daemons : pc'[o] \notin {"run", "stopping", "stuck"}
  BY DEF StartInv
<1>3. /\ Calm /\ ~raced /\ ~misled'
      /\ place \in Delicate => \A o \in Daemons : o # d => pc[o] \notin Delicate
  BY <1>1, Alone, Misled DEF Step, Calm
<1>4. \A o \in Daemons : pc[o] \in Owner => file = o
  BY <1>3 DEF FileInv
<1>5. ASSUME pc[d] \in Delicate, e # d PROVE pc'[e] \notin {"dial", "hung", "remove", "bind", "save"}
  BY <1>2, <1>3, <1>5 DEF DelicateInv, Delicate
<1>6. CASE Launch(d)
  <2>1. place = "check" /\ UNCHANGED <<file, found>>
    BY <1>2, <1>6 DEF Launch, Goto, TypeOK
  <2>2. QED BY <1>2, <1>3, <2>1 DEF StartInv
<1>7. CASE CheckFile(d)
  <2>1. /\ pc[d] = "check" /\ file' = file
        /\ \/ place = "bind" /\ file = NoDaemon
           \/ place = "dial" /\ found' = [found EXCEPT ![d] = file]
    BY <1>2, <1>3, <1>7 DEF CheckFile, Goto, TypeOK
  <2>2. CASE e = d
    <3>1. place = "dial" => found'[d] = file
      BY <2>1 DEF TypeOK
    <3>2. ASSUME place = "bind", NEW o \in Daemons
          PROVE  pc'[o] \notin {"run", "stopping", "stuck"}
      BY <1>2, <1>4, <2>1, <3>2 DEF Owner
    <3>3. QED BY <1>2, <2>1, <2>2, <3>1, <3>2
  <2>3. CASE e # d
    BY <1>5, <2>1, <2>3 DEF Delicate
  <2>4. QED BY <2>2, <2>3
<1>8. CASE DialFound(d)
  <2>1. /\ pc[d] \in {"dial", "hung"} /\ found[d] = file
        /\ \/ place = "exited"
           \/ place = "remove" /\ ~Serving(found[d])
    BY <1>2, <1>3, <1>8 DEF DialFound, Goto, TypeOK, StartInv
  <2>2. CASE e = d
    <3>1. ASSUME place = "remove", NEW o \in Daemons
          PROVE  pc'[o] \notin {"run", "stopping", "stuck"}
      BY <1>2, <1>4, <2>1, <3>1 DEF Owner, Serving
    <3>2. QED BY <1>2, <2>1, <2>2, <3>1
  <2>3. CASE e # d
    BY <1>5, <2>1, <2>3 DEF Delicate
  <2>4. QED BY <2>2, <2>3
<1>9. CASE RemoveStale(d) \/ Bind(d)
  <2>1. pc[d] \in {"remove", "bind"} /\ place \in {"bind", "failed", "exited", "save"}
    BY <1>2, <1>9 DEF RemoveStale, Bind, Goto, TypeOK
  <2>2. CASE e = d
    BY <1>2, <1>3, <2>1, <2>2 DEF StartInv
  <2>3. CASE e # d
    BY <1>5, <2>1, <2>3 DEF Delicate
  <2>4. QED BY <2>2, <2>3
<1>10. CASE Save(d)
  <2>1. pc[d] = "save" /\ place \in {"run", "invalid", "failed"}
    BY <1>2, <1>10 DEF Save, Goto, TypeOK
  <2>2. CASE e = d
    BY <1>2, <2>1, <2>2
  <2>3. CASE e # d
    BY <1>5, <2>1, <2>3 DEF Delicate
  <2>4. QED BY <2>2, <2>3
<1>11. CASE Shutdown(d)
  <2>1. CASE /\ pc[d] = "run" /\ place = "stopping" /\ UNCHANGED <<file, found>>
    BY <1>2, <1>3, <2>1 DEF StartInv
  <2>2. CASE pc[d] = "stopping" /\ place = "closed"
    <3>1. e # d => pc'[e] \notin {"dial", "hung", "remove", "bind", "save"}
      BY <1>2, <1>3, <2>2 DEF Delicate
    <3>2. QED BY <1>2, <2>2, <3>1
  <2>3. CASE pc[d] \in {"closed", "invalid"} /\ place = "exited"
    <3>1. CASE e = d
      BY <1>2, <2>3, <3>1
    <3>2. CASE e # d
      BY <1>5, <2>3, <3>2 DEF Delicate
    <3>3. QED BY <3>1, <3>2
  <2>4. QED BY <1>2, <1>11, <2>1, <2>2, <2>3 DEF Shutdown, Goto, TypeOK
<1>12. CASE Crash(d)
  <2>1. place = "exited" /\ UNCHANGED <<file, found>>
    BY <1>2, <1>12 DEF Crash, Goto, TypeOK
  <2>2. QED BY <1>2, <1>3, <2>1 DEF StartInv
<1>13. CASE DialHangs(d)
  <2>1. pc[d] = "dial" /\ place = "hung" /\ UNCHANGED <<file, found>>
    BY <1>2, <1>13 DEF DialHangs, Goto, TypeOK
  <2>2. CASE e = d
    BY <1>2, <1>3, <2>1, <2>2 DEF StartInv
  <2>3. CASE e # d
    BY <1>5, <2>1, <2>3 DEF Delicate
  <2>4. QED BY <2>2, <2>3
<1>14. CASE CloseHangs(d)
  <2>1. pc[d] = "stopping" /\ place = "stuck" /\ UNCHANGED <<file, found>>
    BY <1>2, <1>14 DEF CloseHangs, Goto, TypeOK
  <2>2. QED BY <1>2, <1>3, <2>1 DEF StartInv
<1>15. QED BY <1>6, <1>7, <1>8, <1>9, <1>10, <1>11, <1>12, <1>13, <1>14 DEF Run, Hang

\* A process listens at the fixed address only when nobody does.
LEMMA AddressStep ==
    ASSUME TypeOK, AddressInv, NEW d \in Daemons, Launch(d) \/ Run(d) \/ Hang(d) \/ Crash(d)
    PROVE  AddressInv'
<1>1. PICK place \in Pcs : Step(d, place)
  BY Steps
<1>2. /\ pc'[d] = place /\ fixed' = fixed
      /\ \A o \in Daemons : o # d => pc'[o] = pc[o]
  BY <1>1, Moved DEF Step
<1>3. CASE Bind(d)
  <2>1. fixed /\ place = "save" => \A o \in Daemons : ~Serving(o)
    BY <1>2, <1>3 DEF Bind, Goto, TypeOK
  <2>2. place \in {"save", "failed", "exited"}
    BY <1>2, <1>3 DEF Bind, Goto, TypeOK
  <2>3. QED BY <1>2, <2>1, <2>2 DEF AddressInv, Serving
<1>4. CASE ~Bind(d)
  <2>1. place \in {"save", "run", "stopping", "stuck"} => pc[d] \in {"save", "run", "stopping"}
    BY <1>2, <1>4 DEF Launch, Run, CheckFile, DialFound, RemoveStale, Save, Shutdown, Crash,
                      Hang, DialHangs, CloseHangs, Goto, TypeOK
  <2>2. QED BY <1>2, <2>1 DEF AddressInv, Serving
<1>5. QED BY <1>3, <1>4

\* Who was asked goes nowhere but out.
LEMMA AskedStep ==
    ASSUME TypeOK, AskedInv, NEW d \in Daemons, Launch(d) \/ Run(d) \/ Hang(d) \/ Crash(d)
    PROVE  AskedInv'
<1>1. PICK place \in Pcs : Step(d, place)
  BY Steps
<1>2. /\ pc'[d] = place /\ command' = command /\ asked' = asked
      /\ \A o \in Daemons : o # d => pc'[o] = pc[o]
  BY <1>1, Moved DEF Step
<1>3. Calm' => Calm
  BY <1>1, Alone, Misled DEF Step, Calm
<1>4. pc[d] # "exited"
  BY DEF Launch, Run, CheckFile, DialFound, RemoveStale, Bind, Save, Shutdown, Crash,
         Hang, DialHangs, CloseHangs
<1>5. pc[d] \in {"run", "stopping", "stuck", "closed"} =>
         place \in {"stopping", "stuck", "closed", "exited"}
  BY <1>2 DEF Launch, Run, CheckFile, DialFound, RemoveStale, Bind, Save, Shutdown, Crash,
              Hang, DialHangs, CloseHangs, Goto, TypeOK
<1>6. QED BY <1>2, <1>3, <1>4, <1>5 DEF AskedInv
-----------------------------------------------------------------------------
(* The commands, and the invariant.                                        *)

\* The commands touch neither processes nor the file; a daemon is asked that has
\* written its file, and when the file has gone so has the daemon.
LEMMA CommandStep ==
    ASSUME IInv, NEW s \in Stops, AskStop(s) \/ StopReturns(s)
    PROVE  AskedInv' /\ UNCHANGED <<fixed, file, pc, found, raced>> /\ (Calm' => Calm)
<1> USE ProcessAssumption DEF IInv
<1>1. UNCHANGED <<fixed, file, pc, found, raced>>
  BY DEF AskStop, StopReturns
<1>2. CASE AskStop(s)
  <2>1. CASE /\ file # NoDaemon /\ Serving(file)
             /\ command' = [command EXCEPT ![s] = "waits"]
             /\ asked' = [asked EXCEPT ![s] = file]
    <3>1. file \in Daemons /\ pc[file] \in {"run", "stopping", "stuck"}
      BY <2>1 DEF TypeOK, FileInv, Owner, Serving
    <3>2. misled' = misled
      BY <1>2 DEF AskStop
    <3>3. QED BY <1>1, <2>1, <3>1, <3>2 DEF AskedInv, TypeOK, Calm
  <2>2. CASE command' = [command EXCEPT ![s] = "error"] /\ UNCHANGED asked
    <3>1. misled' = misled
      BY <1>2 DEF AskStop
    <3>2. QED BY <1>1, <2>2, <3>1 DEF AskedInv, TypeOK, Calm
  <2>3. QED BY <1>2, <2>1, <2>2 DEF AskStop
<1>3. CASE StopReturns(s)
  <2>1. /\ command[s] = "waits" /\ UNCHANGED asked
        /\ misled' = misled \/ misled' = TRUE
    BY <1>3 DEF StopReturns
  <2>2. Calm' => Calm
    BY <1>1, <2>1 DEF Calm
  <2>3. CASE file = NoDaemon /\ command' = [command EXCEPT ![s] = "stopped"]
    <3>1. Calm => pc[asked[s]] = "exited"
      BY <2>1, <2>3 DEF AskedInv, FileInv, Owner
    <3>2. QED BY <1>1, <2>1, <2>2, <2>3, <3>1 DEF AskedInv, TypeOK
  <2>4. CASE misled' = TRUE /\ command' = [command EXCEPT ![s] = "stopped"]
    <3>1. ~Calm'
      BY <2>4 DEF Calm
    <3>2. QED BY <1>1, <2>1, <2>2, <2>4, <3>1 DEF AskedInv, TypeOK
  <2>5. CASE command' = [command EXCEPT ![s] = "stopping"]
    BY <1>1, <2>1, <2>2, <2>5 DEF AskedInv, TypeOK
  <2>6. QED BY <1>3, <2>3, <2>4, <2>5 DEF StopReturns
<1>4. QED BY <1>1, <1>2, <1>3

\* Every step keeps the invariant ...
LEMMA InvStep == IInv /\ [Next]_vars => IInv'
<1> SUFFICES ASSUME IInv, [Next]_vars PROVE IInv'
  OBVIOUS
<1>1. TypeOK'
  BY TypesStep DEF IInv
<1>2. ASSUME NEW d \in Daemons, Launch(d) \/ Run(d) \/ Hang(d) \/ Crash(d) PROVE IInv'
  BY <1>1, <1>2, DelicateStep, FileStep, StartStep, AddressStep, AskedStep DEF IInv
<1>3. ASSUME UNCHANGED <<fixed, file, pc, found, raced>>, Calm' => Calm
      PROVE  DelicateInv' /\ FileInv' /\ StartInv' /\ AddressInv'
  BY <1>3 DEF IInv, DelicateInv, FileInv, StartInv, AddressInv, Serving
<1>4. ASSUME NEW s \in Stops, AskStop(s) \/ StopReturns(s) PROVE IInv'
  BY <1>1, <1>3, <1>4, CommandStep DEF IInv
<1>5. CASE UNCHANGED vars
  <2>1. Calm' = Calm
    BY <1>5 DEF vars, Calm
  <2>2. QED BY <1>1, <1>3, <1>5, <2>1 DEF vars, IInv, AskedInv
<1>6. QED BY <1>2, <1>4, <1>5 DEF Next

\* ... which therefore holds throughout.
LEMMA InvHolds == Spec => []IInv
BY InvInit, InvStep, PTL DEF Spec
-----------------------------------------------------------------------------
(* The properties.                                                         *)

\* Two processes that listen are one, when all is calm or with a fixed address.
LEMMA OneServes ==
    ASSUME IInv, fixed \/ Calm, NEW d \in Daemons, NEW o \in Daemons,
           Serving(d), Serving(o)
    PROVE  d = o
<1>1. CASE fixed
  BY <1>1 DEF IInv, AddressInv
<1>2. CASE Calm
  BY <1>2 DEF Calm, IInv, DelicateInv, Delicate, StartInv, FileInv, Owner, Serving
<1>3. QED BY <1>1, <1>2

\* Through starts, stops and crashes in any order: at most one daemon serves the
\* home, and the file names it, as long as no two processes start or end at once,
\* no file that is there fails to be read and no daemon that serves to answer; with a
\* fixed address at most one serves even then.
THEOREM OneDaemonServes == Spec => []OneDaemonFound
<1>1. ASSUME IInv PROVE OneDaemonFound
  <2>1. FileNamesIt
    BY <1>1 DEF IInv, FileInv, Owner, FileNamesIt
  <2>2. ASSUME fixed \/ Calm PROVE Cardinality({d \in Daemons : Serving(d)}) <= 1
    <3> DEFINE S == {d \in Daemons : Serving(d)}
    <3>1. CASE S = {}
      BY <3>1, FS_EmptySet
    <3>2. CASE S # {}
      <4>1. PICK d : S = {d}
        BY <1>1, <2>2, <3>2, OneServes
      <4>2. QED BY <4>1, FS_Singleton
    <3>3. QED BY <3>1, <3>2
  <2>3. QED BY <2>1, <2>2 DEF OneDaemonFound, OneDaemon
<1>2. QED BY <1>1, InvHolds, PTL

\* On the same conditions `daemon stop' never says that a daemon has stopped which
\* still runs.
THEOREM StopIsTrue == Spec => []StopTellsTheTruth
<1>1. IInv => StopTellsTheTruth
  BY DEF IInv, AskedInv, StopTellsTheTruth
<1>2. QED BY <1>1, InvHolds, PTL
=============================================================================
