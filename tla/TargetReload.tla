---------------------------- MODULE TargetReload ----------------------------
(***************************************************************************)
(* The targets of a running daemon: `target add', `remove', `use' and      *)
(* `reload' edit targets.json and ask the daemon to read it                *)
(* (src/go/internal/cli/cli.go, config/config.go); the daemon stops the    *)
(* session loops of all targets and starts new ones (reloadTargets in      *)
(* daemon/handlers.go, startAllSessions, stop and shutdown in              *)
(* daemon/daemon.go).  It begins when the local API listens and Run has    *)
(* still to start the first sessions.  What a loop does with its link is   *)
(* TargetSession, and why a link may never close LegacyClient.             *)
(***************************************************************************)
EXTENDS Integers, FiniteSets

CONSTANTS
    Names,          \* target names
    Configured,     \* the targets that there are at first
    Commands,       \* target commands, each run once; also the definitions they write
    Run,            \* one of them: not a command, but Run, which starts the first sessions
    Original,       \* the definition a target has at first
    Ids,            \* bound: session loops
    None            \* no target, no name, no loop, nobody

ASSUME ReloadAssumption ==
    /\ Configured \subseteq Names
    /\ IsFiniteSet(Names) /\ IsFiniteSet(Commands) /\ IsFiniteSet(Ids)
    /\ Run \in Commands /\ Cardinality(Ids) >= Cardinality(Names) * Cardinality(Commands)
    /\ None \notin Names \cup Commands \cup Ids \cup {Original} /\ Original \notin Commands
    /\ "shutdown" \notin Commands \cup {None}

VARIABLES
    file,           \* targets.json
    targets,        \* d.targets
    sessions,       \* d.sessions
    loops,          \* the loop goroutines
    holder,         \* who has sessionsMu: a reload, "shutdown" or None
    left, joining,  \* the sessions that the holder has still to stop, and the one it waits for
    closing,        \* it waits for the adapter of that session to close
    at, doc,        \* where each command and its reload are, and the document in their hands
    daemon,         \* "run", "stop" (stopCh is closed), "unlocked", "returned"
    overlapped,     \* two commands have been under way at once
    unread,         \* the last reload could not read the file
    late            \* a join has timed out

vars == <<file, targets, sessions, loops, holder, left, joining, closing, at, doc, daemon,
          overlapped, unread, late>>
locking == <<holder, left, joining, closing>>
flags == <<overlapped, unread, late>>

\* A document tells who wrote the definition of each target; which of them is the
\* default concerns no session.
Documents == [Names -> Commands \cup {Original, None}]
Listed(document) == {n \in Names : document[n] # None}
NoDocument == [n \in Names |-> None]
Ended == [name |-> None, as |-> None, state |-> "ended", told |-> FALSE]

\* A loop goroutine for each of these, under numbers that nobody uses.
Numbers(names) ==
    CHOOSE number \in [names -> {i \in Ids : loops[i] = Ended /\ \A n \in Names : sessions[n] # i}] :
       \A m, n \in names : number[m] = number[n] => m = n

Init ==
    /\ file = [n \in Names |-> IF n \in Configured THEN Original ELSE None]
    /\ targets = file
    /\ sessions = [n \in Names |-> None] /\ loops = [i \in Ids |-> Ended]
    /\ holder = None /\ left = {} /\ joining = None /\ closing = FALSE
    /\ at = [c \in Commands |-> IF c = Run THEN "snapshot" ELSE "ready"]
    /\ doc = [c \in Commands |-> NoDocument]
    /\ daemon = "run" /\ overlapped = FALSE /\ unread = FALSE /\ late = FALSE

Underway(c) == at[c] \notin {"ready", "done"}
Goto(c, place) == at' = [at EXCEPT ![c] = place]
-----------------------------------------------------------------------------
(* The commands: load, edit, save, and ask a daemon that runs to reload.   *)

LoadTargets(c) ==
    /\ at[c] = "ready"
    /\ \/ Goto(c, "edit") /\ doc' = [doc EXCEPT ![c] = file]
       \/ Goto(c, "call") /\ UNCHANGED doc
    /\ overlapped' = (overlapped \/ \E o \in Commands \ {c} : Underway(o))
    /\ UNCHANGED <<file, targets, sessions, loops, locking, daemon, unread, late>>

\* `target add', a new target or with --force another definition, or `target
\* remove': save the edited document.  `target use' asks nothing of the daemon, an
\* edit is refused, or the file cannot be written.
Save(c) ==
    /\ at[c] = "edit"
    /\ \/ /\ \E n \in Names :
             \/ file' = [doc[c] EXCEPT ![n] = c]
             \/ n \in Listed(doc[c]) /\ file' = [doc[c] EXCEPT ![n] = None]
          /\ Goto(c, "call")
       \/ file' \in {file, doc[c]} /\ Goto(c, "done")
    /\ doc' = [doc EXCEPT ![c] = NoDocument]
    /\ UNCHANGED <<targets, sessions, loops, locking, daemon, flags>>

\* No daemon answers: the file is all there is.
NoDaemon(c) ==
    /\ at[c] = "call" /\ daemon = "returned" /\ Goto(c, "done")
    /\ UNCHANGED <<file, targets, sessions, loops, locking, doc, daemon, flags>>
-----------------------------------------------------------------------------
(* reloadTargets, in a goroutine of the local API; it outlives the API.  A  *)
(* file that cannot be read leaves the sessions as they are, and so does a  *)
(* daemon that is not reached.  A mutant reads nothing.                     *)

ReloadUnread(c) ==
    /\ at[c] = "call" /\ daemon # "returned" /\ Goto(c, "lock")
    /\ doc' = [doc EXCEPT ![c] = targets]
    /\ UNCHANGED <<file, targets, sessions, loops, locking, daemon, flags>>
Reload(c) ==
    /\ at[c] = "call" /\ daemon # "returned"
    /\ \/ doc' = [doc EXCEPT ![c] = file] /\ unread' = FALSE /\ Goto(c, "lock")
       \/ UNCHANGED doc /\ unread' = TRUE /\ Goto(c, "done")
    /\ UNCHANGED <<file, targets, sessions, loops, locking, daemon, overlapped, late>>

Lock(c) ==
    /\ at[c] = "lock" /\ holder = None
    /\ holder' = c /\ left' = {n \in Names : sessions[n] # None} /\ Goto(c, "stop")
    /\ UNCHANGED <<file, targets, sessions, loops, joining, closing, doc, daemon, flags>>

\* stop: close the loop's stop channel, then its adapter.
TellStop ==
    /\ holder # None /\ joining = None
    /\ \E n \in left :
       /\ joining' = sessions[n] /\ closing' = TRUE /\ left' = left \ {n}
       /\ loops' = IF loops[sessions[n]] = Ended THEN loops
                   ELSE [loops EXCEPT ![sessions[n]].told = TRUE]
    /\ UNCHANGED <<file, targets, sessions, holder, at, doc, daemon, flags>>

\* The adapter has closed, or there is none: the loop dials or waits.  Nothing
\* bounds the wait for a link that is held up, under the lock.
Closed ==
    /\ closing /\ loops[joining].state # "held"
    /\ closing' = FALSE
    /\ UNCHANGED <<file, targets, sessions, loops, holder, left, joining, at, doc, daemon, flags>>

\* Then wait for the end of the loop, or for five seconds.  A mutant does not wait.
JoinNothing ==
    /\ joining # None /\ ~closing /\ joining' = None
    /\ UNCHANGED <<file, targets, sessions, loops, holder, left, closing, at, doc, daemon, flags>>
Join ==
    /\ joining # None /\ ~closing /\ joining' = None
    /\ \/ loops[joining] = Ended /\ UNCHANGED late
       \/ loops[joining].state \in {"works", "held"} /\ late' = TRUE
    /\ UNCHANGED <<file, targets, sessions, loops, holder, left, closing, at, doc, daemon,
                   overlapped, unread>>

\* Every session was stopped: forget them and unlock.  A mutant forgets to unlock.
ForgetLocked(c) ==
    /\ holder = c /\ left = {} /\ joining = None
    /\ sessions' = [n \in Names |-> None]
    /\ Goto(c, "set")
    /\ UNCHANGED <<file, targets, loops, locking, doc, daemon, flags>>
Forget(c) ==
    /\ holder = c /\ left = {} /\ joining = None
    /\ sessions' = [n \in Names |-> None]
    /\ holder' = None /\ Goto(c, "set")
    /\ UNCHANGED <<file, targets, loops, left, joining, closing, doc, daemon, flags>>

SetTargets(c) ==
    /\ at[c] = "set"
    /\ targets' = doc[c] /\ Goto(c, "snapshot")
    /\ doc' = [doc EXCEPT ![c] = NoDocument]
    /\ UNCHANGED <<file, sessions, loops, locking, daemon, flags>>

\* startAllSessions: a snapshot of the targets, then under the lock a loop for each
\* that has no session.  A mutant starts one for each.
Snapshot(c) ==
    /\ at[c] = "snapshot"
    /\ doc' = [doc EXCEPT ![c] = targets] /\ Goto(c, "start")
    /\ UNCHANGED <<file, targets, sessions, loops, locking, daemon, flags>>

StartLoops(c, names) ==
    LET number == Numbers(names) IN
    /\ sessions' = [n \in Names |-> IF n \in names THEN number[n] ELSE sessions[n]]
    /\ loops' = [i \in Ids |->
                 IF \E n \in names : number[n] = i
                 THEN LET n == CHOOSE n \in names : number[n] = i IN
                      [name |-> n, as |-> doc[c][n], state |-> "top", told |-> FALSE]
                 ELSE loops[i]]
StartEvery(c) ==
    /\ at[c] = "start" /\ holder = None /\ Goto(c, "done")
    /\ StartLoops(c, Listed(doc[c]))
    /\ doc' = [doc EXCEPT ![c] = NoDocument]
    /\ UNCHANGED <<file, targets, locking, daemon, flags>>
StartMissing(c) ==
    /\ at[c] = "start" /\ holder = None /\ Goto(c, "done")
    /\ StartLoops(c, {n \in Listed(doc[c]) : sessions[n] = None})
    /\ doc' = [doc EXCEPT ![c] = NoDocument]
    /\ UNCHANGED <<file, targets, locking, daemon, flags>>
-----------------------------------------------------------------------------
(* shutdown, with the same lock and the same stop.                         *)

Stop ==
    /\ daemon = "run" /\ daemon' = "stop"
    /\ UNCHANGED <<file, targets, sessions, loops, locking, at, doc, flags>>

LockForShutdown ==
    /\ daemon = "stop" /\ at[Run] = "done" /\ holder = None
    /\ holder' = "shutdown" /\ left' = {n \in Names : sessions[n] # None}
    /\ UNCHANGED <<file, targets, sessions, loops, joining, closing, at, doc, daemon, flags>>

UnlockNever ==
    /\ holder = "shutdown" /\ left = {} /\ joining = None
    /\ daemon = "stop" /\ daemon' = "unlocked"
    /\ UNCHANGED <<file, targets, sessions, loops, locking, at, doc, flags>>
Unlock ==
    /\ holder = "shutdown" /\ left = {} /\ joining = None
    /\ holder' = None /\ daemon' = "unlocked"
    /\ UNCHANGED <<file, targets, sessions, loops, left, joining, closing, at, doc, flags>>

\* The cursors are written, webhook and local API stopped, daemon.json removed.
Return ==
    /\ daemon = "unlocked" /\ daemon' = "returned"
    /\ UNCHANGED <<file, targets, sessions, loops, locking, at, doc, flags>>
-----------------------------------------------------------------------------
(* A session loop.                                                         *)

Loop(i, loop) ==
    /\ loops' = [loops EXCEPT ![i] = loop]
    /\ UNCHANGED <<file, targets, sessions, locking, at, doc, daemon, flags>>
Halted(i) == loops[i].told \/ daemon # "run"

\* The top of the loop hears a stop, the session's or the daemon's.
Top(i) ==
    /\ loops[i].state = "top"
    /\ Loop(i, IF Halted(i) THEN Ended ELSE [loops[i] EXCEPT !.state = "works"])

\* It dials, serves its link, or waits before it tries again.  Link and wait hear a
\* stop; a dial does not, and lasts up to fifteen seconds.
Leave(i) == loops[i].state = "works" /\ Halted(i) /\ Loop(i, Ended)

\* Its link is held up: the Close of the adapter that the stop asks for never
\* returns, neither to the loop nor to whoever stops it.
Hold(i) == loops[i].state = "works" /\ Halted(i) /\ Loop(i, [loops[i] EXCEPT !.state = "held"])
-----------------------------------------------------------------------------
ReloadStep(c) ==
    \/ Reload(c) \/ NoDaemon(c) \/ Lock(c) \/ Forget(c) \/ SetTargets(c) \/ Snapshot(c)
    \/ StartMissing(c)
StopStep == TellStop \/ Closed \/ Join
ShutdownStep == LockForShutdown \/ Unlock \/ Return
LoopStep(i) == Top(i) \/ Leave(i)

Next ==
    \/ \E c \in Commands : LoadTargets(c) \/ Save(c) \/ ReloadStep(c)
    \/ StopStep \/ Stop \/ ShutdownStep
    \/ \E i \in Ids : LoopStep(i) \/ Hold(i)

\* Goroutines go on, and a dial has an end, but for the Close of a link that is held
\* up; a command may be left at its prompt or killed, and nobody has to stop the
\* daemon.  Every run has finitely many steps, as each command runs once and a loop
\* only goes forward: nobody keeps another from going on, and fairness to all of them
\* together is fairness to each.
GoesOn ==
    \/ \E c \in Commands : ReloadStep(c)
    \/ StopStep \/ ShutdownStep
    \/ \E i \in Ids : LoopStep(i)

Spec == Init /\ [][Next]_vars /\ WF_vars(GoesOn)
-----------------------------------------------------------------------------
Places == {"ready", "edit", "call", "lock", "stop", "set", "snapshot", "start", "done"}
TypeOK ==
    /\ file \in Documents /\ targets \in Documents
    /\ sessions \in [Names -> Ids \cup {None}]
    /\ loops \in [Ids -> {Ended} \cup [name : Names, as : Commands \cup {Original},
                                       state : {"top", "works", "held"}, told : BOOLEAN]]
    /\ holder \in Commands \cup {"shutdown", None} /\ left \subseteq Names
    /\ joining \in Ids \cup {None} /\ closing \in BOOLEAN
    /\ at \in [Commands -> Places] /\ doc \in [Commands -> Documents]
    /\ daemon \in {"run", "stop", "unlocked", "returned"}
    /\ overlapped \in BOOLEAN /\ unread \in BOOLEAN /\ late \in BOOLEAN
    /\ \A c \in Commands : at[c] = "stop" <=> holder = c
    /\ closing => joining # None

\* However reloads overlap, a loop that nobody has told to stop is the session of
\* its target: no target has two loops and no loop is out of reach of the next
\* reload or shutdown (handlers.go:158-168, daemon.go:293-297).
EveryLoopIsASession ==
    \A i \in Ids : loops[i] = Ended \/ loops[i].told \/ sessions[loops[i].name] = i

\* When commands ran one after the other, the daemon afterwards runs exactly the
\* file's targets, each by the definition the file has (handlers.go:153-169),
\* unless the last reload could not read it (154-157).
SessionsFollowTheFile ==
    ~overlapped /\ ~unread /\ daemon = "run" /\ (\A c \in Commands : ~Underway(c)) =>
       \A n \in Names :
          IF n \in Listed(file)
          THEN sessions[n] # None /\ loops[sessions[n]].as = file[n] /\ ~loops[sessions[n]].told
          ELSE sessions[n] = None

\* Unless a join timed out, no loop dials, serves or closes a link once Run has
\* returned, not even one that a reload has started or stopped meanwhile: "a daemon
\* shutdown (or target reload) cannot leave a goroutine still writing the
\* cursor/ledger after Run returns" (daemon.go:547-550).
NothingRunsAfterReturn ==
    daemon = "returned" /\ ~late => \A i \in Ids : loops[i].state \in {"ended", "top"}

\* Whoever has sessionsMu waits for the adapter of a link that is held up.
CloseBlocked == closing /\ loops[joining].state = "held"

\* No start of sessions, no reload that was asked for and no shutdown is under way,
\* and after a shutdown every loop has ended or closes a link that is held up.
Settled ==
    /\ \A c \in Commands : at[c] \in {"ready", "edit", "done"}
    /\ daemon \in {"run", "returned"}
    /\ daemon = "returned" => \A i \in Ids : loops[i] = Ended \/ loops[i].state = "held"

\* All of them end, although they wait for loops under a lock (daemon.go:551-558),
\* unless the one that has it waits for ever for an adapter to close; then whoever
\* comes after it waits too, the shutdown included.
EverythingEnds == <>[](Settled \/ CloseBlocked)
=============================================================================
