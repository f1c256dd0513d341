--------------------------- MODULE TargetSession ---------------------------
(***************************************************************************)
(* The session of the daemon with one target: the loop that dials, offers  *)
(* the server the cursor of the run it knows, records the run it found,    *)
(* reports what the server can no longer replay, reads events, and starts  *)
(* again (run, noteRemoteSeq, persistCursor and stop in                    *)
(* src/go/internal/daemon/daemon.go, the store in cursor.go, reloadTargets *)
(* in handlers.go, DialRemote and pump in session/remote.go); with it the  *)
(* server's side of the event stream (Push and serve in                    *)
(* fakemod/fakemod.go).                                                    *)
(*                                                                         *)
(* A reload of the targets, a shutdown and a crash each end a loop, and a  *)
(* new one takes its place: loop l + 1 serves the target after loop l.     *)
(***************************************************************************)
EXTENDS Integers, Sequences, FiniteSets

CONSTANTS
    RingSize,       \* events the server keeps for a replay (256)
    PersistEvery,   \* events from which on the loop stores its cursor (64)
    JoinTimesOut,   \* a loop may need longer to stop than it is waited for
    MaxSeq,         \* bound: events of one run of the game
    MaxPush,        \* bound: events of all its runs
    MaxRun,         \* bound: runs of the game
    MaxLoop,        \* bound: loops, that is reloads and restarts of the daemon
    MaxCrash,       \* bound: crashes of the daemon
    MaxFault        \* bound: failed dials and lost connections

ASSUME SessionAssumption ==
    /\ RingSize \in Nat \ {0} /\ PersistEvery \in Nat \ {0}
    /\ JoinTimesOut \in BOOLEAN
    /\ MaxSeq \in Nat /\ MaxPush \in Nat /\ MaxRun \in Nat \ {0} /\ MaxLoop \in Nat \ {0}
    /\ MaxCrash \in Nat /\ MaxFault \in Nat

Loops == 1..MaxLoop
Runs  == 1..MaxRun
NoRun == 0
Event == Runs \X (1..MaxSeq)

\* An event cursor names the run that its sequence number belongs to.
Cursor   == [run : {NoRun} \cup Runs, lastSeq : 0..MaxSeq]
NoCursor == [run |-> NoRun, lastSeq |-> 0]

\* The adapter: what the server's welcome said and what is on its way.
NoAdapter == [run |-> NoRun, open |-> FALSE, lost |-> FALSE, oldest |-> 1,
              replay |-> <<>>, events |-> <<>>]

VARIABLES
    gameRun,        \* the run of the game
    seq,            \* the newest event of each run
    replayFirst,    \* the server sends the replay before any live event
    cursors, file,  \* the cursor in memory and in cursors.json
    current,        \* the loop that the daemon knows
    stopping,       \* the daemon waits for it to end
    pc, stop,       \* where each loop is, and whether it was told to stop
    previous,       \* the cursor that it read before it dialed
    adapter,        \* its connection
    lastSeq,        \* the newest event it has seen of this run
    sincePersist,   \* events since it connected
    ever,           \* it has been connected before
    hand,           \* the event that it has counted and not passed on; 0 is none
    base,           \* the event before the first it took in this run
    got,            \* the events each loop has passed on
    excused,        \* events that a report stands for
    abandoned,      \* loops that were given up while they ran
    pushed, faults, crashes

serverVars == <<gameRun, seq, replayFirst>>
storeVars  == <<cursors, file>>
loopVars   == <<pc, stop, previous, adapter, lastSeq, sincePersist, ever, hand, base>>
daemonVars == <<current, stopping, abandoned>>
history    == <<got, excused>>
bounds     == <<pushed, faults, crashes>>
vars       == <<serverVars, storeVars, loopVars, daemonVars, history, bounds>>

Zero == [l \in Loops |-> 0]

Init ==
    /\ gameRun = 1 /\ seq = [r \in Runs |-> 0] /\ replayFirst \in BOOLEAN
    /\ cursors = NoCursor /\ file = NoCursor
    /\ current = 1 /\ stopping = FALSE /\ abandoned = {}
    /\ pc = [l \in Loops |-> IF l = 1 THEN "top" ELSE "unborn"]
    /\ stop = [l \in Loops |-> FALSE] /\ ever = [l \in Loops |-> FALSE]
    /\ previous = [l \in Loops |-> NoCursor] /\ adapter = [l \in Loops |-> NoAdapter]
    /\ lastSeq = Zero /\ sincePersist = Zero /\ hand = Zero /\ base = Zero
    /\ got = [l \in Loops |-> {}] /\ excused = {}
    /\ pushed = 0 /\ faults = 0 /\ crashes = 0

Goto(l, place) == pc' = [pc EXCEPT ![l] = place]

\* Set changes memory; the Flush after it may fail, which is only logged.
Store(cursor) == cursors' = cursor /\ file' \in {file, cursor}
-----------------------------------------------------------------------------
(* The loop.                                                               *)

\* The top of the loop: leave, or read the cursor and dial.
Begin(l) ==
    /\ pc[l] = "top"
    /\ IF stop[l] THEN Goto(l, "finished") /\ UNCHANGED previous
       ELSE Goto(l, "dialing") /\ previous' = [previous EXCEPT ![l] = cursors]
    /\ UNCHANGED <<serverVars, storeVars, stop, adapter, lastSeq, sincePersist, ever, hand,
                   base, daemonVars, history, bounds>>

\* There is no credential, or the dial fails.
DialFails(l) ==
    /\ pc[l] = "dialing" \/ (pc[l] = "top" /\ ~stop[l])
    /\ faults < MaxFault
    /\ faults' = faults + 1
    /\ Goto(l, "sleeping")
    /\ previous' = [previous EXCEPT ![l] = NoCursor]
    /\ UNCHANGED <<serverVars, storeVars, stop, adapter, lastSeq, sincePersist, ever,
                   hand, base, daemonVars, history, pushed, crashes>>

\* The server's answer to a hello: a cursor of another run or one ahead of its
\* stream counts for nothing, and a loss is what its ring no longer reaches.
OldestUnclamped == seq[gameRun] - RingSize + 1      \* a mutant
Oldest == IF seq[gameRun] > RingSize THEN seq[gameRun] - RingSize + 1 ELSE 1
\* A mutant takes the number without the run.
UsableInAnyRun(cursor) == cursor.lastSeq <= seq[gameRun]
Usable(cursor) == cursor.run \in {NoRun, gameRun} /\ cursor.lastSeq <= seq[gameRun]
From(cursor) == IF Usable(cursor) THEN cursor.lastSeq ELSE 0
Lost(cursor) == ~Usable(cursor) \/ From(cursor) + 1 < Oldest

\* The events from first to last.
Sequence(first, last) == [i \in 1..(last - first + 1) |-> first + i - 1]
Replay(cursor) ==
    Sequence(IF From(cursor) < Oldest THEN Oldest ELSE From(cursor) + 1, seq[gameRun])

Dial(l) ==
    /\ pc[l] = "dialing"
    /\ LET c == previous[l] IN
       adapter' = [adapter EXCEPT ![l] =
          [run |-> gameRun, open |-> TRUE, lost |-> Lost(c), oldest |-> Oldest,
           replay |-> IF replayFirst THEN <<>> ELSE Replay(c),
           events |-> IF replayFirst THEN Replay(c) ELSE <<>>]]
    /\ Goto(l, "attached")
    /\ UNCHANGED <<serverVars, storeVars, stop, previous, lastSeq, sincePersist, ever, hand,
                   base, daemonVars, history, bounds>>

\* After attach: a run that is not the cursor's starts at zero, and the run is
\* stored at once with what this loop has seen of it.
SameRun(l) == previous[l].run = adapter[l].run

\* A mutant keeps the number of the old run.
RecordRunKeepingSeq(l) ==
    /\ pc[l] = "attached"
    /\ Store([run |-> adapter[l].run, lastSeq |-> lastSeq[l]])
    /\ sincePersist' = [sincePersist EXCEPT ![l] = 0]
    /\ Goto(l, "recorded")
    /\ UNCHANGED <<serverVars, stop, previous, adapter, lastSeq, ever, hand, base, daemonVars,
                   history, bounds>>
RecordRun(l) ==
    /\ pc[l] = "attached"
    /\ LET last == IF SameRun(l) THEN lastSeq[l] ELSE 0 IN
          /\ lastSeq' = [lastSeq EXCEPT ![l] = last]
          /\ Store([run |-> adapter[l].run, lastSeq |-> last])
    /\ base' = [base EXCEPT ![l] = IF SameRun(l) THEN @ ELSE 0]
    /\ sincePersist' = [sincePersist EXCEPT ![l] = 0]
    /\ Goto(l, "recorded")
    /\ UNCHANGED <<serverVars, stop, previous, adapter, ever, hand, daemonVars, history, bounds>>

\* bridge_connected; game_restarted when a loop that has been connected finds
\* another run; event_gap when the server lost something.  The old run's events
\* and what the ring no longer reached are then accounted for.
Restarted(l) == ever[l] /\ previous[l].run # NoRun /\ ~SameRun(l)
OfOldRun(l) == {e \in Event : e[1] = previous[l].run /\ ~SameRun(l)}
OutOfRing(l) == {e \in Event : e[1] = adapter[l].run /\ e[2] < adapter[l].oldest}

\* Then reconcileUnknown, which is WriteLedger's matter, and the event loop.
Announce(l) ==
    /\ pc[l] = "recorded"
    /\ excused' = excused
          \cup (IF adapter[l].lost THEN OfOldRun(l) \cup OutOfRing(l) ELSE {})
          \cup (IF Restarted(l) THEN OfOldRun(l) ELSE {})
    /\ ever' = [ever EXCEPT ![l] = TRUE]
    /\ previous' = [previous EXCEPT ![l] = NoCursor]
    /\ adapter' = [adapter EXCEPT ![l].lost = FALSE, ![l].oldest = 1]
    /\ Goto(l, "live")
    /\ UNCHANGED <<serverVars, storeVars, stop, lastSeq, sincePersist, hand, base, daemonVars,
                   got, bounds>>

\* One event: report a jump, count it, and store the cursor from the
\* PersistEvery-th event of the connection on.
Newest(l, s) == IF s > lastSeq[l] THEN s ELSE lastSeq[l]
Skipped(l, s) ==
    IF lastSeq[l] > 0 THEN {e \in Event : e[1] = adapter[l].run /\ e[2] \in lastSeq[l] + 1 .. s - 1}
    ELSE {}

Take(l) ==
    /\ pc[l] = "live" /\ adapter[l].events # <<>>
    /\ LET s == Head(adapter[l].events)
           due == sincePersist[l] + 1 >= PersistEvery
       IN  /\ excused' = excused \cup Skipped(l, s)
           /\ base' = [base EXCEPT ![l] = IF lastSeq[l] = 0 THEN s - 1 ELSE @]
           /\ lastSeq' = [lastSeq EXCEPT ![l] = Newest(l, s)]
           /\ sincePersist' = [sincePersist EXCEPT ![l] = IF due THEN PersistEvery ELSE @ + 1]
           /\ IF due THEN Store([run |-> adapter[l].run, lastSeq |-> Newest(l, s)])
              ELSE UNCHANGED storeVars
           /\ hand' = [hand EXCEPT ![l] = s]
    /\ adapter' = [adapter EXCEPT ![l].events = Tail(@)]
    /\ Goto(l, "hand")
    /\ UNCHANGED <<serverVars, stop, previous, ever, daemonVars, got, bounds>>

\* ingest: the event is in the daemon's ring.
Ingest(l) ==
    /\ pc[l] = "hand"
    /\ got' = [got EXCEPT ![l] = @ \cup {<<adapter[l].run, hand[l]>>}]
    /\ hand' = [hand EXCEPT ![l] = 0]
    /\ Goto(l, "live")
    /\ UNCHANGED <<serverVars, storeVars, stop, previous, adapter, lastSeq, sincePersist, ever,
                   base, daemonVars, excused, bounds>>

\* The select may take the end of the connection while events wait.  The cursor
\* is stored with what was counted.  A mutant stores nothing.
DisconnectedUnstored(l) ==
    /\ pc[l] = "live" /\ ~adapter[l].open
    /\ adapter' = [adapter EXCEPT ![l] = NoAdapter]
    /\ Goto(l, "sleeping")
    /\ UNCHANGED <<serverVars, storeVars, stop, previous, lastSeq, sincePersist, ever, hand,
                   base, daemonVars, history, bounds>>
Disconnected(l) ==
    /\ pc[l] = "live" /\ ~adapter[l].open
    /\ Store([run |-> adapter[l].run, lastSeq |-> lastSeq[l]])
    /\ adapter' = [adapter EXCEPT ![l] = NoAdapter]
    /\ Goto(l, "sleeping")
    /\ UNCHANGED <<serverVars, stop, previous, lastSeq, sincePersist, ever, hand, base,
                   daemonVars, history, bounds>>

\* The select takes the stop: no cursor is stored.
Leave(l) ==
    /\ pc[l] = "live" /\ stop[l]
    /\ adapter' = [adapter EXCEPT ![l] = NoAdapter]
    /\ Goto(l, "finished")
    /\ UNCHANGED <<serverVars, storeVars, stop, previous, lastSeq, sincePersist, ever, hand,
                   base, daemonVars, history, bounds>>

\* The delay is over, or cut short by a stop.
Wake(l) ==
    /\ pc[l] = "sleeping"
    /\ \/ Goto(l, "top")
       \/ stop[l] /\ Goto(l, "finished")
    /\ UNCHANGED <<serverVars, storeVars, stop, previous, adapter, lastSeq, sincePersist, ever,
                   hand, base, daemonVars, history, bounds>>
-----------------------------------------------------------------------------
(* The daemon: reload, shutdown, crash.                                    *)

\* stop: the loop is told, and its adapter, if it is attached, is closed.
StopLoop ==
    /\ ~stopping /\ current < MaxLoop
    /\ stopping' = TRUE
    /\ stop' = [stop EXCEPT ![current] = TRUE]
    /\ adapter' = [adapter EXCEPT ![current].open = FALSE, ![current].replay = <<>>]
    /\ UNCHANGED <<serverVars, storeVars, pc, previous, lastSeq, sincePersist, ever, hand, base,
                   current, abandoned, history, bounds>>

\* ... and waited for, five seconds long: a dial, or the calls of the
\* reconciliation, may take longer.
Joined ==
    \/ pc[current] = "finished"
    \/ JoinTimesOut /\ pc[current] \in {"dialing", "attached", "recorded"}

\* A reload replaces the loop.
Replace ==
    /\ stopping /\ Joined
    /\ stopping' = FALSE
    /\ abandoned' = IF pc[current] = "finished" THEN abandoned ELSE abandoned \cup {current}
    /\ current' = current + 1
    /\ Goto(current + 1, "top")
    /\ UNCHANGED <<serverVars, storeVars, stop, previous, adapter, lastSeq, sincePersist, ever,
                   hand, base, history, bounds>>

\* The process ends and another starts, which loads the file.  What ended with
\* it: an event that was counted and not passed on, and the report of a run that
\* was already recorded.
Unsaid(l) ==
    CASE pc[l] = "hand"     -> {<<adapter[l].run, hand[l]>>}
      [] pc[l] = "recorded" -> OfOldRun(l) \cup OutOfRing(l)
      [] OTHER              -> {}

NewProcess ==
    /\ cursors' = file'
    /\ excused' = excused \cup UNION {Unsaid(l) : l \in Loops}
    /\ current' = current + 1 /\ stopping' = FALSE
    /\ pc' = [l \in Loops |-> IF l <= current THEN "finished"
                              ELSE IF l = current + 1 THEN "top" ELSE "unborn"]
    /\ adapter' = [l \in Loops |-> NoAdapter] /\ previous' = [l \in Loops |-> NoCursor]
    /\ stop' = [l \in Loops |-> FALSE] /\ ever' = [l \in Loops |-> FALSE]
    /\ lastSeq' = Zero /\ sincePersist' = Zero /\ hand' = Zero /\ base' = Zero
    /\ UNCHANGED <<serverVars, abandoned, got, pushed, faults>>

\* shutdown flushes once more.
Exit ==
    /\ stopping /\ Joined
    /\ file' \in {file, cursors}
    /\ NewProcess
    /\ UNCHANGED crashes

Crash ==
    /\ crashes < MaxCrash /\ current < MaxLoop
    /\ crashes' = crashes + 1
    /\ UNCHANGED file
    /\ NewProcess
-----------------------------------------------------------------------------
(* The server and the network.                                             *)

Push ==
    /\ seq[gameRun] < MaxSeq /\ pushed < MaxPush
    /\ pushed' = pushed + 1
    /\ seq' = [seq EXCEPT ![gameRun] = @ + 1]
    /\ adapter' = [l \in Loops |->
          IF adapter[l].open THEN [adapter[l] EXCEPT !.events = Append(@, seq'[gameRun])]
          ELSE adapter[l]]
    /\ UNCHANGED <<gameRun, replayFirst, storeVars, pc, stop, previous, lastSeq, sincePersist,
                   ever, hand, base, daemonVars, history, faults, crashes>>

\* serve writes the replay while Push may write live events.
SendReplay(l) ==
    /\ adapter[l].open /\ adapter[l].replay # <<>>
    /\ adapter' = [adapter EXCEPT ![l].events = Append(@, Head(adapter[l].replay)),
                                  ![l].replay = Tail(@)]
    /\ UNCHANGED <<serverVars, storeVars, pc, stop, previous, lastSeq, sincePersist, ever, hand,
                   base, daemonVars, history, bounds>>

HangUp(c) == [c EXCEPT !.open = FALSE, !.replay = <<>>]

Hangup(l) ==
    /\ adapter[l].open /\ faults < MaxFault
    /\ faults' = faults + 1
    /\ adapter' = [adapter EXCEPT ![l] = HangUp(@)]
    /\ UNCHANGED <<serverVars, storeVars, pc, stop, previous, lastSeq, sincePersist, ever, hand,
                   base, daemonVars, history, pushed, crashes>>

\* SetRunID: a new run with an empty stream, and no connection left.
GameRestart ==
    /\ gameRun < MaxRun
    /\ gameRun' = gameRun + 1
    /\ adapter' = [l \in Loops |-> HangUp(adapter[l])]
    /\ UNCHANGED <<seq, replayFirst, storeVars, pc, stop, previous, lastSeq, sincePersist, ever,
                   hand, base, daemonVars, history, bounds>>
-----------------------------------------------------------------------------
Loop(l) ==
    \/ Begin(l) \/ Dial(l) \/ RecordRun(l) \/ Announce(l)
    \/ Take(l) \/ Ingest(l) \/ Disconnected(l) \/ Leave(l) \/ Wake(l)

Next ==
    \/ \E l \in Loops : Loop(l) \/ DialFails(l) \/ SendReplay(l) \/ Hangup(l)
    \/ StopLoop \/ Replace \/ Exit \/ Crash
    \/ Push \/ GameRestart

\* A loop that can go on does, and so does the daemon that waits for it; the
\* number of failed dials is bounded, so that a later one succeeds.
Fairness ==
    /\ \A l \in Loops : WF_vars(Loop(l)) /\ WF_vars(SendReplay(l))
    /\ WF_vars(Replace) /\ WF_vars(Exit)

Spec == Init /\ [][Next]_vars /\ Fairness
-----------------------------------------------------------------------------
Places == {"unborn", "top", "dialing", "attached", "recorded", "live", "hand", "sleeping",
           "finished"}
Adapter == [run : {NoRun} \cup Runs, open : BOOLEAN, lost : BOOLEAN, oldest : 1..MaxSeq + 1,
            replay : Seq(1..MaxSeq), events : Seq(1..MaxSeq)]

TypeOK ==
    /\ gameRun \in Runs /\ seq \in [Runs -> 0..MaxSeq] /\ replayFirst \in BOOLEAN
    /\ cursors \in Cursor /\ file \in Cursor
    /\ current \in Loops /\ stopping \in BOOLEAN /\ abandoned \subseteq Loops
    /\ pc \in [Loops -> Places] /\ stop \in [Loops -> BOOLEAN] /\ ever \in [Loops -> BOOLEAN]
    /\ previous \in [Loops -> Cursor] /\ adapter \in [Loops -> Adapter]
    /\ lastSeq \in [Loops -> 0..MaxSeq] /\ sincePersist \in [Loops -> 0..PersistEvery]
    /\ hand \in [Loops -> 0..MaxSeq] /\ base \in [Loops -> 0..MaxSeq]
    /\ got \in [Loops -> SUBSET Event] /\ excused \subseteq Event
    /\ pushed \in 0..MaxPush /\ faults \in 0..MaxFault /\ crashes \in 0..MaxCrash

Connected(l) == pc[l] \in {"live", "hand"}
Got == UNION {got[l] : l \in Loops}
InHand == {<<adapter[l].run, hand[l]>> : l \in {k \in Loops : pc[k] = "hand"}}
Accounted == Got \cup InHand \cup excused

\* While no loop was given up (see Joined): whatever a loop has gone past, in
\* its run and in the ones before, was passed on or a report stands for it, and
\* so it is with what the cursors in memory and file go past, where the next
\* loop will begin.  With a server that sends live events ahead of the replay
\* that holds only from the first event on that a loop takes in a run: the gap
\* test at daemon.go:422 is off while lastSeq is 0.
Past(run, first, last) == {e \in Event : e[1] = run /\ e[2] \in first..last}
NoSilentLoss ==
    abandoned = {} =>
       /\ \A l \in Loops : Connected(l) =>
             Past(adapter[l].run, 1 + (IF replayFirst THEN 0 ELSE base[l]), lastSeq[l])
                \subseteq Accounted
       /\ replayFirst => \A c \in {cursors, file} : Past(c.run, 1, c.lastSeq) \subseteq Accounted
       /\ replayFirst => \A l \in Loops : Connected(l) =>
             \A e \in got[l] : e[1] < adapter[l].run => Past(e[1], 1, seq[e[1]]) \subseteq Accounted

\* While no loop was given up, a loop passes no event on twice, through any
\* number of reconnections (daemon.go:432-447 and persistCursor).
NothingTwice ==
    abandoned = {} => \A l \in Loops :
       pc[l] = "hand" => <<adapter[l].run, hand[l]>> \notin got[l]

\* With a server that sends its replay first, and while no loop was given up: an
\* event of the current run is passed on or reported as lost at last, through
\* lost connections, reloads and restarts.
Delivered ==
    \A e \in Event :
       (e[2] <= seq[e[1]] /\ e[1] = gameRun)
          ~> (e \in Got \cup excused \/ e[1] # gameRun \/ abandoned # {} \/ ~replayFirst)
=============================================================================
