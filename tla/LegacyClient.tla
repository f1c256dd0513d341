---------------------------- MODULE LegacyClient ----------------------------
(***************************************************************************)
(* One connection of the old line protocol: Dial, Request, readLoop and    *)
(* Close of src/go/internal/legacy/client.go, and CallID, line,            *)
(* commandOutput, pump and Close of src/go/internal/session/legacy.go.     *)
(*                                                                         *)
(* Lines carry no id.  The mod answers them in their order, requests are   *)
(* serialized, and the next message that is no event is the answer.        *)
(***************************************************************************)
EXTENDS Integers, Sequences, FiniteSets

CONSTANTS
    Calls,          \* calls of the session, each made once
    Operation,      \* what each call asks for
    ReplyCap,       \* capacity of the client's channel of replies (4)
    EventCap,       \* capacity of its channel of events (1024)
    SessionCap,     \* capacity of the session's channel of events (1024)
    LineRoom,       \* lines that the connection holds before a write waits
    MaxEvents       \* bound: events of the mod

Operations == {"read", "write", "command_output"}
IsWrite(c) == Operation[c] \in {"write", "command_output"}

ASSUME LegacyAssumption ==
    /\ Operation \in [Calls -> Operations]
    /\ ReplyCap \in Nat \ {0} /\ EventCap \in Nat \ {0} /\ SessionCap \in Nat \ {0}
    /\ LineRoom \in Nat \ {0} /\ MaxEvents \in Nat

CONSTANT NoCall
ASSUME NoCallAssumption == NoCall \notin Calls

VARIABLES
    dial,           \* "hello", "open" or "failed"
    peer,           \* the mod keeps its end open
    conn,           \* the client keeps its own
    lines,          \* calls whose line is on its way to the mod
    wire,           \* messages on their way to the client
    ran,            \* writes that the mod has done
    published,      \* events it has sent
    reader, hand,   \* the read loop, and the message it holds
    replies, events,
    holder,         \* the call that holds requestMu
    pc, answer,     \* of each call
    written,        \* calls whose line may have left, in this order
    pump, number,   \* the session's pump, and the number of its last event
    payload,        \* which event of the mod that is
    toLoop,         \* the session's channel of events
    loop, consumed, \* the session loop, and the events it got
    close           \* Close: "no", "stopping", "waiting", "closed"

modVars  == <<peer, lines, wire, ran, published>>
readVars == <<reader, hand, replies, events>>
callVars == <<holder, pc, answer, written>>
sessVars == <<pump, number, payload, toLoop, loop, consumed>>
vars == <<dial, conn, modVars, readVars, callVars, sessVars, close>>

NoMessage == [kind |-> "none", of |-> NoCall, ok |-> FALSE]
Reply(c, ok) == [kind |-> "reply", of |-> c, ok |-> ok]
Event(n) == [kind |-> "event", of |-> n, ok |-> TRUE]
Hello == Reply(NoCall, TRUE)

NoAnswer == [how |-> "none", reply |-> NoMessage, unknown |-> FALSE]
Done == reader = "ended"

Init ==
    /\ dial = "hello" /\ peer = TRUE /\ conn = TRUE
    /\ lines = <<>> /\ wire = <<>> /\ ran = {} /\ published = 0
    /\ reader = "reading" /\ hand = NoMessage /\ replies = <<>> /\ events = <<>>
    /\ holder = NoCall /\ pc = [c \in Calls |-> "idle"] /\ written = <<>>
    /\ answer = [c \in Calls |-> NoAnswer]
    /\ pump = "none" /\ number = 0 /\ payload = 0 /\ toLoop = <<>> /\ loop = "reading" /\ consumed = <<>>
    /\ close = "no"
-----------------------------------------------------------------------------
(* The mod: external.                                                      *)

SendHello ==
    /\ peer /\ dial = "hello" /\ wire = <<>> /\ replies = <<>> /\ reader = "reading"
    /\ wire' = <<Hello>>
    /\ UNCHANGED <<dial, conn, peer, lines, ran, published, readVars, callVars, sessVars, close>>

\* It does the next line, or refuses it, and answers.
AnswerLine(ok) ==
    /\ peer /\ lines # <<>>
    /\ wire' = Append(wire, Reply(Head(lines), ok))
    /\ ran' = IF ok /\ IsWrite(Head(lines)) THEN ran \cup {Head(lines)} ELSE ran
    /\ lines' = Tail(lines)
    /\ UNCHANGED <<dial, conn, peer, published, readVars, callVars, sessVars, close>>

PublishEvent ==
    /\ peer /\ dial = "open" /\ published < MaxEvents
    /\ published' = published + 1
    /\ wire' = Append(wire, Event(published'))
    /\ UNCHANGED <<dial, conn, peer, lines, ran, readVars, callVars, sessVars, close>>

PeerEnds ==
    /\ peer /\ peer' = FALSE
    /\ UNCHANGED <<dial, conn, lines, wire, ran, published, readVars, callVars, sessVars, close>>
-----------------------------------------------------------------------------
(* The read loop.                                                          *)

ReadMessage ==
    /\ reader = "reading" /\ conn /\ wire # <<>>
    /\ hand' = Head(wire) /\ wire' = Tail(wire)
    /\ reader' = "delivering"
    /\ UNCHANGED <<dial, conn, peer, lines, ran, published, replies, events, callVars, sessVars,
                   close>>

\* It waits for room, or for done, which only its own end closes.
DeliveredAnyway(m) ==      \* a mutant
    IF m.kind = "event" THEN events' = Append(events, m) /\ UNCHANGED replies
    ELSE replies' = Append(replies, m) /\ UNCHANGED events
Delivered(m) ==
    IF m.kind = "event"
    THEN Len(events) < EventCap /\ events' = Append(events, m) /\ UNCHANGED replies
    ELSE Len(replies) < ReplyCap /\ replies' = Append(replies, m) /\ UNCHANGED events

Deliver ==
    /\ reader = "delivering" /\ Delivered(hand)
    /\ hand' = NoMessage
    /\ reader' = "reading"
    /\ UNCHANGED <<dial, conn, modVars, callVars, sessVars, close>>

\* finish: a read from a connection that either end has closed.
ReadFailsAtPeer ==      \* a mutant does not see that its own end is closed
    /\ reader = "reading" /\ ~peer /\ wire = <<>>
    /\ reader' = "ended" /\ conn' = FALSE
    /\ UNCHANGED <<dial, modVars, hand, replies, events, callVars, sessVars, close>>
ReadFails ==
    /\ reader = "reading" /\ (~conn \/ (~peer /\ wire = <<>>))
    /\ reader' = "ended" /\ conn' = FALSE
    /\ UNCHANGED <<dial, modVars, hand, replies, events, callVars, sessVars, close>>
-----------------------------------------------------------------------------
(* Dial.                                                                   *)

HelloTaken ==
    /\ dial = "hello" /\ replies # <<>>
    /\ dial' = "open" /\ pump' = "select"
    /\ replies' = Tail(replies)
    /\ UNCHANGED <<conn, modVars, reader, hand, events, callVars, number, payload, toLoop, loop,
                   consumed, close>>

\* No hello in time, or the connection ends before it.
DialFails ==
    /\ dial = "hello"
    /\ dial' = "failed" /\ conn' = FALSE
    /\ UNCHANGED <<modVars, readVars, callVars, sessVars, close>>
-----------------------------------------------------------------------------
(* A call.                                                                 *)

Finish(c, a) ==
    /\ pc' = [pc EXCEPT ![c] = "done"]
    /\ answer' = [answer EXCEPT ![c] = a]

\* The target lacks the capability, or the parameters make no line.
Refuse(c) ==
    /\ dial = "open" /\ pc[c] = "idle"
    /\ Finish(c, [NoAnswer EXCEPT !.how = "refused"])
    /\ UNCHANGED <<dial, conn, modVars, readVars, holder, written, sessVars, close>>

Call(c) ==
    /\ dial = "open" /\ pc[c] = "idle"
    /\ pc' = [pc EXCEPT ![c] = "called"]
    /\ UNCHANGED <<dial, conn, modVars, readVars, holder, answer, written, sessVars, close>>

\* requestMu, which no context and no timeout ends the wait for; a mutant does
\* not wait.
TakeNoLock(c) ==
    /\ pc[c] = "called"
    /\ holder' = c /\ pc' = [pc EXCEPT ![c] = "writing"]
    /\ UNCHANGED <<dial, conn, modVars, readVars, answer, written, sessVars, close>>
TakeLock(c) ==
    /\ pc[c] = "called" /\ holder = NoCall
    /\ holder' = c /\ pc' = [pc EXCEPT ![c] = "writing"]
    /\ UNCHANGED <<dial, conn, modVars, readVars, answer, written, sessVars, close>>

\* The write has no deadline: it waits for room on the connection, which a mod
\* that has stopped reading never makes.
SendLine(c) ==
    /\ pc[c] = "writing" /\ conn /\ Len(lines) < LineRoom
    /\ lines' = Append(lines, c) /\ written' = Append(written, c)
    /\ pc' = [pc EXCEPT ![c] = "waiting"]
    /\ UNCHANGED <<dial, conn, peer, wire, ran, published, readVars, holder, answer, sessVars, close>>

\* Any failure leaves a write unknown, whatever has left; a mutant takes a line
\* that was sent in vain for one that was refused.
KnownFailure(c, how) == [how |-> how, reply |-> NoMessage, unknown |-> IsWrite(c) /\ how # "timeout"]
Failure(c, how) == [how |-> how, reply |-> NoMessage, unknown |-> IsWrite(c)]

\* A write to a closed connection fails, with or without a whole line sent.
SendFails(c) ==
    /\ pc[c] = "writing"
    /\ ~conn \/ ~peer
    /\ \/ peer /\ Len(lines) < LineRoom /\ lines' = Append(lines, c) /\ written' = Append(written, c)
       \/ UNCHANGED <<lines, written>>
    /\ holder' = NoCall
    /\ Finish(c, Failure(c, "failed"))
    /\ UNCHANGED <<dial, conn, peer, wire, ran, published, readVars, sessVars, close>>

\* The select of Request: the next reply, the timeout or the caller's context,
\* the end of the connection.  An answer to command_output may hold no output.
TakeReply(c) ==
    /\ pc[c] = "waiting" /\ replies # <<>>
    /\ replies' = Tail(replies) /\ holder' = NoCall
    /\ LET m == Head(replies)
           a == [how |-> "reply", reply |-> m, unknown |-> FALSE]
       IN  \/ Finish(c, a)
           \/ /\ Operation[c] = "command_output" /\ m.ok
              /\ pc' = [pc EXCEPT ![c] = "listening"]
              /\ answer' = [answer EXCEPT ![c] = a]
    /\ UNCHANGED <<dial, conn, modVars, reader, hand, events, written, sessVars, close>>

GiveUpLocked(c) ==      \* a mutant keeps requestMu
    /\ pc[c] = "waiting"
    /\ Finish(c, Failure(c, "timeout"))
    /\ UNCHANGED <<dial, conn, modVars, readVars, holder, written, sessVars, close>>
GiveUp(c) ==
    /\ pc[c] = "waiting"
    /\ holder' = NoCall
    /\ Finish(c, Failure(c, "timeout"))
    /\ UNCHANGED <<dial, conn, modVars, readVars, written, sessVars, close>>

SeeDone(c) ==
    /\ pc[c] = "waiting" /\ Done
    /\ holder' = NoCall
    /\ Finish(c, Failure(c, "failed"))
    /\ UNCHANGED <<dial, conn, modVars, readVars, written, sessVars, close>>

\* Without requestMu: output is what the session's ring got since the call.
Listened(c) ==
    /\ pc[c] = "listening"
    /\ pc' = [pc EXCEPT ![c] = "done"]
    /\ UNCHANGED <<dial, conn, modVars, readVars, holder, answer, written, sessVars, close>>
-----------------------------------------------------------------------------
(* The session.                                                            *)

\* The pump numbers an event, then waits for room or for stop.
Number ==
    /\ pump = "select" /\ events # <<>>
    /\ number' = number + 1 /\ payload' = Head(events).of
    /\ events' = Tail(events)
    /\ pump' = "holding"
    /\ UNCHANGED <<dial, conn, modVars, reader, hand, replies, callVars, toLoop, loop, consumed,
                   close>>

\* A mutant drops an event that finds no room.
ForwardOrDrop ==
    /\ pump = "holding"
    /\ toLoop' = IF Len(toLoop) < SessionCap THEN Append(toLoop, <<number, payload>>) ELSE toLoop
    /\ pump' = "select"
    /\ UNCHANGED <<dial, conn, modVars, readVars, callVars, number, payload, loop, consumed, close>>
Forward ==
    /\ pump = "holding" /\ Len(toLoop) < SessionCap
    /\ toLoop' = Append(toLoop, <<number, payload>>)
    /\ pump' = "select"
    /\ UNCHANGED <<dial, conn, modVars, readVars, callVars, number, payload, loop, consumed, close>>

Stopped == close \in {"stopping", "waiting", "closed"}

PumpEnds ==
    /\ \/ pump = "select" /\ (Done \/ Stopped)
       \/ pump = "holding" /\ Stopped
    /\ pump' = "ended"
    /\ UNCHANGED <<dial, conn, modVars, readVars, callVars, number, payload, toLoop, loop, consumed, close>>

Consume ==
    /\ loop = "reading" /\ toLoop # <<>>
    /\ consumed' = Append(consumed, Head(toLoop)) /\ toLoop' = Tail(toLoop)
    /\ UNCHANGED <<dial, conn, modVars, readVars, callVars, pump, number, payload, loop, close>>

\* The loop takes the stop, or the end of the adapter, while events wait.
LoopLeaves ==
    /\ loop = "reading" /\ (close # "no" \/ pump = "ended")
    /\ loop' = "left"
    /\ UNCHANGED <<dial, conn, modVars, readVars, callVars, pump, number, payload, toLoop, consumed, close>>

\* Close, by stop of the session, which tells the loop first, or by the loop:
\* the pump is told, the connection closed, and the read loop waited for.
Close ==
    /\ dial = "open"
    /\ \/ close = "no" /\ close' = "stopping" /\ UNCHANGED conn
       \/ close = "stopping" /\ close' = "waiting" /\ conn' = FALSE
       \/ close = "waiting" /\ Done /\ close' = "closed" /\ UNCHANGED conn
    /\ UNCHANGED <<dial, modVars, readVars, callVars, sessVars>>
-----------------------------------------------------------------------------
Serve == \/ SendHello \/ \E ok \in BOOLEAN : AnswerLine(ok)
         \/ PublishEvent \/ PeerEnds
Read == ReadMessage \/ Deliver \/ ReadFails
Dial == HelloTaken \/ DialFails
Proceed(c) == \/ TakeLock(c) \/ SendLine(c) \/ SendFails(c) \/ TakeReply(c) \/ GiveUp(c) \/ SeeDone(c)
              \/ Listened(c)
Pump == Number \/ Forward \/ PumpEnds

Next ==
    \/ Serve \/ Read \/ Dial \/ Pump \/ Consume \/ LoopLeaves \/ Close
    \/ \E c \in Calls : Refuse(c) \/ Call(c) \/ Proceed(c)

\* Goroutines run; requests have a timeout; nobody has to call Close, but it
\* goes on once it was called; the mod may do nothing.
Fairness ==
    /\ WF_vars(Read) /\ WF_vars(Dial) /\ WF_vars(Pump) /\ WF_vars(LoopLeaves)
    /\ WF_vars(close # "no" /\ Close)
    /\ \A c \in Calls : WF_vars(Proceed(c))

Spec == Init /\ [][Next]_vars /\ Fairness
-----------------------------------------------------------------------------
Message == [kind : {"none", "reply", "event"}, of : Calls \cup {NoCall} \cup 1..MaxEvents, ok : BOOLEAN]

TypeOK ==
    /\ dial \in {"hello", "open", "failed"} /\ peer \in BOOLEAN /\ conn \in BOOLEAN
    /\ lines \in Seq(Calls) /\ wire \in Seq(Message)
    /\ ran \subseteq Calls /\ published \in 0..MaxEvents
    /\ reader \in {"reading", "delivering", "ended"} /\ hand \in Message
    /\ replies \in Seq(Message) /\ Len(replies) <= ReplyCap
    /\ events \in Seq(Message) /\ Len(events) <= EventCap
    /\ holder \in Calls \cup {NoCall}
    /\ pc \in [Calls -> {"idle", "called", "writing", "waiting", "listening", "done"}]
    /\ answer \in [Calls -> [how : {"none", "refused", "reply", "failed", "timeout"},
                             reply : Message, unknown : BOOLEAN]]
    /\ written \in Seq(Calls)
    /\ pump \in {"none", "select", "holding", "ended"} /\ number \in 0..MaxEvents /\ payload \in 0..MaxEvents
    /\ toLoop \in Seq((1..MaxEvents) \X (1..MaxEvents)) /\ Len(toLoop) <= SessionCap
    /\ loop \in {"reading", "left"} /\ consumed \in Seq((1..MaxEvents) \X (1..MaxEvents))
    /\ close \in {"no", "stopping", "waiting", "closed"}

\* Requests whose line may have left and that ended without a reply.
GivenUp(n) == {i \in 1..n : answer[written[i]].how \in {"failed", "timeout"}}

\* "returns the next non-event reply" (client.go:118): the n-th request gets the
\* reply to the request that many places before it as requests before it were
\* given up; its own as long as none was.
AnsweredInOrder ==
    \A n \in DOMAIN written :
       LET a == answer[written[n]] IN
       a.how = "reply" => a.reply.of = written[n - Cardinality(GivenUp(n - 1))]

\* As long as none was, a write that is reported done was done, and one that is
\* reported to have failed, and not as unknown, was not (legacy.go:189-212).
TruthfulWrites ==
    \A n \in DOMAIN written :
       LET c == written[n] IN
       IsWrite(c) /\ answer[c].how # "none" /\ ~answer[c].unknown /\ GivenUp(n - 1) = {}
          => (c \in ran <=> answer[c].reply.ok)

\* Events reach the loop in the order of the mod, numbered without a hole, and
\* what the pump has numbered is on its way to the loop (legacy.go:97-114;
\* daemon.go:422 looks for holes).
EventsInOrder ==
    LET passed == consumed \o toLoop IN
    /\ \A i \in DOMAIN passed : passed[i] = <<i, i>>
    /\ pump = "select" => Len(passed) = number

\* Both streams of the one connection keep their order: answers by the order of
\* the requests, events by their numbers.
InOrder == AnsweredInOrder /\ EventsInOrder

\* The call that holds requestMu writes to a mod that has stopped reading.
WriteBlocked ==
    /\ holder # NoCall /\ pc[holder] = "writing"
    /\ conn /\ peer /\ Len(lines) >= LineRoom

\* Every call ends (legacy.go:193-197), unless one writes for ever to a mod that
\* neither reads nor ends the connection, under the lock the others wait for.
CallsEnd ==
    \/ \A c \in Calls : pc[c] = "called" ~> pc[c] = "done"
    \/ <>[]WriteBlocked

\* The read loop waits for room in a full channel.
HeldUp ==
    reader = "delivering" /\ IF hand.kind = "event" THEN Len(events) = EventCap
                             ELSE Len(replies) = ReplyCap

\* Close ends the session, unless a full channel holds up the read loop for ever.
CloseEndsWithRoom == (close = "stopping" ~> close = "closed") \/ <>[]HeldUp

\* So nothing else leaves a caller, or the session that closes, waiting.
CallsAndCloseEnd == CallsEnd /\ CloseEndsWithRoom

\* "bounds its exit even when a consumer stopped reading the event channel"
\* (legacy.go:298-299): once begun, Close returns.
CloseReturns == close = "stopping" ~> close = "closed"
=============================================================================
