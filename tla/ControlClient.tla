--------------------------- MODULE ControlClient ---------------------------
(***************************************************************************)
(* One control connection: the end of Dial, concurrent CallWithID, the     *)
(* read loop and Close (src/go/internal/control/client.go).  Calls share a *)
(* writer slot and a table of pending replies; the read loop routes        *)
(* replies by id and puts events into a bounded channel that its consumer  *)
(* may stop reading.  The calls are writes, each under a context of its    *)
(* own.  The network and the server are nondeterministic.                  *)
(***************************************************************************)
EXTENDS Naturals, Sequences

CONSTANTS
    Callers,      \* the calls of CallWithID
    Ids,          \* request ids
    IdOf,         \* the id of each call
    None,         \* no caller
    EventFrame,   \* an event on its way from the server
    EventCap,     \* capacity of the event channel
    MaxFrames,    \* bound: frames the server has in flight to the client
    MaxReplies,   \* bound: replies of the server to one request
    MaxEvents     \* bound: events of the server

ASSUME ClientAssumption ==
    /\ IdOf \in [Callers -> Ids]
    /\ None \notin Callers /\ EventFrame \notin Ids
    /\ EventCap \in Nat \ {0} /\ MaxFrames \in Nat /\ MaxReplies \in Nat
    /\ MaxEvents \in Nat

VARIABLES
    dial,        \* the dialing goroutine: "handshake", "cleared", "open", "failed"
    dialDone,    \* the context of Dial has ended
    dialWatch,   \* the cancellation watcher of Dial has not returned
    readPast,    \* the read deadline of the socket lies in the past
    socket,      \* the socket has not been closed on this side
    peerGone,    \* the server closed it or sent a fatal frame
    stop,        \* the channel stop is closed
    pc,          \* where each call is
    result,      \* how each call ended
    cancelled,   \* calls whose context has ended
    pending,     \* the call waiting for a reply, by id
    reply,       \* what is in the reply channel of each call
    slot,        \* the call that holds the write token
    watch,       \* the call whose write watcher runs
    writePast,   \* the call whose watcher put the write deadline into the past
    broken,      \* the buffered writer has failed (it stays failed)
    out,         \* calls of which bytes may have left
    replies,     \* replies the server sent to each call
    inbox,       \* frames the read loop has not read
    sentEvents,  \* events the server sent
    events,      \* length of the event channel
    reader,      \* where the read loop is
    closer       \* where Close is

dialing == <<dial, dialDone, dialWatch, readPast>>
conn    == <<socket, peerGone, stop>>
callers == <<pc, result, cancelled>>
table   == <<pending, reply>>
writer  == <<slot, watch, writePast, broken, out>>
server  == <<replies, inbox, sentEvents>>
loop    == <<events, reader>>
vars    == <<dialing, conn, callers, table, writer, server, loop, closer>>

Active  == {"queued", "holding", "writing", "poisoning", "waiting"}
Pcs     == Active \cup {"idle", "ended"}
Results == {"none", "unsent", "unknown", "reply"}
Done    == reader = "ended"

Init ==
    /\ dial = "handshake" /\ dialDone = FALSE /\ dialWatch = TRUE /\ readPast = FALSE
    /\ socket = TRUE /\ peerGone = FALSE /\ stop = FALSE
    /\ pc = [c \in Callers |-> "idle"] /\ result = [c \in Callers |-> "none"]
    /\ cancelled = {}
    /\ pending = [id \in Ids |-> None] /\ reply = [c \in Callers |-> "empty"]
    /\ slot = None /\ watch = None /\ writePast = None /\ broken = FALSE /\ out = {}
    /\ replies = [c \in Callers |-> 0] /\ inbox = <<>> /\ sentEvents = 0
    /\ events = 0 /\ reader = "off" /\ closer = "idle"
-----------------------------------------------------------------------------
(* Dial, from the hello frame on.                                          *)

\* The welcome has been read; the deadline of the handshake is cleared.
Welcomed ==
    /\ dial = "handshake"
    /\ dial' = "cleared" /\ readPast' = FALSE
    /\ UNCHANGED <<dialDone, dialWatch, conn, callers, table, writer, server, loop, closer>>

DialFails ==
    /\ dial \in {"handshake", "cleared"}
    /\ dial' = "failed" /\ socket' = FALSE
    /\ UNCHANGED <<dialDone, dialWatch, readPast, peerGone, stop, callers, table,
                   writer, server, loop, closer>>

\* Dial starts the read loop and returns, which closes handshakeDone.
DialReturns ==
    /\ dial = "cleared"
    /\ dial' = "open" /\ reader' = "reading"
    /\ UNCHANGED <<dialDone, dialWatch, readPast, conn, callers, table, writer,
                   server, events, closer>>

\* The deadline of Dial passes, or its caller cancels: the daemon does so as
\* soon as Dial has returned.
DialContextEnds ==
    /\ ~dialDone /\ dialDone' = TRUE
    /\ UNCHANGED <<dial, dialWatch, readPast, conn, callers, table, writer, server,
                   loop, closer>>

\* The watcher goroutine selects on both channels; Dial does not wait for it.
DialWatcher ==
    /\ dialWatch /\ dialWatch' = FALSE
    /\ \/ dialDone /\ readPast' = TRUE
       \/ dial \in {"open", "failed"} /\ UNCHANGED readPast
    /\ UNCHANGED <<dial, dialDone, conn, callers, table, writer, server, loop, closer>>
-----------------------------------------------------------------------------
(* CallWithID.                                                             *)

Forget(id) == pending' = [pending EXCEPT ![id] = None]

End(c, r) ==
    /\ pc' = [pc EXCEPT ![c] = "ended"]
    /\ result' = [result EXCEPT ![c] = r]

Register(c) ==
    /\ dial = "open" /\ pc[c] = "idle" /\ c \notin cancelled
    /\ ~stop /\ pending[IdOf[c]] = None
    /\ pending' = [pending EXCEPT ![IdOf[c]] = c]
    /\ pc' = [pc EXCEPT ![c] = "queued"]
    /\ UNCHANGED <<dialing, conn, result, cancelled, reply, writer, server, loop, closer>>

\* The context has ended, the connection is closed or the id is in flight.
Reject(c) ==
    /\ dial = "open" /\ pc[c] = "idle"
    /\ c \in cancelled \/ stop \/ pending[IdOf[c]] # None
    /\ End(c, "unsent")
    /\ UNCHANGED <<dialing, conn, cancelled, table, writer, server, loop, closer>>

\* The select on the write token takes it even when the call was cancelled
\* or the connection stopped: it picks any ready case.
TakeSlot(c) ==
    /\ pc[c] = "queued" /\ slot = None
    /\ slot' = c
    /\ pc' = [pc EXCEPT ![c] = "holding"]
    /\ UNCHANGED <<dialing, conn, result, cancelled, table, watch, writePast, broken,
                   out, server, loop, closer>>

GiveUpSlot(c) ==
    /\ pc[c] = "queued" /\ (c \in cancelled \/ stop)
    /\ Forget(IdOf[c]) /\ End(c, "unsent")
    /\ UNCHANGED <<dialing, conn, cancelled, reply, writer, server, loop, closer>>

\* Cancelled with the token in hand, or the deadline cannot be set.
Abandon(c) ==
    /\ pc[c] = "holding" /\ (c \in cancelled \/ ~socket)
    /\ Forget(IdOf[c]) /\ End(c, "unsent")
    /\ slot' = None
    /\ UNCHANGED <<dialing, conn, cancelled, reply, watch, writePast, broken, out,
                   server, loop, closer>>

\* The write deadline is set and the watcher started.
BeginWrite(c) ==
    /\ pc[c] = "holding" /\ c \notin cancelled /\ socket
    /\ pc' = [pc EXCEPT ![c] = "writing"]
    /\ watch' = c /\ writePast' = None
    /\ UNCHANGED <<dialing, conn, result, cancelled, table, slot, broken, out, server,
                   loop, closer>>

\* The watcher of a cancelled call interrupts the write.
Interrupt(c) ==
    /\ watch = c /\ c \in cancelled
    /\ watch' = None /\ writePast' = c
    /\ UNCHANGED <<dialing, conn, callers, table, slot, broken, out, server, loop, closer>>

\* After the write: the watcher is joined, the deadline cleared, the token
\* returned.  A mutant forgets to stop the watcher.
WriterLeft ==
    /\ slot' = None /\ writePast' = None /\ UNCHANGED watch
WriterFree ==
    /\ slot' = None /\ writePast' = None /\ watch' = None

\* The frame was flushed as a whole.
Flushed(c) ==
    /\ pc[c] = "writing" /\ ~broken /\ socket
    /\ out' = out \cup {c}
    /\ WriterFree
    /\ pc' = [pc EXCEPT ![c] = "waiting"]
    /\ UNCHANGED <<dialing, conn, result, cancelled, table, broken, server, loop, closer>>

\* The frame could not be encoded or the buffered writer had failed before; or
\* the write failed, by the peer, a closed socket or a deadline, and left the
\* writer failed.  The token is returned at once.
SendFails(c) ==
    /\ pc[c] = "writing"
    /\ \/ UNCHANGED <<broken, out>>
       \/ ~broken /\ broken' = TRUE /\ out' \in {out, out \cup {c}}
    /\ WriterFree
    /\ pc' = [pc EXCEPT ![c] = "poisoning"]
    /\ UNCHANGED <<dialing, conn, result, cancelled, table, server, loop, closer>>

\* Then the connection is marked as failed and closed.  A mutant reports the
\* request as not sent.
PoisonedUnsent(c) ==
    /\ pc[c] = "poisoning"
    /\ stop' = TRUE /\ socket' = FALSE
    /\ Forget(IdOf[c]) /\ End(c, "unsent")
    /\ UNCHANGED <<dialing, peerGone, cancelled, reply, writer, server, loop, closer>>
Poison(c) ==
    /\ pc[c] = "poisoning"
    /\ stop' = TRUE /\ socket' = FALSE
    /\ Forget(IdOf[c]) /\ End(c, "unknown")
    /\ UNCHANGED <<dialing, peerGone, cancelled, reply, writer, server, loop, closer>>

\* A nil reply stands for the end of the connection.
TakeReply(c) ==
    /\ pc[c] = "waiting" /\ reply[c] # "empty"
    /\ End(c, IF reply[c] = "nil" THEN "unknown" ELSE "reply")
    /\ reply' = [reply EXCEPT ![c] = "empty"]
    /\ UNCHANGED <<dialing, conn, cancelled, pending, writer, server, loop, closer>>

TimeOut(c) ==
    /\ pc[c] = "waiting" /\ c \in cancelled
    /\ Forget(IdOf[c]) /\ End(c, "unknown")
    /\ UNCHANGED <<dialing, conn, cancelled, reply, writer, server, loop, closer>>

\* A mutant of SeeDone waits for the reply channel alone.
SeeReplyOnly(c) == TakeReply(c)
SeeDone(c) ==
    /\ pc[c] = "waiting" /\ Done
    /\ Forget(IdOf[c]) /\ End(c, "unknown")
    /\ UNCHANGED <<dialing, conn, cancelled, reply, writer, server, loop, closer>>

\* The context of a call ends; after the call has ended nobody looks.
Cancel(c) ==
    /\ c \notin cancelled /\ pc[c] # "ended"
    /\ cancelled' = cancelled \cup {c}
    /\ UNCHANGED <<dialing, conn, pc, result, table, writer, server, loop, closer>>
-----------------------------------------------------------------------------
(* The read loop, its consumer and Close.                                  *)

\* The pending entry is removed before the reply is handed over, so that the
\* channel of capacity one is never full.  A mutant leaves it in the table.
RoutedAgain(id) ==
    /\ UNCHANGED pending
    /\ reply' = IF pending[id] = None THEN reply
                ELSE [reply EXCEPT ![pending[id]] = "reply"]
Routed(id) ==
    /\ pending' = [pending EXCEPT ![id] = None]
    /\ reply' = IF pending[id] = None THEN reply
                ELSE [reply EXCEPT ![pending[id]] = "reply"]

ReadReply ==
    /\ reader = "reading" /\ inbox # <<>> /\ Head(inbox) # EventFrame
    /\ Routed(Head(inbox))
    /\ inbox' = Tail(inbox)
    /\ UNCHANGED <<dialing, conn, callers, writer, replies, sentEvents, loop, closer>>

ReadEvent ==
    /\ reader = "reading" /\ inbox # <<>> /\ Head(inbox) = EventFrame
    /\ inbox' = Tail(inbox)
    /\ reader' = "delivering"
    /\ UNCHANGED <<dialing, conn, callers, table, writer, replies, sentEvents, events,
                   closer>>

\* The channel has room.  A mutant does not look.
DeliverAnyway ==
    /\ reader = "delivering"
    /\ events' = events + 1
    /\ reader' = "reading"
    /\ UNCHANGED <<dialing, conn, callers, table, writer, server, closer>>
Deliver ==
    /\ reader = "delivering" /\ events < EventCap
    /\ events' = events + 1
    /\ reader' = "reading"
    /\ UNCHANGED <<dialing, conn, callers, table, writer, server, closer>>

\* A mutant insists on delivering; the code gives up and returns without
\* calling finish.
InsistDelivery == Deliver
AbandonDelivery ==
    /\ reader = "delivering" /\ stop
    /\ reader' = "ended"
    /\ UNCHANGED <<dialing, conn, callers, table, writer, server, events, closer>>

\* finish: the socket is closed and stop signalled ...
ReadFails ==
    /\ reader = "reading" /\ (~socket \/ readPast \/ peerGone)
    /\ socket' = FALSE /\ stop' = TRUE
    /\ reader' = "draining"
    /\ UNCHANGED <<dialing, peerGone, callers, table, writer, server, events, closer>>

\* ... then every pending call is told; done closes when the loop returns.  A
\* mutant clears the table without telling.
DrainSilently ==
    /\ reader = "draining"
    /\ pending' = [id \in Ids |-> None]
    /\ reader' = "ended"
    /\ UNCHANGED <<dialing, conn, callers, reply, writer, server, events, closer>>
Drain ==
    /\ reader = "draining"
    /\ pending' = [id \in Ids |-> None]
    /\ reply' = [c \in Callers |-> IF pending[IdOf[c]] = c THEN "nil" ELSE reply[c]]
    /\ reader' = "ended"
    /\ UNCHANGED <<dialing, conn, callers, writer, server, events, closer>>

Consume ==
    /\ events > 0 /\ events' = events - 1
    /\ UNCHANGED <<dialing, conn, callers, table, writer, server, reader, closer>>

Close ==
    /\ dial = "open" /\ closer = "idle"
    /\ stop' = TRUE /\ socket' = FALSE
    /\ closer' = "waiting"
    /\ UNCHANGED <<dialing, peerGone, callers, table, writer, server, loop>>

CloseReturns ==
    /\ closer = "waiting" /\ Done
    /\ closer' = "returned"
    /\ UNCHANGED <<dialing, conn, callers, table, writer, server, loop>>
-----------------------------------------------------------------------------
(* The server and the network.                                             *)

Reaches == socket /\ ~peerGone /\ Len(inbox) < MaxFrames

ServerReplies(c) ==
    /\ Reaches /\ c \in out /\ replies[c] < MaxReplies
    /\ replies' = [replies EXCEPT ![c] = @ + 1]
    /\ inbox' = Append(inbox, IdOf[c])
    /\ UNCHANGED <<dialing, conn, callers, table, writer, sentEvents, loop, closer>>

ServerEvent ==
    /\ Reaches /\ dial = "open" /\ sentEvents < MaxEvents
    /\ sentEvents' = sentEvents + 1
    /\ inbox' = Append(inbox, EventFrame)
    /\ UNCHANGED <<dialing, conn, callers, table, writer, replies, loop, closer>>

PeerEnds ==
    /\ ~peerGone /\ peerGone' = TRUE
    /\ UNCHANGED <<dialing, socket, stop, callers, table, writer, server, loop, closer>>
-----------------------------------------------------------------------------
DialStep == Welcomed \/ DialFails \/ DialReturns \/ DialContextEnds \/ DialWatcher

\* What a call does by itself once it has begun.
Progress(c) ==
    \/ TakeSlot(c) \/ GiveUpSlot(c) \/ Abandon(c) \/ BeginWrite(c) \/ Flushed(c)
    \/ SendFails(c) \/ Poison(c) \/ TakeReply(c) \/ TimeOut(c) \/ SeeDone(c)

ReaderStep ==
    ReadReply \/ ReadEvent \/ Deliver \/ AbandonDelivery \/ ReadFails \/ Drain

Next ==
    \/ DialStep \/ ReaderStep \/ Consume \/ Close \/ CloseReturns
    \/ \E c \in Callers :
          \/ Register(c) \/ Reject(c) \/ Progress(c) \/ Interrupt(c) \/ Cancel(c)
          \/ ServerReplies(c)
    \/ ServerEvent \/ PeerEnds

\* Goroutines run, and a write ends at its deadline.  No fairness for the
\* server, the network, the consumer of events, or the callers' contexts.
Fairness ==
    /\ \A c \in Callers : WF_vars(Progress(c))
    /\ WF_vars(ReaderStep) /\ WF_vars(CloseReturns)

Spec == Init /\ [][Next]_vars /\ Fairness
-----------------------------------------------------------------------------
(* Properties.                                                             *)

\* Every variable stays in its range; a channel never holds more than it can.
TypeOK ==
    /\ dial \in {"handshake", "cleared", "open", "failed"}
    /\ dialDone \in BOOLEAN /\ dialWatch \in BOOLEAN /\ readPast \in BOOLEAN
    /\ socket \in BOOLEAN /\ peerGone \in BOOLEAN /\ stop \in BOOLEAN
    /\ pc \in [Callers -> Pcs] /\ result \in [Callers -> Results]
    /\ cancelled \subseteq Callers
    /\ pending \in [Ids -> Callers \cup {None}]
    /\ reply \in [Callers -> {"empty", "nil", "reply"}]
    /\ slot \in Callers \cup {None} /\ watch \in Callers \cup {None}
    /\ writePast \in Callers \cup {None} /\ broken \in BOOLEAN /\ out \subseteq Callers
    /\ replies \in [Callers -> 0..MaxReplies]
    /\ inbox \in Seq(Ids \cup {EventFrame}) /\ Len(inbox) <= MaxFrames
    /\ sentEvents \in 0..MaxEvents /\ events \in 0..EventCap
    /\ reader \in {"off", "reading", "delivering", "draining", "ended"}
    /\ closer \in {"idle", "waiting", "returned"}

\* The read loop never waits for a caller: the reply channel of a pending call
\* is empty, so neither a reply sent twice nor finish can block it.
ReaderNeverBlocks == \A id \in Ids : pending[id] # None => reply[pending[id]] = "empty"

\* A call that is under way, with an id of its own, is in the table or has been
\* answered: no reply passes it by, no end of the connection leaves it waiting.
CallsAreFound ==
    \A c \in Callers : pc[c] \in Active => pending[IdOf[c]] = c \/ reply[c] # "empty"

\* The end of one call's context interrupts only that call's own write.
OwnInterrupt ==
    /\ watch # None => slot = watch
    /\ writePast # None => slot = writePast /\ writePast \in cancelled

\* Whatever becomes of a call, it neither holds up the read loop, and with it the
\* replies to the others, nor interrupts the write of another.
CallsDoNotDisturb == ReaderNeverBlocks /\ OwnInterrupt

\* A call ends once, truthfully: CallContract.
Contract == INSTANCE CallContract WITH
    outcome <- result, delivered <- out,
    answered <- {id \in Ids : \E c \in Callers : IdOf[c] = id /\ replies[c] > 0}
Implements == Contract!Spec

\* Close returns, whatever the consumer of events and the callers do.
CloseEnds == closer = "waiting" ~> closer = "returned"

\* Once the connection has stopped every call ends, without its deadline.
StopEndsCalls == stop ~> \A c \in Callers : pc[c] \notin Active

\* Nothing waits for ever on a connection that has come to its end: neither who
\* closes it nor who called (client.go:482-499 and 567-585).
EndsForAll == CloseEnds /\ StopEndsCalls
=============================================================================
