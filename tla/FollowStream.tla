---------------------------- MODULE FollowStream ----------------------------
(***************************************************************************)
(* "mc-agent events --follow": the daemon's event log, the connection of   *)
(* the local API with its bounded queue on each side, and the command that *)
(* subscribes, pages through the ring and then prints events as they come, *)
(* going back to the ring whenever its own queue has overflowed (cmdEvents *)
(* in src/go/internal/cli/ops.go, Server and Client in                     *)
(* src/go/internal/ipc/ipc.go, recentEvents in                             *)
(* src/go/internal/daemon/daemon.go).                                      *)
(***************************************************************************)
EXTENDS EventReader

CONSTANTS
    Sent,           \* the events that the targets send
    Filters,        \* --category and --target of the command
    Since,          \* --since of the command
    Origins,        \* where that comes from: this run of the daemon, another
                    \* run with its --stream-id, or unknown without one
    OutboundSize,   \* frames the server holds for a client (256)
    QueueSize       \* live events the client holds (256)

ASSUME FollowAssumption ==
    /\ Sent \subseteq Event /\ Filters \subseteq Filter
    /\ Origins \subseteq {"this", "other", "unknown"} /\ Since \subseteq Nat
    /\ OutboundSize \in Nat \ {0} /\ QueueSize \in Nat \ {0}

VARIABLES
    up,         \* the server keeps the connection
    subscribed, \* the server sends events to this client
    request,    \* what the server does for the client
    outbound,   \* frames between the server's send and the client's read loop
    reading,    \* the event in the read loop, with the count it took for it
    queue,      \* live events that wait for the command, each with its tag
    dropped,    \* the count of dropped events
    notify,     \* the notice that some were dropped
    reply,      \* the answer that waits for the command
    done,       \* the read loop has ended
    pc,         \* where the command is
    limit,      \* --limit of the command; filter is its --category and --target
    origin,     \* what run the cursor belongs to, where it pages from
    lastSeq,    \* the newest event printed
    held,       \* the tagged event that waits for a recovery
    printed,    \* events the command has printed
    warned,     \* it has printed a gap marker before the page it asks for
    excused     \* events that a marker stands for

settings == <<filter, limit>>
server   == <<up, subscribed, request, outbound>>
counter  == <<dropped, notify>>
inbound  == <<reading, queue, counter, reply, done>>
output   == <<lastSeq, printed, warned, excused>>
command  == <<pc, settings, cursor, origin, held, owed, output>>
followVars == <<ringVars, server, inbound, command>>

NotYet == MaxSeq + 1

FollowInit ==
    /\ RingInit
    /\ up = TRUE /\ subscribed = FALSE /\ request = Nothing /\ outbound = <<>>
    /\ reading = Nothing /\ queue = <<>> /\ dropped = 0 /\ notify = FALSE
    /\ reply = Nothing /\ done = FALSE
    /\ pc = "start" /\ filter \in Filters /\ limit \in Limits
    /\ cursor \in Since /\ origin \in Origins /\ held = Nothing
    /\ lastSeq = 0 /\ printed = {} /\ warned = FALSE /\ excused = {} /\ owed = NotYet
-----------------------------------------------------------------------------
(* The daemon and its side of the connection.                              *)

\* The frames that the socket had already taken can still be read.
Close ==
    /\ up' = FALSE
    /\ \E n \in 0..Len(outbound) : outbound' = SubSeq(outbound, 1, n)

\* A full queue closes the connection of a slow client.  A mutant is one late.
SendLate(frame) ==
    IF Len(outbound) <= OutboundSize
    THEN outbound' = Append(outbound, frame) /\ UNCHANGED up
    ELSE Close
Send(frame) ==
    IF Len(outbound) < OutboundSize
    THEN outbound' = Append(outbound, frame) /\ UNCHANGED up
    ELSE Close

\* One critical section numbers an event, appends it and broadcasts it.
Publish(e) ==
    /\ Ingest(e)
    /\ IF up /\ subscribed /\ filter.category \in {e.category, NoFilter}
       THEN Send([kind |-> "event", seq |-> Len(log')])
       ELSE UNCHANGED <<up, outbound>>
    /\ UNCHANGED <<subscribed, request, inbound, command>>

\* The server's read loop subscribes the client before it answers.
ServeSubscribe ==
    /\ up /\ request = [step |-> "subscribe"]
    /\ subscribed' = TRUE /\ request' = [step |-> "confirm"]
    /\ UNCHANGED <<ringVars, up, outbound, inbound, command>>

Confirm ==
    /\ up /\ request = [step |-> "confirm"]
    /\ Send([kind |-> "subscribed"]) /\ request' = Nothing
    /\ UNCHANGED <<ringVars, subscribed, inbound, command>>

\* recentEvents under the lock.
CopyRing ==
    /\ up /\ request = [step |-> "events"]
    /\ LET reset == origin = "other" \/ cursor > Len(log)
       IN  request' = [step |-> "copied", first |-> first, last |-> Len(log),
                       reset |-> reset, since |-> IF reset THEN 0 ELSE cursor]
    /\ UNCHANGED <<ringVars, up, subscribed, outbound, inbound, command>>

Copied == request # Nothing /\ request.step = "copied"

\* The oldest events of the copy that match and are newer than since.
Wanted == {seq \in request.first..request.last :
              seq > request.since /\ Matches(log[seq], filter)}
Page ==
    IF limit = 0 THEN Wanted
    ELSE {seq \in Wanted : Cardinality({s \in Wanted : s <= seq}) <= limit}

\* recentEvents without the lock, and the response.
AnswerPage ==
    /\ up /\ Copied
    /\ \E next \in Page \cup {request.last} :
          /\ IF Page = {} THEN next = request.last
             ELSE next \in Page /\ \A seq \in Page : seq <= next
          /\ Send([kind |-> "page", events |-> Page, next |-> next, first |-> request.first,
                   since |-> request.since, reset |-> request.reset,
                   truncated |-> Page # Wanted, dropped |-> Dropped(filter, request.since)])
    /\ request' = Nothing
    /\ UNCHANGED <<ringVars, subscribed, inbound, command>>

\* The daemon stops or dies, a write times out, or the client was silent for
\* the idle timeout.
Hangup ==
    /\ up /\ Close
    /\ UNCHANGED <<ringVars, subscribed, request, inbound, command>>
-----------------------------------------------------------------------------
(* The client's read loop.                                                 *)

Arrives(kinds) == outbound # <<>> /\ outbound[1].kind \in kinds /\ reading = Nothing

RouteReply ==
    /\ Arrives({"subscribed", "page"})
    /\ reply' = outbound[1] /\ outbound' = Tail(outbound)
    /\ UNCHANGED <<ringVars, up, subscribed, request, reading, queue, counter, done, command>>

\* The next event takes the count with it ...
ReadEvent ==
    /\ Arrives({"event"})
    /\ reading' = [seq |-> outbound[1].seq, tag |-> dropped]
    /\ dropped' = 0 /\ outbound' = Tail(outbound)
    /\ UNCHANGED <<ringVars, up, subscribed, request, queue, notify, reply, done, command>>

\* ... into the queue, or is dropped itself and counted, and the command gets
\* notice.  Mutants leave out the tag or the notice.
QueueUntagged ==
    /\ reading # Nothing /\ reading' = Nothing
    /\ IF Len(queue) < QueueSize
       THEN queue' = Append(queue, [reading EXCEPT !.tag = 0]) /\ UNCHANGED counter
       ELSE dropped' = dropped + 1 /\ notify' = TRUE /\ UNCHANGED queue
    /\ UNCHANGED <<ringVars, server, reply, done, command>>
QueueSilently ==
    /\ reading # Nothing /\ reading' = Nothing
    /\ IF Len(queue) < QueueSize
       THEN queue' = Append(queue, reading) /\ UNCHANGED counter
       ELSE dropped' = dropped + 1 /\ UNCHANGED <<notify, queue>>
    /\ UNCHANGED <<ringVars, server, reply, done, command>>
QueueEvent ==
    /\ reading # Nothing /\ reading' = Nothing
    /\ IF Len(queue) < QueueSize
       THEN queue' = Append(queue, reading) /\ UNCHANGED counter
       ELSE dropped' = dropped + 1 /\ notify' = TRUE /\ UNCHANGED queue
    /\ UNCHANGED <<ringVars, server, reply, done, command>>

\* The end of the connection stops the read loop and fails pending calls.
ReadFails ==
    /\ ~up /\ outbound = <<>> /\ reading = Nothing /\ ~done /\ done' = TRUE
    /\ UNCHANGED <<ringVars, server, reading, queue, counter, reply, command>>
-----------------------------------------------------------------------------
(* The command.                                                            *)

Call(step) == request' = IF up THEN [step |-> step] ELSE request

\* Whoever names a sequence number of this run has seen its event.
Subscribe ==
    /\ pc = "start" /\ (origin = "this" => cursor <= Len(log))
    /\ pc' = "subscribing" /\ Call("subscribe")
    /\ UNCHANGED <<ringVars, up, subscribed, outbound, inbound,
                   settings, cursor, origin, held, owed, output>>

Subscribed ==
    /\ pc = "subscribing" /\ reply # Nothing
    /\ reply' = Nothing /\ pc' = "paging"
    /\ UNCHANGED <<ringVars, server, reading, queue, counter, done,
                   settings, cursor, origin, held, owed, output>>

AskPage ==
    /\ pc = "paging" /\ pc' = "waiting" /\ Call("events")
    /\ UNCHANGED <<ringVars, up, subscribed, outbound, inbound,
                   settings, cursor, origin, held, owed, output>>

\* A cursor of another run: a marker, and from the beginning.
Reset ==
    /\ pc = "waiting" /\ reply # Nothing /\ reply.reset
    /\ reply' = Nothing /\ pc' = "paging"
    /\ cursor' = 0 /\ origin' = "this" /\ lastSeq' = 0 /\ warned' = TRUE
    /\ UNCHANGED <<ringVars, server, reading, queue, counter, done,
                   settings, held, owed, printed, excused>>

\* A page: a marker if the daemon says so, the events, and the place to go on.
\* A marker, of the daemon's or an earlier one of the command's own, stands for
\* what the ring had lost.
PrintPage ==
    /\ pc = "waiting" /\ reply # Nothing /\ ~reply.reset
    /\ printed' = printed \cup reply.events
    /\ lastSeq' \in reply.events \cup {lastSeq}
    /\ \A seq \in reply.events \cup {lastSeq} : seq <= lastSeq'
    /\ excused' = excused \cup (IF warned \/ reply.dropped THEN lastSeq + 1..reply.first - 1 ELSE {})
    /\ warned' = FALSE
    /\ cursor' = reply.next /\ origin' = "this"
    /\ pc' = IF reply.truncated THEN "paging" ELSE "checking"
    /\ owed' = IF owed # NotYet THEN owed
               ELSE IF reply.since = 0 THEN reply.first ELSE reply.since + 1
    /\ reply' = Nothing
    /\ UNCHANGED <<ringVars, server, reading, queue, counter, done, settings, held>>

\* An event of the live stream, unless it is another target's or a recovery has
\* printed it.  A mutant prints what a recovery has printed.
DeliverAgain(seq) ==
    IF Matches(log[seq], filter)
    THEN lastSeq' = seq /\ printed' = printed \cup {seq} /\ UNCHANGED <<warned, excused>>
    ELSE UNCHANGED output
Deliver(seq) ==
    IF Matches(log[seq], filter) /\ seq > lastSeq
    THEN lastSeq' = seq /\ printed' = printed \cup {seq} /\ UNCHANGED <<warned, excused>>
    ELSE UNCHANGED output

\* A marker, and back to the ring, behind the last event printed.
Recover ==
    /\ cursor' = lastSeq /\ warned' = TRUE /\ pc' = "paging"
    /\ UNCHANGED <<lastSeq, printed, excused>>

\* After the last page: once more if more was dropped, and else on to live
\* delivery, beginning with the event that was held.
Overflowed ==
    /\ pc = "checking" /\ dropped > 0
    /\ dropped' = 0 /\ Recover
    /\ UNCHANGED <<ringVars, server, reading, queue, notify, reply, done,
                   settings, origin, held, owed>>

GoLive ==
    /\ pc = "checking" /\ dropped = 0 /\ pc' = "live"
    /\ IF held = Nothing THEN UNCHANGED output ELSE Deliver(held.seq)
    /\ held' = Nothing
    /\ UNCHANGED <<ringVars, server, inbound, settings, cursor, origin, owed>>

\* The two selects: the first one only prefers the notice.
Noticed ==
    /\ pc = "live" /\ notify /\ notify' = FALSE /\ dropped' = 0
    /\ IF dropped > 0 THEN Recover ELSE UNCHANGED <<pc, cursor, output>>
    /\ UNCHANGED <<ringVars, server, reading, queue, reply, done,
                   settings, origin, held, owed>>

TakeEvent ==
    /\ pc = "live" /\ queue # <<>> /\ queue' = Tail(queue)
    /\ IF queue[1].tag > 0
       THEN Recover /\ held' = queue[1]
       ELSE Deliver(queue[1].seq) /\ UNCHANGED <<pc, cursor, held>>
    /\ UNCHANGED <<ringVars, server, reading, counter, reply, done,
                   settings, origin, owed>>

\* The connection has ended: a call fails, and so does live delivery when the
\* queue is empty.
Fails ==
    /\ done
    /\ pc \in {"start", "subscribing", "paging", "waiting"} \/ (pc = "live" /\ queue = <<>>)
    /\ pc' = "ended"
    /\ UNCHANGED <<ringVars, server, inbound, settings, cursor, origin, held, owed, output>>

\* The user interrupts the command.
Cancel ==
    /\ pc \in {"start", "subscribing", "paging", "waiting", "live"}
    /\ pc' = "ended"
    /\ UNCHANGED <<ringVars, server, inbound, settings, cursor, origin, held, owed, output>>
-----------------------------------------------------------------------------
ServerStep   == ServeSubscribe \/ Confirm \/ CopyRing \/ AnswerPage
ReadLoopStep == RouteReply \/ ReadEvent \/ QueueEvent \/ ReadFails
CommandStep  ==
    \/ Subscribe \/ Subscribed \/ AskPage \/ Reset \/ PrintPage \/ Overflowed \/ GoLive
    \/ Noticed \/ TakeEvent \/ Fails

FollowNext ==
    \/ \E e \in Sent : Publish(e)
    \/ ServerStep \/ ReadLoopStep \/ CommandStep
    \/ Hangup \/ Cancel

FollowSpec == FollowInit /\ [][FollowNext]_followVars

\* The goroutines of both sides go on; events, failures and the user need not.
FairSpec ==
    /\ FollowSpec
    /\ WF_followVars(ServerStep) /\ WF_followVars(ReadLoopStep) /\ WF_followVars(CommandStep)
-----------------------------------------------------------------------------
Pcs == {"start", "subscribing", "paging", "waiting", "checking", "live", "ended"}
Requests ==
    [step : {"subscribe", "confirm", "events"}]
    \cup [step : {"copied"}, first : 1..MaxSeq + 1, last : 0..MaxSeq,
          reset : BOOLEAN, since : 0..MaxSeq]
Pages ==
    [kind : {"page"}, events : SUBSET (1..MaxSeq), next : 0..MaxSeq, first : 1..MaxSeq + 1,
     since : 0..MaxSeq, reset : BOOLEAN, truncated : BOOLEAN, dropped : BOOLEAN]
Replies == [kind : {"subscribed"}] \cup Pages
Frames  == [kind : {"event"}, seq : 1..MaxSeq] \cup Replies
Tagged  == [seq : 1..MaxSeq, tag : 0..MaxSeq]

ASSUME NothingAssumption == Nothing \notin Requests \cup Replies \cup Tagged

\* Every variable stays in its range, and the queues within their sizes.
FollowTypeOK ==
    /\ RingTypeOK
    /\ up \in BOOLEAN /\ subscribed \in BOOLEAN
    /\ request \in Requests \cup {Nothing}
    /\ outbound \in Seq(Frames) /\ Len(outbound) <= OutboundSize
    /\ reading \in Tagged \cup {Nothing}
    /\ queue \in Seq(Tagged) /\ Len(queue) <= QueueSize
    /\ dropped \in 0..MaxSeq /\ notify \in BOOLEAN
    /\ reply \in Replies \cup {Nothing} /\ done \in BOOLEAN
    /\ pc \in Pcs /\ filter \in Filters /\ limit \in Limits
    /\ cursor \in Nat /\ origin \in {"this", "other", "unknown"} /\ held \in Tagged \cup {Nothing}
    /\ lastSeq \in 0..MaxSeq /\ printed \subseteq 1..MaxSeq
    /\ warned \in BOOLEAN /\ excused \subseteq 1..MaxSeq /\ owed \in 1..MaxSeq + 1

\* "Emitting gap when events were lost": up to the newest event printed, the
\* command has printed every event that it was asked for, or a marker where
\* it is missing.
NothingSkipped ==
    \A seq \in owed..lastSeq :
        Matches(log[seq], filter) => seq \in printed \cup excused

\* "Recoverable events arrive exactly once", and in their order: what is
\* printed, from a page or live, is newer than all that was printed.
PrintedInOrder ==
    [][\A old \in printed :
          /\ lastSeq' # lastSeq => old < lastSeq'
          /\ PrintPage => \A new \in reply.events : old < new]_followVars

\* Also when nothing follows an overflow, its events are recovered: again and
\* again every event that was asked for is printed or replaced by a marker,
\* unless the command has ended.
CaughtUp ==
    \A seq \in owed..Len(log) :
        Matches(log[seq], filter) => seq <= lastSeq \/ seq \in excused
CatchesUp == []<>(pc = "ended" \/ (owed # NotYet /\ CaughtUp))
=============================================================================
