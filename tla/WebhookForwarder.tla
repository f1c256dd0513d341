-------------------------- MODULE WebhookForwarder --------------------------
(***************************************************************************)
(* The webhook forwarder (src/go/internal/webhook/webhook.go) behind the   *)
(* daemon's events: the settings it is started with, a bounded queue that  *)
(* ingest fills, and one worker that posts, retries and is stopped.        *)
(***************************************************************************)
EXTENDS Integers, Sequences, FiniteSets, Functions

CONSTANTS
    Files, Envs, Flags,     \* settings that each source may give
    DefaultQueue,           \* 256
    DefaultAttempts,        \* 5
    Backoff, MaxBackoff,    \* of the delay between attempts, in units of it
    Accepted,               \* events whose category is forwarded
    Statuses,               \* what a post may come to
    MaxEvents               \* bound: events of the daemon

\* Settings of a source: a number that is not given is Unset.
Unset == -1
Settings == [url : BOOLEAN, secret : BOOLEAN, queue : Nat \cup {Unset}, attempts : Nat \cup {Unset}]

\* "lost" is a post that the receiver took while the answer did not arrive;
\* "unreachable" never got there; "redirected" was followed by a GET without a
\* body, which was answered; the others are the receiver's answers.
AllStatuses == {"ok", "redirected", "bad_request", "timeout", "too_early", "too_many",
                "server_error", "lost", "unreachable"}

ASSUME WebhookAssumption ==
    /\ Files \subseteq Settings /\ Envs \subseteq Settings /\ Flags \subseteq Settings
    /\ DefaultQueue \in Nat \ {0} /\ DefaultAttempts \in Nat \ {0}
    /\ Backoff \in Nat /\ MaxBackoff \in Nat /\ Backoff <= MaxBackoff
    /\ MaxEvents \in Nat /\ Accepted \subseteq 1..MaxEvents
    /\ Statuses \subseteq AllStatuses
-----------------------------------------------------------------------------
(* The settings.                                                           *)

\* A flag counts when it is positive, the environment when it is set, a file
\* when it is positive.
Merged(flag, env, file, default) ==
    IF flag > 0 THEN flag ELSE IF env # Unset THEN env ELSE IF file > 0 THEN file ELSE default

\* LoadConfig is not given the URL and the secret of the command line.
LoadConfig(file, env, flags) ==
    [url |-> env.url \/ file.url, secret |-> env.secret \/ file.secret,
     queue |-> Merged(flags.queue, env.queue, file.queue, DefaultQueue),
     attempts |-> Merged(flags.attempts, env.attempts, file.attempts, DefaultAttempts)]

\* A mutant does not look at the numbers.
UrlAndSecret(c) == c.url /\ c.secret
Validate(c) == c.url /\ c.secret /\ c.queue >= 1 /\ c.attempts >= 1

\* When that fails and the command line has a secret, the forwarder runs with
\* the defaults and the command line's URL.
Chosen(file, env, flags) ==
    LET loaded == LoadConfig(file, env, flags) IN
    IF Validate(loaded) THEN loaded
    ELSE IF flags.secret
    THEN [url |-> flags.url, secret |-> TRUE, queue |-> DefaultQueue, attempts |-> DefaultAttempts]
    ELSE loaded

\* Of no URL at all no forwarder is made, of settings that are not valid no daemon.
Configs ==
    {Chosen(s[1], s[2], s[3]) :
       s \in {x \in Files \X Envs \X Flags : x[1].url \/ x[2].url \/ x[3].url}}
-----------------------------------------------------------------------------
VARIABLES
    config,         \* the settings
    published,      \* events of the daemon
    queue,          \* events that wait
    counting,       \* Enqueue is between the channel and the counter
    stats,          \* the counters
    worker,         \* "select", "post", "sleep" or "ended"
    event,          \* the one it delivers; 0 is none
    attempt, delay,
    stop,
    received,       \* the posts that reached the receiver, in their order
    delivered,      \* the events that the worker counts as delivered, as failed,
    failed,         \* with the attempts made and whether the last was final,
    dropped,        \* and those that found no room
    abandoned       \* the event it held when it was stopped

work == <<worker, event, attempt, delay>>
log  == <<received, delivered, failed>>
vars == <<config, published, queue, counting, stats, work, stop, log, dropped, abandoned>>

Init ==
    /\ config \in {c \in Configs : Validate(c)}
    /\ published = 0 /\ queue = <<>> /\ counting = "no"
    /\ stats = [queued |-> 0, delivered |-> 0, dropped |-> 0, retries |-> 0, failed |-> 0]
    /\ worker = "select" /\ event = 0 /\ attempt = 0 /\ delay = 0 /\ stop = FALSE
    /\ received = <<>> /\ delivered = {} /\ failed = {} /\ dropped = {} /\ abandoned = {}

Count(counter) == stats' = [stats EXCEPT ![counter] = @ + 1]
-----------------------------------------------------------------------------
(* Enqueue, inside ingest's critical section: it never waits.              *)

Skip ==
    /\ counting = "no" /\ published < MaxEvents /\ published + 1 \notin Accepted
    /\ published' = published + 1
    /\ UNCHANGED <<config, queue, counting, stats, work, stop, log, dropped, abandoned>>

Offer ==
    /\ counting = "no" /\ published < MaxEvents /\ published + 1 \in Accepted
    /\ published' = published + 1
    /\ IF Len(queue) < config.queue
       THEN queue' = Append(queue, published + 1) /\ counting' = "queued" /\ UNCHANGED dropped
       ELSE dropped' = dropped \cup {published + 1} /\ counting' = "dropped" /\ UNCHANGED queue
    /\ UNCHANGED <<config, stats, work, stop, log, abandoned>>

\* The worker may take and deliver the event before it is counted.
Counted ==
    /\ counting # "no"
    /\ Count(counting) /\ counting' = "no"
    /\ UNCHANGED <<config, published, queue, work, stop, log, dropped, abandoned>>
-----------------------------------------------------------------------------
(* The worker.                                                             *)

TakeEvent ==
    /\ worker = "select" /\ queue # <<>>
    /\ event' = Head(queue) /\ queue' = Tail(queue)
    /\ attempt' = 1 /\ worker' = "post"
    /\ UNCHANGED <<config, published, counting, stats, delay, stop, log, dropped, abandoned>>

\* The select takes the stop also when events wait.  A mutant serves them first.
EndsWhenEmpty ==
    /\ worker = "select" /\ stop /\ queue = <<>> /\ published = MaxEvents
    /\ worker' = "ended"
    /\ UNCHANGED <<config, published, queue, counting, stats, event, attempt, delay, stop, log,
                   dropped, abandoned>>
Ends ==
    /\ worker = "select" /\ stop
    /\ worker' = "ended"
    /\ UNCHANGED <<config, published, queue, counting, stats, event, attempt, delay, stop, log,
                   dropped, abandoned>>

Success(status) == status \in {"ok", "redirected"}
Arrives(status) == status \notin {"redirected", "unreachable"}
\* 4xx but 408, 425 and 429; a mutant forgets the exceptions.
AnyClientError(status) == status \in {"bad_request", "timeout", "too_early", "too_many"}
Permanent(status) == status = "bad_request"

\* The delay doubles from one attempt to the next, up to a limit.
Doubled(n) == Backoff * 2^(n - 1)
Delay(n) == IF Doubled(n) >= MaxBackoff THEN MaxBackoff ELSE Doubled(n)

Free == worker' = "select" /\ event' = 0 /\ attempt' = 0 /\ delay' = 0

Answered(status) ==
    /\ worker = "post"
    /\ received' = IF Arrives(status) THEN Append(received, <<event, attempt>>) ELSE received
    /\ UNCHANGED <<config, published, queue, counting, stop, dropped, abandoned>>

Delivered(status) ==
    /\ Success(status) /\ Answered(status)
    /\ Count("delivered") /\ delivered' = delivered \cup {<<event, status>>}
    /\ Free
    /\ UNCHANGED failed

Fails(status) ==
    /\ ~Success(status) /\ (Permanent(status) \/ attempt >= config.attempts)
    /\ Answered(status)
    /\ Count("failed") /\ failed' = failed \cup {<<event, attempt, status>>}
    /\ Free
    /\ UNCHANGED delivered

Retry(status) ==
    /\ ~Success(status) /\ ~Permanent(status) /\ attempt < config.attempts
    /\ Answered(status)
    /\ Count("retries")
    /\ worker' = "sleep" /\ delay' = Delay(attempt)
    /\ UNCHANGED <<event, attempt, delivered, failed>>

\* The delay is over, or the stop cuts it short and the event is given up.
WakeForgetting ==      \* a mutant leaves the event and takes the next
    /\ worker = "sleep" /\ Free
    /\ UNCHANGED <<config, published, queue, counting, stats, stop, log, dropped, abandoned>>
Wake ==
    /\ worker = "sleep"
    /\ worker' = "post" /\ attempt' = attempt + 1 /\ delay' = 0
    /\ UNCHANGED <<config, published, queue, counting, stats, event, stop, log, dropped, abandoned>>

Abandon ==
    /\ worker = "sleep" /\ stop
    /\ abandoned' = abandoned \cup {event}
    /\ Free
    /\ UNCHANGED <<config, published, queue, counting, stats, stop, log, dropped>>

Stop ==
    /\ ~stop /\ stop' = TRUE
    /\ UNCHANGED <<config, published, queue, counting, stats, work, log, dropped, abandoned>>
-----------------------------------------------------------------------------
Post == \E status \in Statuses : Delivered(status) \/ Fails(status) \/ Retry(status)

Work == TakeEvent \/ Ends \/ Post \/ Wake \/ Abandon

Next == Skip \/ Offer \/ Counted \/ Work \/ Stop

\* The worker runs, and a post ends (the client has a timeout); so does the
\* critical section.  Nobody has to publish or to stop.
Spec == Init /\ [][Next]_vars /\ WF_vars(Work) /\ WF_vars(Counted)
-----------------------------------------------------------------------------
Events == 1..MaxEvents

TypeOK ==
    /\ config \in [url : {TRUE}, secret : {TRUE}, queue : Nat \ {0}, attempts : Nat \ {0}]
    /\ published \in 0..MaxEvents /\ queue \in Seq(Events) /\ Len(queue) <= config.queue
    /\ counting \in {"no", "queued", "dropped"}
    /\ stats \in [{"queued", "delivered", "dropped", "retries", "failed"} -> Nat]
    /\ worker \in {"select", "post", "sleep", "ended"} /\ event \in 0..MaxEvents
    /\ attempt \in 0..config.attempts /\ delay \in 0..MaxBackoff /\ stop \in BOOLEAN
    /\ received \in Seq(Events \X (1..config.attempts))
    /\ delivered \subseteq Events \X {"ok", "redirected"}
    /\ failed \subseteq Events \X (1..config.attempts) \X Statuses
    /\ dropped \subseteq Events /\ abandoned \subseteq Events

Held == IF event = 0 THEN {} ELSE {event}
Ended == {d[1] : d \in delivered} \cup {f[1] : f \in failed} \cup dropped \cup abandoned

\* "Delivery is best effort, in memory, and bounded" (src/go/README.md:182): each
\* event that is forwarded waits, is in work, or has one end: delivered, failed,
\* dropped on a full queue, or given up on a stop.  What counts as delivered
\* was posted and not only tried, but for a redirect; a failure was final or
\* took all attempts, and no answer that asks for a retry is final.
OneEnd ==
    /\ {e \in Accepted : e <= published} = Range(queue) \cup Held \cup Ended
    /\ Len(queue) + Cardinality(Held) + Cardinality(delivered) + Cardinality(failed)
         + Cardinality(dropped) + Cardinality(abandoned)
         = Cardinality({e \in Accepted : e <= published})
    /\ \A d \in delivered : d[2] = "ok" => \E p \in Range(received) : p[1] = d[1]
    /\ \A f \in failed : f[2] = config.attempts \/ f[3] = "bad_request"
    /\ abandoned # {} => stop

\* The counters, as status shows them at any moment, tell what happened to all
\* events but the one that Enqueue has not counted yet.
Uncounted(what) == IF counting = what THEN 1 ELSE 0
CountersTrue ==
    /\ stats.delivered = Cardinality(delivered) /\ stats.failed = Cardinality(failed)
    /\ stats.dropped + Uncounted("dropped") = Cardinality(dropped)
    /\ stats.queued + Uncounted("queued")
         = Len(queue) + Cardinality(Held) + stats.delivered + stats.failed + Cardinality(abandoned)

\* As long as the forwarder is not stopped, an event in the queue has its end at
\* last, whatever the receiver answers.
EventsEnd == \A e \in Accepted : e \in Range(queue) ~> (e \in Ended \/ stop)

\* A stop ends the worker, also while it waits to retry.
StopEnds == stop ~> worker = "ended"

\* A receiver that never takes an event holds up neither the next nor the stop.
EventsAndStopEnd == EventsEnd /\ StopEnds
=============================================================================
