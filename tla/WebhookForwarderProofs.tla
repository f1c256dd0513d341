----------------------- MODULE WebhookForwarderProofs -----------------------
(***************************************************************************)
(* Theorems about WebhookForwarder for any settings, any number of events, *)
(* and any answers of the receiver.                                        *)
(***************************************************************************)
EXTENDS WebhookForwarder, FiniteSetTheorems, SequenceTheorems, TLAPS

(* The inductive invariant.                                                *)

\* The worker holds an event while it posts it or waits to post it again, which it
\* does only when there is an attempt left.
WorkerInv ==
    /\ worker \in {"post", "sleep"} <=> event # 0
    /\ worker = "post" => attempt >= 1
    /\ worker = "sleep" => attempt \in 1..(config.attempts - 1)

\* An event that waits is in the queue once, and neither it nor the one in work has
\* an end.
SeparateInv ==
    /\ \A i, j \in DOMAIN queue : queue[i] = queue[j] => i = j
    /\ \A i \in DOMAIN queue : queue[i] # event /\ queue[i] \notin Ended
    /\ event \notin Ended

FiniteInv == /\ IsFiniteSet(delivered) /\ IsFiniteSet(failed)
             /\ IsFiniteSet(dropped) /\ IsFiniteSet(abandoned)

IInv == TypeOK /\ WorkerInv /\ SeparateInv /\ FiniteInv /\ OneEnd /\ CountersTrue
-----------------------------------------------------------------------------
(* Types.                                                                  *)

\* Settings that are valid make a queue and attempts of at least one.
LEMMA ConfigTypes ==
    ASSUME NEW c \in Configs, Validate(c)
    PROVE  c \in [url : {TRUE}, secret : {TRUE}, queue : Nat \ {0}, attempts : Nat \ {0}]
<1> USE WebhookAssumption
<1>1. PICK file \in Settings, env \in Settings, flags \in Settings : c = Chosen(file, env, flags)
  BY DEF Configs
<1>2. \A flag, e, f \in Nat \cup {Unset}, default \in Nat : Merged(flag, e, f, default) \in Nat
  BY DEF Merged, Unset
<1> DEFINE loaded == LoadConfig(file, env, flags)
<1>3. loaded \in [url : BOOLEAN, secret : BOOLEAN, queue : Nat, attempts : Nat]
  <2>1. (env.url \/ file.url) \in BOOLEAN /\ (env.secret \/ file.secret) \in BOOLEAN
    BY DEF Settings
  <2>2. /\ Merged(flags.queue, env.queue, file.queue, DefaultQueue) \in Nat
        /\ Merged(flags.attempts, env.attempts, file.attempts, DefaultAttempts) \in Nat
    BY <1>2 DEF Settings
  <2>3. QED BY <2>1, <2>2 DEF LoadConfig
<1> HIDE DEF loaded
<1>4. c \in [url : BOOLEAN, secret : BOOLEAN, queue : Nat, attempts : Nat]
  <2>1. CASE c = loaded
    BY <1>3, <2>1
  <2>2. CASE c = [url |-> flags.url, secret |-> TRUE, queue |-> DefaultQueue,
                  attempts |-> DefaultAttempts]
    <3>1. flags.url \in BOOLEAN
      BY DEF Settings
    <3>2. QED BY <2>2, <3>1
  <2>3. c = loaded \/ c = [url |-> flags.url, secret |-> TRUE, queue |-> DefaultQueue,
                           attempts |-> DefaultAttempts]
    BY <1>1 DEF Chosen, loaded
  <2>4. QED BY <2>1, <2>2, <2>3
<1>5. /\ c = [url |-> c.url, secret |-> c.secret, queue |-> c.queue, attempts |-> c.attempts]
      /\ c.url /\ c.secret /\ c.queue >= 1 /\ c.attempts >= 1
  BY <1>4 DEF Validate
<1>6. c.url \in {TRUE} /\ c.secret \in {TRUE}
  <2>1. c.url \in BOOLEAN /\ c.secret \in BOOLEAN
    BY <1>4
  <2>2. QED BY <1>5, <2>1
<1>7. c.queue \in Nat \ {0} /\ c.attempts \in Nat \ {0}
  BY <1>4, <1>5
<1>8. [url |-> c.url, secret |-> c.secret, queue |-> c.queue, attempts |-> c.attempts]
         \in [url : {TRUE}, secret : {TRUE}, queue : Nat \ {0}, attempts : Nat \ {0}]
  BY <1>6, <1>7, Zenon
<1>9. QED BY <1>5, <1>8, Zenon

\* The delay is at most the limit.
LEMMA DelayBound ==
    ASSUME NEW n \in Nat \ {0}
    PROVE  Delay(n) \in 0..MaxBackoff
<1> USE WebhookAssumption
<1>1. 2^(n - 1) \in Nat
  <2>1. n - 1 \in Nat /\ IsFiniteSet(1..(n - 1)) /\ Cardinality(1..(n - 1)) = n - 1
    BY FS_Interval
  <2>2. IsFiniteSet(SUBSET (1..(n - 1))) /\ Cardinality(SUBSET (1..(n - 1))) = 2^(n - 1)
    BY <2>1, FS_SUBSET
  <2>3. QED BY <2>2, FS_CardinalityType
<1>2. Doubled(n) \in Nat
  <2>1. \A p \in Nat : Backoff * p \in Nat
    OBVIOUS
  <2>2. QED BY <1>1, <2>1 DEF Doubled
<1>3. QED BY <1>2 DEF Delay

\* The counters are five numbers, of which one grows by one.
LEMMA Counters ==
    ASSUME TypeOK, NEW counter \in {"queued", "delivered", "dropped", "retries", "failed"},
           Count(counter)
    PROVE  /\ stats' \in [{"queued", "delivered", "dropped", "retries", "failed"} -> Nat]
           /\ stats'[counter] = stats[counter] + 1
           /\ \A other \in {"queued", "delivered", "dropped", "retries", "failed"} :
                 other # counter => stats'[other] = stats[other]
BY SMTT(30) DEF Count, TypeOK

\* The first of the events that wait is an event.
LEMMA QueueHead == TypeOK /\ queue # <<>> => Head(queue) \in Events /\ Tail(queue) \in Seq(Events)
BY HeadTailProperties DEF TypeOK

\* What Enqueue does keeps every variable in its range ...
LEMMA TypesEnqueue == TypeOK /\ (Skip \/ Offer \/ Counted) => TypeOK'
<1> SUFFICES ASSUME TypeOK, Skip \/ Offer \/ Counted PROVE TypeOK'
  OBVIOUS
<1> USE WebhookAssumption DEF work, log
<1>1. UNCHANGED <<config, worker, event, attempt, delay, stop, received, delivered, failed, abandoned>>
  BY DEF Skip, Offer, Counted
<1>2. stop' \in BOOLEAN
  BY <1>1 DEF TypeOK
<1>3. CASE Skip
  <2>1. published' \in 0..MaxEvents
    BY <1>3 DEF Skip, TypeOK
  <2>2. UNCHANGED <<queue, counting, stats, dropped>>
    BY <1>3 DEF Skip
  <2>3. QED BY <1>1, <1>2, <2>1, <2>2 DEF TypeOK
<1>4. CASE Offer
  <2>1. published' \in 0..MaxEvents /\ published' \in Events /\ published' = published + 1
    BY <1>4 DEF Offer, TypeOK, Events
  <2>2. queue' \in Seq(Events) /\ Len(queue') <= config'.queue
    <3>1. CASE queue' = queue
      BY <1>1, <3>1 DEF TypeOK
    <3>2. CASE Len(queue) < config.queue /\ queue' = Append(queue, published')
      BY <1>1, <2>1, <3>2 DEF TypeOK
    <3>3. QED BY <1>4, <2>1, <3>1, <3>2 DEF Offer
  <2>3. dropped' \subseteq Events /\ counting' \in {"no", "queued", "dropped"}
    BY <1>4, <2>1 DEF Offer, TypeOK
  <2>4. QED BY <1>1, <1>2, <1>4, <2>1, <2>2, <2>3 DEF Offer, TypeOK
<1>5. CASE Counted
  <2>1. stats' \in [{"queued", "delivered", "dropped", "retries", "failed"} -> Nat]
    BY <1>5, Counters DEF Counted, TypeOK
  <2>2. QED BY <1>1, <1>2, <1>5, <2>1 DEF Counted, TypeOK
<1>6. QED BY <1>3, <1>4, <1>5

\* ... and so does the answer to a post ...
LEMMA TypesPost == TypeOK /\ WorkerInv /\ Post => TypeOK'
<1> SUFFICES ASSUME TypeOK, WorkerInv, NEW status \in Statuses,
                    Delivered(status) \/ Fails(status) \/ Retry(status)
             PROVE  TypeOK'
  BY DEF Post
<1> USE WebhookAssumption
<1>1. Answered(status)
  BY DEF Delivered, Fails, Retry
<1>2. /\ UNCHANGED <<config, published, queue, counting, stop, dropped, abandoned>>
      /\ worker = "post"
  BY <1>1 DEF Answered
<1>3. stop' \in BOOLEAN
  BY <1>2 DEF TypeOK
<1>4. event \in Events /\ attempt \in 1..config.attempts /\ config.attempts \in Nat
  BY <1>2 DEF TypeOK, WorkerInv, Events
<1>5. received' \in Seq(Events \X (1..config.attempts))
  <2> DEFINE Posts == Events \X (1..config.attempts)
  <2>1. <<event, attempt>> \in Posts
    BY <1>4
  <2>2. received \in Seq(Posts)
    BY DEF TypeOK
  <2>3. received' = Append(received, <<event, attempt>>) \/ received' = received
    BY <1>1 DEF Answered
  <2> HIDE DEF Posts
  <2>4. received' \in Seq(Posts)
    BY <2>1, <2>2, <2>3, SMTT(30)
  <2>5. QED BY <2>4 DEF Posts
<1>6. stats' \in [{"queued", "delivered", "dropped", "retries", "failed"} -> Nat]
  BY Counters DEF Delivered, Fails, Retry
<1>7. delivered' \subseteq Events \X {"ok", "redirected"}
  <2>1. delivered' = delivered \/ (delivered' = delivered \cup {<<event, status>>} /\ Success(status))
    BY DEF Delivered, Fails, Retry
  <2>2. Success(status) => <<event, status>> \in Events \X {"ok", "redirected"}
    BY <1>4 DEF Success
  <2>3. QED BY <2>1, <2>2 DEF TypeOK
<1>8. failed' \subseteq Events \X (1..config.attempts) \X Statuses
  <2>1. failed' = failed \/ failed' = failed \cup {<<event, attempt, status>>}
    BY DEF Delivered, Fails, Retry
  <2>2. <<event, attempt, status>> \in Events \X (1..config.attempts) \X Statuses
    BY <1>4
  <2>3. QED BY <2>1, <2>2 DEF TypeOK
<1>9. /\ worker' \in {"select", "post", "sleep", "ended"} /\ event' \in 0..MaxEvents
      /\ attempt' \in 0..config.attempts
  BY <1>4, SMTT(30) DEF Delivered, Fails, Retry, Free, TypeOK, Events
<1>10. delay' \in 0..MaxBackoff
  <2>1. Delay(attempt) \in 0..MaxBackoff
    BY <1>4, DelayBound
  <2>2. delay' \in {0, Delay(attempt)}
    BY DEF Delivered, Fails, Retry, Free
  <2>3. QED BY <2>1, <2>2
<1>11. QED BY <1>2, <1>3, <1>5, <1>6, <1>7, <1>8, <1>9, <1>10 DEF TypeOK

\* ... and every other step.
LEMMA TypesWork ==
    ASSUME TypeOK, WorkerInv, TakeEvent \/ Ends \/ Wake \/ Abandon \/ Stop \/ UNCHANGED vars
    PROVE  TypeOK'
<1> USE WebhookAssumption DEF log, work
<1>1. /\ UNCHANGED <<config, published, counting, stats, received, delivered, failed, dropped>>
      /\ stop' = stop \/ stop' = TRUE
  BY DEF TakeEvent, Ends, Wake, Abandon, Stop, vars
<1>2. stop' \in BOOLEAN
  BY <1>1 DEF TypeOK
<1>3. queue' \in Seq(Events) /\ Len(queue') <= config.queue
  <2>1. CASE queue' = queue
    BY <2>1 DEF TypeOK
  <2>2. CASE queue # <<>> /\ queue' = Tail(queue)
    BY <2>2 DEF TypeOK
  <2>3. QED BY <2>1, <2>2 DEF TakeEvent, Ends, Wake, Abandon, Stop, vars
<1>4. event' \in 0..MaxEvents /\ worker' \in {"select", "post", "sleep", "ended"}
  <2>1. CASE queue # <<>> /\ event' = Head(queue)
    BY <2>1, QueueHead, SMTT(30) DEF TypeOK, Events, TakeEvent, Ends, Wake, Abandon, Stop, vars, Free
  <2>2. CASE event' \in {event, 0}
    BY <2>2 DEF TypeOK, TakeEvent, Ends, Wake, Abandon, Stop, vars, Free
  <2>3. QED BY <2>1, <2>2 DEF TakeEvent, Ends, Wake, Abandon, Stop, vars, Free
<1>5. attempt' \in 0..config.attempts /\ delay' \in 0..MaxBackoff
  <2>1. /\ config.attempts \in Nat \ {0} /\ attempt \in 0..config.attempts
        /\ delay \in 0..MaxBackoff /\ MaxBackoff \in Nat
    BY DEF TypeOK
  <2>2. worker = "sleep" => attempt \in 1..(config.attempts - 1)
    BY DEF WorkerInv
  <2>3. /\ attempt' \in {attempt, 0, 1} \/ (worker = "sleep" /\ attempt' = attempt + 1)
        /\ delay' \in {delay, 0}
    BY DEF TakeEvent, Ends, Wake, Abandon, Stop, vars, Free
  <2>4. QED BY <2>1, <2>2, <2>3
<1>6. abandoned' \subseteq Events
  <2>1. worker = "sleep" => event \in Events
    BY DEF WorkerInv, TypeOK, Events
  <2>2. QED BY <2>1 DEF TypeOK, TakeEvent, Ends, Wake, Abandon, Stop, vars
<1>7. QED BY <1>1, <1>2, <1>3, <1>4, <1>5, <1>6 DEF TypeOK

\* The worker holds an event as long as it posts it or sleeps.
LEMMA WorkerStep == TypeOK /\ WorkerInv /\ [Next]_vars => WorkerInv'
<1> SUFFICES ASSUME TypeOK, WorkerInv, [Next]_vars PROVE WorkerInv'
  OBVIOUS
<1> USE DEF log, work
<1>1. config' = config
  BY DEF Next, Skip, Offer, Counted, Work, TakeEvent, Ends, Post, Delivered, Fails, Retry, Answered,
         Wake, Abandon, Stop, vars
<1>2. CASE Skip \/ Offer \/ Counted \/ Stop \/ UNCHANGED vars
  BY <1>1, <1>2 DEF Skip, Offer, Counted, Stop, vars, WorkerInv
<1>3. CASE TakeEvent
  <2>1. Head(queue) # 0
    BY <1>3, QueueHead DEF TakeEvent, Events
  <2>2. QED BY <1>1, <1>3, <2>1 DEF TakeEvent, WorkerInv
<1>4. CASE Ends \/ Abandon
  BY <1>1, <1>4 DEF Ends, Abandon, Free, WorkerInv
<1>5. CASE Wake
  BY <1>1, <1>5 DEF Wake, WorkerInv, TypeOK
<1>6. ASSUME NEW status \in Statuses, Delivered(status) \/ Fails(status)
      PROVE  WorkerInv'
  BY <1>1, <1>6 DEF Delivered, Fails, Free, WorkerInv
<1>7. ASSUME NEW status \in Statuses, Retry(status)
      PROVE  WorkerInv'
  BY <1>1, <1>7 DEF Retry, Answered, WorkerInv, TypeOK
<1>8. QED BY <1>2, <1>3, <1>4, <1>5, <1>6, <1>7 DEF Next, Work, Post
-----------------------------------------------------------------------------
(* One end for each event.                                                 *)

Forwarded == {e \in Accepted : e <= published}

\* Each event that is forwarded is somewhere ...
PlaceInv == Forwarded = Range(queue) \cup Held \cup Ended

\* ... and counted once.
SumInv ==
    Len(queue) + Cardinality(Held) + Cardinality(delivered) + Cardinality(failed)
       + Cardinality(dropped) + Cardinality(abandoned) = Cardinality(Forwarded)

\* What counts as delivered was posted, a failure was final, and only a stop gives up.
EvidenceInv ==
    /\ \A d \in delivered : d[2] = "ok" => \E p \in Range(received) : p[1] = d[1]
    /\ \A f \in failed : f[2] = config.attempts \/ f[3] = "bad_request"
    /\ abandoned # {} => stop

\* These are the parts of the property.
LEMMA OneEndParts == OneEnd <=> PlaceInv /\ SumInv /\ EvidenceInv
BY DEF OneEnd, PlaceInv, SumInv, EvidenceInv, Forwarded

\* What an appended element adds to the range of a sequence.
LEMMA RangeAppend ==
    ASSUME NEW S, NEW s \in Seq(S), NEW x \in S
    PROVE  Range(Append(s, x)) = Range(s) \cup {x}
<1>1. /\ Len(Append(s, x)) = Len(s) + 1 /\ Len(s) \in Nat
      /\ DOMAIN Append(s, x) = 1..(Len(s) + 1) /\ DOMAIN s = 1..Len(s)
      /\ \A i \in 1..Len(s) : Append(s, x)[i] = s[i]
      /\ Append(s, x)[Len(s) + 1] = x
  OBVIOUS
<1>2. QED BY <1>1 DEF Range

\* What is left of the range when the first element is taken.
LEMMA RangeTail ==
    ASSUME NEW S, NEW s \in Seq(S), s # <<>>
    PROVE  Range(s) = {Head(s)} \cup Range(Tail(s))
<1>1. /\ Len(s) \in Nat \ {0} /\ DOMAIN s = 1..Len(s) /\ Head(s) = s[1]
      /\ DOMAIN Tail(s) = 1..(Len(s) - 1)
      /\ \A i \in 1..(Len(s) - 1) : Tail(s)[i] = s[i + 1]
  <2>1. Tail(s) \in Seq(S) /\ Len(Tail(s)) = Len(s) - 1
    BY HeadTailProperties
  <2>2. DOMAIN Tail(s) = 1..(Len(s) - 1)
    BY <2>1
  <2>3. QED BY <2>2, HeadTailProperties, EmptySeq, <2>1
<1>2. Range(s) \subseteq {Head(s)} \cup Range(Tail(s))
  <2> SUFFICES ASSUME NEW i \in 1..Len(s), i # 1 PROVE s[i] \in Range(Tail(s))
    BY <1>1 DEF Range
  <2>1. i - 1 \in 1..(Len(s) - 1) /\ Tail(s)[i - 1] = s[i]
    BY <1>1
  <2>2. QED BY <1>1, <2>1 DEF Range
<1>3. {Head(s)} \cup Range(Tail(s)) \subseteq Range(s)
  <2>1. Head(s) \in Range(s)
    BY <1>1 DEF Range
  <2>2. ASSUME NEW i \in 1..(Len(s) - 1) PROVE Tail(s)[i] \in Range(s)
    <3>1. i + 1 \in 1..Len(s) /\ Tail(s)[i] = s[i + 1]
      BY <1>1
    <3>2. QED BY <1>1, <3>1 DEF Range
  <2>3. QED BY <1>1, <2>1, <2>2 DEF Range
<1>4. QED BY <1>2, <1>3

\* Events are numbers from 1.
LEMMA EndedTypes == TypeOK => Ended \subseteq Events /\ Range(queue) \subseteq Events
<1> SUFFICES ASSUME TypeOK PROVE Ended \subseteq Events /\ Range(queue) \subseteq Events
  OBVIOUS
<1>1. \A d \in delivered : d[1] \in Events
  BY DEF TypeOK
<1>2. \A f \in failed : f[1] \in Events
  BY DEF TypeOK
<1>3. Range(queue) \subseteq Events
  BY DEF TypeOK, Range
<1>4. QED BY <1>1, <1>2, <1>3 DEF Ended, TypeOK

\* An event that Offer takes is new: it waits nowhere, is not in work and has no end.
LEMMA NewEvent ==
    ASSUME TypeOK, PlaceInv, published < MaxEvents
    PROVE  /\ published + 1 \in Events /\ published + 1 \notin Forwarded
           /\ published + 1 \notin Range(queue) /\ published + 1 # event
           /\ published + 1 \notin Ended
<1> USE WebhookAssumption
<1>1. published \in Nat /\ published + 1 \in Events /\ ~(published + 1 <= published)
  BY DEF TypeOK, Events
<1>2. published + 1 \notin Forwarded
  BY <1>1 DEF Forwarded
<1>3. event # 0 => event \in Forwarded
  BY DEF PlaceInv, Held
<1>4. published + 1 # 0
  BY <1>1
<1>5. QED BY <1>1, <1>2, <1>3, <1>4 DEF PlaceInv

\* The first components of a set of tuples, and of the set with one tuple more.
LEMMA FirstOf ==
    ASSUME NEW S, NEW t
    PROVE  {u[1] : u \in S \cup {t}} = {u[1] : u \in S} \cup {t[1]}
OBVIOUS

\* A delivery, a failure and a stop while it sleeps give the event in work its end.
LEMMA Finishing ==
    ASSUME TypeOK, WorkerInv,
           (\E status \in Statuses : Delivered(status) \/ Fails(status)) \/ Abandon
    PROVE  /\ Ended' = Ended \cup {event} /\ event \in Events /\ event' = 0
           /\ UNCHANGED <<queue, published>>
<1>1. event \in Events
  <2>1. worker \in {"post", "sleep"}
    BY DEF Delivered, Fails, Answered, Abandon
  <2>2. QED BY <2>1 DEF TypeOK, WorkerInv, Events
<1>2. event' = 0 /\ UNCHANGED <<queue, published>>
  BY DEF Delivered, Fails, Answered, Abandon, Free
<1>3. Ended' = Ended \cup {event}
  <2>1. ASSUME NEW status \in Statuses, Delivered(status) PROVE Ended' = Ended \cup {event}
    <3>1. /\ delivered' = delivered \cup {<<event, status>>}
          /\ UNCHANGED <<failed, dropped, abandoned>>
      BY <2>1 DEF Delivered, Answered
    <3>2. {d[1] : d \in delivered'} = {d[1] : d \in delivered} \cup {event}
      BY <3>1, FirstOf
    <3>3. QED BY <3>1, <3>2 DEF Ended
  <2>2. ASSUME NEW status \in Statuses, Fails(status) PROVE Ended' = Ended \cup {event}
    <3>1. /\ failed' = failed \cup {<<event, attempt, status>>}
          /\ UNCHANGED <<delivered, dropped, abandoned>>
      BY <2>2 DEF Fails, Answered
    <3>2. {f[1] : f \in failed'} = {f[1] : f \in failed} \cup {event}
      BY <3>1, FirstOf
    <3>3. QED BY <3>1, <3>2 DEF Ended
  <2>3. CASE Abandon
    BY <2>3 DEF Abandon, log, Ended
  <2>4. QED BY <2>1, <2>2, <2>3
<1>4. QED BY <1>1, <1>2, <1>3

\* Steps that move no event.
Moveless == \/ Skip \/ Counted \/ Ends \/ Wake \/ Stop \/ UNCHANGED vars
            \/ \E status \in Statuses : Retry(status)

LEMMA Moving ==
    ASSUME Moveless
    PROVE  UNCHANGED <<queue, event, delivered, failed, dropped, abandoned, Ended, Held>>
<1>1. UNCHANGED <<queue, event, delivered, failed, dropped, abandoned>>
  BY DEF Moveless, Skip, Counted, Ends, Wake, Stop, vars, Retry, Answered, work, log
<1>2. QED BY <1>1 DEF Ended, Held

\* Nor do they forward one.
LEMMA SkipForwards == TypeOK /\ Moveless => Forwarded' = Forwarded
<1> SUFFICES ASSUME TypeOK, Moveless PROVE Forwarded' = Forwarded
  OBVIOUS
<1> USE WebhookAssumption
<1>1. CASE Skip
  <2>1. published \in Int /\ \A e \in Accepted : e \in Int
    BY DEF TypeOK
  <2>2. \A e \in Accepted : e # published + 1
    BY <1>1, Zenon DEF Skip
  <2>3. \A e \in Accepted : e <= published + 1 <=> e <= published
    BY <2>1, <2>2
  <2>4. QED BY <1>1, <2>3 DEF Forwarded, Skip
<1>2. CASE UNCHANGED published
  BY <1>2 DEF Forwarded
<1>3. QED BY <1>1, <1>2 DEF Moveless, Counted, Ends, Wake, Stop, vars, Retry, Answered

\* Every step is one of these.
LEMMA Steps ==
    [Next]_vars => \/ Moveless \/ Offer \/ TakeEvent \/ Abandon
                   \/ \E status \in Statuses : Delivered(status) \/ Fails(status)
BY DEF Moveless, Next, Work, Post

\* An event that waits stays apart from the one in work and from those that ended.
LEMMA SeparateStep ==
    TypeOK /\ WorkerInv /\ PlaceInv /\ SeparateInv /\ [Next]_vars => SeparateInv'
<1> SUFFICES ASSUME TypeOK, WorkerInv, PlaceInv, SeparateInv, [Next]_vars PROVE SeparateInv'
  OBVIOUS
<1> USE WebhookAssumption
<1>1. CASE Moveless
  BY <1>1, Moving DEF SeparateInv
<1>2. CASE Offer
  <2>1. /\ published + 1 \in Events /\ published + 1 \notin Range(queue)
        /\ published + 1 # event /\ published + 1 \notin Ended
    BY <1>2, NewEvent DEF Offer
  <2>2. UNCHANGED <<event, delivered, failed, abandoned>>
    BY <1>2 DEF Offer, work, log
  <2>3. CASE queue' = Append(queue, published + 1) /\ UNCHANGED dropped
    <3>1. UNCHANGED Ended
      BY <2>2, <2>3 DEF Ended
    <3>2. /\ Len(queue) \in Nat /\ DOMAIN queue = 1..Len(queue)
          /\ DOMAIN queue' = 1..(Len(queue) + 1)
          /\ \A i \in 1..Len(queue) : queue'[i] = queue[i]
          /\ queue'[Len(queue) + 1] = published + 1
      BY <2>1, <2>3, SMTT(30) DEF TypeOK
    <3>3. \A i \in 1..Len(queue) : queue[i] # published + 1
      BY <2>1, <3>2 DEF Range
    <3>4. \A i \in DOMAIN queue' : i \in DOMAIN queue \/ i = Len(queue) + 1
      BY <3>2
    <3>5. \A i, j \in DOMAIN queue' : queue'[i] = queue'[j] => i = j
      BY <3>2, <3>3, <3>4 DEF SeparateInv
    <3>6. \A i \in DOMAIN queue' : queue'[i] # event /\ queue'[i] \notin Ended
      BY <2>1, <3>2, <3>4 DEF SeparateInv
    <3>7. QED BY <2>2, <3>1, <3>5, <3>6 DEF SeparateInv
  <2>4. CASE dropped' = dropped \cup {published + 1} /\ UNCHANGED queue
    <3>1. Ended' = Ended \cup {published + 1}
      BY <2>2, <2>4 DEF Ended
    <3>2. \A i \in DOMAIN queue : queue[i] # published + 1
      BY <2>1 DEF Range
    <3>3. QED BY <2>1, <2>2, <2>4, <3>1, <3>2 DEF SeparateInv
  <2>5. QED BY <1>2, <2>3, <2>4 DEF Offer
<1>3. CASE TakeEvent
  <2>1. /\ queue # <<>> /\ event' = Head(queue) /\ queue' = Tail(queue)
        /\ UNCHANGED <<delivered, failed, dropped, abandoned>>
    BY <1>3 DEF TakeEvent, log
  <2>2. /\ Len(queue) \in Nat \ {0} /\ DOMAIN queue = 1..Len(queue) /\ Head(queue) = queue[1]
        /\ DOMAIN queue' = 1..(Len(queue) - 1)
        /\ \A i \in 1..(Len(queue) - 1) : queue'[i] = queue[i + 1]
    <3>1. queue \in Seq(Events)
      BY DEF TypeOK
    <3>2. /\ Len(queue) \in Nat \ {0} /\ DOMAIN queue = 1..Len(queue)
          /\ Len(queue') = Len(queue) - 1 /\ queue' \in Seq(Events)
          /\ \A i \in 1..Len(queue') : queue'[i] = queue[i + 1]
      BY <2>1, <3>1, HeadTailProperties, EmptySeq, LenProperties
    <3>3. Head(queue) = queue[1]
      BY <2>1, <3>1
    <3>4. QED BY <3>2, <3>3
  <2>3. \A i \in DOMAIN queue' : i + 1 \in DOMAIN queue /\ queue'[i] = queue[i + 1] /\ i + 1 # 1
    BY <2>2
  <2>4. UNCHANGED Ended
    BY <2>1 DEF Ended
  <2>5. \A i, j \in DOMAIN queue' : queue'[i] = queue'[j] => i = j
    BY <2>2, <2>3 DEF SeparateInv
  <2>6. 1 \in DOMAIN queue
    BY <2>2
  <2>7. \A i \in DOMAIN queue' : queue'[i] # event' /\ queue'[i] \notin Ended
    BY <2>1, <2>2, <2>3, <2>6 DEF SeparateInv
  <2>8. event' \notin Ended
    BY <2>1, <2>2, <2>6 DEF SeparateInv
  <2>9. QED BY <2>4, <2>5, <2>7, <2>8 DEF SeparateInv
<1>4. CASE (\E status \in Statuses : Delivered(status) \/ Fails(status)) \/ Abandon
  <2>1. /\ Ended' = Ended \cup {event} /\ event \in Events /\ event' = 0
        /\ UNCHANGED queue
    BY <1>4, Finishing
  <2>2. 0 \notin Ended'
    BY <2>1, EndedTypes DEF Events
  <2>3. \A i \in DOMAIN queue : queue[i] # 0
    BY DEF TypeOK, Events
  <2>4. QED BY <2>1, <2>2, <2>3 DEF SeparateInv
<1>5. QED BY <1>1, <1>2, <1>3, <1>4, Steps

\* Each event that is forwarded waits, is in work or has an end, and no other does.
LEMMA PlaceStep == TypeOK /\ WorkerInv /\ PlaceInv /\ [Next]_vars => PlaceInv'
<1> SUFFICES ASSUME TypeOK, WorkerInv, PlaceInv, [Next]_vars PROVE PlaceInv'
  OBVIOUS
<1> USE WebhookAssumption
<1>1. CASE Moveless
  <2>1. Forwarded' = Forwarded
    BY <1>1, SkipForwards
  <2>2. QED BY <1>1, <2>1, Moving DEF PlaceInv
<1>2. CASE Offer
  <2>1. Forwarded' = Forwarded \cup {published + 1}
    <3>1. \A e \in Accepted : e <= published + 1 <=> e <= published \/ e = published + 1
      BY DEF TypeOK
    <3>2. QED BY <1>2, <3>1 DEF Offer, Forwarded
  <2>2. UNCHANGED Held
    BY <1>2 DEF Offer, work, Held
  <2>3. CASE queue' = Append(queue, published + 1) /\ UNCHANGED dropped
    <3>1. Range(queue') = Range(queue) \cup {published + 1}
      <4>1. queue \in Seq(Events) /\ published + 1 \in Events
        BY <1>2, NewEvent DEF Offer, TypeOK
      <4>2. QED BY <2>3, <4>1, RangeAppend
    <3>2. UNCHANGED Ended
      BY <1>2, <2>3 DEF Offer, log, Ended
    <3>3. QED BY <2>1, <2>2, <3>1, <3>2 DEF PlaceInv
  <2>4. CASE dropped' = dropped \cup {published + 1} /\ UNCHANGED queue
    <3>1. Ended' = Ended \cup {published + 1}
      BY <1>2, <2>4 DEF Offer, log, Ended
    <3>2. QED BY <2>1, <2>2, <2>4, <3>1 DEF PlaceInv
  <2>5. QED BY <1>2, <2>3, <2>4 DEF Offer
<1>3. CASE TakeEvent
  <2>1. Range(queue) = {Head(queue)} \cup Range(queue')
    BY <1>3, RangeTail DEF TakeEvent, TypeOK
  <2>2. Held = {} /\ Held' = {Head(queue)}
    BY <1>3, QueueHead DEF TakeEvent, WorkerInv, Held, Events
  <2>3. UNCHANGED <<Ended, Forwarded>>
    BY <1>3 DEF TakeEvent, log, Ended, Forwarded
  <2>4. QED BY <2>1, <2>2, <2>3 DEF PlaceInv
<1>4. CASE (\E status \in Statuses : Delivered(status) \/ Fails(status)) \/ Abandon
  <2>1. /\ Ended' = Ended \cup {event} /\ event \in Events /\ event' = 0
        /\ UNCHANGED <<queue, published>>
    BY <1>4, Finishing
  <2>2. Held = {event} /\ Held' = {} /\ UNCHANGED Forwarded
    BY <2>1 DEF Held, Events, Forwarded
  <2>3. QED BY <2>1, <2>2 DEF PlaceInv
<1>5. QED BY <1>1, <1>2, <1>3, <1>4, Steps

\* A post is that of an event, at an attempt that there is.
LEMMA PostTypes ==
    ASSUME TypeOK, WorkerInv, worker = "post"
    PROVE  /\ received \in Seq(Events \X (1..config.attempts))
           /\ <<event, attempt>> \in Events \X (1..config.attempts)
<1>1. event \in Events /\ attempt \in 1..config.attempts
  BY DEF TypeOK, WorkerInv, Events
<1>2. QED BY <1>1 DEF TypeOK

\* What counts as delivered has been posted, and what as failed was final.
LEMMA EvidenceStep == TypeOK /\ WorkerInv /\ EvidenceInv /\ [Next]_vars => EvidenceInv'
<1> SUFFICES ASSUME TypeOK, WorkerInv, EvidenceInv, [Next]_vars PROVE EvidenceInv'
  OBVIOUS
<1> USE WebhookAssumption
<1>1. config' = config /\ (stop => stop')
  BY DEF Next, Skip, Offer, Counted, Work, TakeEvent, Ends, Post, Delivered, Fails, Retry, Answered,
         Wake, Abandon, Stop, vars
<1>2. \A p \in Range(received) : p \in Range(received')
  <2>1. CASE received' = received
    BY <2>1
  <2>2. CASE worker = "post" /\ received' = Append(received, <<event, attempt>>)
    <3>1. Range(received') = Range(received) \cup {<<event, attempt>>}
      <4> DEFINE Posts == Events \X (1..config.attempts)
      <4>1. received \in Seq(Posts) /\ <<event, attempt>> \in Posts
        BY <2>2, PostTypes
      <4> HIDE DEF Posts
      <4>2. Range(Append(received, <<event, attempt>>)) = Range(received) \cup {<<event, attempt>>}
        BY <4>1, RangeAppend
      <4>3. QED BY <2>2, <4>2, Zenon
    <3>2. QED BY <3>1
  <2>3. QED BY <2>1, <2>2 DEF Next, Skip, Offer, Counted, Work, TakeEvent, Ends, Post, Delivered,
                              Fails, Retry, Answered, Wake, Abandon, Stop, vars, log
<1>3. CASE Moveless \/ Offer \/ TakeEvent
  <2>1. UNCHANGED <<delivered, failed, abandoned>>
    BY <1>3, Moving DEF Offer, TakeEvent, log
  <2>2. QED BY <1>1, <1>2, <2>1 DEF EvidenceInv
<1>4. CASE Abandon
  BY <1>1, <1>2, <1>4 DEF Abandon, log, EvidenceInv
<1>5. ASSUME NEW status \in Statuses, Delivered(status) PROVE EvidenceInv'
  <2>1. /\ worker = "post" /\ delivered' = delivered \cup {<<event, status>>}
        /\ UNCHANGED <<failed, abandoned>>
    BY <1>5 DEF Delivered, Answered
  <2>2. status = "ok" => \E p \in Range(received') : p[1] = event
    <3> SUFFICES ASSUME status = "ok" PROVE \E p \in Range(received') : p[1] = event
      OBVIOUS
    <3>1. received' = Append(received, <<event, attempt>>)
      BY <1>5 DEF Delivered, Answered, Arrives
    <3>2. Range(received') = Range(received) \cup {<<event, attempt>>}
      BY <2>1, <3>1, PostTypes, RangeAppend, SMTT(30)
    <3>3. <<event, attempt>> \in Range(received') /\ <<event, attempt>>[1] = event
      BY <3>2
    <3>4. QED BY <3>3, Zenon
  <2>3. QED BY <1>1, <1>2, <2>1, <2>2 DEF EvidenceInv
<1>6. ASSUME NEW status \in Statuses, Fails(status) PROVE EvidenceInv'
  <2>1. /\ worker = "post" /\ failed' = failed \cup {<<event, attempt, status>>}
        /\ UNCHANGED <<delivered, abandoned>>
    BY <1>6 DEF Fails, Answered
  <2>2. attempt = config.attempts \/ status = "bad_request"
    BY <1>6 DEF Fails, Permanent, TypeOK
  <2>3. QED BY <1>1, <1>2, <2>1, <2>2 DEF EvidenceInv
<1>7. QED BY <1>3, <1>4, <1>5, <1>6, Steps
-----------------------------------------------------------------------------
(* The counts.                                                             *)

\* The counts are numbers, and the worker holds one event or none.
LEMMA CountTypes ==
    ASSUME TypeOK, FiniteInv
    PROVE  /\ Len(queue) \in Nat /\ Cardinality(delivered) \in Nat /\ Cardinality(failed) \in Nat
           /\ Cardinality(dropped) \in Nat /\ Cardinality(abandoned) \in Nat
           /\ IsFiniteSet(Forwarded) /\ Cardinality(Forwarded) \in Nat
<1> USE WebhookAssumption
<1>1. Len(queue) \in Nat
  BY DEF TypeOK
<1>2. IsFiniteSet(Forwarded)
  <2>1. IsFiniteSet(1..MaxEvents)
    BY FS_Interval
  <2>2. Forwarded \in SUBSET (1..MaxEvents)
    BY DEF Forwarded
  <2>3. QED BY <2>1, <2>2, FS_Subset
<1>3. QED BY <1>1, <1>2, FS_CardinalityType DEF FiniteInv

\* An event that is new counts once, in the queue or as dropped.
LEMMA CountOffer ==
    ASSUME TypeOK, PlaceInv, FiniteInv, Offer
    PROVE  /\ FiniteInv' /\ Cardinality(Forwarded') = Cardinality(Forwarded) + 1
           /\ UNCHANGED <<Held, delivered, failed, abandoned>>
           /\ \/ /\ counting' = "queued"
                 /\ Len(queue') = Len(queue) + 1 /\ UNCHANGED dropped
              \/ /\ counting' = "dropped"
                 /\ UNCHANGED queue /\ Cardinality(dropped') = Cardinality(dropped) + 1
<1> USE WebhookAssumption
<1>1. /\ published + 1 \in Events /\ published + 1 \notin Forwarded /\ published + 1 \notin Ended
  BY NewEvent DEF Offer
<1>2. UNCHANGED <<Held, delivered, failed, abandoned>>
  BY DEF Offer, work, log, Held
<1>3. Cardinality(Forwarded') = Cardinality(Forwarded) + 1
  <2>1. \A e \in Accepted : e <= published + 1 <=> e <= published \/ e = published + 1
    BY DEF TypeOK
  <2>2. Forwarded' = Forwarded \cup {published + 1}
    BY <2>1 DEF Offer, Forwarded
  <2>3. IsFiniteSet(Forwarded)
    BY CountTypes
  <2>4. QED BY <1>1, <2>2, <2>3, FS_AddElement
<1>4. CASE counting' = "queued" /\ queue' = Append(queue, published + 1) /\ UNCHANGED dropped
  <2>1. Len(queue') = Len(queue) + 1
    BY <1>1, <1>4 DEF TypeOK
  <2>2. FiniteInv'
    BY <1>2, <1>4 DEF FiniteInv
  <2>3. QED BY <1>2, <1>3, <1>4, <2>1, <2>2
<1>5. CASE counting' = "dropped" /\ dropped' = dropped \cup {published + 1} /\ UNCHANGED queue
  <2>1. IsFiniteSet(dropped) /\ published + 1 \notin dropped
    BY <1>1 DEF FiniteInv, Ended
  <2>2. IsFiniteSet(dropped') /\ Cardinality(dropped') = Cardinality(dropped) + 1
    BY <1>5, <2>1, FS_AddElement
  <2>3. FiniteInv'
    BY <1>2, <2>2 DEF FiniteInv
  <2>4. QED BY <1>2, <1>3, <1>5, <2>2, <2>3
<1>6. QED BY <1>4, <1>5 DEF Offer

\* An event that is taken leaves the queue for the worker, that held none.
LEMMA CountTake ==
    ASSUME TypeOK, WorkerInv, FiniteInv, TakeEvent
    PROVE  /\ FiniteInv' /\ Len(queue') = Len(queue) - 1
           /\ Cardinality(Held) = 0 /\ Cardinality(Held') = 1
           /\ UNCHANGED <<stats, counting, delivered, failed, dropped, abandoned, Forwarded>>
<1>1. UNCHANGED <<stats, counting, delivered, failed, dropped, abandoned, Forwarded>>
  BY DEF TakeEvent, log, Forwarded
<1>2. FiniteInv'
  BY <1>1 DEF FiniteInv
<1>3. Len(queue') = Len(queue) - 1
  BY HeadTailProperties DEF TakeEvent, TypeOK
<1>4. event = 0 /\ event' # 0
  BY QueueHead DEF TakeEvent, WorkerInv, Events
<1>5. Cardinality(Held) = 0 /\ Cardinality(Held') = 1
  BY <1>4, FS_EmptySet, FS_Singleton DEF Held
<1>6. QED BY <1>1, <1>2, <1>3, <1>5

\* An event that gets its end leaves the worker for the set of that end.
LEMMA CountEnd ==
    ASSUME TypeOK, WorkerInv, SeparateInv, FiniteInv,
           (\E status \in Statuses : Delivered(status) \/ Fails(status)) \/ Abandon
    PROVE  /\ FiniteInv' /\ Cardinality(Held) = 1 /\ Cardinality(Held') = 0
           /\ UNCHANGED <<queue, counting, dropped, Forwarded>>
           /\ \/ /\ Count("delivered") /\ UNCHANGED <<failed, abandoned>>
                 /\ Cardinality(delivered') = Cardinality(delivered) + 1
              \/ /\ Count("failed") /\ UNCHANGED <<delivered, abandoned>>
                 /\ Cardinality(failed') = Cardinality(failed) + 1
              \/ /\ UNCHANGED <<stats, delivered, failed>>
                 /\ Cardinality(abandoned') = Cardinality(abandoned) + 1
<1>1. event \in Events /\ event' = 0 /\ event \notin Ended
  BY Finishing DEF SeparateInv
<1>2. Cardinality(Held) = 1 /\ Cardinality(Held') = 0
  <2>1. event # 0
    BY <1>1 DEF Events
  <2>2. QED BY <1>1, <2>1, FS_EmptySet, FS_Singleton DEF Held
<1>3. UNCHANGED <<queue, counting, dropped, Forwarded>>
  BY DEF Delivered, Fails, Answered, Abandon, Forwarded
<1>4. ASSUME NEW status \in Statuses, Delivered(status)
      PROVE  /\ FiniteInv' /\ Count("delivered") /\ UNCHANGED <<failed, abandoned>>
             /\ Cardinality(delivered') = Cardinality(delivered) + 1
  <2>1. /\ delivered' = delivered \cup {<<event, status>>} /\ Count("delivered")
        /\ UNCHANGED <<failed, abandoned>>
    BY <1>4 DEF Delivered, Answered
  <2>2. <<event, status>> \notin delivered
    <3>1. <<event, status>>[1] = event
      OBVIOUS
    <3>2. QED BY <1>1, <3>1 DEF Ended
  <2>3. /\ IsFiniteSet(delivered')
        /\ Cardinality(delivered') = Cardinality(delivered) + 1
    BY <2>1, <2>2, FS_AddElement DEF FiniteInv
  <2>4. QED BY <1>3, <2>1, <2>3 DEF FiniteInv
<1>5. ASSUME NEW status \in Statuses, Fails(status)
      PROVE  /\ FiniteInv' /\ Count("failed") /\ UNCHANGED <<delivered, abandoned>>
             /\ Cardinality(failed') = Cardinality(failed) + 1
  <2>1. /\ failed' = failed \cup {<<event, attempt, status>>} /\ Count("failed")
        /\ UNCHANGED <<delivered, abandoned>>
    BY <1>5 DEF Fails, Answered
  <2>2. <<event, attempt, status>> \notin failed
    <3>1. <<event, attempt, status>>[1] = event
      OBVIOUS
    <3>2. QED BY <1>1, <3>1 DEF Ended
  <2>3. /\ IsFiniteSet(failed')
        /\ Cardinality(failed') = Cardinality(failed) + 1
    BY <2>1, <2>2, FS_AddElement DEF FiniteInv
  <2>4. QED BY <1>3, <2>1, <2>3 DEF FiniteInv
<1>6. CASE Abandon
  <2>1. abandoned' = abandoned \cup {event} /\ UNCHANGED <<stats, delivered, failed>>
    BY <1>6 DEF Abandon, log
  <2>2. event \notin abandoned
    BY <1>1 DEF Ended
  <2>3. /\ IsFiniteSet(abandoned')
        /\ Cardinality(abandoned') = Cardinality(abandoned) + 1
    BY <2>1, <2>2, FS_AddElement DEF FiniteInv
  <2>4. FiniteInv'
    BY <1>3, <2>1, <2>3 DEF FiniteInv
  <2>5. QED BY <1>2, <1>3, <2>1, <2>3, <2>4
<1>7. QED BY <1>2, <1>3, <1>4, <1>5, <1>6

\* So the ends of all events, with those that wait and the one in work, are as many as
\* were forwarded.
LEMMA SumStep ==
    TypeOK /\ WorkerInv /\ PlaceInv /\ SeparateInv /\ FiniteInv /\ SumInv /\ [Next]_vars
    => FiniteInv' /\ SumInv'
<1> SUFFICES ASSUME TypeOK, WorkerInv, PlaceInv, SeparateInv, FiniteInv, SumInv, [Next]_vars
             PROVE  FiniteInv' /\ SumInv'
  OBVIOUS
<1>1. CASE Moveless
  <2>1. UNCHANGED <<queue, delivered, failed, dropped, abandoned, Held, Forwarded>>
    BY <1>1, Moving, SkipForwards
  <2>2. QED BY <2>1 DEF FiniteInv, SumInv
<1>2. Cardinality(Held) \in Nat
  <2>1. CASE event = 0
    BY <2>1, FS_EmptySet DEF Held
  <2>2. CASE event # 0
    BY <2>2, FS_Singleton DEF Held
  <2>3. QED BY <2>1, <2>2
<1>3. CASE Offer
  <2>1. /\ FiniteInv' /\ Cardinality(Forwarded') = Cardinality(Forwarded) + 1
        /\ UNCHANGED <<Held, delivered, failed, abandoned>>
        /\ \/ Len(queue') = Len(queue) + 1 /\ UNCHANGED dropped
           \/ UNCHANGED queue /\ Cardinality(dropped') = Cardinality(dropped) + 1
    BY <1>3, CountOffer
  <2>2. CASE Len(queue') = Len(queue) + 1 /\ UNCHANGED dropped
    BY <1>2, <2>1, <2>2, CountTypes, SMTT(30) DEF SumInv
  <2>3. CASE UNCHANGED queue /\ Cardinality(dropped') = Cardinality(dropped) + 1
    BY <1>2, <2>1, <2>3, CountTypes DEF SumInv
  <2>4. QED BY <2>1, <2>2, <2>3
<1>4. CASE TakeEvent
  BY <1>4, CountTake, CountTypes DEF SumInv
<1>5. CASE (\E status \in Statuses : Delivered(status) \/ Fails(status)) \/ Abandon
  BY <1>5, CountEnd, CountTypes DEF SumInv
<1>6. QED BY <1>1, <1>3, <1>4, <1>5, Steps

EndsCounted == stats.delivered = Cardinality(delivered) /\ stats.failed = Cardinality(failed)
DropsCounted == stats.dropped + Uncounted("dropped") = Cardinality(dropped)
QueueCounted ==
    stats.queued + Uncounted("queued")
       = Len(queue) + Cardinality(Held) + stats.delivered + stats.failed + Cardinality(abandoned)

\* These are the parts of what the counters tell.
LEMMA CountersParts == CountersTrue <=> EndsCounted /\ DropsCounted /\ QueueCounted
BY DEF CountersTrue, EndsCounted, DropsCounted, QueueCounted

\* The counters follow; what Enqueue has not counted yet is counted next.
LEMMA CountersStep ==
    TypeOK /\ WorkerInv /\ PlaceInv /\ SeparateInv /\ FiniteInv /\ CountersTrue /\ [Next]_vars
    => CountersTrue'
<1> SUFFICES ASSUME TypeOK, WorkerInv, PlaceInv, SeparateInv, FiniteInv, CountersTrue, [Next]_vars
             PROVE  CountersTrue'
  OBVIOUS
<1>1. /\ stats.delivered \in Nat /\ stats.failed \in Nat /\ stats.dropped \in Nat
      /\ stats.queued \in Nat
  BY DEF TypeOK
<1>2. Cardinality(Held) \in Nat
  <2>1. CASE event = 0
    BY <2>1, FS_EmptySet DEF Held
  <2>2. CASE event # 0
    BY <2>2, FS_Singleton DEF Held
  <2>3. QED BY <2>1, <2>2
<1>3. ASSUME NEW counter \in {"queued", "delivered", "dropped", "retries", "failed"}, Count(counter)
      PROVE  /\ stats'.queued = stats.queued + (IF counter = "queued" THEN 1 ELSE 0)
             /\ stats'.dropped = stats.dropped + (IF counter = "dropped" THEN 1 ELSE 0)
             /\ stats'.delivered = stats.delivered + (IF counter = "delivered" THEN 1 ELSE 0)
             /\ stats'.failed = stats.failed + (IF counter = "failed" THEN 1 ELSE 0)
  BY <1>1, <1>3, Counters
<1>4. CASE Moveless
  <2>1. UNCHANGED <<queue, delivered, failed, dropped, abandoned, Held>>
    BY <1>4, Moving
  <2>2. CASE Counted
    <3>1. Count(counting) /\ counting \in {"queued", "dropped"} /\ counting' = "no"
      BY <2>2 DEF Counted, TypeOK
    <3>2. /\ Uncounted("queued") = (IF counting = "queued" THEN 1 ELSE 0)
          /\ Uncounted("dropped") = (IF counting = "dropped" THEN 1 ELSE 0)
          /\ Uncounted("queued")' = 0 /\ Uncounted("dropped")' = 0
      BY <3>1 DEF Uncounted
    <3>3. QED
      <4>1. EndsCounted'
        BY <1>1, <1>2, <1>3, <2>1, <3>1, <3>2, CountTypes, SMTT(30) DEF CountersTrue, EndsCounted
      <4>2. DropsCounted'
        BY <1>1, <1>2, <1>3, <2>1, <3>1, <3>2, CountTypes DEF CountersTrue, DropsCounted
      <4>3. QueueCounted'
        BY <1>1, <1>2, <1>3, <2>1, <3>1, <3>2, CountTypes DEF CountersTrue, QueueCounted
      <4>4. QED BY <4>1, <4>2, <4>3 DEF CountersTrue, EndsCounted, DropsCounted, QueueCounted
  <2>3. CASE \E status \in Statuses : Retry(status)
    <3>1. Count("retries") /\ UNCHANGED counting
      BY <2>3 DEF Retry, Answered
    <3>2. UNCHANGED <<stats.queued, stats.dropped, stats.delivered, stats.failed>>
      BY <1>1, <1>3, <3>1
    <3>3. QED BY <2>1, <3>1, <3>2 DEF CountersTrue, Uncounted
  <2>4. CASE Skip \/ Ends \/ Wake \/ Stop \/ UNCHANGED vars
    <3>1. UNCHANGED <<stats, counting>>
      BY <2>4 DEF Skip, Ends, Wake, Stop, vars
    <3>2. QED BY <2>1, <3>1 DEF CountersTrue, Uncounted
  <2>5. QED BY <1>4, <2>2, <2>3, <2>4 DEF Moveless
<1>5. CASE Offer
  <2>1. counting = "no" /\ UNCHANGED stats
    BY <1>5 DEF Offer
  <2>2. UNCHANGED <<Held, delivered, failed, abandoned>>
    BY <1>5, CountOffer
  <2>3. CASE counting' = "queued" /\ Len(queue') = Len(queue) + 1 /\ UNCHANGED dropped
    <3>1. /\ Uncounted("queued") = 0 /\ Uncounted("dropped") = 0
          /\ Uncounted("queued")' = 1 /\ Uncounted("dropped")' = 0
      BY <2>1, <2>3 DEF Uncounted
    <3>2. QED
      <4>1. EndsCounted'
        BY <1>1, <1>2, <2>1, <2>2, <2>3, <3>1, CountTypes DEF CountersTrue, EndsCounted
      <4>2. DropsCounted'
        BY <1>1, <1>2, <2>1, <2>2, <2>3, <3>1, CountTypes DEF CountersTrue, DropsCounted
      <4>3. QueueCounted'
        BY <1>1, <1>2, <2>1, <2>2, <2>3, <3>1, CountTypes, SMTT(30) DEF CountersTrue, QueueCounted
      <4>4. QED BY <4>1, <4>2, <4>3 DEF CountersTrue, EndsCounted, DropsCounted, QueueCounted
  <2>4. CASE /\ counting' = "dropped" /\ UNCHANGED queue
             /\ Cardinality(dropped') = Cardinality(dropped) + 1
    <3>1. /\ Uncounted("queued") = 0 /\ Uncounted("dropped") = 0
          /\ Uncounted("queued")' = 0 /\ Uncounted("dropped")' = 1
      BY <2>1, <2>4 DEF Uncounted
    <3>2. QED BY <1>1, <1>2, <2>1, <2>2, <2>4, <3>1, CountTypes DEF CountersTrue
  <2>5. QED BY <1>5, <2>3, <2>4, CountOffer
<1>6. CASE TakeEvent
  <2>1. /\ Len(queue') = Len(queue) - 1 /\ Cardinality(Held) = 0 /\ Cardinality(Held') = 1
        /\ UNCHANGED <<stats, counting, delivered, failed, dropped, abandoned>>
    BY <1>6, CountTake
  <2>2. UNCHANGED <<Uncounted("queued"), Uncounted("dropped")>>
    BY <2>1 DEF Uncounted
  <2>3. Uncounted("queued") \in {0, 1}
    BY DEF Uncounted
  <2>4. QED BY <1>1, <2>1, <2>2, <2>3, CountTypes DEF CountersTrue
<1>7. CASE (\E status \in Statuses : Delivered(status) \/ Fails(status)) \/ Abandon
  <2> DEFINE q == stats.queued
             u == Uncounted("queued")
             l == Len(queue)
             d == stats.delivered
             f == stats.failed
             a == Cardinality(abandoned)
  <2>1. /\ Cardinality(Held) = 1 /\ Cardinality(Held') = 0
        /\ UNCHANGED <<queue, counting, dropped>>
    BY <1>7, CountEnd
  <2>2. u' = u /\ u \in Nat /\ UNCHANGED Uncounted("dropped")
    BY <2>1 DEF Uncounted
  <2>3. q + u = l + 0 + (d + 1) + f + a /\ q + u = l + 0 + d + (f + 1) + a
        /\ q + u = l + 0 + d + f + (a + 1)
    <3>1. /\ q \in Nat /\ u \in Nat /\ l \in Nat /\ d \in Nat /\ f \in Nat /\ a \in Nat
          /\ q + u = l + 1 + d + f + a
      BY <1>1, <2>1, <2>2, CountTypes DEF CountersTrue
    <3> HIDE DEF q, u, l, d, f, a
    <3>2. QED BY <3>1
  <2>4. l' = l /\ Cardinality(dropped') = Cardinality(dropped)
    BY <2>1
  <2>5. CASE /\ Count("delivered") /\ UNCHANGED <<failed, abandoned>>
             /\ Cardinality(delivered') = Cardinality(delivered) + 1
    <3>1. q' = q /\ d' = d + 1 /\ f' = f /\ a' = a /\ stats'.dropped = stats.dropped
      BY <1>1, <1>3, <2>5
    <3>2. QED BY <2>1, <2>2, <2>3, <2>4, <2>5, <3>1 DEF CountersTrue
  <2>6. CASE /\ Count("failed") /\ UNCHANGED <<delivered, abandoned>>
             /\ Cardinality(failed') = Cardinality(failed) + 1
    <3>1. q' = q /\ d' = d /\ f' = f + 1 /\ a' = a /\ stats'.dropped = stats.dropped
      BY <1>1, <1>3, <2>6
    <3>2. QED BY <2>1, <2>2, <2>3, <2>4, <2>6, <3>1 DEF CountersTrue
  <2>7. CASE /\ UNCHANGED <<stats, delivered, failed>>
             /\ Cardinality(abandoned') = Cardinality(abandoned) + 1
    BY <2>1, <2>2, <2>3, <2>4, <2>7 DEF CountersTrue
  <2>8. QED BY <1>7, <2>5, <2>6, <2>7, CountEnd
<1>8. QED BY <1>4, <1>5, <1>6, <1>7, Steps
-----------------------------------------------------------------------------
(* The theorems.                                                           *)

\* The invariant holds of the initial states.
LEMMA InvInit == Init => IInv
<1> SUFFICES ASSUME Init PROVE IInv
  OBVIOUS
<1> USE WebhookAssumption DEF Init
<1>1. config \in [url : {TRUE}, secret : {TRUE}, queue : Nat \ {0}, attempts : Nat \ {0}]
  BY ConfigTypes
<1>2. stats \in [{"queued", "delivered", "dropped", "retries", "failed"} -> Nat]
  OBVIOUS
<1>3. queue = <<>> /\ Len(queue) = 0 /\ queue \in Seq(Events)
  BY EmptySeq
<1>4. received \in Seq(Events \X (1..config.attempts))
  BY EmptySeq
<1>5. TypeOK
  <2>1. /\ published \in 0..MaxEvents /\ event \in 0..MaxEvents /\ delay \in 0..MaxBackoff
        /\ attempt \in 0..config.attempts /\ Len(queue) <= config.queue
    BY <1>1, <1>3
  <2>2. stop \in BOOLEAN
    OBVIOUS
  <2>3. QED BY <1>1, <1>2, <1>3, <1>4, <2>1, <2>2 DEF TypeOK
<1>6. Ended = {} /\ Held = {} /\ Range(queue) = {}
  BY DEF Ended, Held, Range
<1>7. Cardinality({}) = 0 /\ IsFiniteSet({})
  BY FS_EmptySet
<1>8. WorkerInv /\ SeparateInv /\ FiniteInv
  BY <1>6, <1>7 DEF WorkerInv, SeparateInv, FiniteInv
<1>9. Forwarded = {}
  <2>1. \A e \in Accepted : ~(e <= 0)
    OBVIOUS
  <2>2. published = 0
    OBVIOUS
  <2>3. QED BY <2>1, <2>2 DEF Forwarded
<1>10. PlaceInv /\ SumInv /\ EvidenceInv
  BY <1>3, <1>6, <1>7, <1>9 DEF PlaceInv, SumInv, EvidenceInv
<1>11. CountersTrue
  BY <1>3, <1>6, <1>7 DEF CountersTrue, Uncounted
<1>12. QED BY <1>5, <1>8, <1>10, <1>11, OneEndParts DEF IInv

\* Every step keeps it.
LEMMA InvStep == IInv /\ [Next]_vars => IInv'
<1> SUFFICES ASSUME IInv, [Next]_vars PROVE IInv'
  OBVIOUS
<1>1. TypeOK /\ WorkerInv /\ SeparateInv /\ FiniteInv /\ CountersTrue
  BY DEF IInv
<1>2. PlaceInv /\ SumInv /\ EvidenceInv
  BY OneEndParts DEF IInv
<1>3. TypeOK'
  BY <1>1, TypesEnqueue, TypesPost, TypesWork DEF Next, Work
<1>4. WorkerInv' /\ SeparateInv' /\ PlaceInv' /\ EvidenceInv'
  BY <1>1, <1>2, WorkerStep, SeparateStep, PlaceStep, EvidenceStep
<1>5. FiniteInv' /\ SumInv' /\ CountersTrue'
  BY <1>1, <1>2, SumStep, CountersStep
<1>6. OneEnd'
  BY <1>4, <1>5 DEF OneEnd, PlaceInv, SumInv, EvidenceInv, Forwarded
<1>7. QED BY <1>3, <1>4, <1>5, <1>6 DEF IInv

\* It holds of every state of every run.
LEMMA InvHolds == Spec => []IInv
BY InvInit, InvStep, PTL DEF Spec

\* Every variable keeps its range: the queue never has more than its capacity, no
\* event more attempts than the settings allow, and no delay exceeds the limit.
THEOREM ForwarderTypes == Spec => []TypeOK
BY InvHolds, PTL DEF IInv

\* Each event that is forwarded waits, is in work, or has exactly one end, and what
\* the ends say of the posts is true (src/go/README.md:182).
THEOREM EveryEventOnce == Spec => []OneEnd
BY InvHolds, PTL DEF IInv

\* The counters that status shows tell what happened to all events, but for the one
\* that Enqueue has not counted yet (webhook.go:393-410).
THEOREM StatusIsTrue == Spec => []CountersTrue
BY InvHolds, PTL DEF IInv
=============================================================================
