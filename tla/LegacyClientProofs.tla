------------------------- MODULE LegacyClientProofs -------------------------
(***************************************************************************)
(* Theorems about LegacyClient for any number of calls and events and any  *)
(* capacities of the channels.                                             *)
(***************************************************************************)
EXTENDS LegacyClient, FiniteSetTheorems, TLAPS

USE DEF modVars, readVars, callVars, sessVars

-----------------------------------------------------------------------------
(* The messages of one kind in a channel are the next ones of a list.      *)

\* The messages of kind k in s are those that names lists from lo + 1 to hi:
\* f counts them from the left.
Numbered(s, k, names, lo, hi) ==
    \E f \in [0..Len(s) -> Nat] :
       /\ f[0] = lo /\ f[Len(s)] = hi
       /\ \A i \in 0..Len(s) : f[i] <= hi
       /\ \A i \in 1..Len(s) :
             IF s[i].kind = k THEN f[i] = f[i - 1] + 1 /\ s[i].of = names[f[i]]
             ELSE f[i] = f[i - 1]

\* An empty channel holds nothing of the list.
LEMMA NumberedEmpty ==
    ASSUME NEW k, NEW names, NEW lo \in Nat
    PROVE  Numbered(<<>>, k, names, lo, lo)
<1> DEFINE f == [i \in 0..Len(<<>>) |-> lo]
<1>1. f \in [0..Len(<<>>) -> Nat]
  OBVIOUS
<1>2. /\ f[0] = lo /\ f[Len(<<>>)] = lo
      /\ \A i \in 0..Len(<<>>) : f[i] <= lo
      /\ 1..Len(<<>>) = {}
  OBVIOUS
<1> HIDE DEF f
<1>3. QED BY <1>1, <1>2 DEF Numbered

\* Reading from the left takes the next one of the list, or another message.
LEMMA NumberedHead ==
    ASSUME NEW M, NEW s \in Seq(M), s # <<>>, NEW k, NEW names,
           NEW lo \in Nat, NEW hi \in Nat, Numbered(s, k, names, lo, hi)
    PROVE  /\ lo <= hi
           /\ Head(s).kind = k =>
                 /\ lo + 1 <= hi /\ Head(s).of = names[lo + 1]
                 /\ Numbered(Tail(s), k, names, lo + 1, hi)
           /\ Head(s).kind # k => Numbered(Tail(s), k, names, lo, hi)
<1>1. PICK f \in [0..Len(s) -> Nat] :
         /\ f[0] = lo /\ f[Len(s)] = hi
         /\ \A i \in 0..Len(s) : f[i] <= hi
         /\ \A i \in 1..Len(s) :
               IF s[i].kind = k THEN f[i] = f[i - 1] + 1 /\ s[i].of = names[f[i]]
               ELSE f[i] = f[i - 1]
  BY DEF Numbered
<1> DEFINE t == Tail(s)
<1>2. /\ Len(s) \in Nat /\ Len(s) >= 1 /\ Len(t) = Len(s) - 1
      /\ Head(s) = s[1] /\ \A i \in 1..Len(t) : t[i] = s[i + 1]
  OBVIOUS
<1> DEFINE g == [i \in 0..Len(t) |-> f[i + 1]]
<1> HIDE DEF t
<1>3. g \in [0..Len(t) -> Nat]
  BY <1>2
<1>4. g[0] = f[1] /\ g[Len(t)] = hi /\ \A i \in 0..Len(t) : g[i] <= hi
  BY <1>1, <1>2
<1>5. \A i \in 1..Len(t) :
         IF t[i].kind = k THEN g[i] = g[i - 1] + 1 /\ t[i].of = names[g[i]]
         ELSE g[i] = g[i - 1]
  <2> TAKE i \in 1..Len(t)
  <2>1. i + 1 \in 1..Len(s) /\ t[i] = s[i + 1] /\ g[i] = f[i + 1] /\ g[i - 1] = f[i]
    BY <1>2
  <2>2. QED BY <1>1, <2>1
<1> HIDE DEF g
<1>6. Numbered(t, k, names, f[1], hi)
  BY <1>3, <1>4, <1>5 DEF Numbered
<1>7. /\ IF s[1].kind = k THEN f[1] = lo + 1 /\ s[1].of = names[f[1]] ELSE f[1] = lo
      /\ f[1] <= hi /\ lo <= hi
  BY <1>1, <1>2
<1>8. QED BY <1>2, <1>6, <1>7 DEF t

\* The next one of the list may be added on the right, and any other message.
LEMMA NumberedAppend ==
    ASSUME NEW M, NEW s \in Seq(M), NEW m \in M, NEW k, NEW names,
           NEW lo \in Nat, NEW hi \in Nat, Numbered(s, k, names, lo, hi)
    PROVE  /\ m.kind = k /\ m.of = names[hi + 1]
                 => Numbered(Append(s, m), k, names, lo, hi + 1)
           /\ m.kind # k => Numbered(Append(s, m), k, names, lo, hi)
<1>1. PICK f \in [0..Len(s) -> Nat] :
         /\ f[0] = lo /\ f[Len(s)] = hi
         /\ \A i \in 0..Len(s) : f[i] <= hi
         /\ \A i \in 1..Len(s) :
               IF s[i].kind = k THEN f[i] = f[i - 1] + 1 /\ s[i].of = names[f[i]]
               ELSE f[i] = f[i - 1]
  BY DEF Numbered
<1> DEFINE t == Append(s, m)
           top == IF m.kind = k THEN hi + 1 ELSE hi
<1>2. /\ Len(s) \in Nat /\ Len(t) = Len(s) + 1
      /\ t[Len(t)] = m /\ \A i \in 1..Len(s) : t[i] = s[i]
      /\ top \in Nat /\ hi <= top
  OBVIOUS
<1> DEFINE g == [i \in 0..Len(t) |-> IF i <= Len(s) THEN f[i] ELSE top]
<1> HIDE DEF t
<1>3. g \in [0..Len(t) -> Nat]
  BY <1>2
<1>4. /\ g[0] = lo /\ g[Len(t)] = top
      /\ \A i \in 0..Len(s) : g[i] = f[i]
  BY <1>1, <1>2
<1>5. \A i \in 0..Len(t) : g[i] <= top
  BY <1>1, <1>2
<1>6. ASSUME m.kind = k => m.of = names[hi + 1], NEW i \in 1..Len(t)
      PROVE  IF t[i].kind = k THEN g[i] = g[i - 1] + 1 /\ t[i].of = names[g[i]]
             ELSE g[i] = g[i - 1]
  <2> HIDE DEF g
  <2>1. CASE i \in 1..Len(s)
    <3>1. t[i] = s[i] /\ g[i] = f[i] /\ g[i - 1] = f[i - 1]
      BY <2>1, <1>2, <1>4
    <3>2. QED BY <3>1, <2>1, <1>1
  <2>2. CASE i = Len(t)
    <3>1. t[i] = m /\ g[i] = top /\ g[i - 1] = hi
      BY <2>2, <1>1, <1>2, <1>4
    <3>2. QED BY <3>1, <1>6
  <2>3. QED BY <2>1, <2>2, <1>2
<1> HIDE DEF g
<1>7. (m.kind = k => m.of = names[hi + 1]) => Numbered(t, k, names, lo, top)
  BY <1>3, <1>4, <1>5, <1>6 DEF Numbered
<1>8. QED BY <1>7 DEF t

\* Only what is listed up to hi matters.
LEMMA NumberedNames ==
    ASSUME NEW M, NEW s \in Seq(M), NEW k, NEW names, NEW other,
           NEW lo \in Nat, NEW hi \in Nat, Numbered(s, k, names, lo, hi),
           \A n \in 1..hi : other[n] = names[n]
    PROVE  Numbered(s, k, other, lo, hi)
<1>1. PICK f \in [0..Len(s) -> Nat] :
         /\ f[0] = lo /\ f[Len(s)] = hi
         /\ \A i \in 0..Len(s) : f[i] <= hi
         /\ \A i \in 1..Len(s) :
               IF s[i].kind = k THEN f[i] = f[i - 1] + 1 /\ s[i].of = names[f[i]]
               ELSE f[i] = f[i - 1]
  BY DEF Numbered
<1>2. ASSUME NEW i \in 1..Len(s), s[i].kind = k
      PROVE  f[i] = f[i - 1] + 1 /\ s[i].of = other[f[i]]
  <2>1. i \in 0..Len(s) /\ i - 1 \in 0..Len(s)
    OBVIOUS
  <2>2. f[i] \in Nat /\ f[i - 1] \in Nat /\ f[i] <= hi /\ f[i] = f[i - 1] + 1
    BY <1>1, <1>2, <2>1
  <2>3. f[i] \in 1..hi
    BY <2>2
  <2>4. QED BY <1>1, <1>2, <2>2, <2>3
<1>3. QED BY <1>1, <1>2 DEF Numbered

\* The list has at least the messages before those in the channel.
LEMMA NumberedBounds ==
    ASSUME NEW M, NEW s \in Seq(M), NEW k, NEW names,
           NEW lo \in Nat, NEW hi \in Nat, Numbered(s, k, names, lo, hi)
    PROVE  lo <= hi
BY 0 \in 0..Len(s) DEF Numbered

-----------------------------------------------------------------------------
(* The invariant.                                                          *)

Arrived == Len(written) - Len(lines)        \* lines that the mod has answered
Held(k) == IF hand.kind = k THEN 1 ELSE 0
Answered == {n \in 1..Len(written) : answer[written[n]].how = "reply"}
Numbers == [n \in Nat |-> n]

\* The channels of the client hold the kind they are for.
MessageInv ==
    /\ \A i \in 1..Len(wire) : wire[i].kind \in {"reply", "event"}
    /\ \A i \in 1..Len(replies) : replies[i].kind = "reply"
    /\ \A i \in 1..Len(events) : events[i].kind = "event"
    /\ IF reader = "delivering" THEN hand.kind \in {"reply", "event"} ELSE hand = NoMessage

\* Until the hello has been taken there is nothing else, and one at most.
HelloInv ==
    /\ dial # "open" =>
          /\ \A c \in Calls : pc[c] = "idle"
          /\ written = <<>> /\ published = 0 /\ pump = "none"
    /\ dial = "hello" => Len(wire) + Held("reply") + Len(replies) <= 1

\* The lines on their way are the last ones written, each call's once.
LineInv ==
    /\ Len(lines) <= Len(written)
    /\ \A i \in 1..Len(lines) : lines[i] = written[Arrived + i]
    /\ \A i, j \in 1..Len(written) : written[i] = written[j] => i = j

\* The call that writes or waits holds requestMu, and when it waits it has
\* written the last line; the calls before it have ended their requests.
CallInv ==
    /\ \A c \in Calls : pc[c] \in {"idle", "called", "writing"} =>
          answer[c].how = "none" /\ \A n \in 1..Len(written) : written[n] # c
    /\ \A c \in Calls : pc[c] \in {"writing", "waiting"} <=> holder = c
    /\ \A c \in Calls : pc[c] = "waiting" =>
          Len(written) > 0 /\ written[Len(written)] = c /\ answer[c].how = "none"
    /\ \A n \in 1..Len(written) :
          written[n] # holder => answer[written[n]].how \in {"reply", "failed", "timeout"}
    /\ \A c \in Calls : answer[c].how \in {"failed", "timeout"} =>
          answer[c].unknown = IsWrite(c)

\* The replies between the mod and Request are those to the lines that follow
\* as many as requests have taken a reply, in the order of the lines.
ReplyInv == dial = "open" =>
    /\ \A i \in 1..Len(replies) : replies[i].of = written[Cardinality(Answered) + i]
    /\ hand.kind = "reply" => hand.of = written[Cardinality(Answered) + Len(replies) + 1]
    /\ Numbered(wire, "reply", written,
                Cardinality(Answered) + Len(replies) + Held("reply"), Arrived)

\* The events between the mod and the pump are those after the one it numbered
\* last, and number is the number that the mod gave it.
EventInv ==
    /\ \A i \in 1..Len(events) : events[i].of = number + i
    /\ hand.kind = "event" => hand.of = number + Len(events) + 1
    /\ Numbered(wire, "event", Numbers, number + Len(events) + Held("event"), published)

\* The loop got the first events, the channel holds the next.
PumpInv ==
    /\ payload = number
    /\ \A i \in 1..Len(consumed) : consumed[i] = <<i, i>>
    /\ \A i \in 1..Len(toLoop) : toLoop[i] = <<Len(consumed) + i, Len(consumed) + i>>
    /\ pump = "none" => number = 0
    /\ pump \in {"none", "select"} => Len(consumed) + Len(toLoop) = number
    /\ pump = "holding" => Len(consumed) + Len(toLoop) = number - 1
    /\ Len(consumed) + Len(toLoop) <= number

\* The message answers a line that has arrived, and tells whether it was done.
TrueReply(m) ==
    \E p \in 1..Arrived :
       written[p] = m.of /\ (IsWrite(m.of) => (m.of \in ran <=> m.ok))

\* What was done had arrived, and every reply is true.
TruthInv ==
    /\ \A c \in ran : \E p \in 1..Arrived : written[p] = c
    /\ dial = "open" =>
          /\ \A i \in 1..Len(wire) : wire[i].kind = "reply" => TrueReply(wire[i])
          /\ \A i \in 1..Len(replies) : TrueReply(replies[i])
          /\ hand.kind = "reply" => TrueReply(hand)
    /\ \A c \in Calls : answer[c].how = "reply" => TrueReply(answer[c].reply)

IInv == /\ TypeOK /\ MessageInv /\ HelloInv /\ LineInv /\ CallInv
        /\ ReplyInv /\ EventInv /\ PumpInv /\ TruthInv /\ AnsweredInOrder

\* A part of the invariant stays as long as what it reads does.
LEMMA Stays ==
    ASSUME IInv
    PROVE  /\ UNCHANGED <<wire, replies, events, reader, hand>> => MessageInv'
           /\ UNCHANGED <<dial, pc, written, published, pump, wire, hand, replies>> => HelloInv'
           /\ UNCHANGED <<lines, written>> => LineInv'
           /\ UNCHANGED <<pc, answer, written, holder>> => CallInv'
           /\ UNCHANGED <<dial, lines, written, answer, wire, hand, replies>> => ReplyInv'
           /\ UNCHANGED <<events, number, published, wire, hand>> => EventInv'
           /\ UNCHANGED <<payload, number, consumed, toLoop, pump>> => PumpInv'
           /\ UNCHANGED <<ran, dial, lines, written, answer, wire, hand, replies>> => TruthInv'
           /\ UNCHANGED <<written, answer>> => AnsweredInOrder'
<1>1. UNCHANGED <<wire, replies, events, reader, hand>> => MessageInv'
  BY DEF IInv, MessageInv
<1>2. UNCHANGED <<dial, pc, written, published, pump, wire, hand, replies>> => HelloInv'
  BY DEF IInv, HelloInv, Held
<1>3. UNCHANGED <<lines, written>> => LineInv'
  BY DEF IInv, LineInv, Arrived
<1>4. UNCHANGED <<pc, answer, written, holder>> => CallInv'
  BY DEF IInv, CallInv
<1>5. UNCHANGED <<dial, lines, written, answer, wire, hand, replies>> => ReplyInv'
  BY DEF IInv, ReplyInv, Answered, Arrived, Held
<1>6. UNCHANGED <<events, number, published, wire, hand>> => EventInv'
  BY DEF IInv, EventInv, Held
<1>7. UNCHANGED <<payload, number, consumed, toLoop, pump>> => PumpInv'
  BY DEF IInv, PumpInv
<1>8. UNCHANGED <<ran, dial, lines, written, answer, wire, hand, replies>> => TruthInv'
  BY DEF IInv, TruthInv, TrueReply, Arrived
<1>9. UNCHANGED <<written, answer>> => AnsweredInOrder'
  BY DEF IInv, AnsweredInOrder, GivenUp
<1>10. QED BY <1>1, <1>2, <1>3, <1>4, <1>5, <1>6, <1>7, <1>8, <1>9

\* Sizes are natural numbers, and no more requests took a reply than lines were
\* written.
LEMMA Sizes ==
    ASSUME IInv
    PROVE  /\ Len(written) \in Nat /\ Len(lines) \in Nat /\ Arrived \in Nat
           /\ Arrived <= Len(written)
           /\ Len(wire) \in Nat /\ Len(replies) \in Nat /\ Len(events) \in Nat
           /\ Held("reply") \in 0..1 /\ Held("event") \in 0..1
           /\ IsFiniteSet(Answered) /\ Cardinality(Answered) \in 0..Len(written)
           /\ number \in Nat /\ published \in Nat
<1>1. /\ Len(written) \in Nat /\ Len(lines) \in Nat /\ Len(wire) \in Nat
      /\ Len(replies) \in Nat /\ Len(events) \in Nat
      /\ number \in Nat /\ published \in Nat
  BY LegacyAssumption DEF IInv, TypeOK
<1>2. Arrived \in Nat /\ Arrived <= Len(written)
  BY <1>1 DEF IInv, LineInv, Arrived
<1>3. IsFiniteSet(Answered) /\ Cardinality(Answered) \in 0..Len(written)
  <2>1. Answered \subseteq 1..Len(written)
    BY DEF Answered
  <2>2. IsFiniteSet(1..Len(written)) /\ Cardinality(1..Len(written)) = Len(written)
    <3> DEFINE n == Len(written)
    <3>1. n \in Int /\ 1 \in Int /\ n >= 0
      BY <1>1
    <3> HIDE DEF n
    <3>2. IsFiniteSet(1..n) /\ Cardinality(1..n) = IF 1 > n THEN 0 ELSE n - 1 + 1
      BY <3>1, FS_Interval
    <3>3. QED BY <3>1, <3>2 DEF n
  <2>3. IsFiniteSet(Answered) /\ Cardinality(Answered) <= Len(written)
    BY <2>1, <2>2, FS_Subset
  <2>4. Cardinality(Answered) \in Nat
    BY <2>3, FS_CardinalityType
  <2>5. QED BY <1>1, <2>3, <2>4
<1>4. QED BY <1>1, <1>2, <1>3 DEF Held

-----------------------------------------------------------------------------
(* Types.                                                                  *)

\* What is sent is a message.
LEMMA Messages ==
    /\ NoMessage \in Message /\ Hello \in Message
    /\ \A c \in Calls, ok \in BOOLEAN : Reply(c, ok) \in Message
    /\ \A n \in 1..MaxEvents : Event(n) \in Message
BY DEF NoMessage, Hello, Reply, Event, Message

\* Taking the head and adding to the end keep the type of a sequence.
LEMMA SequenceTypes ==
    ASSUME NEW S, NEW s \in Seq(S)
    PROVE  /\ \A m \in S : Append(s, m) \in Seq(S) /\ Len(Append(s, m)) = Len(s) + 1
           /\ s # <<>> => Head(s) \in S /\ Tail(s) \in Seq(S) /\ Len(Tail(s)) = Len(s) - 1
           /\ Len(s) \in Nat
OBVIOUS

\* The mod and the read loop keep the types.
LEMMA TypeLink ==
    ASSUME IInv, Serve \/ Read \/ Dial
    PROVE  TypeOK'
<1> USE DEF IInv
<1>0. /\ wire \in Seq(Message) /\ replies \in Seq(Message) /\ events \in Seq(Message)
      /\ lines \in Seq(Calls) /\ hand \in Message /\ published \in 0..MaxEvents
      /\ EventCap \in Nat /\ ReplyCap \in Nat /\ MaxEvents \in Nat /\ ran \subseteq Calls
  BY LegacyAssumption DEF TypeOK
<1>1. CASE SendHello
  <2>1. wire' \in Seq(Message)
    BY <1>1, Messages DEF SendHello
  <2>2. QED BY <1>1, <2>1 DEF SendHello, TypeOK
<1>2. ASSUME NEW ok \in BOOLEAN, AnswerLine(ok) PROVE TypeOK'
  <2>1. lines # <<>> /\ Head(lines) \in Calls /\ lines' \in Seq(Calls)
    BY <1>0, <1>2 DEF AnswerLine
  <2>2. wire' \in Seq(Message)
    BY <1>0, <1>2, <2>1, Messages, SequenceTypes DEF AnswerLine
  <2>3. ran' \subseteq Calls
    BY <1>0, <1>2, <2>1 DEF AnswerLine
  <2>4. QED BY <1>2, <2>1, <2>2, <2>3 DEF AnswerLine, TypeOK
<1>3. CASE PublishEvent
  <2>1. published' \in 1..MaxEvents
    BY <1>0, <1>3 DEF PublishEvent
  <2>2. wire' \in Seq(Message)
    BY <1>0, <1>3, <2>1, Messages, SequenceTypes DEF PublishEvent
  <2>3. QED BY <1>3, <2>1, <2>2 DEF PublishEvent, TypeOK
<1>4. CASE PeerEnds
  BY <1>4, ZenonT(40) DEF PeerEnds, TypeOK
<1>5. CASE ReadMessage
  <2>1. hand' \in Message /\ wire' \in Seq(Message)
    BY <1>0, <1>5, SequenceTypes DEF ReadMessage
  <2>2. QED BY <1>5, <2>1 DEF ReadMessage, TypeOK
<1>6. CASE Deliver
  <2>1. /\ replies' \in Seq(Message) /\ Len(replies') <= ReplyCap
        /\ events' \in Seq(Message) /\ Len(events') <= EventCap
    <3>1. Len(replies) <= ReplyCap /\ Len(events) <= EventCap
      BY DEF TypeOK
    <3>2. CASE hand.kind = "event"
      <4>1. Len(events) < EventCap /\ events' = Append(events, hand) /\ replies' = replies
        BY <1>6, <3>2 DEF Deliver, Delivered
      <4>2. Append(events, hand) \in Seq(Message) /\ Len(events') = Len(events) + 1
        BY <1>0, <4>1, SequenceTypes
      <4>3. Len(events) \in Nat
        BY <1>0
      <4>4. QED BY <1>0, <3>1, <4>1, <4>2, <4>3
    <3>3. CASE hand.kind # "event"
      <4>1. Len(replies) < ReplyCap /\ replies' = Append(replies, hand) /\ events' = events
        BY <1>6, <3>3 DEF Deliver, Delivered
      <4>2. Append(replies, hand) \in Seq(Message) /\ Len(replies') = Len(replies) + 1
        BY <1>0, <4>1, SequenceTypes
      <4>3. Len(replies) \in Nat
        BY <1>0
      <4>4. QED BY <1>0, <3>1, <4>1, <4>2, <4>3
    <3>4. QED BY <3>2, <3>3
  <2>2. QED BY <1>6, <2>1, Messages DEF Deliver, TypeOK
<1>7. CASE ReadFails
  BY <1>7 DEF ReadFails, TypeOK
<1>8. CASE HelloTaken
  <2>1. replies' \in Seq(Message) /\ Len(replies') <= ReplyCap
    BY <1>0, <1>8, SequenceTypes DEF HelloTaken, TypeOK
  <2>2. QED BY <1>8, <2>1 DEF HelloTaken, TypeOK
<1>9. CASE DialFails
  BY <1>9 DEF DialFails, TypeOK
<1>10. QED BY <1>1, <1>2, <1>3, <1>4, <1>5, <1>6, <1>7, <1>8, <1>9 DEF Serve, Read, Dial

\* What a finished call is given has the type of an answer.
LEMMA FinishTypes ==
    ASSUME IInv, NEW c \in Calls, NEW a, Finish(c, a),
           a \in [how : {"none", "refused", "reply", "failed", "timeout"},
                  reply : Message, unknown : BOOLEAN]
    PROVE  /\ pc' \in [Calls -> {"idle", "called", "writing", "waiting", "listening", "done"}]
           /\ answer' \in [Calls -> [how : {"none", "refused", "reply", "failed", "timeout"},
                                     reply : Message, unknown : BOOLEAN]]
BY DEF Finish, IInv, TypeOK

\* The steps of a call keep the types.
LEMMA TypeCall ==
    ASSUME IInv, NEW c \in Calls, Refuse(c) \/ Call(c) \/ Proceed(c)
    PROVE  TypeOK'
<1> DEFINE Outcome == [how : {"none", "refused", "reply", "failed", "timeout"},
                       reply : Message, unknown : BOOLEAN]
<1>a. IsWrite(c) \in BOOLEAN
  BY DEF IsWrite
<1>b. /\ Failure(c, "failed") \in Outcome /\ Failure(c, "timeout") \in Outcome
      /\ [NoAnswer EXCEPT !.how = "refused"] \in Outcome
  BY <1>a, Messages DEF Failure, NoAnswer
<1> USE DEF IInv
<1>0. /\ lines \in Seq(Calls) /\ written \in Seq(Calls) /\ replies \in Seq(Message)
      /\ pc \in [Calls -> {"idle", "called", "writing", "waiting", "listening", "done"}]
      /\ ReplyCap \in Nat
  BY LegacyAssumption DEF TypeOK
<1>1. CASE Refuse(c)
  BY <1>1, <1>b, FinishTypes DEF Refuse, TypeOK
<1>2. CASE Call(c)
  BY <1>2 DEF Call, TypeOK
<1>c. CASE TakeLock(c)
  BY <1>c DEF TakeLock, TypeOK
<1>3. CASE SendLine(c)
  <2>1. lines' \in Seq(Calls) /\ written' \in Seq(Calls)
    BY <1>0, <1>3 DEF SendLine
  <2>2. QED BY <1>3, <2>1 DEF SendLine, TypeOK
<1>4. CASE SendFails(c)
  <2>1. lines' \in Seq(Calls) /\ written' \in Seq(Calls)
    <3>1. CASE lines' = Append(lines, c) /\ written' = Append(written, c)
      BY <1>0, <3>1
    <3>2. CASE UNCHANGED <<lines, written>>
      BY <1>0, <3>2
    <3>3. QED BY <1>4, <3>1, <3>2 DEF SendFails
  <2>2. QED BY <1>4, <1>b, <2>1, FinishTypes DEF SendFails, TypeOK
<1>5. CASE TakeReply(c)
  <2>1. /\ replies' \in Seq(Message) /\ Len(replies') <= ReplyCap
        /\ Head(replies) \in Message
    BY <1>0, <1>5, SequenceTypes DEF TakeReply, TypeOK
  <2> DEFINE a == [how |-> "reply", reply |-> Head(replies), unknown |-> FALSE]
  <2>2. a \in Outcome
    BY <2>1
  <2>3. /\ pc' \in [Calls -> {"idle", "called", "writing", "waiting", "listening", "done"}]
        /\ answer' \in [Calls -> Outcome]
    <3>1. CASE Finish(c, a)
      BY <2>2, <3>1, FinishTypes
    <3>2. CASE /\ pc' = [pc EXCEPT ![c] = "listening"]
               /\ answer' = [answer EXCEPT ![c] = a]
      BY <1>0, <2>2, <3>2 DEF TypeOK
    <3>3. QED BY <1>5, <3>1, <3>2 DEF TakeReply
  <2>4. QED BY <1>5, <2>1, <2>3 DEF TakeReply, TypeOK
<1>6. CASE GiveUp(c)
  BY <1>6, <1>b, FinishTypes DEF GiveUp, TypeOK
<1>7. CASE SeeDone(c)
  BY <1>7, <1>b, FinishTypes DEF SeeDone, TypeOK
<1>8. CASE Listened(c)
  BY <1>8 DEF Listened, TypeOK
<1>9. QED BY <1>c, <1>1, <1>2, <1>3, <1>4, <1>5, <1>6, <1>7, <1>8 DEF Proceed

\* So do those of the session: an event it numbers is one the mod has sent.
LEMMA TypeSession ==
    ASSUME IInv, Pump \/ Consume \/ LoopLeaves \/ Close \/ UNCHANGED vars
    PROVE  TypeOK'
<1> USE DEF IInv
<1> DEFINE Pairs == (1..MaxEvents) \X (1..MaxEvents)
<1>0. /\ events \in Seq(Message) /\ toLoop \in Seq(Pairs) /\ consumed \in Seq(Pairs)
      /\ EventCap \in Nat /\ SessionCap \in Nat /\ MaxEvents \in Nat
      /\ published \in 0..MaxEvents /\ wire \in Seq(Message)
  BY LegacyAssumption DEF TypeOK
<1>1. CASE Number
  <2>1. events # <<>> /\ events' = Tail(events) /\ Head(events) = events[1] /\ 1 \in 1..Len(events)
    BY <1>0, <1>1 DEF Number
  <2>2. number + Len(events) + Held("event") <= published
    <3>1. number + Len(events) + Held("event") \in Nat /\ published \in Nat
      BY Sizes
    <3>2. QED BY <1>0, <3>1, NumberedBounds DEF EventInv
  <2>3. number' = number + 1 /\ payload' = number + 1
    BY <1>1, <2>1 DEF Number, EventInv
  <2>4. number' \in 0..MaxEvents /\ payload' \in 0..MaxEvents
    BY <1>0, <2>1, <2>2, <2>3, Sizes, SMTT(30)
  <2>5. events' \in Seq(Message) /\ Len(events') <= EventCap
    BY <1>0, <2>1, SequenceTypes DEF TypeOK
  <2>6. QED BY <1>1, <2>4, <2>5, SMTT(30) DEF Number, TypeOK
<1>2. CASE Forward
  <2>1. number >= 1
    <3>1. Len(consumed) + Len(toLoop) = number - 1
      BY <1>2 DEF Forward, PumpInv
    <3>2. Len(consumed) \in Nat /\ Len(toLoop) \in Nat
      BY <1>0
    <3>3. QED BY <3>1, <3>2, Sizes
  <2>2. number \in 1..MaxEvents /\ payload \in 1..MaxEvents
    BY <2>1, <1>0 DEF TypeOK, PumpInv
  <2>3. <<number, payload>> \in Pairs
    BY <2>2
  <2>4. toLoop' \in Seq(Pairs) /\ Len(toLoop') <= SessionCap
    <3> HIDE DEF Pairs
    <3>1. Len(toLoop) \in Nat /\ toLoop' = Append(toLoop, <<number, payload>>)
      BY <1>2, <1>0 DEF Forward
    <3>2. QED BY <1>2, <1>0, <2>3, <3>1, SequenceTypes DEF Forward
  <2>5. QED BY <1>2, <2>4 DEF Forward, TypeOK
<1>3. CASE PumpEnds
  BY <1>3 DEF PumpEnds, TypeOK
<1>4. CASE Consume
  <2>1. /\ toLoop' \in Seq(Pairs) /\ Len(toLoop') <= SessionCap
        /\ consumed' \in Seq(Pairs)
    <3> HIDE DEF Pairs
    <3>1. Len(toLoop) <= SessionCap
      BY DEF TypeOK
    <3>2. QED BY <1>4, <1>0, <3>1, SequenceTypes DEF Consume
  <2>2. QED BY <1>4, <2>1, SMTT(30) DEF Consume, TypeOK
<1>5. CASE LoopLeaves
  BY <1>5 DEF LoopLeaves, TypeOK
<1>6. CASE Close
  BY <1>6 DEF Close, TypeOK
<1>7. CASE UNCHANGED vars
  BY <1>7 DEF vars, TypeOK
<1>8. QED BY <1>1, <1>2, <1>3, <1>4, <1>5, <1>6, <1>7 DEF Pump

\* Every step keeps the types.
LEMMA TypeStep ==
    ASSUME IInv, [Next]_vars
    PROVE  TypeOK'
BY TypeLink, TypeCall, TypeSession DEF Next

-----------------------------------------------------------------------------
(* The mod.                                                                *)

\* The types the arguments below need.
LEMMA Typed ==
    ASSUME IInv
    PROVE  /\ wire \in Seq(Message) /\ replies \in Seq(Message) /\ events \in Seq(Message)
           /\ lines \in Seq(Calls) /\ written \in Seq(Calls) /\ hand \in Message
           /\ \A c \in Calls : answer[c].how \in {"none", "refused", "reply", "failed", "timeout"}
BY DEF IInv, TypeOK

\* The hello is the first message.
LEMMA InvSendHello ==
    ASSUME IInv, SendHello
    PROVE  IInv'
<1>1. TypeOK'
  BY TypeStep DEF Next, Serve
<1>2. /\ dial' = "hello" /\ wire = <<>> /\ replies = <<>> /\ wire' = <<Hello>>
      /\ hand.kind = "none" /\ Hello.kind = "reply" /\ wire' = Append(wire, Hello)
  BY DEF SendHello, IInv, MessageInv, NoMessage, Hello, Reply
<1>3. MessageInv'
  BY <1>2 DEF IInv, MessageInv, SendHello
<1>4. HelloInv'
  BY <1>2 DEF IInv, HelloInv, SendHello, Held
<1>5. ReplyInv'
  BY <1>2 DEF ReplyInv
<1>6. EventInv'
  <2>1. Numbered(wire', "event", Numbers, number + Len(events) + Held("event"), published)
    <3>1. number + Len(events) + Held("event") \in Nat /\ published \in Nat
      BY Sizes
    <3>2. Hello \in Message /\ Hello.kind # "event"
      BY <1>2, Messages
    <3>3. QED BY <1>2, <3>1, <3>2, Typed, NumberedAppend, ZenonT(40) DEF IInv, EventInv
  <2>2. QED BY <2>1 DEF SendHello, IInv, EventInv, Held
<1>7. TruthInv'
  BY <1>2 DEF SendHello, IInv, TruthInv, TrueReply, Arrived
<1>8. LineInv' /\ CallInv' /\ PumpInv' /\ AnsweredInOrder'
  BY Stays DEF SendHello
<1>9. QED BY <1>1, <1>3, <1>4, <1>5, <1>6, <1>7, <1>8 DEF IInv

\* A reply stays true as long as what its call has done stays what it was.
LEMMA TrueStays ==
    ASSUME IInv,
           \A p \in 1..Arrived : /\ written'[p] = written[p]
                                 /\ written[p] \in ran' <=> written[p] \in ran,
           Arrived' \in Nat, Arrived' >= Arrived
    PROVE  /\ \A m : TrueReply(m) =>
                 \E p \in 1..Arrived' :
                    written'[p] = m.of /\ (IsWrite(m.of) => (m.of \in ran' <=> m.ok))
           /\ \A c \in ran : \E p \in 1..Arrived' : written'[p] = c
<1>1. Arrived \in Nat /\ \A p \in 1..Arrived : p \in 1..Arrived'
  BY Sizes
<1>2. ASSUME NEW m, TrueReply(m)
      PROVE  \E p \in 1..Arrived' :
                written'[p] = m.of /\ (IsWrite(m.of) => (m.of \in ran' <=> m.ok))
  <2>1. PICK p \in 1..Arrived : written[p] = m.of /\ (IsWrite(m.of) => (m.of \in ran <=> m.ok))
    BY <1>2 DEF TrueReply
  <2>2. m.of \in ran' <=> m.of \in ran
    BY <2>1
  <2>3. QED BY <1>1, <2>1, <2>2
<1>3. ASSUME NEW c \in ran
      PROVE  \E p \in 1..Arrived' : written'[p] = c
  <2>1. PICK p \in 1..Arrived : written[p] = c
    BY DEF IInv, TruthInv
  <2>2. QED BY <1>1, <2>1
<1>4. QED BY <1>2, <1>3

\* So do all, as long as none is new and the mod does nothing.
LEMMA TruthStays ==
    ASSUME IInv, ran' = ran, Arrived' = Arrived,
           \A p \in 1..Arrived : written'[p] = written[p],
           dial' = "open" =>
              /\ \A i \in 1..Len(wire') : wire'[i].kind = "reply" => TrueReply(wire'[i])
              /\ \A i \in 1..Len(replies') : TrueReply(replies'[i])
              /\ hand'.kind = "reply" => TrueReply(hand'),
           \A c \in Calls : answer'[c].how = "reply" => TrueReply(answer'[c].reply)
    PROVE  TruthInv'
<1>1. Arrived \in Nat /\ Arrived' \in Nat /\ Arrived' >= Arrived
  BY Sizes
<1>2. /\ \A m : TrueReply(m) =>
            \E p \in 1..Arrived' :
               written'[p] = m.of /\ (IsWrite(m.of) => (m.of \in ran' <=> m.ok))
      /\ \A c \in ran : \E p \in 1..Arrived' : written'[p] = c
  BY <1>1, TrueStays
<1>3. QED BY <1>2 DEF TruthInv, TrueReply

\* The next line arrives, and its answer is the next of the list.
LEMMA InvAnswerLine ==
    ASSUME IInv, NEW ok \in BOOLEAN, AnswerLine(ok)
    PROVE  IInv'
<1>1. TypeOK'
  BY TypeStep DEF Next, Serve
<1> DEFINE d == Head(lines)
           m == Reply(d, ok)
<1>2. /\ lines # <<>> /\ lines' = Tail(lines) /\ wire' = Append(wire, m)
      /\ ran' = IF ok /\ IsWrite(d) THEN ran \cup {d} ELSE ran
      /\ UNCHANGED <<dial, conn, peer, published, readVars, callVars, sessVars, close>>
  BY DEF AnswerLine
<1>3. /\ d \in Calls /\ d = lines[1] /\ m \in Message
      /\ m.kind = "reply" /\ m.of = d /\ m.ok = ok
      /\ Len(lines) >= 1 /\ Len(lines') = Len(lines) - 1
      /\ \A i \in 1..Len(lines') : lines'[i] = lines[i + 1]
  BY <1>2, Typed, Messages DEF Reply
<1>4. /\ Arrived' = Arrived + 1 /\ Arrived' <= Len(written) /\ d = written[Arrived + 1]
      /\ \A p \in 1..Arrived : written[p] # d
  <2>1. Arrived' = Arrived + 1 /\ Arrived' <= Len(written)
    BY <1>2, <1>3, Sizes DEF Arrived
  <2>2. d = written[Arrived + 1]
    BY <1>3, Sizes DEF IInv, LineInv
  <2>3. \A p \in 1..Arrived : p \in 1..Len(written) /\ Arrived + 1 \in 1..Len(written) /\ p # Arrived + 1
    BY <2>1, Sizes
  <2>4. QED BY <2>1, <2>2, <2>3 DEF IInv, LineInv
<1>5. dial = "open" /\ dial' = "open"
  <2>1. Len(written) > 0
    BY <1>4, Sizes
  <2>2. QED BY <1>2, <2>1 DEF IInv, HelloInv
<1>w. /\ Len(wire') = Len(wire) + 1 /\ wire'[Len(wire) + 1] = m
      /\ \A i \in 1..Len(wire) : wire'[i] = wire[i]
  BY <1>2, <1>3, Typed
<1> HIDE DEF m, d
<1>6. MessageInv'
  <2>1. \A i \in 1..Len(wire') : i \in 1..Len(wire) \/ i = Len(wire) + 1
    BY <1>w, Sizes
  <2>2. QED BY <1>2, <1>3, <1>w, <2>1 DEF IInv, MessageInv
<1>7. HelloInv'
  BY <1>5 DEF HelloInv
<1>8. LineInv'
  <2>1. \A i \in 1..Len(lines') : lines'[i] = written[Arrived + (i + 1)]
    BY <1>3, Sizes DEF IInv, LineInv
  <2>2. \A i \in 1..Len(lines') : lines'[i] = written'[Arrived' + i]
    BY <1>2, <1>4, <2>1, Sizes, SMTT(30)
  <2>3. QED BY <1>2, <1>3, <2>2, Sizes DEF IInv, LineInv
<1>9. ReplyInv'
  <2> DEFINE lo == Cardinality(Answered) + Len(replies) + Held("reply")
  <2>1. lo \in Nat /\ Arrived \in Nat
    BY Sizes
  <2>2. Numbered(wire, "reply", written, lo, Arrived)
    BY <1>5 DEF IInv, ReplyInv
  <2> HIDE DEF lo
  <2>3. Numbered(wire', "reply", written, lo, Arrived + 1)
    BY <1>2, <1>3, <1>4, <2>1, <2>2, Typed, NumberedAppend
  <2>4. Answered' = Answered /\ Held("reply")' = Held("reply")
    BY <1>2 DEF Answered, Held
  <2>5. QED BY <1>2, <1>4, <1>5, <2>3, <2>4 DEF IInv, ReplyInv, lo
<1>10. EventInv'
  <2> DEFINE lo == number + Len(events) + Held("event")
  <2>1. lo \in Nat /\ published \in Nat
    BY Sizes
  <2>2. Numbered(wire, "event", Numbers, lo, published)
    BY DEF IInv, EventInv
  <2> HIDE DEF lo
  <2>3. Numbered(wire', "event", Numbers, lo, published)
    BY <1>2, <1>3, <2>1, <2>2, Typed, NumberedAppend
  <2>4. QED BY <1>2, <2>3 DEF IInv, EventInv, lo, Held
<1>11. TruthInv'
  <2>1. Arrived \in Nat /\ Arrived' \in Nat /\ Arrived' >= Arrived
    BY <1>4, Sizes
  <2>2. ran' = ran \/ ran' = ran \cup {d}
    BY <1>2 DEF d
  <2>3. \A p \in 1..Arrived : /\ written'[p] = written[p]
                              /\ written[p] \in ran' <=> written[p] \in ran
    BY <1>2, <1>4, <2>2
  <2>4. /\ \A n : TrueReply(n) =>
              \E p \in 1..Arrived' :
                 written'[p] = n.of /\ (IsWrite(n.of) => (n.of \in ran' <=> n.ok))
        /\ \A c \in ran : \E p \in 1..Arrived' : written'[p] = c
    BY <1>3, <2>1, <2>2, <2>3, TrueStays
  <2>5. /\ written'[Arrived + 1] = d /\ Arrived + 1 \in 1..Arrived'
        /\ IsWrite(d) => (d \in ran' <=> ok)
    <3>1. d \notin ran
      BY <1>4 DEF IInv, TruthInv
    <3>2. QED BY <1>2, <1>4, <2>1, <3>1 DEF d
  <2>6. \E p \in 1..Arrived' :
           written'[p] = m.of /\ (IsWrite(m.of) => (m.of \in ran' <=> m.ok))
    BY <1>3, <2>5
  <2>7. \A c \in ran' : \E p \in 1..Arrived' : written'[p] = c
    BY <2>2, <2>4, <2>5
  <2>8. \A i \in 1..Len(wire') : wire'[i].kind = "reply" =>
           \E p \in 1..Arrived' :
              written'[p] = wire'[i].of /\ (IsWrite(wire'[i].of) => (wire'[i].of \in ran' <=> wire'[i].ok))
    <3> TAKE i \in 1..Len(wire')
    <3>1. CASE i = Len(wire) + 1
      BY <1>w, <2>6, <3>1
    <3>2. CASE i \in 1..Len(wire)
      <4>1. wire[i].kind = "reply" => TrueReply(wire[i])
        BY <1>5, <3>2 DEF IInv, TruthInv
      <4>2. QED BY <1>w, <2>4, <3>2, <4>1
    <3>3. QED BY <1>w, <3>1, <3>2, Sizes, SMTT(30)
  <2>9. /\ \A i \in 1..Len(replies') :
              \E p \in 1..Arrived' :
                 written'[p] = replies'[i].of
                 /\ (IsWrite(replies'[i].of) => (replies'[i].of \in ran' <=> replies'[i].ok))
        /\ hand'.kind = "reply" =>
              \E p \in 1..Arrived' :
                 written'[p] = hand'.of /\ (IsWrite(hand'.of) => (hand'.of \in ran' <=> hand'.ok))
    BY <1>2, <1>5, <2>4 DEF IInv, TruthInv
  <2>10. \A c \in Calls : answer'[c].how = "reply" =>
            \E p \in 1..Arrived' :
               written'[p] = answer'[c].reply.of
               /\ (IsWrite(answer'[c].reply.of) =>
                      (answer'[c].reply.of \in ran' <=> answer'[c].reply.ok))
    BY <1>2, <2>4 DEF IInv, TruthInv
  <2>11. QED BY <2>7, <2>8, <2>9, <2>10 DEF TruthInv, TrueReply
<1>12. CallInv' /\ PumpInv' /\ AnsweredInOrder'
  BY <1>2, Stays
<1>13. QED BY <1>1, <1>6, <1>7, <1>8, <1>9, <1>10, <1>11, <1>12 DEF IInv

\* The next event is sent.
LEMMA InvPublishEvent ==
    ASSUME IInv, PublishEvent
    PROVE  IInv'
<1>1. TypeOK'
  BY TypeStep DEF Next, Serve
<1> DEFINE m == Event(published')
<1>2. /\ dial = "open" /\ published' = published + 1 /\ published < MaxEvents
      /\ wire' = Append(wire, m)
      /\ UNCHANGED <<dial, conn, peer, lines, ran, readVars, callVars, sessVars, close>>
  BY DEF PublishEvent
<1>3. m \in Message /\ m.kind = "event" /\ m.of = published + 1
  <2>1. published' \in 1..MaxEvents
    BY <1>2, LegacyAssumption, Sizes
  <2>2. QED BY <1>2, <2>1, Messages DEF Event
<1> HIDE DEF m
<1>w. /\ Len(wire') = Len(wire) + 1 /\ wire'[Len(wire) + 1] = m
      /\ \A i \in 1..Len(wire) : wire'[i] = wire[i]
      /\ \A i \in 1..Len(wire') : i \in 1..Len(wire) \/ i = Len(wire) + 1
  BY <1>2, <1>3, Typed
<1>4. MessageInv'
  BY <1>2, <1>3, <1>w DEF IInv, MessageInv
<1>5. HelloInv'
  BY <1>2 DEF HelloInv
<1>6. ReplyInv'
  <2> DEFINE lo == Cardinality(Answered) + Len(replies) + Held("reply")
  <2>1. lo \in Nat /\ Arrived \in Nat
    BY Sizes
  <2>2. Numbered(wire, "reply", written, lo, Arrived)
    BY <1>2 DEF IInv, ReplyInv
  <2> HIDE DEF lo
  <2>3. Numbered(wire', "reply", written, lo, Arrived)
    BY <1>2, <1>3, <2>1, <2>2, Typed, NumberedAppend
  <2>4. Answered' = Answered /\ Held("reply")' = Held("reply") /\ Arrived' = Arrived
    BY <1>2 DEF Answered, Held, Arrived
  <2>5. QED BY <1>2, <2>3, <2>4 DEF IInv, ReplyInv, lo
<1>7. EventInv'
  <2> DEFINE lo == number + Len(events) + Held("event")
  <2>1. lo \in Nat /\ published \in Nat /\ Numbers[published + 1] = published + 1
    BY Sizes DEF Numbers
  <2>2. Numbered(wire, "event", Numbers, lo, published)
    BY DEF IInv, EventInv
  <2> HIDE DEF lo
  <2>3. Numbered(wire', "event", Numbers, lo, published + 1)
    BY <1>2, <1>3, <2>1, <2>2, Typed, NumberedAppend
  <2>4. QED BY <1>2, <2>3 DEF IInv, EventInv, lo, Held
<1>8. TruthInv'
  BY <1>2, <1>3, <1>w, TruthStays DEF Arrived, IInv, TruthInv
<1>9. LineInv' /\ CallInv' /\ PumpInv' /\ AnsweredInOrder'
  BY <1>2, Stays
<1>10. QED BY <1>1, <1>4, <1>5, <1>6, <1>7, <1>8, <1>9 DEF IInv

\* The mod's end disturbs nothing.
LEMMA InvPeerEnds ==
    ASSUME IInv, PeerEnds
    PROVE  IInv'
<1>1. TypeOK'
  BY TypeStep DEF Next, Serve
<1>2. QED BY <1>1, Stays DEF PeerEnds, IInv

-----------------------------------------------------------------------------
(* The read loop and Dial.                                                 *)

\* The next message of the wire is the one held: the next reply, or the next
\* event.
LEMMA InvReadMessage ==
    ASSUME IInv, ReadMessage
    PROVE  IInv'
<1>1. TypeOK'
  BY TypeStep DEF Next, Read
<1> DEFINE h == Head(wire)
<1>2. /\ wire # <<>> /\ wire' = Tail(wire) /\ hand' = h
      /\ reader = "reading" /\ reader' = "delivering" /\ hand = NoMessage
      /\ UNCHANGED <<dial, conn, peer, lines, ran, published, replies, events, callVars, sessVars,
                     close>>
  BY DEF ReadMessage, IInv, MessageInv
<1>3. /\ h = wire[1] /\ Len(wire) >= 1 /\ Len(wire') = Len(wire) - 1
      /\ \A i \in 1..Len(wire') : wire'[i] = wire[i + 1]
      /\ \A i \in 1..Len(wire') : i + 1 \in 1..Len(wire)
      /\ 1 \in 1..Len(wire)
  BY <1>2, Typed
<1> HIDE DEF h
<1>4. h.kind \in {"reply", "event"} /\ Held("reply") = 0 /\ Held("event") = 0
  BY <1>2, <1>3 DEF IInv, MessageInv, Held, NoMessage
<1>5. MessageInv'
  BY <1>2, <1>3, <1>4 DEF IInv, MessageInv
<1>6. HelloInv'
  <2>1. Held("reply")' \in 0..1
    BY DEF Held
  <2>2. dial = "hello" => Len(wire') + Held("reply")' + Len(replies) <= 1
    BY <1>3, <1>4, <2>1, Sizes DEF IInv, HelloInv
  <2>3. QED BY <1>2, <2>2 DEF IInv, HelloInv
<1>7. ReplyInv'
  <2> SUFFICES ASSUME dial = "open" PROVE ReplyInv'
    BY <1>2 DEF ReplyInv
  <2> DEFINE lo == Cardinality(Answered) + Len(replies)
  <2>1. lo \in Nat /\ Arrived \in Nat
    BY Sizes
  <2>2. Numbered(wire, "reply", written, lo, Arrived)
    BY <1>4, <2>1 DEF IInv, ReplyInv
  <2> HIDE DEF lo
  <2>3. /\ h.kind = "reply" => /\ h.of = written[lo + 1]
                               /\ Numbered(wire', "reply", written, lo + 1, Arrived)
        /\ h.kind # "reply" => Numbered(wire', "reply", written, lo, Arrived)
    BY <1>2, <2>1, <2>2, Typed, NumberedHead DEF h
  <2>4. Numbered(wire', "reply", written, lo + Held("reply")', Arrived)
    BY <1>2, <2>1, <2>3 DEF Held
  <2>5. Answered' = Answered /\ Arrived' = Arrived
    BY <1>2 DEF Answered, Arrived
  <2>6. \A i \in 1..Len(replies) : replies[i].of = written[Cardinality(Answered) + i]
    BY DEF IInv, ReplyInv
  <2>7. QED BY <1>2, <2>3, <2>4, <2>5, <2>6 DEF ReplyInv, lo
<1>8. EventInv'
  <2> DEFINE lo == number + Len(events)
  <2>1. lo \in Nat /\ published \in Nat
    BY Sizes
  <2>2. Numbered(wire, "event", Numbers, lo, published)
    BY <1>4, <2>1 DEF IInv, EventInv
  <2> HIDE DEF lo
  <2>3. /\ h.kind = "event" => /\ h.of = lo + 1
                               /\ Numbered(wire', "event", Numbers, lo + 1, published)
        /\ h.kind # "event" => Numbered(wire', "event", Numbers, lo, published)
    <3>1. Numbers[lo + 1] = lo + 1
      BY <2>1 DEF Numbers
    <3>2. QED BY <1>2, <2>1, <2>2, <3>1, Typed, NumberedHead DEF h
  <2>4. Numbered(wire', "event", Numbers, lo + Held("event")', published)
    BY <1>2, <2>1, <2>3 DEF Held
  <2>5. \A i \in 1..Len(events) : events[i].of = number + i
    BY DEF IInv, EventInv
  <2>6. QED BY <1>2, <2>3, <2>4, <2>5 DEF EventInv, lo
<1>9. TruthInv'
  <2>1. dial = "open" =>
           /\ \A i \in 1..Len(wire') : wire'[i].kind = "reply" => TrueReply(wire'[i])
           /\ \A i \in 1..Len(replies') : TrueReply(replies'[i])
           /\ hand'.kind = "reply" => TrueReply(hand')
    BY <1>2, <1>3 DEF IInv, TruthInv
  <2>2. QED BY <1>2, <2>1, TruthStays DEF Arrived, IInv, TruthInv
<1>10. LineInv' /\ CallInv' /\ PumpInv' /\ AnsweredInOrder'
  BY <1>2, Stays
<1>11. QED BY <1>1, <1>5, <1>6, <1>7, <1>8, <1>9, <1>10 DEF IInv

\* The message held goes behind those of its kind.
LEMMA InvDeliver ==
    ASSUME IInv, Deliver
    PROVE  IInv'
<1>1. TypeOK'
  BY TypeStep DEF Next, Read
<1>2. /\ reader = "delivering" /\ Delivered(hand) /\ hand' = NoMessage /\ reader' = "reading"
      /\ UNCHANGED <<dial, conn, modVars, callVars, sessVars, close>>
  BY DEF Deliver
<1>3. /\ hand \in Message /\ hand'.kind = "none"
      /\ Held("reply")' = 0 /\ Held("event")' = 0
      /\ Answered' = Answered /\ Arrived' = Arrived
  BY <1>2, Typed DEF Held, NoMessage, Answered, Arrived
<1>4. CASE hand.kind = "event"
  <2>1. /\ events' = Append(events, hand) /\ replies' = replies
        /\ Held("reply") = 0 /\ Held("event") = 1
    BY <1>2, <1>4 DEF Delivered, Held
  <2>2. /\ Len(events') = Len(events) + 1 /\ events'[Len(events) + 1] = hand
        /\ \A i \in 1..Len(events) : events'[i] = events[i]
        /\ \A i \in 1..Len(events') : i \in 1..Len(events) \/ i = Len(events) + 1
    BY <1>3, <2>1, Typed
  <2>3. MessageInv'
    BY <1>2, <1>4, <2>1, <2>2 DEF IInv, MessageInv
  <2>4. HelloInv'
    BY <1>2, <1>3, <2>1 DEF IInv, HelloInv
  <2>5. ReplyInv'
    BY <1>2, <1>3, <2>1 DEF IInv, ReplyInv
  <2>6. EventInv'
    <3>1. \A i \in 1..Len(events') : events'[i].of = number + i
      <4>1. hand.of = number + (Len(events) + 1)
        BY <1>4, Sizes DEF IInv, EventInv
      <4>2. QED BY <2>2, <4>1 DEF IInv, EventInv
    <3>2. number + Len(events') + 0 = number + Len(events) + 1
      BY <2>2, Sizes
    <3>3. QED BY <1>2, <1>3, <2>1, <3>1, <3>2 DEF IInv, EventInv
  <2>7. TruthInv'
    BY <1>2, <1>3, <2>1, TruthStays DEF IInv, TruthInv
  <2>8. LineInv' /\ CallInv' /\ PumpInv' /\ AnsweredInOrder'
    BY <1>2, Stays
  <2>9. QED BY <1>1, <2>3, <2>4, <2>5, <2>6, <2>7, <2>8 DEF IInv
<1>5. CASE hand.kind # "event"
  <2>1. /\ replies' = Append(replies, hand) /\ events' = events /\ hand.kind = "reply"
        /\ Held("reply") = 1 /\ Held("event") = 0
    BY <1>2, <1>5 DEF Delivered, Held, IInv, MessageInv
  <2>2. /\ Len(replies') = Len(replies) + 1 /\ replies'[Len(replies) + 1] = hand
        /\ \A i \in 1..Len(replies) : replies'[i] = replies[i]
        /\ \A i \in 1..Len(replies') : i \in 1..Len(replies) \/ i = Len(replies) + 1
    BY <1>3, <2>1, Typed
  <2>3. MessageInv'
    BY <1>2, <2>1, <2>2 DEF IInv, MessageInv
  <2>4. HelloInv'
    <3>1. dial = "hello" => Len(wire) + 0 + Len(replies') <= 1
      BY <2>1, <2>2, Sizes DEF IInv, HelloInv
    <3>2. QED BY <1>2, <1>3, <3>1 DEF IInv, HelloInv
  <2>5. ReplyInv'
    <3> SUFFICES ASSUME dial = "open" PROVE ReplyInv'
      BY <1>2 DEF ReplyInv
    <3>1. /\ \A i \in 1..Len(replies) : replies[i].of = written[Cardinality(Answered) + i]
          /\ hand.of = written[Cardinality(Answered) + Len(replies) + 1]
          /\ Numbered(wire, "reply", written,
                      Cardinality(Answered) + Len(replies) + 1, Arrived)
      BY <2>1 DEF IInv, ReplyInv
    <3>2. /\ Cardinality(Answered) + Len(replies') + 0 = Cardinality(Answered) + Len(replies) + 1
          /\ Cardinality(Answered) + (Len(replies) + 1) = Cardinality(Answered) + Len(replies) + 1
      <4> DEFINE n == Cardinality(Answered)
                 r == Len(replies)
      <4>1. n \in Nat /\ r \in Nat /\ Len(replies') = r + 1
        BY <2>2, Sizes
      <4> HIDE DEF n, r
      <4>2. n + Len(replies') + 0 = n + r + 1 /\ n + (r + 1) = n + r + 1
        BY <4>1
      <4>3. QED BY <4>2 DEF n, r
    <3>3. \A i \in 1..Len(replies') : replies'[i].of = written[Cardinality(Answered) + i]
      BY <2>2, <3>1, <3>2
    <3>4. QED BY <1>2, <1>3, <3>1, <3>2, <3>3 DEF ReplyInv
  <2>6. EventInv'
    BY <1>2, <1>3, <2>1 DEF IInv, EventInv
  <2>7. TruthInv'
    <3>1. dial = "open" =>
             /\ \A i \in 1..Len(wire) : wire[i].kind = "reply" => TrueReply(wire[i])
             /\ \A i \in 1..Len(replies') : TrueReply(replies'[i])
      BY <2>1, <2>2 DEF IInv, TruthInv
    <3>2. QED BY <1>2, <1>3, <3>1, TruthStays DEF IInv, TruthInv
  <2>8. LineInv' /\ CallInv' /\ PumpInv' /\ AnsweredInOrder'
    BY <1>2, Stays
  <2>9. QED BY <1>1, <2>3, <2>4, <2>5, <2>6, <2>7, <2>8 DEF IInv
<1>6. QED BY <1>4, <1>5

\* The read loop ends with nothing in its hand.
LEMMA InvReadFails ==
    ASSUME IInv, ReadFails
    PROVE  IInv'
<1>1. TypeOK'
  BY TypeStep DEF Next, Read
<1>2. MessageInv'
  BY DEF ReadFails, IInv, MessageInv
<1>3. QED BY <1>1, <1>2, Stays DEF ReadFails, IInv

\* When the hello has been taken the link is empty, and nothing is written.
LEMMA InvHelloTaken ==
    ASSUME IInv, HelloTaken
    PROVE  IInv'
<1>1. TypeOK'
  BY TypeStep DEF Next, Dial
<1>2. /\ dial = "hello" /\ replies # <<>> /\ dial' = "open" /\ pump' = "select"
      /\ replies' = Tail(replies)
      /\ UNCHANGED <<conn, modVars, reader, hand, events, callVars, number, payload, toLoop, loop,
                     consumed, close>>
  BY DEF HelloTaken
<1>3. /\ Len(replies) >= 1 /\ Len(replies') = Len(replies) - 1
  BY <1>2, Typed
<1>4. /\ Len(replies') = 0 /\ Len(wire) = 0 /\ Held("reply") = 0 /\ hand.kind # "reply"
  <2>1. Len(wire) + Held("reply") + Len(replies) <= 1
    BY <1>2 DEF IInv, HelloInv
  <2>2. Len(replies') = 0 /\ Len(wire) = 0 /\ Held("reply") = 0
    BY <1>3, <2>1, Sizes
  <2>3. QED BY <2>2 DEF Held
<1>5. /\ written = <<>> /\ wire = <<>> /\ Answered = {} /\ Cardinality(Answered) = 0
      /\ Arrived = 0
  <2>1. written = <<>> /\ wire = <<>>
    BY <1>2, <1>4, Typed DEF IInv, HelloInv
  <2>2. Answered = {} /\ Len(written) = 0
    BY <2>1 DEF Answered
  <2>3. QED BY <2>1, <2>2, Sizes, FS_EmptySet
<1>6. MessageInv'
  BY <1>2, <1>4 DEF IInv, MessageInv
<1>7. HelloInv'
  BY <1>2 DEF HelloInv
<1>8. ReplyInv'
  <2>1. Numbered(<<>>, "reply", written, 0, 0)
    BY NumberedEmpty
  <2>2. /\ wire' = <<>> /\ written' = written /\ Answered' = Answered /\ Arrived' = 0
        /\ Held("reply")' = 0 /\ hand'.kind # "reply" /\ Cardinality(Answered') = 0
    BY <1>2, <1>4, <1>5 DEF Answered, Arrived, Held
  <2>3. 0 + Len(replies') + 0 = 0 /\ 1..Len(replies') = {}
    BY <1>4
  <2>4. QED BY <2>1, <2>2, <2>3 DEF ReplyInv
<1>9. PumpInv'
  BY <1>2 DEF IInv, HelloInv, PumpInv
<1>10. TruthInv'
  <2>1. /\ 1..Len(wire') = {} /\ 1..Len(replies') = {} /\ hand'.kind # "reply"
        /\ 1..Arrived = {}
    BY <1>2, <1>4, <1>5, SMTT(30)
  <2>2. QED BY <1>2, <2>1, TruthStays DEF Arrived, IInv, TruthInv
<1>11. LineInv' /\ CallInv' /\ EventInv' /\ AnsweredInOrder'
  BY <1>2, Stays
<1>12. QED BY <1>1, <1>6, <1>7, <1>8, <1>9, <1>10, <1>11 DEF IInv

\* A connection that has failed makes no calls.
LEMMA InvDialFails ==
    ASSUME IInv, DialFails
    PROVE  IInv'
<1>1. TypeOK'
  BY TypeStep DEF Next, Dial
<1>2. dial = "hello" /\ dial' = "failed"
  BY DEF DialFails
<1>3. HelloInv' /\ ReplyInv' /\ TruthInv'
  <2>1. HelloInv'
    BY <1>2 DEF DialFails, IInv, HelloInv
  <2>2. TruthInv'
    BY <1>2, TruthStays DEF DialFails, Arrived, IInv, TruthInv
  <2>3. QED BY <1>2, <2>1, <2>2 DEF ReplyInv
<1>4. QED BY <1>1, <1>3, Stays DEF DialFails, IInv

\* The mod, the read loop and Dial keep the invariant.
LEMMA InvLink ==
    ASSUME IInv, Serve \/ Read \/ Dial
    PROVE  IInv'
BY InvSendHello, InvAnswerLine, InvPublishEvent, InvPeerEnds, InvReadMessage, InvDeliver,
   InvReadFails, InvHelloTaken, InvDialFails DEF Serve, Read, Dial

-----------------------------------------------------------------------------
(* The session.                                                            *)

\* The pump takes the next event and gives it the number of the mod.
LEMMA InvNumber ==
    ASSUME IInv, Number
    PROVE  IInv'
<1>1. TypeOK'
  BY TypeStep DEF Next, Pump
<1>2. /\ pump = "select" /\ events # <<>> /\ number' = number + 1
      /\ payload' = Head(events).of /\ events' = Tail(events) /\ pump' = "holding"
      /\ UNCHANGED <<dial, conn, modVars, reader, hand, replies, callVars, toLoop, loop, consumed,
                     close>>
  BY DEF Number
<1>3. /\ Head(events) = events[1] /\ Len(events) >= 1 /\ Len(events') = Len(events) - 1
      /\ \A i \in 1..Len(events') : events'[i] = events[i + 1]
      /\ \A i \in 1..Len(events') : i + 1 \in 1..Len(events)
      /\ 1 \in 1..Len(events)
  BY <1>2, Typed
<1>4. MessageInv'
  BY <1>2, <1>3 DEF IInv, MessageInv
<1>5. HelloInv'
  BY <1>2 DEF IInv, HelloInv
<1>6. EventInv'
  <2>1. \A i \in 1..Len(events') : events'[i].of = number + (i + 1)
    BY <1>3 DEF IInv, EventInv
  <2>2. \A i \in 1..Len(events') : events'[i].of = number' + i
    BY <1>2, <2>1, Sizes
  <2>3. number' + Len(events') = number + Len(events)
    BY <1>2, <1>3, Sizes
  <2>4. Held("event")' = Held("event")
    BY <1>2 DEF Held
  <2>5. QED BY <1>2, <2>2, <2>3, <2>4 DEF IInv, EventInv
<1>7. PumpInv'
  <2>1. payload' = number'
    BY <1>2, <1>3 DEF IInv, EventInv
  <2>2. Len(consumed) + Len(toLoop) = number /\ number \in Nat
    BY <1>2, Sizes DEF IInv, PumpInv
  <2>3. QED BY <1>2, <2>1, <2>2 DEF IInv, PumpInv
<1>8. LineInv' /\ CallInv' /\ ReplyInv' /\ TruthInv' /\ AnsweredInOrder'
  BY <1>2, Stays
<1>9. QED BY <1>1, <1>4, <1>5, <1>6, <1>7, <1>8 DEF IInv

\* It passes the event on, ends, or the loop takes one.
LEMMA InvPass ==
    ASSUME IInv, Forward \/ PumpEnds \/ Consume
    PROVE  IInv'
<1>1. TypeOK'
  BY TypeStep DEF Next, Pump
<1>a. /\ number \in Nat /\ Len(consumed) \in Nat /\ Len(toLoop) \in Nat
      /\ \E S : toLoop \in Seq(S) /\ consumed \in Seq(S)
  BY Sizes DEF IInv, TypeOK
<1>b. PICK S : toLoop \in Seq(S) /\ consumed \in Seq(S)
  BY <1>a
<1>2. CASE Forward
  <2>1. /\ pump = "holding" /\ toLoop' = Append(toLoop, <<number, payload>>)
        /\ pump' = "select" /\ UNCHANGED <<number, payload, consumed>>
    BY <1>2 DEF Forward
  <2>2. /\ Len(toLoop') = Len(toLoop) + 1 /\ toLoop'[Len(toLoop) + 1] = <<number, payload>>
        /\ \A i \in 1..Len(toLoop) : toLoop'[i] = toLoop[i]
        /\ \A i \in 1..Len(toLoop') : i \in 1..Len(toLoop) \/ i = Len(toLoop) + 1
    BY <1>b, <2>1
  <2>3. payload = number /\ Len(consumed) + Len(toLoop) = number - 1
    BY <2>1 DEF IInv, PumpInv
  <2>4. Len(consumed) + (Len(toLoop) + 1) = number /\ Len(consumed) + Len(toLoop') = number
    BY <1>a, <2>2, <2>3
  <2>5. \A i \in 1..Len(toLoop') : toLoop'[i] = <<Len(consumed) + i, Len(consumed) + i>>
    BY <2>2, <2>3, <2>4 DEF IInv, PumpInv
  <2>6. PumpInv'
    BY <1>a, <2>1, <2>4, <2>5 DEF IInv, PumpInv
  <2>7. HelloInv'
    BY <1>2 DEF Forward, IInv, HelloInv, Held
  <2>8. QED BY <1>1, <1>2, <2>6, <2>7, Stays DEF Forward, IInv
<1>3. CASE PumpEnds
  <2>1. PumpInv'
    BY <1>3 DEF PumpEnds, IInv, PumpInv
  <2>2. HelloInv'
    BY <1>3 DEF PumpEnds, IInv, HelloInv, Held
  <2>3. QED BY <1>1, <1>3, <2>1, <2>2, Stays DEF PumpEnds, IInv
<1>4. CASE Consume
  <2>1. /\ toLoop # <<>> /\ consumed' = Append(consumed, Head(toLoop)) /\ toLoop' = Tail(toLoop)
        /\ UNCHANGED <<pump, number, payload>>
    BY <1>4 DEF Consume
  <2>2. /\ Head(toLoop) = toLoop[1] /\ Len(toLoop) >= 1 /\ Len(toLoop') = Len(toLoop) - 1
        /\ \A i \in 1..Len(toLoop') : toLoop'[i] = toLoop[i + 1]
        /\ \A i \in 1..Len(toLoop') : i + 1 \in 1..Len(toLoop)
        /\ 1 \in 1..Len(toLoop)
    BY <1>b, <2>1
  <2>3. /\ Len(consumed') = Len(consumed) + 1 /\ consumed'[Len(consumed) + 1] = toLoop[1]
        /\ \A i \in 1..Len(consumed) : consumed'[i] = consumed[i]
        /\ \A i \in 1..Len(consumed') : i \in 1..Len(consumed) \/ i = Len(consumed) + 1
    <3>1. toLoop[1] \in S
      BY <1>b, <2>2
    <3>2. QED BY <1>b, <2>1, <2>2, <3>1
  <2>4. toLoop[1] = <<Len(consumed) + 1, Len(consumed) + 1>>
    BY <2>2 DEF IInv, PumpInv
  <2>5. \A i \in 1..Len(consumed') : consumed'[i] = <<i, i>>
    BY <2>3, <2>4 DEF IInv, PumpInv
  <2>6. \A i \in 1..Len(toLoop') : toLoop'[i] = <<Len(consumed') + i, Len(consumed') + i>>
    <3>1. \A i \in 1..Len(toLoop') : toLoop'[i] = <<Len(consumed) + (i + 1), Len(consumed) + (i + 1)>>
      BY <2>2 DEF IInv, PumpInv
    <3>2. \A i \in 1..Len(toLoop') : Len(consumed) + (i + 1) = Len(consumed') + i
      BY <1>a, <2>2, <2>3
    <3>3. QED BY <3>1, <3>2
  <2>7. Len(consumed') + Len(toLoop') = Len(consumed) + Len(toLoop)
    BY <1>a, <2>2, <2>3
  <2>8. PumpInv'
    BY <2>1, <2>5, <2>6, <2>7 DEF IInv, PumpInv
  <2>9. QED BY <1>1, <1>4, <2>8, Stays DEF Consume, IInv
<1>5. QED BY <1>2, <1>3, <1>4

\* The steps of the session keep the invariant.
LEMMA InvSession ==
    ASSUME IInv, Pump \/ Consume \/ LoopLeaves \/ Close \/ UNCHANGED vars
    PROVE  IInv'
<1>1. TypeOK'
  BY TypeStep DEF Next
<1>2. CASE Pump \/ Consume
  BY <1>2, InvNumber, InvPass DEF Pump
<1>3. CASE LoopLeaves
  BY <1>1, <1>3, Stays DEF LoopLeaves, IInv
<1>4. CASE Close
  BY <1>1, <1>4, Stays DEF Close, IInv
<1>5. CASE UNCHANGED vars
  BY <1>1, <1>5, Stays DEF vars, IInv
<1>6. QED BY <1>2, <1>3, <1>4, <1>5

-----------------------------------------------------------------------------
(* A call.                                                                 *)

\* What differs only at c, which the last line at most is of, leaves the
\* requests before it as they were.
LEMMA OtherCalls ==
    ASSUME IInv, NEW c \in Calls,
           \A d \in Calls \ {c} : answer'[d] = answer[d],
           \A n \in 1..Len(written) : written[n] = c => n = Len(written),
           written' = written \/ written' = Append(written, c)
    PROVE  \A n \in 1..Len(written') : written'[n] # c =>
              /\ n \in 1..Len(written) /\ written'[n] = written[n]
              /\ answer'[written'[n]] = answer[written[n]]
              /\ GivenUp(n - 1)' = GivenUp(n - 1)
<1>1. /\ \A n \in 1..Len(written) : written'[n] = written[n] /\ n \in 1..Len(written')
      /\ \A n \in 1..Len(written') : written'[n] # c => n \in 1..Len(written)
      /\ \A n \in 1..Len(written) : written[n] \in Calls
  <2>1. CASE written' = written
    BY <2>1, Typed
  <2>2. CASE written' = Append(written, c)
    BY <2>2, Typed
  <2>3. QED BY <2>1, <2>2
<1>2. ASSUME NEW n \in 1..Len(written'), written'[n] # c
      PROVE  GivenUp(n - 1)' = GivenUp(n - 1)
  <2>1. n \in 1..Len(written) /\ Len(written) \in Nat /\ written[n] # c
    BY <1>1, <1>2, Sizes
  <2>2. \A i \in 1..(n - 1) : i \in 1..Len(written) /\ i # Len(written)
    BY <2>1
  <2>3. \A i \in 1..(n - 1) : written'[i] = written[i] /\ written[i] \in Calls \ {c}
    BY <1>1, <2>2
  <2>4. \A i \in 1..(n - 1) : answer'[written'[i]] = answer[written[i]]
    BY <2>3
  <2>5. QED BY <2>4 DEF GivenUp
<1>3. \A n \in 1..Len(written') : written'[n] # c => answer'[written'[n]] = answer[written[n]]
  BY <1>1
<1>4. QED BY <1>1, <1>2, <1>3

\* As many requests took a reply as long as c has none.
LEMMA AnsweredStays ==
    ASSUME IInv, NEW c \in Calls,
           \A d \in Calls \ {c} : answer'[d] = answer[d],
           written' = written \/ written' = Append(written, c),
           answer[c].how # "reply", answer'[c].how # "reply"
    PROVE  Answered' = Answered
<1>1. CASE written' = written
  <2>1. \A n \in 1..Len(written) : written[n] \in Calls
    BY Typed
  <2>2. \A n \in 1..Len(written) :
           answer'[written'[n]].how = "reply" <=> answer[written[n]].how = "reply"
    BY <1>1, <2>1
  <2>3. QED BY <1>1, <2>2 DEF Answered
<1>2. CASE written' = Append(written, c)
  <2>1. /\ \A n \in 1..Len(written) : written'[n] = written[n] /\ written[n] \in Calls
        /\ \A n \in 1..Len(written) : n \in 1..Len(written')
        /\ \A n \in 1..Len(written') : n \in 1..Len(written) \/ written'[n] = c
    BY <1>2, Typed
  <2>2. \A n \in 1..Len(written) :
           answer'[written'[n]].how = "reply" <=> answer[written[n]].how = "reply"
    BY <2>1
  <2>3. \A n : n \in Answered' <=> n \in Answered
    BY <2>1, <2>2 DEF Answered
  <2>4. QED BY <2>3
<1>3. QED BY <1>1, <1>2

\* GivenUp counts a finite part of the first n requests.
LEMMA GivenUpSize ==
    ASSUME NEW n \in Nat
    PROVE  IsFiniteSet(GivenUp(n)) /\ Cardinality(GivenUp(n)) \in 0..n
<1>1. GivenUp(n) \subseteq 1..n
  BY DEF GivenUp
<1>2. IsFiniteSet(1..n) /\ Cardinality(1..n) = IF 1 > n THEN 0 ELSE n - 1 + 1
  BY FS_Interval
<1>3. IsFiniteSet(GivenUp(n)) /\ Cardinality(GivenUp(n)) <= Cardinality(1..n)
  BY <1>1, <1>2, FS_Subset
<1>4. Cardinality(GivenUp(n)) \in Nat
  BY <1>3, FS_CardinalityType
<1>5. QED BY <1>2, <1>3, <1>4

\* The requests that took theirs in order did, as long as c takes none.
LEMMA OrderStays ==
    ASSUME IInv, NEW c \in Calls,
           \A d \in Calls \ {c} : answer'[d] = answer[d],
           \A n \in 1..Len(written) : written[n] = c => n = Len(written),
           written' = written \/ written' = Append(written, c),
           answer'[c].how # "reply"
    PROVE  AnsweredInOrder'
<1>1. Len(written) \in Nat /\ DOMAIN written = 1..Len(written) /\ DOMAIN written' = 1..Len(written')
  BY Typed
<1>2. ASSUME NEW n \in 1..Len(written'), answer'[written'[n]].how = "reply"
      PROVE  answer'[written'[n]].reply.of = written'[n - Cardinality(GivenUp(n - 1)')]
  <2>1. written'[n] # c
    BY <1>2
  <2>2. /\ n \in 1..Len(written) /\ written'[n] = written[n]
        /\ answer'[written'[n]] = answer[written[n]]
        /\ GivenUp(n - 1)' = GivenUp(n - 1)
    BY <2>1, OtherCalls
  <2>3. n - 1 \in Nat /\ n \in Nat /\ n <= Len(written)
    <3> DEFINE w == Len(written)
    <3>1. w \in Nat /\ n \in 1..w
      BY <1>1, <2>2
    <3> HIDE DEF w
    <3>2. n - 1 \in Nat /\ n \in Nat /\ n <= w
      BY <3>1
    <3>3. QED BY <3>2 DEF w
  <2>4. Cardinality(GivenUp(n - 1)) \in 0..(n - 1)
    BY <2>3, GivenUpSize
  <2>5. n - Cardinality(GivenUp(n - 1)) \in 1..Len(written)
    <3> DEFINE w == Len(written)
               g == Cardinality(GivenUp(n - 1))
    <3>1. w \in Nat /\ n \in Nat /\ n <= w /\ g \in 0..(n - 1)
      BY <1>1, <2>3, <2>4
    <3> HIDE DEF w, g
    <3>2. n - g \in 1..w
      BY <3>1
    <3>3. QED BY <3>2 DEF w, g
  <2>6. \A i \in 1..Len(written) : written'[i] = written[i]
    <3>1. CASE written' = written
      BY <3>1
    <3>2. CASE written' = Append(written, c)
      BY <3>2, Typed
    <3>3. QED BY <3>1, <3>2
  <2>7. answer[written[n]].reply.of = written[n - Cardinality(GivenUp(n - 1))]
    BY <1>1, <1>2, <2>2 DEF IInv, AnsweredInOrder
  <2>8. QED BY <2>2, <2>5, <2>6, <2>7
<1>3. QED BY <1>1, <1>2 DEF AnsweredInOrder

\* A call that ends without a reply disturbs no reply.
LEMMA WithoutReply ==
    ASSUME IInv, NEW c \in Calls,
           \A d \in Calls \ {c} : answer'[d] = answer[d],
           \A n \in 1..Len(written) : written[n] = c => n = Len(written),
           answer[c].how # "reply", answer'[c].how # "reply",
           \/ UNCHANGED <<lines, written>>
           \/ lines' = Append(lines, c) /\ written' = Append(written, c),
           UNCHANGED <<dial, ran, wire, replies, hand>>
    PROVE  ReplyInv' /\ TruthInv' /\ AnsweredInOrder'
<1>1. Answered' = Answered /\ AnsweredInOrder'
  BY AnsweredStays, OrderStays
<1>2. /\ Arrived' = Arrived /\ \A n \in 1..Len(written) : written'[n] = written[n]
  <2>1. CASE UNCHANGED <<lines, written>>
    BY <2>1 DEF Arrived
  <2>2. CASE lines' = Append(lines, c) /\ written' = Append(written, c)
    <3>1. /\ Len(lines') = Len(lines) + 1 /\ Len(written') = Len(written) + 1
          /\ \A n \in 1..Len(written) : written'[n] = written[n]
      BY <2>2, Typed
    <3>2. QED BY <3>1, Sizes DEF Arrived
  <2>3. QED BY <2>1, <2>2
<1>3. \A n \in 1..Arrived : n \in 1..Len(written) /\ written'[n] = written[n]
  BY <1>2, Sizes
<1>4. ReplyInv'
  <2> SUFFICES ASSUME dial = "open" PROVE ReplyInv'
    BY DEF ReplyInv
  <2> DEFINE a == Cardinality(Answered)
             lo == a + Len(replies) + Held("reply")
  <2>1. Numbered(wire, "reply", written, lo, Arrived)
    BY DEF IInv, ReplyInv
  <2>2. a \in Nat /\ Len(replies) \in Nat /\ Held("reply") \in 0..1 /\ lo \in Nat /\ Arrived \in Nat
    BY Sizes
  <2>3. lo <= Arrived
    <3> HIDE DEF lo
    <3>1. QED BY <2>1, <2>2, Typed, NumberedBounds
  <2>4. Numbered(wire, "reply", written', lo, Arrived)
    <3> HIDE DEF lo
    <3>1. QED BY <1>3, <2>1, <2>2, Typed, NumberedNames
  <2>5. \A i \in 1..Len(replies) : a + i \in 1..Arrived
    <3> HIDE DEF a
    <3>1. QED BY <2>2, <2>3
  <2>6. hand.kind = "reply" => a + Len(replies) + 1 \in 1..Arrived
    <3>1. hand.kind = "reply" => Held("reply") = 1
      BY DEF Held
    <3> HIDE DEF a
    <3>2. QED BY <2>2, <2>3, <3>1
  <2>7. /\ \A i \in 1..Len(replies) : replies[i].of = written[a + i]
        /\ hand.kind = "reply" => hand.of = written[a + Len(replies) + 1]
    BY DEF IInv, ReplyInv
  <2>8. /\ \A i \in 1..Len(replies) : replies[i].of = written'[a + i]
        /\ hand.kind = "reply" => hand.of = written'[a + Len(replies) + 1]
    BY <1>3, <2>5, <2>6, <2>7
  <2>9. Held("reply")' = Held("reply")
    BY DEF Held
  <2>10. QED BY <1>1, <1>2, <2>4, <2>8, <2>9 DEF ReplyInv
<1>5. TruthInv'
  <2>1. \A d \in Calls : answer'[d].how = "reply" => TrueReply(answer'[d].reply)
    BY DEF IInv, TruthInv
  <2>2. QED BY <1>2, <1>3, <2>1, TruthStays DEF IInv, TruthInv
<1>6. QED BY <1>1, <1>4, <1>5

\* A call that goes on has a connection.
LEMMA CallIsOpen ==
    ASSUME IInv, NEW c \in Calls, pc[c] # "idle"
    PROVE  dial = "open"
BY DEF IInv, HelloInv

\* The steps before a request, and the one after it.
LEMMA InvAround ==
    ASSUME IInv, NEW c \in Calls, Refuse(c) \/ Call(c) \/ Listened(c)
    PROVE  IInv'
<1>1. TypeOK'
  BY TypeStep DEF Next, Proceed
<1>2. /\ dial = "open" /\ dial' = dial /\ pc[c] \notin {"writing", "waiting"}
      /\ pc'[c] \notin {"writing", "waiting"}
      /\ pc'[c] \in {"idle", "called"} => pc[c] \in {"idle", "called"} /\ answer' = answer
      /\ \A d \in Calls \ {c} : pc'[d] = pc[d] /\ answer'[d] = answer[d]
      /\ UNCHANGED <<modVars, readVars, holder, written, sessVars>>
  <2>1. pc \in [Calls -> {"idle", "called", "writing", "waiting", "listening", "done"}] /\ DOMAIN answer = Calls
    BY DEF IInv, TypeOK
  <2>2. CASE Refuse(c)
    BY <2>1, <2>2 DEF Refuse, Finish
  <2>3. CASE Call(c)
    BY <2>1, <2>3 DEF Call
  <2>4. CASE Listened(c)
    BY <2>1, <2>4, CallIsOpen DEF Listened
  <2>5. QED BY <2>2, <2>3, <2>4
<1>3. HelloInv'
  BY <1>2 DEF HelloInv
<1>4. CASE Refuse(c)
  <2>1. /\ pc[c] = "idle" /\ answer'[c].how = "refused" /\ pc'[c] = "done"
        /\ answer[c].how = "none" /\ \A n \in 1..Len(written) : written[n] # c
    BY <1>4 DEF Refuse, Finish, NoAnswer, IInv, TypeOK, CallInv
  <2>2. holder # c
    BY <1>2, NoCallAssumption DEF IInv, CallInv
  <2>3. \A n \in 1..Len(written) : written[n] \in Calls \ {c}
    BY <2>1, Typed
  <2>4. CallInv'
    <3>1. \A d \in Calls : pc'[d] \in {"idle", "called", "writing"} =>
             answer'[d].how = "none" /\ \A n \in 1..Len(written) : written[n] # d
      BY <1>2, <2>1 DEF IInv, CallInv
    <3>2. \A d \in Calls : pc'[d] \in {"writing", "waiting"} <=> holder = d
      BY <1>2, <2>1 DEF IInv, CallInv
    <3>3. \A d \in Calls : pc'[d] = "waiting" =>
             Len(written) > 0 /\ written[Len(written)] = d /\ answer'[d].how = "none"
      BY <1>2, <2>1 DEF IInv, CallInv
    <3>4. \A n \in 1..Len(written) :
             written[n] # holder => answer'[written[n]].how \in {"reply", "failed", "timeout"}
      BY <1>2, <2>3 DEF IInv, CallInv
    <3>5. \A d \in Calls : answer'[d].how \in {"failed", "timeout"} =>
             answer'[d].unknown = IsWrite(d)
      BY <1>2, <2>1 DEF IInv, CallInv
    <3>6. QED BY <1>2, <3>1, <3>2, <3>3, <3>4, <3>5 DEF CallInv
  <2>5. ReplyInv' /\ TruthInv' /\ AnsweredInOrder'
    BY <1>2, <2>1, WithoutReply
  <2>6. QED BY <1>1, <1>2, <1>3, <2>4, <2>5, Stays DEF IInv
<1>5. CASE Call(c) \/ Listened(c)
  <2>1. answer' = answer
    BY <1>5 DEF Call, Listened
  <2>2. CallInv'
    <3>1. \A d \in Calls : pc'[d] \in {"idle", "called", "writing"}
                            => pc[d] \in {"idle", "called", "writing"}
      BY <1>2
    <3>2. \A d \in Calls : /\ pc'[d] \in {"writing", "waiting"} <=> pc[d] \in {"writing", "waiting"}
                           /\ pc'[d] = "waiting" => pc[d] = "waiting"
      BY <1>2
    <3>3. QED BY <1>2, <2>1, <3>1, <3>2 DEF IInv, CallInv
  <2>3. QED BY <1>1, <1>2, <1>3, <2>1, <2>2, Stays DEF IInv
<1>6. QED BY <1>4, <1>5

\* The call that takes the lock becomes its holder.
LEMMA InvTakeLock ==
    ASSUME IInv, NEW c \in Calls, TakeLock(c)
    PROVE  IInv'
<1>1. TypeOK'
  BY TypeStep DEF Next, Proceed
<1>2. /\ pc[c] = "called" /\ holder = NoCall /\ holder' = c /\ pc'[c] = "writing"
      /\ \A d \in Calls \ {c} : pc'[d] = pc[d]
      /\ UNCHANGED <<dial, conn, modVars, readVars, answer, written, sessVars, close>>
  BY DEF TakeLock, IInv, TypeOK
<1>3. dial = "open" /\ HelloInv'
  BY <1>2, CallIsOpen DEF HelloInv
<1>4. CallInv'
  <2>1. \A d \in Calls : pc'[d] \in {"idle", "called", "writing"} =>
           answer[d].how = "none" /\ \A n \in 1..Len(written) : written[n] # d
    BY <1>2 DEF IInv, CallInv
  <2>2. \A d \in Calls : pc'[d] \in {"writing", "waiting"} <=> holder' = d
    BY <1>2, NoCallAssumption DEF IInv, CallInv
  <2>3. \A d \in Calls : pc'[d] = "waiting" => pc[d] = "waiting"
    BY <1>2
  <2>4. \A n \in 1..Len(written) : answer[written[n]].how \in {"reply", "failed", "timeout"}
    BY <1>2, Typed, NoCallAssumption DEF IInv, CallInv
  <2>5. QED BY <1>2, <2>1, <2>2, <2>3, <2>4 DEF IInv, CallInv
<1>5. QED BY <1>1, <1>2, <1>3, <1>4, Stays DEF IInv

\* The line of the call becomes the last one.
LEMMA InvSendLine ==
    ASSUME IInv, NEW c \in Calls, SendLine(c) \/ SendFails(c)
    PROVE  IInv'
<1>1. TypeOK'
  BY TypeStep DEF Next, Proceed
<1>2. /\ pc[c] = "writing"
      /\ \/ UNCHANGED <<lines, written>> /\ SendFails(c)
         \/ lines' = Append(lines, c) /\ written' = Append(written, c)
      /\ UNCHANGED <<dial, peer, wire, ran, published, readVars, sessVars>>
  BY DEF SendLine, SendFails
<1>3. /\ dial = "open" /\ answer[c].how = "none" /\ c # NoCall /\ holder = c
      /\ \A n \in 1..Len(written) : written[n] # c
  BY <1>2, CallIsOpen, NoCallAssumption DEF IInv, CallInv
<1>4. \/ /\ SendLine(c) /\ holder' = c /\ pc'[c] = "waiting" /\ answer' = answer
         /\ written' = Append(written, c)
      \/ /\ SendFails(c) /\ holder' = NoCall /\ pc'[c] = "done"
         /\ answer'[c].how = "failed" /\ answer'[c].unknown = IsWrite(c)
  <2>1. CASE SendLine(c)
    BY <1>3, <2>1 DEF SendLine, IInv, TypeOK
  <2>2. CASE SendFails(c)
    BY <2>2 DEF SendFails, Finish, Failure, IInv, TypeOK
  <2>3. QED BY <2>1, <2>2
<1>5. \A d \in Calls \ {c} : pc'[d] = pc[d] /\ answer'[d] = answer[d]
  <2>1. DOMAIN pc = Calls /\ DOMAIN answer = Calls
    BY DEF IInv, TypeOK
  <2>2. CASE SendLine(c)
    BY <2>1, <2>2 DEF SendLine
  <2>3. CASE SendFails(c)
    BY <2>1, <2>3 DEF SendFails, Finish
  <2>4. QED BY <2>2, <2>3
<1>6. ReplyInv' /\ TruthInv' /\ AnsweredInOrder'
  BY <1>2, <1>3, <1>4, <1>5, WithoutReply
<1>7. HelloInv'
  BY <1>2, <1>3 DEF HelloInv
<1>8. CASE UNCHANGED <<lines, written>> /\ SendFails(c)
  <2>1. holder' = NoCall /\ pc'[c] = "done" /\ answer'[c].how = "failed" /\ answer'[c].unknown = IsWrite(c)
    BY <1>8 DEF SendFails, Finish, Failure, IInv, TypeOK, CallInv
  <2>2. \A n \in 1..Len(written) : written[n] \in Calls \ {c}
    BY <1>3, Typed
  <2>3. CallInv'
    <3>1. \A d \in Calls : pc'[d] \in {"idle", "called", "writing"} =>
             answer'[d].how = "none" /\ \A n \in 1..Len(written) : written[n] # d
      BY <1>5, <2>1 DEF IInv, CallInv
    <3>2. \A d \in Calls : pc'[d] \in {"writing", "waiting"} <=> holder' = d
      BY <1>3, <1>5, <2>1, NoCallAssumption DEF IInv, CallInv
    <3>3. \A d \in Calls : pc'[d] = "waiting" =>
             Len(written) > 0 /\ written[Len(written)] = d /\ answer'[d].how = "none"
      BY <1>5, <2>1 DEF IInv, CallInv
    <3>4. \A n \in 1..Len(written) : answer'[written[n]].how \in {"reply", "failed", "timeout"}
      BY <1>3, <1>5, <2>2 DEF IInv, CallInv
    <3>5. \A d \in Calls : answer'[d].how \in {"failed", "timeout"} =>
             answer'[d].unknown = IsWrite(d)
      BY <1>5, <2>1 DEF IInv, CallInv
    <3>6. QED BY <1>8, <3>1, <3>2, <3>3, <3>4, <3>5 DEF CallInv
  <2>4. QED BY <1>1, <1>2, <1>6, <1>7, <1>8, <2>3, Stays DEF IInv
<1>9. CASE lines' = Append(lines, c) /\ written' = Append(written, c)
  <2>1. /\ Len(written') = Len(written) + 1 /\ written'[Len(written) + 1] = c
        /\ \A n \in 1..Len(written) : written'[n] = written[n] /\ written[n] \in Calls
        /\ \A n \in 1..Len(written') : n \in 1..Len(written) \/ n = Len(written) + 1
        /\ Len(lines') = Len(lines) + 1 /\ lines'[Len(lines) + 1] = c
        /\ \A i \in 1..Len(lines) : lines'[i] = lines[i]
        /\ \A i \in 1..Len(lines') : i \in 1..Len(lines) \/ i = Len(lines) + 1
    BY <1>9, Typed
  <2>2. Arrived' = Arrived /\ Arrived + Len(lines) = Len(written)
    BY <2>1, Sizes DEF Arrived
  <2>3. LineInv'
    <3>1. Len(lines') <= Len(written')
      BY <2>1, Sizes DEF IInv, LineInv
    <3>2. \A i \in 1..Len(lines') : lines'[i] = written'[Arrived + i]
      <4>1. \A i \in 1..Len(lines) : Arrived + i \in 1..Len(written)
        BY <2>2, Sizes
      <4>2. Arrived + (Len(lines) + 1) = Len(written) + 1
        BY <2>2, Sizes, SMTT(30)
      <4>3. QED BY <2>1, <4>1, <4>2 DEF IInv, LineInv
    <3>3. \A i, j \in 1..Len(written') : written'[i] = written'[j] => i = j
      BY <1>3, <2>1 DEF IInv, LineInv
    <3>4. QED BY <2>2, <3>1, <3>2, <3>3 DEF LineInv
  <2>4. CallInv'
    <3>1. \A d \in Calls : pc'[d] \in {"idle", "called", "writing"} =>
             answer'[d].how = "none" /\ \A n \in 1..Len(written') : written'[n] # d
      <4>1. ASSUME NEW d \in Calls, pc'[d] \in {"idle", "called", "writing"}
            PROVE  answer'[d].how = "none" /\ \A n \in 1..Len(written') : written'[n] # d
        <5>1. d # c
          BY <1>4, <4>1
        <5>2. /\ answer'[d] = answer[d] /\ answer[d].how = "none"
              /\ \A n \in 1..Len(written) : written[n] # d
          BY <1>5, <4>1, <5>1 DEF IInv, CallInv
        <5>3. QED BY <2>1, <5>1, <5>2
      <4>2. QED BY <4>1
    <3>2. \A d \in Calls : pc'[d] \in {"writing", "waiting"} <=> holder' = d
      BY <1>2, <1>3, <1>4, <1>5, NoCallAssumption DEF IInv, CallInv
    <3>3. \A d \in Calls : pc'[d] = "waiting" =>
             /\ Len(written') > 0 /\ written'[Len(written')] = d
             /\ answer'[d].how = "none"
      <4>1. \A d \in Calls \ {c} : pc'[d] # "waiting"
        BY <1>3, <1>5 DEF IInv, CallInv
      <4>2. QED BY <1>3, <1>4, <2>1, <4>1, Sizes
    <3>4. \A n \in 1..Len(written') :
             written'[n] # holder' => answer'[written'[n]].how \in {"reply", "failed", "timeout"}
      <4>1. \A n \in 1..Len(written) :
               /\ written'[n] \in Calls \ {c}
               /\ answer[written[n]].how \in {"reply", "failed", "timeout"}
        BY <1>2, <1>3, <2>1, NoCallAssumption DEF IInv, CallInv
      <4>2. QED BY <1>4, <1>5, <2>1, <4>1
    <3>5. \A d \in Calls : answer'[d].how \in {"failed", "timeout"} =>
             answer'[d].unknown = IsWrite(d)
      BY <1>3, <1>4, <1>5 DEF IInv, CallInv
    <3>6. QED BY <3>1, <3>2, <3>3, <3>4, <3>5 DEF CallInv
  <2>5. QED BY <1>1, <1>2, <1>6, <1>7, <2>3, <2>4, Stays DEF IInv
<1>10. QED BY <1>2, <1>8, <1>9

\* The call that waits is the one that wrote last, and only then.
LEMMA Waiting ==
    ASSUME IInv, NEW c \in Calls, pc[c] = "waiting"
    PROVE  /\ holder = c /\ dial = "open" /\ answer[c].how = "none" /\ c # NoCall
           /\ Len(written) \in 1..Len(written) /\ written[Len(written)] = c
           /\ \A n \in 1..Len(written) : written[n] = c => n = Len(written)
           /\ \A n \in 1..Len(written) : n # Len(written) =>
                 answer[written[n]].how \in {"reply", "failed", "timeout"}
<1>1. holder = c /\ dial = "open" /\ c # NoCall
  BY CallIsOpen, NoCallAssumption DEF IInv, CallInv
<1>2. Len(written) > 0 /\ written[Len(written)] = c /\ answer[c].how = "none"
  BY DEF IInv, CallInv
<1>3. Len(written) \in 1..Len(written)
  BY <1>2, Sizes
<1>4. \A n \in 1..Len(written) : written[n] = c => n = Len(written)
  BY <1>2, <1>3 DEF IInv, LineInv
<1>5. \A n \in 1..Len(written) : n # Len(written) =>
         answer[written[n]].how \in {"reply", "failed", "timeout"}
  BY <1>1, <1>4 DEF IInv, CallInv
<1>6. QED BY <1>1, <1>2, <1>3, <1>4, <1>5

\* It gives requestMu back with an outcome.
LEMMA InvRequestEnds ==
    ASSUME IInv, NEW c \in Calls, pc[c] = "waiting", holder' = NoCall, written' = written,
           pc'[c] \in {"done", "listening"}, answer'[c].how \in {"reply", "failed", "timeout"},
           answer'[c].how # "reply" => answer'[c].unknown = IsWrite(c),
           \A d \in Calls \ {c} : pc'[d] = pc[d] /\ answer'[d] = answer[d]
    PROVE  CallInv'
<1>1. \A d \in Calls : pc'[d] \in {"idle", "called", "writing"} =>
         answer'[d].how = "none" /\ \A n \in 1..Len(written) : written[n] # d
  BY DEF IInv, CallInv
<1>2. /\ \A d \in Calls : pc'[d] \in {"writing", "waiting"} <=> holder' = d
      /\ \A d \in Calls : pc'[d] # "waiting"
  BY Waiting, NoCallAssumption DEF IInv, CallInv
<1>3. \A n \in 1..Len(written) : answer'[written[n]].how \in {"reply", "failed", "timeout"}
  <2> TAKE n \in 1..Len(written)
  <2>1. CASE written[n] = c
    BY <2>1
  <2>2. CASE written[n] # c
    <3>1. written[n] \in Calls \ {c} /\ n # Len(written)
      BY <2>2, Typed, Waiting
    <3>2. QED BY <3>1, Waiting
  <2>3. QED BY <2>1, <2>2
<1>4. \A d \in Calls : answer'[d].how \in {"failed", "timeout"} => answer'[d].unknown = IsWrite(d)
  BY DEF IInv, CallInv
<1>5. QED BY <1>1, <1>2, <1>3, <1>4 DEF CallInv

\* Without a reply the list is what it was.
LEMMA InvNoReply ==
    ASSUME IInv, NEW c \in Calls, GiveUp(c) \/ SeeDone(c)
    PROVE  IInv'
<1>1. TypeOK'
  BY TypeStep DEF Next, Proceed
<1>2. /\ pc[c] = "waiting" /\ holder' = NoCall /\ pc'[c] = "done"
      /\ answer'[c].how \in {"failed", "timeout"} /\ answer'[c].unknown = IsWrite(c)
      /\ UNCHANGED <<dial, conn, modVars, readVars, written, sessVars, close>>
  BY DEF GiveUp, SeeDone, Finish, Failure, IInv, TypeOK
<1>3. \A d \in Calls \ {c} : pc'[d] = pc[d] /\ answer'[d] = answer[d]
  BY DEF GiveUp, SeeDone, Finish, IInv, TypeOK
<1>4. CallInv'
  BY <1>2, <1>3, InvRequestEnds
<1>5. ReplyInv' /\ TruthInv' /\ AnsweredInOrder'
  BY <1>2, <1>3, Waiting, WithoutReply
<1>6. HelloInv'
  BY <1>2, Waiting DEF HelloInv
<1>7. QED BY <1>1, <1>2, <1>4, <1>5, <1>6, Stays DEF IInv

\* The requests before the one that waits took a reply or were given up.
LEMMA OthersEnded ==
    ASSUME IInv, NEW c \in Calls, pc[c] = "waiting"
    PROVE  Cardinality(Answered) + 1 = Len(written) - Cardinality(GivenUp(Len(written) - 1))
<1> DEFINE w == Len(written)
           G == GivenUp(w - 1)
<1>1. w \in Nat /\ w >= 1 /\ w - 1 \in Nat
  BY Sizes, Waiting
<1>2. answer[written[w]].how = "none"
  BY Waiting
<1>3. \A n \in 1..w : n # w => answer[written[n]].how \in {"reply", "failed", "timeout"}
  BY Waiting
<1>a. Answered = {n \in 1..w : answer[written[n]].how = "reply"}
  BY DEF Answered
<1>b. G = {n \in 1..(w - 1) : answer[written[n]].how \in {"failed", "timeout"}}
  BY DEF GivenUp
<1> HIDE DEF w, G
<1>4. \A n : n \in 1..(w - 1) <=> n \in 1..w /\ n # w
  BY <1>1
<1>5. Answered \cup G = 1..(w - 1) /\ Answered \cap G = {}
  <2>1. Answered = {n \in 1..(w - 1) : answer[written[n]].how = "reply"}
    BY <1>2, <1>4, <1>a
  <2>2. \A n \in 1..(w - 1) : answer[written[n]].how \in {"reply", "failed", "timeout"}
    BY <1>3, <1>4
  <2>3. QED BY <1>b, <2>1, <2>2
<1>6. IsFiniteSet(Answered) /\ IsFiniteSet(G)
  <2>1. IsFiniteSet(G)
    BY <1>1, GivenUpSize DEF G
  <2>2. QED BY <2>1, Sizes
<1>7. Cardinality(1..(w - 1)) = Cardinality(Answered) + Cardinality(G) - Cardinality({})
  BY <1>5, <1>6, FS_Union, ZenonT(40)
<1>8. Cardinality(1..(w - 1)) = IF 1 > w - 1 THEN 0 ELSE (w - 1) - 1 + 1
  BY <1>1, FS_Interval
<1>9. Cardinality(Answered) \in Nat /\ Cardinality(G) \in Nat /\ Cardinality({}) = 0
  BY <1>6, FS_CardinalityType, FS_EmptySet
<1> DEFINE a == Cardinality(Answered)
           g == Cardinality(G)
<1>10. a \in Nat /\ g \in Nat /\ a + g - 0 = IF 1 > w - 1 THEN 0 ELSE (w - 1) - 1 + 1
  BY <1>7, <1>8, <1>9
<1> HIDE DEF a, g
<1>11. a + 1 = w - g
  BY <1>1, <1>10
<1>12. QED BY <1>11 DEF a, g, w, G

\* The request takes the first of the replies: the one to the line that follows
\* as many as requests have taken one.
LEMMA InvTakeReply ==
    ASSUME IInv, NEW c \in Calls, TakeReply(c)
    PROVE  IInv'
<1>1. TypeOK'
  BY TypeStep DEF Next, Proceed
<1> DEFINE m == Head(replies)
<1>2. /\ pc[c] = "waiting" /\ replies # <<>> /\ replies' = Tail(replies) /\ holder' = NoCall
      /\ pc'[c] \in {"done", "listening"} /\ answer'[c].how = "reply" /\ answer'[c].reply = m
      /\ UNCHANGED <<dial, conn, modVars, reader, hand, events, written, sessVars, close>>
  BY DEF TakeReply, Finish, IInv, TypeOK
<1>3. \A d \in Calls \ {c} : pc'[d] = pc[d] /\ answer'[d] = answer[d]
  BY DEF TakeReply, Finish, IInv, TypeOK
<1>4. /\ m = replies[1] /\ Len(replies) >= 1 /\ Len(replies') = Len(replies) - 1
      /\ \A i \in 1..Len(replies') : replies'[i] = replies[i + 1]
      /\ \A i \in 1..Len(replies') : i + 1 \in 1..Len(replies)
      /\ 1 \in 1..Len(replies)
  BY <1>2, Typed
<1> HIDE DEF m
<1>5. dial = "open" /\ dial' = "open"
  BY <1>2, Waiting
<1>6. MessageInv'
  BY <1>2, <1>4 DEF IInv, MessageInv
<1>7. HelloInv'
  BY <1>5 DEF HelloInv
<1>8. CallInv'
  BY <1>2, <1>3, InvRequestEnds
<1>9. Cardinality(Answered') = Cardinality(Answered) + 1
  <2>1. /\ \A n \in 1..Len(written) : n # Len(written) => written[n] \in Calls \ {c}
        /\ Len(written) \in 1..Len(written) /\ written[Len(written)] = c
        /\ answer[c].how = "none"
    BY <1>2, Typed, Waiting
  <2>2. \A n \in 1..Len(written) : n # Len(written) => answer'[written[n]] = answer[written[n]]
    BY <1>3, <2>1
  <2>3. \A n : n \in Answered' <=> n \in Answered \cup {Len(written)}
    BY <1>2, <2>1, <2>2 DEF Answered
  <2>4. Answered' = Answered \cup {Len(written)}
    BY <2>3
  <2>5. Len(written) \notin Answered
    BY <2>1 DEF Answered
  <2>6. QED BY <2>4, <2>5, Sizes, FS_AddElement
<1>10. ReplyInv'
  <2> DEFINE a == Cardinality(Answered)
             r == Len(replies)
  <2>1. a \in Nat /\ r \in Nat /\ Len(replies') = r - 1 /\ Cardinality(Answered') = a + 1
    BY <1>4, <1>9, Sizes
  <2>2. /\ \A i \in 1..r : replies[i].of = written[a + i]
        /\ hand.kind = "reply" => hand.of = written[a + r + 1]
        /\ Numbered(wire, "reply", written, a + r + Held("reply"), Arrived)
    BY <1>5 DEF IInv, ReplyInv
  <2>3. Held("reply")' = Held("reply") /\ Arrived' = Arrived
    BY <1>2 DEF Held, Arrived
  <2>4. \A i \in 1..Len(replies') : replies'[i].of = written[a + (i + 1)]
    BY <1>4, <2>2
  <2> HIDE DEF a, r
  <2>5. (a + 1) + (r - 1) = a + r
    BY <2>1
  <2>6. \A i \in 1..Len(replies') : replies'[i].of = written[(a + 1) + i]
    <3>1. \A i \in 1..Len(replies') : a + (i + 1) = (a + 1) + i
      BY <2>1
    <3>2. QED BY <2>4, <3>1
  <2>7. QED BY <1>2, <2>1, <2>2, <2>3, <2>5, <2>6 DEF ReplyInv
<1>11. TruthInv'
  <2>1. TrueReply(m) /\ \A i \in 1..Len(replies') : TrueReply(replies'[i])
    BY <1>4, <1>5 DEF IInv, TruthInv
  <2>2. \A d \in Calls : answer'[d].how = "reply" => TrueReply(answer'[d].reply)
    BY <1>2, <1>3, <2>1 DEF IInv, TruthInv
  <2>3. QED BY <1>2, <2>1, <2>2, TruthStays DEF IInv, TruthInv, Arrived
<1>12. AnsweredInOrder'
  <2>1. DOMAIN written = 1..Len(written) /\ DOMAIN written' = 1..Len(written)
    BY <1>2, Typed
  <2>2. m.of = written[Cardinality(Answered) + 1]
    BY <1>4, <1>5 DEF IInv, ReplyInv
  <2>3. /\ \A n \in 1..Len(written) : written[n] # c =>
              answer'[written'[n]] = answer[written[n]] /\ GivenUp(n - 1)' = GivenUp(n - 1)
    BY <1>2, <1>3, Waiting, OtherCalls
  <2>4. GivenUp(Len(written) - 1)' = GivenUp(Len(written) - 1)
    <3>1. \A i \in 1..(Len(written) - 1) : i \in 1..Len(written) /\ i # Len(written)
      BY Sizes
    <3>2. \A i \in 1..(Len(written) - 1) : written[i] \in Calls \ {c}
      BY <1>2, <3>1, Typed, Waiting
    <3>3. QED BY <1>2, <1>3, <3>2 DEF GivenUp
  <2>5. ASSUME NEW n \in 1..Len(written), answer'[written[n]].how = "reply"
        PROVE  answer'[written[n]].reply.of = written[n - Cardinality(GivenUp(n - 1)')]
    <3>1. CASE written[n] # c
      BY <1>2, <2>1, <2>3, <2>5, <3>1 DEF IInv, AnsweredInOrder
    <3>2. CASE written[n] = c
      <4>1. n = Len(written)
        BY <1>2, <3>2, Waiting
      <4>2. QED BY <1>2, <2>2, <2>4, <3>2, <4>1, OthersEnded
    <3>3. QED BY <3>1, <3>2
  <2>6. QED BY <1>2, <2>1, <2>5 DEF AnsweredInOrder
<1>13. LineInv' /\ EventInv' /\ PumpInv'
  BY <1>2, Stays
<1>14. QED BY <1>1, <1>6, <1>7, <1>8, <1>10, <1>11, <1>12, <1>13 DEF IInv

-----------------------------------------------------------------------------
(* The invariant holds.                                                    *)

\* Initially nothing has been sent.
LEMMA InvInit == Init => IInv
<1> SUFFICES ASSUME Init PROVE IInv
  OBVIOUS
<1>1. TypeOK
  BY LegacyAssumption, Messages DEF Init, TypeOK, NoAnswer
<1>2. MessageInv /\ HelloInv /\ LineInv /\ PumpInv
  BY DEF Init, MessageInv, HelloInv, LineInv, PumpInv, Held, NoMessage, Arrived
<1>3. CallInv
  BY NoCallAssumption DEF Init, CallInv, NoAnswer
<1>4. ReplyInv /\ TruthInv /\ AnsweredInOrder
  BY DEF Init, ReplyInv, TruthInv, AnsweredInOrder, NoAnswer
<1>5. EventInv
  <2>1. Numbered(<<>>, "event", Numbers, 0, 0)
    BY NumberedEmpty
  <2>2. number + Len(events) + Held("event") = 0
    BY DEF Init, Held, NoMessage
  <2>3. QED BY <2>1, <2>2 DEF Init, EventInv, NoMessage
<1>6. QED BY <1>1, <1>2, <1>3, <1>4, <1>5 DEF IInv

\* Every step keeps it.
LEMMA InvNext == IInv /\ [Next]_vars => IInv'
<1> SUFFICES ASSUME IInv, [Next]_vars PROVE IInv'
  OBVIOUS
<1>1. CASE Serve \/ Read \/ Dial
  BY <1>1, InvLink
<1>2. CASE Pump \/ Consume \/ LoopLeaves \/ Close \/ UNCHANGED vars
  BY <1>2, InvSession
<1>3. ASSUME NEW c \in Calls, Refuse(c) \/ Call(c) \/ Proceed(c) PROVE IInv'
  BY <1>3, InvAround, InvTakeLock, InvSendLine, InvTakeReply, InvNoReply DEF Proceed
<1>4. QED BY <1>1, <1>2, <1>3 DEF Next

\* Every variable keeps its type: number never exceeds the events the mod sent.
THEOREM LegacyTypes == Spec => []TypeOK
<1>1. IInv => TypeOK
  BY DEF IInv
<1>2. QED BY <1>1, InvInit, InvNext, PTL DEF Spec

\* The n-th request gets the reply to the request that many places before it as
\* requests before it were given up (client.go:118-167), and the events reach
\* the loop in order and without a hole (legacy.go:97-114).
THEOREM BothStreamsInOrder == Spec => []InOrder
<1>1. IInv => EventsInOrder
  <2> SUFFICES ASSUME IInv PROVE EventsInOrder
    OBVIOUS
  <2>1. PICK S : toLoop \in Seq(S) /\ consumed \in Seq(S)
    BY DEF IInv, TypeOK
  <2> DEFINE passed == consumed \o toLoop
  <2>2. /\ DOMAIN passed = 1..(Len(consumed) + Len(toLoop))
        /\ Len(passed) = Len(consumed) + Len(toLoop)
        /\ \A i \in 1..Len(consumed) : passed[i] = consumed[i]
        /\ \A i \in 1..Len(toLoop) : passed[Len(consumed) + i] = toLoop[i]
        /\ Len(consumed) \in Nat /\ Len(toLoop) \in Nat
    BY <2>1
  <2> HIDE DEF passed
  <2>3. ASSUME NEW i \in DOMAIN passed PROVE passed[i] = <<i, i>>
    <3>1. CASE i \in 1..Len(consumed)
      BY <2>2, <3>1 DEF IInv, PumpInv
    <3>2. CASE i \notin 1..Len(consumed)
      <4> DEFINE j == i - Len(consumed)
      <4>1. j \in 1..Len(toLoop) /\ Len(consumed) + j = i
        BY <2>2, <3>2
      <4> HIDE DEF j
      <4>2. QED BY <2>2, <4>1 DEF IInv, PumpInv
    <3>3. QED BY <3>1, <3>2
  <2>4. pump = "select" => Len(passed) = number
    BY <2>2 DEF IInv, PumpInv
  <2>5. QED BY <2>3, <2>4 DEF EventsInOrder, passed
<1>2. IInv => InOrder
  BY <1>1 DEF IInv, InOrder
<1>3. QED BY <1>2, InvInit, InvNext, PTL DEF Spec

\* As long as no request before it was given up, what a write is told is what
\* the mod has done (legacy.go:189-212).
THEOREM WritesAreTold == Spec => []TruthfulWrites
<1>1. IInv => TruthfulWrites
  <2> SUFFICES ASSUME IInv, NEW n \in DOMAIN written,
                      IsWrite(written[n]), answer[written[n]].how # "none",
                      ~answer[written[n]].unknown, GivenUp(n - 1) = {}
               PROVE  written[n] \in ran <=> answer[written[n]].reply.ok
    BY DEF TruthfulWrites
  <2>1. n \in 1..Len(written) /\ n \in Nat /\ written[n] \in Calls
    BY Typed
  <2>2. answer[written[n]].how = "reply"
    <3>1. written[n] # holder
      <4>1. ASSUME written[n] = holder PROVE FALSE
        <5>1. pc[written[n]] \in {"writing", "waiting"}
          BY <2>1, <4>1 DEF IInv, CallInv
        <5>2. QED BY <2>1, <5>1 DEF IInv, CallInv
      <4>2. QED BY <4>1
    <3>2. answer[written[n]].how \in {"reply", "failed", "timeout"}
      BY <2>1, <3>1 DEF IInv, CallInv
    <3>3. QED BY <2>1, <3>2 DEF IInv, CallInv
  <2>3. answer[written[n]].reply.of = written[n]
    <3>1. n - Cardinality(GivenUp(n - 1)) = n
      <4> DEFINE G == GivenUp(n - 1)
      <4>1. G = {}
        OBVIOUS
      <4> HIDE DEF G
      <4>2. Cardinality(G) = 0
        BY <4>1, FS_EmptySet
      <4>3. n - Cardinality(G) = n
        BY <2>1, <4>2
      <4>4. QED BY <4>3 DEF G
    <3>2. QED BY <2>2, <3>1 DEF IInv, AnsweredInOrder
  <2>4. TrueReply(answer[written[n]].reply)
    BY <2>1, <2>2 DEF IInv, TruthInv
  <2>5. QED BY <2>3, <2>4 DEF TrueReply
<1>2. QED BY <1>1, InvInit, InvNext, PTL DEF Spec
=============================================================================
