------------------------ MODULE ControlClientProofs ------------------------
(***************************************************************************)
(* Theorems about ControlClient for any calls, ids, capacity of the event  *)
(* channel and numbers of frames, replies and events.                      *)
(***************************************************************************)
EXTENDS ControlClient, SequenceTheorems, TLAPS

USE DEF dialing, conn, callers, table, writer, server, loop, Forget, End, WriterFree

(* The inductive invariant.                                                *)

\* A call has an outcome once it has ended and only then; nothing of a call
\* that is still before its write, or is reported as not sent, has left.
OutcomeInv == \A c \in Callers :
    /\ pc[c] = "ended" <=> result[c] # "none"
    /\ c \in out => pc[c] \in {"poisoning", "waiting", "ended"} /\ result[c] # "unsent"

\* A call in the table is under way, under its id, and has no reply yet; a call
\* that has not begun has none either.
TableInv ==
    /\ \A id \in Ids : pending[id] # None =>
          /\ IdOf[pending[id]] = id /\ pc[pending[id]] \in Active
          /\ reply[pending[id]] = "empty"
    /\ \A c \in Callers : pc[c] = "idle" => reply[c] = "empty"

\* The write token is with the call that writes, and so are its watcher and the
\* write deadline in the past.
TokenInv ==
    /\ \A c \in Callers : slot = c <=> pc[c] \in {"holding", "writing"}
    /\ watch # None => pc[watch] = "writing"
    /\ writePast # None => pc[writePast] = "writing" /\ writePast \in cancelled

\* Replies, on their way or handed over, come from the server.
Replied == {id \in Ids : \E c \in Callers : IdOf[c] = id /\ replies[c] > 0}
AnswerInv ==
    /\ \A i \in 1..Len(inbox) : inbox[i] \in Replied \cup {EventFrame}
    /\ \A c \in Callers : reply[c] = "reply" => IdOf[c] \in Replied

IInv == TypeOK /\ OutcomeInv /\ TableInv /\ TokenInv /\ AnswerInv
-----------------------------------------------------------------------------
(* Types.                                                                  *)

\* The steps of Dial keep every variable in its range ...
LEMMA TypesDial == ASSUME TypeOK, DialStep PROVE TypeOK'
<1>1. CASE Welcomed
  <2>1. readPast' \in BOOLEAN
    BY <1>1 DEF Welcomed
  <2>2. QED BY <1>1, <2>1 DEF Welcomed, TypeOK
<1>2. CASE DialFails
  <2>1. socket' \in BOOLEAN
    BY <1>2 DEF DialFails
  <2>2. QED BY <1>2, <2>1 DEF DialFails, TypeOK
<1>3. CASE DialReturns
  BY <1>3 DEF DialReturns, TypeOK
<1>4. CASE DialContextEnds
  BY <1>4 DEF DialContextEnds, TypeOK
<1>5. CASE DialWatcher
  <2>1. dialWatch' \in BOOLEAN
    BY <1>5 DEF DialWatcher
  <2>2. readPast' \in BOOLEAN
    BY <1>5 DEF DialWatcher, TypeOK
  <2>3. QED BY <1>5, <2>1, <2>2 DEF DialWatcher, TypeOK
<1>6. QED BY <1>1, <1>2, <1>3, <1>4, <1>5 DEF DialStep

\* ... so do the steps of a call ...
LEMMA TypesCall ==
    ASSUME TypeOK, NEW c \in Callers, Register(c) \/ Reject(c) \/ Progress(c)
    PROVE  TypeOK'
<1> USE ClientAssumption DEF Pcs, Active, Results
<1>1. IdOf[c] \in Ids
  OBVIOUS
<1>2. CASE Register(c)
  BY <1>1, <1>2 DEF Register, TypeOK
<1>3. CASE Reject(c)
  BY <1>3 DEF Reject, TypeOK
<1>4. CASE TakeSlot(c)
  BY <1>4 DEF TakeSlot, TypeOK
<1>5. CASE GiveUpSlot(c)
  BY <1>1, <1>5 DEF GiveUpSlot, TypeOK
<1>6. CASE Abandon(c)
  BY <1>1, <1>6 DEF Abandon, TypeOK
<1>7. CASE BeginWrite(c)
  BY <1>7 DEF BeginWrite, TypeOK
<1>8. CASE Flushed(c)
  BY <1>8 DEF Flushed, TypeOK
<1>9. CASE SendFails(c)
  <2>1. broken' \in BOOLEAN
    BY <1>9 DEF SendFails, TypeOK
  <2>2. out' \subseteq Callers
    BY <1>9 DEF SendFails, TypeOK
  <2>3. QED BY <1>9, <2>1, <2>2 DEF SendFails, TypeOK
<1>10. CASE Poison(c)
  <2>1. stop' \in BOOLEAN /\ socket' \in BOOLEAN
    BY <1>10 DEF Poison
  <2>2. QED BY <1>1, <1>10, <2>1 DEF Poison, TypeOK
<1>11. CASE TakeReply(c)
  BY <1>11 DEF TakeReply, TypeOK
<1>12. CASE TimeOut(c)
  BY <1>1, <1>12 DEF TimeOut, TypeOK
<1>13. CASE SeeDone(c)
  BY <1>1, <1>13 DEF SeeDone, TypeOK
<1>14. QED BY <1>2, <1>3, <1>4, <1>5, <1>6, <1>7, <1>8, <1>9, <1>10, <1>11, <1>12,
              <1>13 DEF Progress

\* The first frame of the inbox, and what is left without it.
LEMMA FirstFrame ==
    ASSUME TypeOK, inbox # <<>>
    PROVE  /\ Head(inbox) \in Ids \cup {EventFrame} /\ Head(inbox) = inbox[1]
           /\ Tail(inbox) \in Seq(Ids \cup {EventFrame}) /\ Len(Tail(inbox)) <= MaxFrames
           /\ 1 \in 1..Len(inbox)
           /\ \A i \in 1..Len(Tail(inbox)) :
                 i + 1 \in 1..Len(inbox) /\ Tail(inbox)[i] = inbox[i + 1]
<1>1. inbox \in Seq(Ids \cup {EventFrame}) /\ Len(inbox) <= MaxFrames
  BY DEF TypeOK
<1>2. Len(Tail(inbox)) = Len(inbox) - 1 /\ Len(inbox) \in Nat \ {0}
  BY <1>1, HeadTailProperties, EmptySeq
<1>3. MaxFrames \in Nat
  BY ClientAssumption
<1>4. QED BY <1>1, <1>2, <1>3, HeadTailProperties

\* ... those of the read loop, the consumer of events and Close ...
LEMMA TypesReader ==
    ASSUME TypeOK, ReaderStep \/ Consume \/ Close \/ CloseReturns
    PROVE  TypeOK'
<1> USE ClientAssumption
<1>1. inbox # <<>> =>
         /\ Head(inbox) \in Ids \cup {EventFrame}
         /\ Tail(inbox) \in Seq(Ids \cup {EventFrame}) /\ Len(Tail(inbox)) <= MaxFrames
  BY FirstFrame
<1>2. CASE ReadReply
  <2>1. Head(inbox) \in Ids
    BY <1>1, <1>2 DEF ReadReply
  <2>2. pending' \in [Ids -> Callers \cup {None}]
    BY <1>2, <2>1 DEF ReadReply, Routed, TypeOK
  <2>3. reply' \in [Callers -> {"empty", "nil", "reply"}]
    BY <1>2, <2>1 DEF ReadReply, Routed, TypeOK
  <2>4. QED BY <1>1, <1>2, <2>2, <2>3 DEF ReadReply, TypeOK
<1>3. CASE ReadEvent
  BY <1>1, <1>3 DEF ReadEvent, TypeOK
<1>4. CASE Deliver
  BY <1>4 DEF Deliver, TypeOK
<1>5. CASE AbandonDelivery
  BY <1>5 DEF AbandonDelivery, TypeOK
<1>6. CASE ReadFails
  <2>1. stop' \in BOOLEAN /\ socket' \in BOOLEAN
    BY <1>6 DEF ReadFails
  <2>2. QED BY <1>6, <2>1 DEF ReadFails, TypeOK
<1>7. CASE Drain
  BY <1>7 DEF Drain, TypeOK
<1>8. CASE Consume
  BY <1>8 DEF Consume, TypeOK
<1>9. CASE Close
  <2>1. stop' \in BOOLEAN /\ socket' \in BOOLEAN
    BY <1>9 DEF Close
  <2>2. QED BY <1>9, <2>1 DEF Close, TypeOK
<1>10. CASE CloseReturns
  BY <1>10 DEF CloseReturns, TypeOK
<1>11. QED BY <1>2, <1>3, <1>4, <1>5, <1>6, <1>7, <1>8, <1>9, <1>10 DEF ReaderStep

\* ... and those of the contexts, the server and the network.
LEMMA TypesServer ==
    ASSUME TypeOK,
           \/ \E c \in Callers : Interrupt(c) \/ Cancel(c) \/ ServerReplies(c)
           \/ ServerEvent \/ PeerEnds \/ UNCHANGED vars
    PROVE  TypeOK'
<1> USE ClientAssumption
<1>1. ASSUME NEW f \in Ids \cup {EventFrame}, Len(inbox) < MaxFrames
      PROVE  /\ Append(inbox, f) \in Seq(Ids \cup {EventFrame})
             /\ Len(Append(inbox, f)) <= MaxFrames
  <2>1. inbox \in Seq(Ids \cup {EventFrame}) /\ Len(inbox) \in Nat
    BY LenProperties DEF TypeOK
  <2>2. QED BY <1>1, <2>1, AppendProperties
<1>2. ASSUME NEW c \in Callers, Interrupt(c) PROVE TypeOK'
  BY <1>2 DEF Interrupt, TypeOK
<1>3. ASSUME NEW c \in Callers, Cancel(c) PROVE TypeOK'
  BY <1>3 DEF Cancel, TypeOK
<1>4. ASSUME NEW c \in Callers, ServerReplies(c) PROVE TypeOK'
  <2>1. inbox' \in Seq(Ids \cup {EventFrame}) /\ Len(inbox') <= MaxFrames
    BY <1>1, <1>4 DEF ServerReplies, Reaches
  <2>2. replies' \in [Callers -> 0..MaxReplies]
    BY <1>4 DEF ServerReplies, TypeOK
  <2>3. QED BY <1>4, <2>1, <2>2 DEF ServerReplies, TypeOK
<1>5. CASE ServerEvent
  <2>1. inbox' \in Seq(Ids \cup {EventFrame}) /\ Len(inbox') <= MaxFrames
    BY <1>1, <1>5 DEF ServerEvent, Reaches
  <2>2. QED BY <1>5, <2>1 DEF ServerEvent, TypeOK
<1>6. CASE PeerEnds
  BY <1>6 DEF PeerEnds, TypeOK
<1>7. CASE UNCHANGED vars
  BY <1>7 DEF vars, TypeOK
<1>8. QED BY <1>2, <1>3, <1>4, <1>5, <1>6, <1>7

\* Hence every step does, ...
LEMMA TypesStep == TypeOK /\ [Next]_vars => TypeOK'
BY TypesDial, TypesCall, TypesReader, TypesServer DEF Next

\* ... as the initial state does; ...
LEMMA TypesInit == Init => TypeOK
<1> SUFFICES ASSUME Init PROVE TypeOK
  OBVIOUS
<1>1. /\ dialDone \in BOOLEAN /\ dialWatch \in BOOLEAN /\ readPast \in BOOLEAN
      /\ socket \in BOOLEAN /\ peerGone \in BOOLEAN /\ stop \in BOOLEAN
      /\ broken \in BOOLEAN
  BY DEF Init
<1>2. inbox \in Seq(Ids \cup {EventFrame}) /\ Len(inbox) <= MaxFrames
  BY ClientAssumption, EmptySeq DEF Init
<1>3. pc \in [Callers -> Pcs] /\ result \in [Callers -> Results]
  BY DEF Init, Pcs, Results
<1>4. /\ replies \in [Callers -> 0..MaxReplies] /\ sentEvents \in 0..MaxEvents
      /\ events \in 0..EventCap
  BY ClientAssumption DEF Init
<1>5. QED BY <1>1, <1>2, <1>3, <1>4 DEF Init, TypeOK

\* ... and whatever the server, the network and the callers do, every variable
\* stays in its range; the event channel never holds more than its capacity.
THEOREM ClientTypes == Spec => []TypeOK
BY TypesInit, TypesStep, PTL DEF Spec
-----------------------------------------------------------------------------
(* The parts of the inductive invariant.                                   *)

\* A call ends once, and none that ends as not sent has left.
LEMMA OutcomeStep == TypeOK /\ OutcomeInv /\ [Next]_vars => OutcomeInv'
<1> SUFFICES ASSUME TypeOK, OutcomeInv, [Next]_vars PROVE OutcomeInv'
  OBVIOUS
<1> USE DEF OutcomeInv
<1>1. CASE UNCHANGED <<pc, result, out>>
  BY <1>1
<1>2. ASSUME NEW c \in Callers, Register(c) PROVE OutcomeInv'
  BY <1>2 DEF Register, TypeOK
<1>3. ASSUME NEW c \in Callers, Reject(c) PROVE OutcomeInv'
  BY <1>3 DEF Reject, TypeOK
<1>4. ASSUME NEW c \in Callers, TakeSlot(c) \/ BeginWrite(c) PROVE OutcomeInv'
  BY <1>4 DEF TakeSlot, BeginWrite, TypeOK
<1>5. ASSUME NEW c \in Callers, GiveUpSlot(c) PROVE OutcomeInv'
  BY <1>5 DEF GiveUpSlot, TypeOK
<1>6. ASSUME NEW c \in Callers, Abandon(c) PROVE OutcomeInv'
  BY <1>6 DEF Abandon, TypeOK
<1>7. ASSUME NEW c \in Callers, Flushed(c) PROVE OutcomeInv'
  BY <1>7 DEF Flushed, TypeOK
<1>8. ASSUME NEW c \in Callers, SendFails(c) PROVE OutcomeInv'
  BY <1>8 DEF SendFails, TypeOK
<1>9. ASSUME NEW c \in Callers, Poison(c) PROVE OutcomeInv'
  BY <1>9 DEF Poison, TypeOK
<1>10. ASSUME NEW c \in Callers, TakeReply(c) PROVE OutcomeInv'
  BY <1>10 DEF TakeReply, TypeOK
<1>11. ASSUME NEW c \in Callers, TimeOut(c) \/ SeeDone(c) PROVE OutcomeInv'
  BY <1>11 DEF TimeOut, SeeDone, TypeOK
<1>12. ASSUME \/ DialStep \/ ReaderStep \/ Consume \/ Close \/ CloseReturns
              \/ \E c \in Callers : Interrupt(c) \/ Cancel(c) \/ ServerReplies(c)
              \/ ServerEvent \/ PeerEnds \/ UNCHANGED vars
       PROVE  OutcomeInv'
  <2>1. UNCHANGED <<pc, result, out>>
    BY <1>12 DEF DialStep, Welcomed, DialFails, DialReturns, DialContextEnds, DialWatcher,
                 ReaderStep, ReadReply, ReadEvent, Deliver, AbandonDelivery, ReadFails,
                 Drain, Consume, Close, CloseReturns, Interrupt, Cancel, ServerReplies,
                 ServerEvent, PeerEnds, vars
  <2>2. QED BY <1>1, <2>1
<1>13. QED BY <1>2, <1>3, <1>4, <1>5, <1>6, <1>7, <1>8, <1>9, <1>10, <1>11, <1>12
           DEF Next, Progress

\* The table: an entry leaves with the reply or with its call, and a call enters
\* it once.
LEMMA TableStep == TypeOK /\ TableInv /\ [Next]_vars => TableInv'
<1> SUFFICES ASSUME TypeOK, TableInv, [Next]_vars PROVE TableInv'
  OBVIOUS
<1> USE ClientAssumption DEF TableInv, Active
<1>1. CASE UNCHANGED <<pc, pending, reply>>
  BY <1>1
<1>2. ASSUME NEW c \in Callers, Register(c) PROVE TableInv'
  BY <1>2 DEF Register, TypeOK
<1>3. ASSUME NEW c \in Callers, Reject(c) PROVE TableInv'
  BY <1>3 DEF Reject, TypeOK
<1>4. ASSUME NEW c \in Callers,
             TakeSlot(c) \/ BeginWrite(c) \/ Flushed(c) \/ SendFails(c)
      PROVE  TableInv'
  <2>1. UNCHANGED table /\ \E p \in Active : pc' = [pc EXCEPT ![c] = p]
    BY <1>4 DEF TakeSlot, BeginWrite, Flushed, SendFails
  <2>2. pc[c] # "idle" /\ pc[c] \in Active
    BY <1>4 DEF TakeSlot, BeginWrite, Flushed, SendFails
  <2>3. QED BY <2>1, <2>2 DEF TypeOK
<1>5. ASSUME NEW c \in Callers,
             \/ GiveUpSlot(c) \/ Abandon(c) \/ Poison(c) \/ TimeOut(c) \/ SeeDone(c)
      PROVE  TableInv'
  <2>1. /\ pending' = [pending EXCEPT ![IdOf[c]] = None] /\ UNCHANGED reply
        /\ pc' = [pc EXCEPT ![c] = "ended"]
    BY <1>5 DEF GiveUpSlot, Abandon, Poison, TimeOut, SeeDone
  <2>2. QED BY <2>1 DEF TypeOK
<1>6. ASSUME NEW c \in Callers, TakeReply(c) PROVE TableInv'
  BY <1>6 DEF TakeReply, TypeOK
<1>7. CASE ReadReply
  <2> DEFINE id == Head(inbox)
  <2>1. id \in Ids /\ Routed(id) /\ UNCHANGED pc
    BY <1>7, FirstFrame DEF ReadReply
  <2>2. \A i \in Ids : pending'[i] # None =>
           i # id /\ pending'[i] = pending[i] /\ pending[i] # pending[id]
    BY <2>1 DEF Routed, TypeOK
  <2>3. \A c \in Callers : c # pending[id] => reply'[c] = reply[c]
    BY <2>1 DEF Routed, TypeOK
  <2>4. \A i \in Ids : pending'[i] # None => pending[i] \in Callers
    BY <2>2 DEF TypeOK
  <2>5. \A c \in Callers : pc[c] = "idle" => c # pending[id]
    BY <2>1
  <2>6. QED BY <2>1, <2>2, <2>3, <2>4, <2>5
<1>8. CASE Drain
  <2>1. UNCHANGED pc /\ \A id \in Ids : pending'[id] = None
    BY <1>8 DEF Drain
  <2>2. ASSUME NEW c \in Callers, pc[c] = "idle" PROVE reply'[c] = reply[c]
    <3>1. IdOf[c] \in Ids
      OBVIOUS
    <3>2. pending[IdOf[c]] # c
      BY <2>2, <3>1
    <3>3. QED BY <1>8, <3>2 DEF Drain
  <2>3. QED BY <2>1, <2>2
<1>9. ASSUME \/ DialStep \/ ReadEvent \/ Deliver \/ AbandonDelivery \/ ReadFails
             \/ Consume \/ Close \/ CloseReturns
             \/ \E c \in Callers : Interrupt(c) \/ Cancel(c) \/ ServerReplies(c)
             \/ ServerEvent \/ PeerEnds \/ UNCHANGED vars
      PROVE  TableInv'
  <2>1. UNCHANGED <<pc, pending, reply>>
    BY <1>9 DEF DialStep, Welcomed, DialFails, DialReturns, DialContextEnds, DialWatcher,
                ReadEvent, Deliver, AbandonDelivery, ReadFails, Consume, Close,
                CloseReturns, Interrupt, Cancel, ServerReplies, ServerEvent, PeerEnds, vars
  <2>2. QED BY <1>1, <2>1
<1>10. QED BY <1>2, <1>3, <1>4, <1>5, <1>6, <1>7, <1>8, <1>9
           DEF Next, Progress, ReaderStep

\* The token: it is taken free and returned by the call that holds it, together
\* with its watcher and its deadline.
LEMMA TokenStep == TypeOK /\ TokenInv /\ [Next]_vars => TokenInv'
<1> SUFFICES ASSUME TypeOK, TokenInv, [Next]_vars PROVE TokenInv'
  OBVIOUS
<1> USE ClientAssumption DEF TokenInv
<1>1. CASE UNCHANGED <<pc, cancelled, slot, watch, writePast>>
  BY <1>1
<1>2. ASSUME NEW c \in Callers, Register(c) PROVE TokenInv'
  BY <1>2 DEF Register, TypeOK
<1>3. ASSUME NEW c \in Callers, TakeSlot(c) PROVE TokenInv'
  BY <1>3 DEF TakeSlot, TypeOK
<1>4. ASSUME NEW c \in Callers, Abandon(c) PROVE TokenInv'
  BY <1>4 DEF Abandon, TypeOK
<1>5. ASSUME NEW c \in Callers, BeginWrite(c) PROVE TokenInv'
  BY <1>5 DEF BeginWrite, TypeOK
<1>6. ASSUME NEW c \in Callers, Flushed(c) \/ SendFails(c) PROVE TokenInv'
  <2>1. /\ pc[c] = "writing" /\ WriterFree
        /\ \E p \in {"waiting", "poisoning"} : pc' = [pc EXCEPT ![c] = p]
    BY <1>6 DEF Flushed, SendFails
  <2>2. QED BY <2>1 DEF TypeOK
<1>7. ASSUME NEW c \in Callers,
             \/ Reject(c) \/ GiveUpSlot(c) \/ Poison(c) \/ TakeReply(c) \/ TimeOut(c)
             \/ SeeDone(c)
      PROVE  TokenInv'
  <2>1. /\ pc[c] \notin {"holding", "writing"}
        /\ pc' = [pc EXCEPT ![c] = "ended"]
        /\ UNCHANGED <<cancelled, slot, watch, writePast>>
    BY <1>7 DEF Reject, GiveUpSlot, Poison, TakeReply, TimeOut, SeeDone
  <2>2. QED BY <2>1 DEF TypeOK
<1>8. ASSUME NEW c \in Callers, Interrupt(c) PROVE TokenInv'
  BY <1>8 DEF Interrupt, TypeOK
<1>9. ASSUME NEW c \in Callers, Cancel(c) PROVE TokenInv'
  BY <1>9 DEF Cancel, TypeOK
<1>10. ASSUME \/ DialStep \/ ReaderStep \/ Consume \/ Close \/ CloseReturns
              \/ \E c \in Callers : ServerReplies(c)
              \/ ServerEvent \/ PeerEnds \/ UNCHANGED vars
       PROVE  TokenInv'
  <2>1. UNCHANGED <<pc, cancelled, slot, watch, writePast>>
    BY <1>10 DEF DialStep, Welcomed, DialFails, DialReturns, DialContextEnds, DialWatcher,
                 ReaderStep, ReadReply, ReadEvent, Deliver, AbandonDelivery, ReadFails,
                 Drain, Consume, Close, CloseReturns, ServerReplies, ServerEvent,
                 PeerEnds, vars
  <2>2. QED BY <1>1, <2>1
<1>11. QED BY <1>2, <1>3, <1>4, <1>5, <1>6, <1>7, <1>8, <1>9, <1>10 DEF Next, Progress

\* Replies: what arrives was sent, and what is handed over has arrived.
LEMMA AnswerStep == TypeOK /\ TableInv /\ AnswerInv /\ [Next]_vars => AnswerInv'
<1> SUFFICES ASSUME TypeOK, TableInv, AnswerInv, [Next]_vars PROVE AnswerInv'
  OBVIOUS
<1> USE ClientAssumption DEF AnswerInv
<1>1. ASSUME UNCHANGED replies PROVE UNCHANGED Replied
  BY <1>1 DEF Replied
<1>2. ASSUME NEW c \in Callers, ServerReplies(c) PROVE AnswerInv'
  <2>1. replies[c] \in Nat /\ replies' = [replies EXCEPT ![c] = replies[c] + 1]
    BY <1>2 DEF ServerReplies, TypeOK
  <2>2. \A d \in Callers : replies[d] > 0 => replies'[d] > 0
    BY <2>1 DEF TypeOK
  <2>3. Replied \subseteq Replied' /\ IdOf[c] \in Replied'
    BY <2>1, <2>2 DEF Replied, TypeOK
  <2>4. /\ Len(inbox') = Len(inbox) + 1 /\ inbox'[Len(inbox) + 1] = IdOf[c]
        /\ \A i \in 1..Len(inbox) : inbox'[i] = inbox[i]
    <3>1. inbox \in Seq(Ids \cup {EventFrame}) /\ IdOf[c] \in Ids \cup {EventFrame}
      BY DEF TypeOK
    <3>2. QED BY <1>2, <3>1, AppendProperties DEF ServerReplies
  <2>5. Len(inbox) \in Nat
    BY LenProperties DEF TypeOK
  <2>6. UNCHANGED reply
    BY <1>2 DEF ServerReplies
  <2>7. \A i \in 1..Len(inbox') : i \in 1..Len(inbox) \/ i = Len(inbox) + 1
    BY <2>4, <2>5
  <2>8. QED BY <2>3, <2>4, <2>6, <2>7
<1>3. CASE ServerEvent
  <2>1. /\ Len(inbox') = Len(inbox) + 1 /\ inbox'[Len(inbox) + 1] = EventFrame
        /\ \A i \in 1..Len(inbox) : inbox'[i] = inbox[i]
    <3>1. inbox \in Seq(Ids \cup {EventFrame}) /\ EventFrame \in Ids \cup {EventFrame}
      BY DEF TypeOK
    <3>2. QED BY <1>3, <3>1, AppendProperties DEF ServerEvent
  <2>2. Len(inbox) \in Nat
    BY LenProperties DEF TypeOK
  <2>3. UNCHANGED <<replies, reply>>
    BY <1>3 DEF ServerEvent
  <2>4. \A i \in 1..Len(inbox') : i \in 1..Len(inbox) \/ i = Len(inbox) + 1
    BY <2>1, <2>2
  <2>5. QED BY <1>1, <2>1, <2>3, <2>4
<1>4. ASSUME inbox # <<>>, inbox' = Tail(inbox), UNCHANGED replies
      PROVE  \A i \in 1..Len(inbox') : inbox'[i] \in (Replied \cup {EventFrame})'
  BY <1>1, <1>4, FirstFrame
<1>5. CASE ReadReply
  <2> DEFINE id == Head(inbox)
  <2>1. id \in Ids /\ id \in Replied /\ Routed(id)
    BY <1>5, FirstFrame DEF ReadReply
  <2>2. UNCHANGED Replied
    BY <1>1, <1>5 DEF ReadReply
  <2>3. ASSUME NEW c \in Callers, reply'[c] = "reply" PROVE IdOf[c] \in Replied
    <3>1. CASE reply[c] = "reply"
      BY <3>1
    <3>2. CASE reply[c] # "reply"
      <4>1. c = pending[id]
        BY <2>1, <2>3, <3>2 DEF Routed, TypeOK
      <4>2. QED BY <2>1, <4>1 DEF TableInv
    <3>3. QED BY <3>1, <3>2
  <2>4. QED BY <1>4, <1>5, <2>2, <2>3 DEF ReadReply
<1>6. CASE ReadEvent
  BY <1>1, <1>4, <1>6 DEF ReadEvent
<1>7. CASE Drain
  <2>1. UNCHANGED <<replies, inbox>>
    BY <1>7 DEF Drain
  <2>2. \A c \in Callers : reply'[c] = "reply" => reply[c] = "reply"
    BY <1>7 DEF Drain, TypeOK
  <2>3. QED BY <1>1, <2>1, <2>2
<1>8. ASSUME NEW c \in Callers, TakeReply(c) PROVE AnswerInv'
  <2>1. UNCHANGED <<replies, inbox>>
    BY <1>8 DEF TakeReply
  <2>2. \A d \in Callers : reply'[d] = "reply" => reply[d] = "reply"
    BY <1>8 DEF TakeReply, TypeOK
  <2>3. QED BY <1>1, <2>1, <2>2
<1>9. ASSUME \/ DialStep \/ Deliver \/ AbandonDelivery \/ ReadFails
             \/ Consume \/ Close \/ CloseReturns
             \/ \E c \in Callers :
                   \/ Register(c) \/ Reject(c) \/ TakeSlot(c) \/ GiveUpSlot(c)
                   \/ Abandon(c) \/ BeginWrite(c) \/ Flushed(c) \/ SendFails(c)
                   \/ Poison(c) \/ TimeOut(c) \/ SeeDone(c) \/ Interrupt(c) \/ Cancel(c)
             \/ PeerEnds \/ UNCHANGED vars
      PROVE  AnswerInv'
  <2>1. UNCHANGED <<replies, inbox, reply>>
    BY <1>9 DEF DialStep, Welcomed, DialFails, DialReturns, DialContextEnds, DialWatcher,
                Deliver, AbandonDelivery, ReadFails, Consume, Close, CloseReturns,
                Register, Reject, TakeSlot, GiveUpSlot, Abandon, BeginWrite, Flushed,
                SendFails, Poison, TimeOut, SeeDone, Interrupt, Cancel, PeerEnds, vars
  <2>2. QED BY <1>1, <2>1
<1>10. QED BY <1>2, <1>3, <1>5, <1>6, <1>7, <1>8, <1>9 DEF Next, Progress, ReaderStep

\* Together they are inductive.
LEMMA InvStep == IInv /\ [Next]_vars => IInv'
BY TypesStep, OutcomeStep, TableStep, TokenStep, AnswerStep DEF IInv

\* The inductive invariant holds of the initial state ...
LEMMA InvInit == Init => IInv
<1> SUFFICES ASSUME Init PROVE IInv
  OBVIOUS
<1>1. TypeOK
  BY TypesInit
<1>2. OutcomeInv /\ TableInv
  BY DEF Init, OutcomeInv, TableInv
<1>3. TokenInv
  BY ClientAssumption DEF Init, TokenInv
<1>4. AnswerInv
  BY EmptySeq DEF Init, AnswerInv
<1>5. QED BY <1>1, <1>2, <1>3, <1>4 DEF IInv

\* ... and throughout.
LEMMA InvHolds == Spec => []IInv
BY InvInit, InvStep, PTL DEF Spec
-----------------------------------------------------------------------------
(* The properties.                                                         *)

\* No call blocks the read loop, not with a reply sent twice, an id used twice or
\* a context that ends while its reply is on the way, and the watcher of one call
\* never interrupts the write of another.
THEOREM NoCallDisturbsAnother == Spec => []CallsDoNotDisturb
<1>1. IInv => CallsDoNotDisturb
  <2> SUFFICES ASSUME IInv PROVE CallsDoNotDisturb
    OBVIOUS
  <2>1. ReaderNeverBlocks
    BY DEF IInv, TableInv, ReaderNeverBlocks
  <2>2. OwnInterrupt
    BY DEF IInv, TypeOK, TokenInv, OwnInterrupt
  <2>3. QED BY <2>1, <2>2 DEF CallsDoNotDisturb
<1>2. QED BY <1>1, InvHolds, PTL

\* The calls have ids of their own, as the callers in cli and daemon, which draw
\* them at random, mean them to.
OwnIds == \A c, d \in Callers : IdOf[c] = IdOf[d] => c = d

\* Then no step takes an unanswered call out of the table but the end of that call.
LEMMA FoundStep ==
    ASSUME OwnIds, TypeOK, TableInv, CallsAreFound, [Next]_vars
    PROVE  CallsAreFound'
<1> USE ClientAssumption DEF CallsAreFound
<1>1. ASSUME NEW c \in Callers, pending' = [pending EXCEPT ![IdOf[c]] = None],
             UNCHANGED reply, pc' = [pc EXCEPT ![c] = "ended"]
      PROVE  CallsAreFound'
  <2>1. ASSUME NEW d \in Callers, pc'[d] \in Active
        PROVE  pending'[IdOf[d]] = d \/ reply'[d] # "empty"
    <3>1. d # c /\ pc[d] \in Active
      BY <1>1, <2>1 DEF TypeOK, Active
    <3>2. IdOf[d] # IdOf[c]
      BY <3>1 DEF OwnIds
    <3>3. QED BY <1>1, <3>1, <3>2 DEF TypeOK
  <2>2. QED BY <2>1
<1>2. ASSUME NEW c \in Callers, Register(c) PROVE CallsAreFound'
  <2>1. ASSUME NEW d \in Callers, pc'[d] \in Active
        PROVE  pending'[IdOf[d]] = d \/ reply'[d] # "empty"
    <3>1. CASE d = c
      BY <1>2, <3>1 DEF Register, TypeOK
    <3>2. CASE d # c
      <4>1. IdOf[d] # IdOf[c] /\ pc[d] \in Active
        BY <1>2, <2>1, <3>2 DEF OwnIds, Register, TypeOK
      <4>2. QED BY <1>2, <4>1 DEF Register, TypeOK
    <3>3. QED BY <3>1, <3>2
  <2>2. QED BY <2>1
<1>3. ASSUME NEW c \in Callers, Reject(c) \/ TakeReply(c) PROVE CallsAreFound'
  <2>1. /\ pc' = [pc EXCEPT ![c] = "ended"] /\ UNCHANGED pending
        /\ \A d \in Callers : d # c => reply'[d] = reply[d]
    BY <1>3 DEF Reject, TakeReply, TypeOK
  <2>2. "ended" \notin Active
    BY DEF Active
  <2>3. QED BY <2>1, <2>2 DEF TypeOK
<1>4. ASSUME NEW c \in Callers,
             TakeSlot(c) \/ BeginWrite(c) \/ Flushed(c) \/ SendFails(c)
      PROVE  CallsAreFound'
  <2>1. UNCHANGED table /\ \E p \in Active : pc' = [pc EXCEPT ![c] = p]
    BY <1>4 DEF TakeSlot, BeginWrite, Flushed, SendFails, Active
  <2>2. pc[c] \in Active
    BY <1>4 DEF TakeSlot, BeginWrite, Flushed, SendFails, Active
  <2>3. QED BY <2>1, <2>2 DEF TypeOK
<1>5. ASSUME NEW c \in Callers,
             \/ GiveUpSlot(c) \/ Abandon(c) \/ Poison(c) \/ TimeOut(c) \/ SeeDone(c)
      PROVE  CallsAreFound'
  <2>1. /\ pending' = [pending EXCEPT ![IdOf[c]] = None] /\ UNCHANGED reply
        /\ pc' = [pc EXCEPT ![c] = "ended"]
    BY <1>5 DEF GiveUpSlot, Abandon, Poison, TimeOut, SeeDone
  <2>2. QED BY <1>1, <2>1
<1>6. CASE ReadReply
  <2> DEFINE id == Head(inbox)
  <2>1. id \in Ids /\ Routed(id) /\ UNCHANGED pc
    BY <1>6, FirstFrame DEF ReadReply
  <2>2. ASSUME NEW d \in Callers, pc[d] \in Active
        PROVE  pending'[IdOf[d]] = d \/ reply'[d] # "empty"
    <3>1. CASE pending[id] = d
      BY <2>1, <3>1 DEF Routed, TypeOK
    <3>2. CASE pending[id] # d
      <4>1. pending[IdOf[d]] = d => IdOf[d] # id
        BY <3>2
      <4>2. reply'[d] = reply[d]
        BY <2>1, <3>2 DEF Routed, TypeOK
      <4>3. pending[IdOf[d]] = d => pending'[IdOf[d]] = d
        BY <2>1, <4>1 DEF Routed, TypeOK
      <4>4. QED BY <2>2, <4>2, <4>3
    <3>3. QED BY <3>1, <3>2
  <2>3. QED BY <2>1, <2>2
<1>7. CASE Drain
  BY <1>7 DEF Drain, TypeOK
<1>8. ASSUME \/ DialStep \/ ReadEvent \/ Deliver \/ AbandonDelivery \/ ReadFails
             \/ Consume \/ Close \/ CloseReturns
             \/ \E c \in Callers : Interrupt(c) \/ Cancel(c) \/ ServerReplies(c)
             \/ ServerEvent \/ PeerEnds \/ UNCHANGED vars
      PROVE  CallsAreFound'
  <2>1. UNCHANGED <<pc, pending, reply>>
    BY <1>8 DEF DialStep, Welcomed, DialFails, DialReturns, DialContextEnds, DialWatcher,
                ReadEvent, Deliver, AbandonDelivery, ReadFails, Consume, Close,
                CloseReturns, Interrupt, Cancel, ServerReplies, ServerEvent, PeerEnds, vars
  <2>2. QED BY <2>1
<1>9. QED BY <1>2, <1>3, <1>4, <1>5, <1>6, <1>7, <1>8 DEF Next, Progress, ReaderStep

\* A call with an id of its own never waits for a reply that has passed it by, nor
\* for a connection whose end it was not told.
THEOREM EveryCallIsFound ==
    ASSUME OwnIds
    PROVE  Spec => []CallsAreFound
<1>1. Init => CallsAreFound
  BY DEF Init, CallsAreFound, Active
<1>2. IInv /\ CallsAreFound /\ [Next]_vars => CallsAreFound'
  BY FoundStep DEF IInv
<1>3. QED BY <1>1, <1>2, InvHolds, PTL DEF Spec
-----------------------------------------------------------------------------
(* The client implements CallContract: every step of it is a step of the   *)
(* contract or leaves outcomes, deliveries and answers as they are.        *)

Kept == [Contract!Next]_(Contract!vars)

\* Nothing is answered, delivered or ended at first.
LEMMA ContractInit == Init => Contract!Init
BY DEF Init, Contract!Init

\* A step that touches neither results, nor what has left, nor replies is a stutter.
LEMMA ContractStutter == UNCHANGED <<result, out, replies>> => Kept
BY DEF Kept, Contract!vars

\* A call ends: once, as not sent only if nothing of it left, with a reply only if
\* its id was answered.
LEMMA ContractEnd ==
    ASSUME TypeOK, OutcomeInv, NEW c \in Callers,
           NEW r \in {"unsent", "unknown", "reply"},
           pc[c] # "ended", result' = [result EXCEPT ![c] = r], UNCHANGED <<out, replies>>,
           r = "unsent" => c \notin out, r = "reply" => IdOf[c] \in Replied
    PROVE  Kept
<1>1. result[c] = "none"
  BY DEF OutcomeInv
<1>2. Contract!End(c, r)
  BY <1>1 DEF Contract!End, Replied
<1>3. QED BY <1>2 DEF Kept, Contract!Next

\* A frame, or a part of one, leaves: the call has not ended.
LEMMA ContractDeliver ==
    ASSUME OutcomeInv, NEW c \in Callers, pc[c] = "writing",
           out' \in {out, out \cup {c}}, UNCHANGED <<result, replies>>
    PROVE  Kept
<1>1. CASE out' = out
  BY <1>1, ContractStutter
<1>2. CASE out' = out \cup {c}
  <2>1. result[c] = "none"
    BY DEF OutcomeInv
  <2>2. Contract!Deliver(c)
    BY <1>2, <2>1 DEF Contract!Deliver
  <2>3. QED BY <2>2 DEF Kept, Contract!Next
<1>3. QED BY <1>1, <1>2

\* The server answers a request that may have reached it.
LEMMA ContractAnswer ==
    ASSUME TypeOK, NEW c \in Callers, ServerReplies(c)
    PROVE  Kept
<1>1. replies[c] \in Nat /\ replies' = [replies EXCEPT ![c] = replies[c] + 1]
  BY ClientAssumption DEF ServerReplies, TypeOK
<1>2. IdOf[c] \in Ids
  BY ClientAssumption
<1>3. \A d \in Callers : replies'[d] > 0 <=> replies[d] > 0 \/ d = c
  BY <1>1 DEF TypeOK
<1>4. Replied' = Replied \cup {IdOf[c]}
  BY <1>2, <1>3 DEF Replied
<1>5. Contract!Answer(c)
  BY <1>4 DEF ServerReplies, Contract!Answer, Replied
<1>6. QED BY <1>5 DEF Kept, Contract!Next

\* Every step of the client is one of these.
LEMMA ContractStep == IInv /\ [Next]_vars => Kept
<1> SUFFICES ASSUME IInv, [Next]_vars PROVE Kept
  OBVIOUS
<1>1. TypeOK /\ OutcomeInv
  BY DEF IInv
<1>2. ASSUME NEW c \in Callers, Reject(c) \/ GiveUpSlot(c) \/ Abandon(c) PROVE Kept
  <2>1. /\ pc[c] \in {"idle", "queued", "holding"} /\ UNCHANGED <<out, replies>>
        /\ result' = [result EXCEPT ![c] = "unsent"]
    BY <1>2 DEF Reject, GiveUpSlot, Abandon
  <2>2. c \notin out
    BY <1>1, <2>1 DEF OutcomeInv
  <2>3. QED BY <1>1, <2>1, <2>2, ContractEnd
<1>3. ASSUME NEW c \in Callers, Poison(c) \/ TimeOut(c) \/ SeeDone(c) PROVE Kept
  <2>1. /\ pc[c] \in {"poisoning", "waiting"} /\ UNCHANGED <<out, replies>>
        /\ result' = [result EXCEPT ![c] = "unknown"]
    BY <1>3 DEF Poison, TimeOut, SeeDone
  <2>2. QED BY <1>1, <2>1, ContractEnd
<1>4. ASSUME NEW c \in Callers, TakeReply(c) PROVE Kept
  <2> DEFINE r == IF reply[c] = "nil" THEN "unknown" ELSE "reply"
  <2>1. /\ pc[c] = "waiting" /\ UNCHANGED <<out, replies>>
        /\ result' = [result EXCEPT ![c] = r]
    BY <1>4 DEF TakeReply
  <2>2. r = "reply" => IdOf[c] \in Replied
    BY <1>4 DEF TakeReply, IInv, AnswerInv, TypeOK
  <2>3. QED BY <1>1, <2>1, <2>2, ContractEnd
<1>5. ASSUME NEW c \in Callers, Flushed(c) \/ SendFails(c) PROVE Kept
  BY <1>1, <1>5, ContractDeliver DEF Flushed, SendFails
<1>6. ASSUME NEW c \in Callers, ServerReplies(c) PROVE Kept
  BY <1>1, <1>6, ContractAnswer
<1>7. ASSUME \/ DialStep \/ ReaderStep \/ Consume \/ Close \/ CloseReturns
             \/ \E c \in Callers : \/ Register(c) \/ TakeSlot(c) \/ BeginWrite(c)
                                   \/ Interrupt(c) \/ Cancel(c)
             \/ ServerEvent \/ PeerEnds \/ UNCHANGED vars
      PROVE  Kept
  <2>1. UNCHANGED <<result, out, replies>>
    BY <1>7 DEF DialStep, Welcomed, DialFails, DialReturns, DialContextEnds, DialWatcher,
                ReaderStep, ReadReply, ReadEvent, Deliver, AbandonDelivery, ReadFails,
                Drain, Consume, Close, CloseReturns, Register, TakeSlot, BeginWrite,
                Interrupt, Cancel, ServerEvent, PeerEnds, vars
  <2>2. QED BY <2>1, ContractStutter
<1>8. QED BY <1>2, <1>3, <1>4, <1>5, <1>6, <1>7 DEF Next, Progress

\* Whatever the interleaving of calls, read loop, cancellations and the end of the
\* connection, with ids used twice or not: a call ends once, as not sent only if
\* no byte of it can have reached the server, and with a reply only if a request
\* with its id was answered.
THEOREM ClientKeepsContract == Spec => Implements
<1>1. QED BY ContractInit, ContractStep, InvHolds, PTL
          DEF Spec, Implements, Contract!Spec, Kept
=============================================================================
