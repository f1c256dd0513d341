------------------------ MODULE TargetSessionProofs ------------------------
(***************************************************************************)
(* Theorems about TargetSession for any number of loops, runs, events,     *)
(* failures and crashes and any sizes of the server's ring.                *)
(***************************************************************************)
EXTENDS TargetSession, FiniteSetTheorems, TLAPS

USE DEF serverVars, storeVars, loopVars, daemonVars, history, bounds

-----------------------------------------------------------------------------
(* What holds whether a loop was given up or not.                          *)

Attached == {"attached", "recorded", "live", "hand"}

\* Only an attached loop has an adapter, which is of a run there has been; the
\* loops to come have done nothing.
BaseInv ==
    /\ stopping => current < MaxLoop
    /\ \A l \in Loops :
          /\ pc[l] \in Attached => adapter[l].run \in 1..gameRun
          /\ pc[l] \notin Attached => adapter[l] = NoAdapter
          /\ adapter[l].open => adapter[l].run = gameRun
          /\ pc[l] = "hand" => hand[l] \in 1..MaxSeq
          /\ l > current => pc[l] = "unborn" /\ got[l] = {} /\ lastSeq[l] = 0

\* The types of the constants.
LEMMA Constants ==
    /\ RingSize \in Nat \ {0} /\ PersistEvery \in Nat \ {0}
    /\ MaxSeq \in Nat /\ MaxPush \in Nat /\ MaxRun \in Nat \ {0} /\ MaxLoop \in Nat \ {0}
    /\ MaxCrash \in Nat /\ MaxFault \in Nat
    /\ 1 \in Loops /\ 1 \in Runs /\ 0 \in 0..MaxSeq
BY SessionAssumption DEF Loops, Runs

\* The empty cursor and the closed adapter have their types.
LEMMA Nothings == NoCursor \in Cursor /\ NoAdapter \in Adapter
BY Constants DEF NoCursor, Cursor, NoAdapter, Adapter, NoRun

\* Taking the head and adding to the end keep the type of a sequence.
LEMMA HeadAndTail ==
    ASSUME NEW S, NEW s \in Seq(S)
    PROVE  /\ s # <<>> => /\ Head(s) \in S /\ Head(s) = s[1] /\ Tail(s) \in Seq(S)
                         /\ Len(s) >= 1 /\ Len(Tail(s)) = Len(s) - 1
                         /\ \A i \in 1..Len(Tail(s)) : Tail(s)[i] = s[i + 1]
           /\ \A m \in S : /\ Append(s, m) \in Seq(S) /\ Len(Append(s, m)) = Len(s) + 1
                           /\ Append(s, m)[Len(s) + 1] = m
                           /\ \A i \in 1..Len(s) : Append(s, m)[i] = s[i]
           /\ Len(s) \in Nat
           /\ \A i \in 1..Len(s) : s[i] \in S
OBVIOUS

\* The events of a replay are events of the run, one after the other.
LEMMA ReplaySequence ==
    ASSUME NEW first \in 1..MaxSeq + 1, NEW last \in 0..MaxSeq, first <= last + 1
    PROVE  /\ Sequence(first, last) \in Seq(1..MaxSeq)
           /\ Len(Sequence(first, last)) = last - first + 1
           /\ \A i \in 1..(last - first + 1) : Sequence(first, last)[i] = first + i - 1
<1>1. last - first + 1 \in Nat /\ \A i \in 1..(last - first + 1) : first + i - 1 \in 1..MaxSeq
  BY Constants
<1> DEFINE n == last - first + 1
<1>2. Sequence(first, last) = [i \in 1..n |-> first + i - 1]
  BY DEF Sequence
<1>3. n \in Nat /\ \A i \in 1..n : first + i - 1 \in 1..MaxSeq
  BY <1>1
<1> HIDE DEF n
<1>4. /\ Sequence(first, last) \in Seq(1..MaxSeq)
      /\ Len(Sequence(first, last)) = n
      /\ \A i \in 1..n : Sequence(first, last)[i] = first + i - 1
  BY <1>2, <1>3
<1>5. QED BY <1>4 DEF n

\* What the server offers for a cursor: the replay begins behind the events the
\* cursor has seen, or with the oldest the ring still has.
ReplayFrom(cursor) == IF From(cursor) < Oldest THEN Oldest ELSE From(cursor) + 1

\* Its bounds are those of the run's events.
LEMMA ServerAnswer ==
    ASSUME TypeOK, NEW cursor \in Cursor
    PROVE  /\ seq[gameRun] \in 0..MaxSeq
           /\ Oldest \in 1..MaxSeq + 1 /\ Oldest <= seq[gameRun] + 1
           /\ From(cursor) \in 0..seq[gameRun]
           /\ ReplayFrom(cursor) \in 1..MaxSeq + 1 /\ ReplayFrom(cursor) <= seq[gameRun] + 1
           /\ Replay(cursor) = Sequence(ReplayFrom(cursor), seq[gameRun])
           /\ Replay(cursor) \in Seq(1..MaxSeq)
           /\ Lost(cursor) \in BOOLEAN
<1>1. seq[gameRun] \in 0..MaxSeq
  BY DEF TypeOK
<1>2. Oldest \in 1..MaxSeq + 1 /\ Oldest <= seq[gameRun] + 1
  BY <1>1, Constants DEF Oldest
<1>3. From(cursor) \in 0..seq[gameRun]
  BY <1>1, Constants DEF From, Usable, Cursor
<1>4. ReplayFrom(cursor) \in 1..MaxSeq + 1 /\ ReplayFrom(cursor) <= seq[gameRun] + 1
  BY <1>1, <1>2, <1>3, Constants DEF ReplayFrom
<1>5. Replay(cursor) = Sequence(ReplayFrom(cursor), seq[gameRun])
  BY DEF Replay, ReplayFrom
<1>6. Lost(cursor) \in BOOLEAN
  BY DEF Lost
<1>7. QED BY <1>1, <1>2, <1>3, <1>4, <1>5, <1>6, ReplaySequence

\* An adapter that is hung up has its type.
LEMMA HungUp ==
    ASSUME NEW a \in Adapter
    PROVE  /\ HangUp(a) \in Adapter
           /\ ~HangUp(a).open /\ HangUp(a).replay = <<>>
           /\ HangUp(a).run = a.run /\ HangUp(a).lost = a.lost
           /\ HangUp(a).oldest = a.oldest /\ HangUp(a).events = a.events
<1>1. <<>> \in Seq(1..MaxSeq) /\ FALSE \in BOOLEAN
  OBVIOUS
<1>2. HangUp(a) \in Adapter
  BY <1>1 DEF HangUp, Adapter
<1>3. QED BY <1>2 DEF HangUp, Adapter

\* Hanging up a closed one changes nothing.
LEMMA ClosedStays == HangUp(NoAdapter) = NoAdapter
<1>1. HangUp(NoAdapter) \in Adapter /\ NoAdapter \in Adapter
  BY HungUp, Nothings
<1>2. /\ HangUp(NoAdapter).run = NoAdapter.run /\ HangUp(NoAdapter).lost = NoAdapter.lost
      /\ HangUp(NoAdapter).oldest = NoAdapter.oldest
      /\ HangUp(NoAdapter).events = NoAdapter.events
      /\ HangUp(NoAdapter).replay = <<>> /\ NoAdapter.replay = <<>>
      /\ ~HangUp(NoAdapter).open /\ ~NoAdapter.open
  BY <1>1, HungUp DEF NoAdapter
<1>3. ASSUME NEW a \in Adapter, NEW b \in Adapter,
             a.run = b.run, a.lost = b.lost, a.oldest = b.oldest, a.events = b.events,
             a.replay = b.replay, a.open = b.open
      PROVE  a = b
  <2>1. \A c \in Adapter :
           c = [run |-> c.run, open |-> c.open, lost |-> c.lost, oldest |-> c.oldest,
                replay |-> c.replay, events |-> c.events]
    BY DEF Adapter
  <2>2. [run |-> a.run, open |-> a.open, lost |-> a.lost, oldest |-> a.oldest,
         replay |-> a.replay, events |-> a.events]
          = [run |-> b.run, open |-> b.open, lost |-> b.lost, oldest |-> b.oldest,
             replay |-> b.replay, events |-> b.events]
    BY <1>3
  <2>3. QED BY ONLY <2>1, <2>2, a \in Adapter, b \in Adapter, Zenon
<1>4. HangUp(NoAdapter).open = NoAdapter.open
  BY <1>1, <1>2 DEF Adapter
<1>5. QED BY <1>1, <1>2, <1>3, <1>4

-----------------------------------------------------------------------------
(* What each operation makes of the adapters.                              *)

\* One adapter is replaced.
LEMMA SetAdapter ==
    ASSUME TypeOK, NEW l \in Loops, NEW a \in Adapter, adapter' = [adapter EXCEPT ![l] = a]
    PROVE  /\ adapter' \in [Loops -> Adapter] /\ adapter'[l] = a
           /\ \A k \in Loops : k # l => adapter'[k] = adapter[k]
BY DEF TypeOK

\* The welcome opens the adapter with the replay for the cursor.
LEMMA DialAdapter ==
    ASSUME TypeOK, NEW l \in Loops, Dial(l)
    PROVE  /\ adapter' \in [Loops -> Adapter]
           /\ \A k \in Loops : k # l => adapter'[k] = adapter[k]
           /\ adapter'[l].run = gameRun /\ adapter'[l].open = TRUE
           /\ adapter'[l].lost = Lost(previous[l]) /\ adapter'[l].oldest = Oldest
           /\ adapter'[l].replay = (IF replayFirst THEN <<>> ELSE Replay(previous[l]))
           /\ adapter'[l].events = (IF replayFirst THEN Replay(previous[l]) ELSE <<>>)
<1> DEFINE c == previous[l]
           a == [run |-> gameRun, open |-> TRUE, lost |-> Lost(c), oldest |-> Oldest,
                 replay |-> IF replayFirst THEN <<>> ELSE Replay(c),
                 events |-> IF replayFirst THEN Replay(c) ELSE <<>>]
<1>1. c \in Cursor /\ gameRun \in Runs /\ <<>> \in Seq(1..MaxSeq)
  BY DEF TypeOK
<1>2. Lost(c) \in BOOLEAN /\ Oldest \in 1..MaxSeq + 1 /\ Replay(c) \in Seq(1..MaxSeq)
  BY <1>1, ServerAnswer
<1>3. a \in Adapter
  BY <1>1, <1>2 DEF Adapter
<1>4. adapter' = [adapter EXCEPT ![l] = a]
  BY DEF Dial
<1>5. /\ a.run = gameRun /\ a.open = TRUE /\ a.lost = Lost(c) /\ a.oldest = Oldest
      /\ a.replay = (IF replayFirst THEN <<>> ELSE Replay(c))
      /\ a.events = (IF replayFirst THEN Replay(c) ELSE <<>>)
  OBVIOUS
<1> HIDE DEF a
<1>6. QED BY <1>3, <1>4, <1>5, SetAdapter

\* What was announced is forgotten.
LEMMA AnnounceAdapter ==
    ASSUME TypeOK, NEW l \in Loops, Announce(l)
    PROVE  /\ adapter' \in [Loops -> Adapter]
           /\ \A k \in Loops : k # l => adapter'[k] = adapter[k]
           /\ adapter'[l].run = adapter[l].run /\ adapter'[l].open = adapter[l].open
           /\ adapter'[l].lost = FALSE /\ adapter'[l].oldest = 1
           /\ adapter'[l].replay = adapter[l].replay /\ adapter'[l].events = adapter[l].events
<1> DEFINE a == [adapter[l] EXCEPT !.lost = FALSE, !.oldest = 1]
<1>1. adapter[l] \in Adapter /\ 1 \in 1..MaxSeq + 1
  BY Constants DEF TypeOK
<1>2. a \in Adapter
  BY <1>1 DEF Adapter
<1>3. adapter' = [adapter EXCEPT ![l] = a]
  BY DEF Announce, TypeOK
<1>4. /\ a.run = adapter[l].run /\ a.open = adapter[l].open /\ a.lost = FALSE /\ a.oldest = 1
      /\ a.replay = adapter[l].replay /\ a.events = adapter[l].events
  BY <1>1 DEF Adapter
<1> HIDE DEF a
<1>5. QED BY <1>2, <1>3, <1>4, SetAdapter

\* The loop takes the first event on its way.
LEMMA TakeAdapter ==
    ASSUME TypeOK, NEW l \in Loops, Take(l)
    PROVE  /\ adapter' \in [Loops -> Adapter]
           /\ \A k \in Loops : k # l => adapter'[k] = adapter[k]
           /\ adapter'[l].run = adapter[l].run /\ adapter'[l].open = adapter[l].open
           /\ adapter'[l].lost = adapter[l].lost /\ adapter'[l].oldest = adapter[l].oldest
           /\ adapter'[l].replay = adapter[l].replay
           /\ adapter[l].events \in Seq(1..MaxSeq) /\ adapter[l].events # <<>>
           /\ adapter'[l].events = Tail(adapter[l].events)
           /\ Head(adapter[l].events) \in 1..MaxSeq
<1> DEFINE a == [adapter[l] EXCEPT !.events = Tail(@)]
<1>1. adapter[l] \in Adapter
  BY DEF TypeOK
<1>2. /\ adapter[l].events \in Seq(1..MaxSeq) /\ adapter[l].events # <<>>
      /\ Tail(adapter[l].events) \in Seq(1..MaxSeq) /\ Head(adapter[l].events) \in 1..MaxSeq
  <2>1. adapter[l].events # <<>>
    BY DEF Take
  <2>2. adapter[l].events \in Seq(1..MaxSeq)
    BY <1>1 DEF Adapter
  <2> DEFINE s == adapter[l].events
  <2>3. s \in Seq(1..MaxSeq) /\ s # <<>>
    BY <2>1, <2>2
  <2> HIDE DEF s
  <2>4. Tail(s) \in Seq(1..MaxSeq) /\ Head(s) \in 1..MaxSeq
    BY <2>3, HeadAndTail
  <2>5. QED BY <2>3, <2>4 DEF s
<1>3. a \in Adapter
  BY <1>1, <1>2 DEF Adapter
<1>4. adapter' = [adapter EXCEPT ![l] = a]
  BY DEF Take, TypeOK
<1>5. /\ a.run = adapter[l].run /\ a.open = adapter[l].open /\ a.lost = adapter[l].lost
      /\ a.oldest = adapter[l].oldest /\ a.replay = adapter[l].replay
      /\ a.events = Tail(adapter[l].events)
  BY <1>1 DEF Adapter
<1> HIDE DEF a
<1>6. QED BY <1>2, <1>3, <1>4, <1>5, SetAdapter

\* The server puts the next event of the replay on its way.
LEMMA SendReplayAdapter ==
    ASSUME TypeOK, NEW l \in Loops, SendReplay(l)
    PROVE  /\ adapter' \in [Loops -> Adapter]
           /\ \A k \in Loops : k # l => adapter'[k] = adapter[k]
           /\ adapter'[l].run = adapter[l].run /\ adapter'[l].open = adapter[l].open
           /\ adapter'[l].lost = adapter[l].lost /\ adapter'[l].oldest = adapter[l].oldest
           /\ adapter[l].replay \in Seq(1..MaxSeq) /\ adapter[l].replay # <<>>
           /\ adapter[l].events \in Seq(1..MaxSeq) /\ Head(adapter[l].replay) \in 1..MaxSeq
           /\ adapter'[l].replay = Tail(adapter[l].replay)
           /\ adapter'[l].events = Append(adapter[l].events, Head(adapter[l].replay))
<1> DEFINE h == Head(adapter[l].replay)
           a == [adapter[l] EXCEPT !.events = Append(@, h), !.replay = Tail(@)]
<1>1. adapter[l] \in Adapter
  BY DEF TypeOK
<1>2. /\ adapter[l].replay \in Seq(1..MaxSeq) /\ adapter[l].replay # <<>>
      /\ adapter[l].events \in Seq(1..MaxSeq)
      /\ Tail(adapter[l].replay) \in Seq(1..MaxSeq) /\ h \in 1..MaxSeq
  <2>1. adapter[l].replay # <<>>
    BY DEF SendReplay
  <2>2. adapter[l].replay \in Seq(1..MaxSeq) /\ adapter[l].events \in Seq(1..MaxSeq)
    BY <1>1 DEF Adapter
  <2> DEFINE s == adapter[l].replay
  <2>3. s \in Seq(1..MaxSeq) /\ s # <<>>
    BY <2>1, <2>2
  <2> HIDE DEF s
  <2>4. Tail(s) \in Seq(1..MaxSeq) /\ Head(s) \in 1..MaxSeq
    BY <2>3, HeadAndTail
  <2>5. QED BY <2>2, <2>3, <2>4 DEF s
<1>3. adapter' = [adapter EXCEPT ![l] = a]
  BY DEF SendReplay, TypeOK
<1> HIDE DEF h
<1>4. Append(adapter[l].events, h) \in Seq(1..MaxSeq)
  BY <1>2
<1>5. a \in Adapter
  BY <1>1, <1>2, <1>4 DEF Adapter
<1>6. /\ a.run = adapter[l].run /\ a.open = adapter[l].open /\ a.lost = adapter[l].lost
      /\ a.oldest = adapter[l].oldest /\ a.replay = Tail(adapter[l].replay)
      /\ a.events = Append(adapter[l].events, h)
  BY <1>1 DEF Adapter
<1> HIDE DEF a
<1>7. QED BY <1>2, <1>3, <1>5, <1>6, SetAdapter DEF h

\* Closing, by the loop or by the server, keeps the events on their way.
LEMMA ClosedAdapter ==
    ASSUME TypeOK, NEW l \in Loops, (StopLoop /\ l = current) \/ Hangup(l)
    PROVE  /\ adapter' \in [Loops -> Adapter]
           /\ \A k \in Loops : k # l => adapter'[k] = adapter[k]
           /\ adapter'[l] = HangUp(adapter[l])
<1>1. adapter[l] \in Adapter /\ HangUp(adapter[l]) \in Adapter
  BY HungUp DEF TypeOK
<1>2. adapter' = [adapter EXCEPT ![l] = HangUp(adapter[l])]
  <2>1. CASE StopLoop /\ l = current
    BY <2>1 DEF StopLoop, HangUp, TypeOK
  <2>2. CASE Hangup(l)
    BY <2>2 DEF Hangup
  <2>3. QED BY <2>1, <2>2
<1>3. QED BY <1>1, <1>2, SetAdapter

\* A live event is on its way to every open adapter.
LEMMA PushAdapter ==
    ASSUME TypeOK, Push
    PROVE  /\ adapter' \in [Loops -> Adapter]
           /\ seq[gameRun] \in 0..MaxSeq /\ seq' \in [Runs -> 0..MaxSeq]
           /\ seq'[gameRun] = seq[gameRun] + 1 /\ seq'[gameRun] \in 1..MaxSeq
           /\ \A r \in Runs : r # gameRun => seq'[r] = seq[r]
           /\ \A k \in Loops : ~adapter[k].open => adapter'[k] = adapter[k]
           /\ \A k \in Loops :
                 /\ adapter'[k].run = adapter[k].run /\ adapter'[k].open = adapter[k].open
                 /\ adapter'[k].lost = adapter[k].lost /\ adapter'[k].oldest = adapter[k].oldest
                 /\ adapter'[k].replay = adapter[k].replay
                 /\ adapter[k].events \in Seq(1..MaxSeq)
           /\ \A k \in Loops : adapter[k].open =>
                 adapter'[k].events = Append(adapter[k].events, seq[gameRun] + 1)
<1>1. /\ seq[gameRun] \in 0..MaxSeq /\ seq' = [seq EXCEPT ![gameRun] = seq[gameRun] + 1]
      /\ seq[gameRun] < MaxSeq /\ gameRun \in Runs
  BY DEF Push, TypeOK
<1>2. /\ seq' \in [Runs -> 0..MaxSeq] /\ seq'[gameRun] = seq[gameRun] + 1
      /\ seq'[gameRun] \in 1..MaxSeq /\ \A r \in Runs : r # gameRun => seq'[r] = seq[r]
  BY <1>1, Constants DEF TypeOK
<1> DEFINE n == seq[gameRun] + 1
           b(k) == [adapter[k] EXCEPT !.events = Append(adapter[k].events, n)]
<1>3. n \in 1..MaxSeq
  BY <1>2
<1>4. adapter' = [k \in Loops |-> IF adapter[k].open THEN b(k) ELSE adapter[k]]
  BY <1>2 DEF Push
<1> HIDE DEF n
<1>5. ASSUME NEW k \in Loops
      PROVE  /\ adapter[k].events \in Seq(1..MaxSeq) /\ adapter[k] \in Adapter
             /\ b(k) \in Adapter
             /\ b(k).run = adapter[k].run /\ b(k).open = adapter[k].open
             /\ b(k).lost = adapter[k].lost /\ b(k).oldest = adapter[k].oldest
             /\ b(k).replay = adapter[k].replay
             /\ b(k).events = Append(adapter[k].events, n)
  <2>1. adapter[k] \in Adapter /\ adapter[k].events \in Seq(1..MaxSeq)
    BY DEF TypeOK, Adapter
  <2>2. Append(adapter[k].events, n) \in Seq(1..MaxSeq)
    BY <1>3, <2>1
  <2>3. QED BY <2>1, <2>2 DEF Adapter
<1> HIDE DEF b
<1>6. QED BY <1>1, <1>2, <1>4, <1>5 DEF n

\* A new run closes every adapter.
LEMMA RestartAdapter ==
    ASSUME TypeOK, GameRestart
    PROVE  /\ adapter' \in [Loops -> Adapter]
           /\ \A k \in Loops : adapter'[k] = HangUp(adapter[k])
BY HungUp DEF GameRestart, TypeOK

-----------------------------------------------------------------------------
(* Every step keeps the types and the facts about adapters.                *)

\* A cursor is stored in memory, and in the file if it can be.
LEMMA Stored ==
    ASSUME TypeOK, NEW c \in Cursor, Store(c)
    PROVE  cursors' \in Cursor /\ file' \in Cursor
BY DEF Store, TypeOK

\* The loop, while it has no adapter or gives it up.
LEMMA BaseLoop ==
    ASSUME TypeOK, BaseInv, NEW l \in Loops,
           Begin(l) \/ DialFails(l) \/ Wake(l) \/ Disconnected(l) \/ Leave(l)
    PROVE  TypeOK' /\ BaseInv'
<1>0. /\ pc \in [Loops -> Places] /\ adapter \in [Loops -> Adapter] /\ NoAdapter \in Adapter
      /\ previous \in [Loops -> Cursor] /\ cursors \in Cursor /\ NoCursor \in Cursor
  BY Nothings DEF TypeOK
<1>1. CASE Begin(l)
  <2>1. pc' \in [Loops -> Places] /\ previous' \in [Loops -> Cursor]
    BY <1>0, <1>1 DEF Begin, Goto, Places
  <2>2. TypeOK'
    BY <1>1, <2>1 DEF Begin, TypeOK
  <2>3. \A k \in Loops : pc'[k] = pc[k] \/ (k = l /\ pc[k] = "top" /\ pc'[k] \in {"finished", "dialing"})
    BY <1>0, <1>1 DEF Begin, Goto
  <2>4. QED BY <1>1, <2>2, <2>3 DEF Begin, BaseInv, Attached
<1>2. CASE DialFails(l)
  <2>1. pc' \in [Loops -> Places] /\ previous' \in [Loops -> Cursor]
    BY <1>0, <1>2 DEF DialFails, Goto, Places
  <2>2. faults' \in 0..MaxFault
    BY <1>2, Constants DEF DialFails, TypeOK
  <2>3. TypeOK'
    BY <1>2, <2>1, <2>2 DEF DialFails, TypeOK
  <2>4. \A k \in Loops : pc'[k] = pc[k]
           \/ (k = l /\ pc[k] \in {"top", "dialing"} /\ pc'[k] = "sleeping")
    BY <1>0, <1>2 DEF DialFails, Goto
  <2>5. QED BY <1>2, <2>3, <2>4 DEF DialFails, BaseInv, Attached
<1>3. CASE Wake(l)
  <2>1. pc' \in [Loops -> Places]
    BY <1>0, <1>3 DEF Wake, Goto, Places
  <2>2. TypeOK'
    BY <1>3, <2>1 DEF Wake, TypeOK
  <2>3. \A k \in Loops : pc'[k] = pc[k]
           \/ (k = l /\ pc[k] = "sleeping" /\ pc'[k] \in {"finished", "top"})
    BY <1>0, <1>3 DEF Wake, Goto
  <2>4. QED BY <1>3, <2>2, <2>3 DEF Wake, BaseInv, Attached
<1>4. CASE Disconnected(l) \/ Leave(l)
  <2>1. /\ pc[l] = "live" /\ adapter' = [adapter EXCEPT ![l] = NoAdapter]
        /\ pc' \in [Loops -> Places] /\ pc'[l] \in {"finished", "sleeping"}
        /\ \A k \in Loops : k # l => pc'[k] = pc[k]
    BY <1>0, <1>4 DEF Disconnected, Leave, Goto, Places
  <2>2. /\ adapter' \in [Loops -> Adapter] /\ adapter'[l] = NoAdapter
        /\ \A k \in Loops : k # l => adapter'[k] = adapter[k]
    BY <1>0, <2>1
  <2>3. cursors' \in Cursor /\ file' \in Cursor
    <3>1. CASE Leave(l)
      BY <3>1 DEF Leave, TypeOK
    <3>2. CASE Disconnected(l)
      <4>1. [run |-> adapter[l].run, lastSeq |-> lastSeq[l]] \in Cursor
        BY DEF TypeOK, Adapter, Cursor
      <4>2. QED BY <3>2, <4>1, Stored DEF Disconnected
    <3>3. QED BY <1>4, <3>1, <3>2
  <2>4. /\ UNCHANGED <<serverVars, stop, previous, lastSeq, sincePersist, ever, hand, base,
                       daemonVars, history, bounds>>
    BY <1>4 DEF Disconnected, Leave
  <2>5. TypeOK'
    BY <2>1, <2>2, <2>3, <2>4 DEF TypeOK
  <2>6. NoAdapter.open = FALSE
    BY DEF NoAdapter
  <2>7. QED BY <2>1, <2>2, <2>4, <2>5, <2>6 DEF BaseInv, Attached
<1>5. QED BY <1>1, <1>2, <1>3, <1>4

\* The loop, as it attaches.
LEMMA BaseAttach ==
    ASSUME TypeOK, BaseInv, NEW l \in Loops, Dial(l) \/ RecordRun(l) \/ Announce(l)
    PROVE  TypeOK' /\ BaseInv'
<1>0. pc \in [Loops -> Places] /\ adapter \in [Loops -> Adapter]
  BY DEF TypeOK
<1>1. CASE Dial(l)
  <2>1. /\ pc' \in [Loops -> Places] /\ pc[l] = "dialing" /\ pc'[l] = "attached"
        /\ \A k \in Loops : k # l => pc'[k] = pc[k]
    BY <1>0, <1>1 DEF Dial, Goto, Places
  <2>2. TypeOK'
    <3>1. adapter' \in [Loops -> Adapter]
      BY <1>1, DialAdapter
    <3>2. QED BY <1>1, <2>1, <3>1 DEF Dial, TypeOK
  <2>3. gameRun \in 1..gameRun
    BY Constants DEF TypeOK, Runs
  <2>4. adapter'[l].run = gameRun /\ \A k \in Loops : k # l => adapter'[k] = adapter[k]
    BY <1>1, DialAdapter
  <2>5. UNCHANGED <<gameRun, current, stopping, hand, got, lastSeq>>
    BY <1>1 DEF Dial
  <2>6. QED BY <2>1, <2>2, <2>3, <2>4, <2>5 DEF BaseInv, Attached
<1>2. CASE RecordRun(l)
  <2>1. /\ pc' \in [Loops -> Places] /\ pc[l] = "attached" /\ pc'[l] = "recorded"
        /\ \A k \in Loops : k # l => pc'[k] = pc[k]
    BY <1>0, <1>2 DEF RecordRun, Goto, Places
  <2> DEFINE last == IF SameRun(l) THEN lastSeq[l] ELSE 0
  <2>2. last \in 0..MaxSeq
    BY Constants DEF TypeOK
  <2>3. cursors' \in Cursor /\ file' \in Cursor
    <3>1. [run |-> adapter[l].run, lastSeq |-> last] \in Cursor
      BY <2>2 DEF TypeOK, Adapter, Cursor
    <3>2. QED BY <1>2, <3>1, Stored DEF RecordRun
  <2>4. /\ lastSeq' \in [Loops -> 0..MaxSeq] /\ base' \in [Loops -> 0..MaxSeq]
        /\ sincePersist' \in [Loops -> 0..PersistEvery]
        /\ \A k \in Loops : k # l => lastSeq'[k] = lastSeq[k]
    <3>1. lastSeq' = [lastSeq EXCEPT ![l] = last]
      BY <1>2 DEF RecordRun
    <3>2. base' \in [Loops -> 0..MaxSeq]
      BY <1>2, Constants DEF RecordRun, TypeOK
    <3>3. sincePersist' \in [Loops -> 0..PersistEvery]
      BY <1>2, Constants DEF RecordRun, TypeOK
    <3> HIDE DEF last
    <3>4. QED BY <2>2, <3>1, <3>2, <3>3 DEF TypeOK
  <2>5. TypeOK'
    BY <1>2, <2>1, <2>3, <2>4 DEF RecordRun, TypeOK
  <2>6. QED BY <1>2, <2>1, <2>4, <2>5 DEF RecordRun, BaseInv, Attached
<1>3. CASE Announce(l)
  <2>1. /\ pc' \in [Loops -> Places] /\ pc[l] = "recorded" /\ pc'[l] = "live"
        /\ \A k \in Loops : k # l => pc'[k] = pc[k]
    BY <1>0, <1>3 DEF Announce, Goto, Places
  <2>2. excused' \subseteq Event
    BY <1>3 DEF Announce, TypeOK, OfOldRun, OutOfRing
  <2>3. ever' \in [Loops -> BOOLEAN] /\ previous' \in [Loops -> Cursor]
    BY <1>3, Nothings DEF Announce, TypeOK
  <2>4. TypeOK'
    <3>1. adapter' \in [Loops -> Adapter]
      BY <1>3, AnnounceAdapter
    <3>2. QED BY <1>3, <2>1, <2>2, <2>3, <3>1 DEF Announce, TypeOK
  <2>5. \A k \in Loops : adapter'[k].run = adapter[k].run /\ adapter'[k].open = adapter[k].open
    BY <1>3, AnnounceAdapter
  <2>6. \A k \in Loops : k # l => adapter'[k] = adapter[k]
    BY <1>3, AnnounceAdapter
  <2>7. QED BY <1>3, <2>1, <2>4, <2>5, <2>6, ZenonT(40) DEF Announce, BaseInv, Attached
<1>4. QED BY <1>1, <1>2, <1>3

\* The loop, with an event.
LEMMA BaseEvent ==
    ASSUME TypeOK, BaseInv, NEW l \in Loops, Take(l) \/ Ingest(l)
    PROVE  TypeOK' /\ BaseInv'
<1>0. pc \in [Loops -> Places] /\ adapter \in [Loops -> Adapter]
  BY DEF TypeOK
<1>1. CASE Take(l)
  <2> DEFINE s == Head(adapter[l].events)
             due == sincePersist[l] + 1 >= PersistEvery
  <2>1. /\ pc' \in [Loops -> Places] /\ pc[l] = "live" /\ pc'[l] = "hand"
        /\ \A k \in Loops : k # l => pc'[k] = pc[k]
    BY <1>0, <1>1 DEF Take, Goto, Places
  <2>2. /\ s \in 1..MaxSeq
        /\ adapter' \in [Loops -> Adapter]
        /\ \A k \in Loops : adapter'[k].run = adapter[k].run /\ adapter'[k].open = adapter[k].open
        /\ \A k \in Loops : k # l => adapter'[k] = adapter[k]
    BY <1>1, TakeAdapter
  <2>3. /\ excused' = excused \cup Skipped(l, s)
        /\ base' = [base EXCEPT ![l] = IF lastSeq[l] = 0 THEN s - 1 ELSE @]
        /\ lastSeq' = [lastSeq EXCEPT ![l] = Newest(l, s)]
        /\ sincePersist' = [sincePersist EXCEPT ![l] = IF due THEN PersistEvery ELSE @ + 1]
        /\ IF due THEN Store([run |-> adapter[l].run, lastSeq |-> Newest(l, s)])
           ELSE UNCHANGED storeVars
        /\ hand' = [hand EXCEPT ![l] = s]
        /\ UNCHANGED <<serverVars, stop, previous, ever, daemonVars, got, bounds>>
    BY <1>1 DEF Take
  <2>4. Newest(l, s) \in 0..MaxSeq
    BY <2>2, Constants DEF Newest, TypeOK
  <2>5. cursors' \in Cursor /\ file' \in Cursor
    <3>1. [run |-> adapter[l].run, lastSeq |-> Newest(l, s)] \in Cursor
      BY <2>4 DEF TypeOK, Adapter, Cursor
    <3>2. CASE due
      BY <2>3, <3>1, <3>2, Stored
    <3>3. CASE ~due
      BY <2>3, <3>3 DEF TypeOK
    <3>4. QED BY <3>2, <3>3
  <2>6. sincePersist' \in [Loops -> 0..PersistEvery]
    <3>1. sincePersist[l] \in 0..PersistEvery
      BY DEF TypeOK
    <3>2. (IF due THEN PersistEvery ELSE sincePersist[l] + 1) \in 0..PersistEvery
      BY <3>1, Constants
    <3>3. QED BY <2>3, <3>2 DEF TypeOK
  <2> HIDE DEF s, due
  <2>7. base' \in [Loops -> 0..MaxSeq]
    <3>1. (IF lastSeq[l] = 0 THEN s - 1 ELSE base[l]) \in 0..MaxSeq
      BY <2>2, Constants DEF TypeOK
    <3>2. QED BY <2>3, <3>1 DEF TypeOK
  <2>8. excused' \subseteq Event
    BY <2>3 DEF Skipped, TypeOK
  <2>9. lastSeq' \in [Loops -> 0..MaxSeq] /\ hand' \in [Loops -> 0..MaxSeq]
        /\ \A k \in Loops : k # l => lastSeq'[k] = lastSeq[k] /\ hand'[k] = hand[k]
        /\ hand'[l] = s
    BY <2>2, <2>3, <2>4, Constants DEF TypeOK
  <2>10. TypeOK'
    BY <2>1, <2>2, <2>3, <2>5, <2>6, <2>7, <2>8, <2>9 DEF TypeOK
  <2>11. QED BY <2>1, <2>2, <2>3, <2>9, <2>10 DEF BaseInv, Attached
<1>2. CASE Ingest(l)
  <2>1. /\ pc' \in [Loops -> Places] /\ pc[l] = "hand" /\ pc'[l] = "live"
        /\ \A k \in Loops : k # l => pc'[k] = pc[k]
    BY <1>0, <1>2 DEF Ingest, Goto, Places
  <2>2. <<adapter[l].run, hand[l]>> \in Event
    <3>1. adapter[l].run \in Runs
      <4>1. adapter[l].run \in 1..gameRun /\ gameRun \in 1..MaxRun
        BY <2>1 DEF BaseInv, Attached, TypeOK, Runs
      <4>2. QED BY <4>1, Constants DEF Runs
    <3>2. hand[l] \in 1..MaxSeq
      BY <2>1 DEF BaseInv
    <3>3. QED BY <3>1, <3>2 DEF Event
  <2>3. got' \in [Loops -> SUBSET Event] /\ \A k \in Loops : k # l => got'[k] = got[k]
    BY <1>2, <2>2 DEF Ingest, TypeOK
  <2>4. hand' \in [Loops -> 0..MaxSeq] /\ \A k \in Loops : k # l => hand'[k] = hand[k]
    BY <1>2, Constants DEF Ingest, TypeOK
  <2>5. TypeOK'
    BY <1>2, <2>1, <2>3, <2>4 DEF Ingest, TypeOK
  <2>6. QED BY <1>2, <2>1, <2>3, <2>4, <2>5 DEF Ingest, BaseInv, Attached
<1>3. QED BY <1>1, <1>2

\* The server and the network.
LEMMA BaseServer ==
    ASSUME TypeOK, BaseInv,
           \/ Push \/ GameRestart
           \/ \E l \in Loops : SendReplay(l) \/ Hangup(l)
    PROVE  TypeOK' /\ BaseInv'
<1>0. pc \in [Loops -> Places] /\ adapter \in [Loops -> Adapter]
  BY DEF TypeOK
<1>1. CASE Push
  <2>1. /\ adapter' \in [Loops -> Adapter] /\ seq' \in [Runs -> 0..MaxSeq]
        /\ \A k \in Loops : ~adapter[k].open => adapter'[k] = adapter[k]
        /\ \A k \in Loops : adapter'[k].run = adapter[k].run /\ adapter'[k].open = adapter[k].open
    BY <1>1, PushAdapter
  <2>2. pushed' \in 0..MaxPush
    <3>1. pushed' = pushed + 1 /\ pushed < MaxPush
      BY <1>1 DEF Push
    <3>2. QED BY <3>1, Constants DEF TypeOK
  <2>3. TypeOK'
    BY <1>1, <2>1, <2>2 DEF Push, TypeOK
  <2>4. NoAdapter.open = FALSE
    BY DEF NoAdapter
  <2>5. UNCHANGED <<gameRun, current, stopping, hand, got, lastSeq, pc>>
    BY <1>1 DEF Push
  <2>6. QED BY <2>1, <2>3, <2>4, <2>5 DEF BaseInv
<1>2. CASE GameRestart
  <2>1. /\ adapter' \in [Loops -> Adapter] /\ \A k \in Loops : adapter'[k] = HangUp(adapter[k])
    BY <1>2, RestartAdapter
  <2>2. /\ gameRun' = gameRun + 1 /\ gameRun' \in Runs
    BY <1>2, Constants DEF GameRestart, TypeOK, Runs
  <2>3. TypeOK'
    BY <1>2, <2>1, <2>2 DEF GameRestart, TypeOK
  <2>4. \A k \in Loops : adapter'[k].run = adapter[k].run /\ ~adapter'[k].open
    BY <1>0, <2>1, HungUp
  <2>5. HangUp(NoAdapter) = NoAdapter
    BY ClosedStays
  <2>6. UNCHANGED <<current, stopping, hand, got, lastSeq, pc>>
    BY <1>2 DEF GameRestart
  <2>7. \A k \in Loops : pc'[k] \in Attached => adapter'[k].run \in 1..gameRun'
    <3> TAKE k \in Loops
    <3>1. gameRun \in Nat
      BY Constants DEF TypeOK, Runs
    <3>2. QED BY <2>2, <2>4, <2>6, <3>1 DEF BaseInv
  <2>8. \A k \in Loops : pc'[k] \notin Attached => adapter'[k] = NoAdapter
    BY <2>1, <2>5, <2>6 DEF BaseInv
  <2>9. QED BY <2>3, <2>4, <2>6, <2>7, <2>8 DEF BaseInv
<1>3. ASSUME NEW l \in Loops, SendReplay(l) PROVE TypeOK' /\ BaseInv'
  <2>1. /\ adapter' \in [Loops -> Adapter]
        /\ \A k \in Loops : k # l => adapter'[k] = adapter[k]
        /\ adapter'[l].run = adapter[l].run /\ adapter'[l].open = adapter[l].open
    BY <1>3, SendReplayAdapter
  <2>2. TypeOK'
    BY <1>3, <2>1 DEF SendReplay, TypeOK
  <2>3. adapter[l].open /\ NoAdapter.open = FALSE
    BY <1>3 DEF SendReplay, NoAdapter
  <2>4. UNCHANGED <<gameRun, current, stopping, hand, got, lastSeq, pc>>
    BY <1>3 DEF SendReplay
  <2>5. QED BY <2>1, <2>2, <2>3, <2>4 DEF BaseInv
<1>4. ASSUME NEW l \in Loops, Hangup(l) PROVE TypeOK' /\ BaseInv'
  <2>1. /\ adapter' \in [Loops -> Adapter]
        /\ \A k \in Loops : k # l => adapter'[k] = adapter[k]
        /\ adapter'[l] = HangUp(adapter[l])
    BY <1>4, ClosedAdapter
  <2>2. adapter'[l].run = adapter[l].run /\ ~adapter'[l].open
    BY <1>0, <2>1, HungUp
  <2>3. faults' \in 0..MaxFault
    BY <1>4, Constants DEF Hangup, TypeOK
  <2>4. TypeOK'
    BY <1>4, <2>1, <2>3 DEF Hangup, TypeOK
  <2>5. adapter[l].open /\ NoAdapter.open = FALSE
    BY <1>4 DEF Hangup, NoAdapter
  <2>6. UNCHANGED <<gameRun, current, stopping, hand, got, lastSeq, pc>>
    BY <1>4 DEF Hangup
  <2>7. QED BY <2>1, <2>2, <2>4, <2>5, <2>6 DEF BaseInv
<1>5. QED BY <1>1, <1>2, <1>3, <1>4

\* What ends with the process are events.
LEMMA UnsaidEvents ==
    ASSUME TypeOK, BaseInv
    PROVE  UNION {Unsaid(l) : l \in Loops} \subseteq Event
<1> SUFFICES ASSUME NEW l \in Loops PROVE Unsaid(l) \subseteq Event
  OBVIOUS
<1>1. CASE pc[l] = "hand"
  <2>1. adapter[l].run \in 1..gameRun /\ gameRun \in 1..MaxRun /\ hand[l] \in 1..MaxSeq
    BY <1>1 DEF BaseInv, Attached, TypeOK, Runs
  <2>2. adapter[l].run \in Runs
    BY <2>1, Constants DEF Runs
  <2>3. Unsaid(l) = {<<adapter[l].run, hand[l]>>}
    BY <1>1 DEF Unsaid
  <2>4. QED BY <2>1, <2>2, <2>3 DEF Event
<1>2. CASE pc[l] = "recorded"
  <2>1. Unsaid(l) = OfOldRun(l) \cup OutOfRing(l)
    BY <1>2 DEF Unsaid
  <2>2. QED BY <2>1 DEF OfOldRun, OutOfRing
<1>3. CASE pc[l] \notin {"hand", "recorded"}
  BY <1>3 DEF Unsaid
<1>4. QED BY <1>1, <1>2, <1>3

\* A new process begins with a fresh loop.
LEMMA BaseProcess ==
    ASSUME TypeOK, BaseInv, Exit \/ Crash
    PROVE  TypeOK' /\ BaseInv'
<1>1. NewProcess /\ file' \in Cursor /\ crashes' \in 0..MaxCrash
  BY Constants DEF Exit, Crash, TypeOK
<1>2. current < MaxLoop
  BY DEF Exit, Crash, BaseInv
<1>3. /\ current \in 1..MaxLoop /\ current' = current + 1 /\ current' \in Loops
  BY <1>1, <1>2, Constants DEF NewProcess, TypeOK, Loops
<1>4. /\ cursors' \in Cursor /\ stopping' = FALSE
      /\ pc' = [l \in Loops |-> IF l <= current THEN "finished"
                                ELSE IF l = current + 1 THEN "top" ELSE "unborn"]
      /\ pc' \in [Loops -> Places]
      /\ adapter' = [l \in Loops |-> NoAdapter] /\ adapter' \in [Loops -> Adapter]
      /\ previous' \in [Loops -> Cursor] /\ stop' \in [Loops -> BOOLEAN]
      /\ ever' \in [Loops -> BOOLEAN] /\ excused' \subseteq Event
      /\ UNCHANGED <<serverVars, abandoned, got, pushed, faults>>
  <2>1. excused' \subseteq Event
    BY <1>1, UnsaidEvents DEF NewProcess, TypeOK
  <2>2. QED BY <1>1, <2>1, Nothings DEF NewProcess, Places
<1>5. /\ lastSeq' = Zero /\ hand' = Zero
      /\ lastSeq' \in [Loops -> 0..MaxSeq] /\ hand' \in [Loops -> 0..MaxSeq]
      /\ base' \in [Loops -> 0..MaxSeq] /\ sincePersist' \in [Loops -> 0..PersistEvery]
  BY <1>1, Constants DEF NewProcess, Zero
<1>6. TypeOK'
  BY <1>1, <1>3, <1>4, <1>5 DEF TypeOK
<1>7. NoAdapter.open = FALSE /\ \A l \in Loops : pc'[l] \notin Attached
  BY <1>4 DEF NoAdapter, Attached
<1>8. \A l \in Loops : l > current' => pc'[l] = "unborn" /\ got'[l] = {} /\ lastSeq'[l] = 0
  <2> SUFFICES ASSUME NEW l \in Loops, l > current'
               PROVE  pc'[l] = "unborn" /\ got'[l] = {} /\ lastSeq'[l] = 0
    OBVIOUS
  <2>1. l \in Nat /\ l > current /\ l > current + 1
    BY <1>3, Constants DEF Loops
  <2>2. got[l] = {}
    BY <2>1 DEF BaseInv
  <2>3. QED BY <1>3, <1>4, <1>5, <2>1, <2>2 DEF Zero
<1>9. \A l \in Loops : pc'[l] # "hand" /\ adapter'[l] = NoAdapter
  BY <1>4
<1>10. QED BY <1>4, <1>6, <1>7, <1>8, <1>9 DEF BaseInv

\* A reload.
LEMMA BaseReload ==
    ASSUME TypeOK, BaseInv, StopLoop \/ Replace
    PROVE  TypeOK' /\ BaseInv'
<1>0. /\ pc \in [Loops -> Places] /\ adapter \in [Loops -> Adapter] /\ current \in Loops
      /\ current \in 1..MaxLoop
  BY DEF TypeOK, Loops
<1>1. CASE StopLoop
  <2>1. /\ adapter' \in [Loops -> Adapter]
        /\ \A k \in Loops : k # current => adapter'[k] = adapter[k]
        /\ adapter'[current] = HangUp(adapter[current])
    BY <1>0, <1>1, ClosedAdapter
  <2>2. adapter'[current].run = adapter[current].run /\ ~adapter'[current].open
    BY <1>0, <2>1, HungUp
  <2>3. HangUp(NoAdapter) = NoAdapter
    BY ClosedStays
  <2>4. TypeOK'
    BY <1>0, <1>1, <2>1 DEF StopLoop, TypeOK
  <2>5. UNCHANGED <<gameRun, current, hand, got, lastSeq, pc>> /\ current < MaxLoop
    BY <1>1 DEF StopLoop
  <2>6. QED BY <2>1, <2>2, <2>3, <2>4, <2>5 DEF BaseInv
<1>2. CASE Replace
  <2>1. current' = current + 1 /\ current' \in Loops /\ stopping' = FALSE
    BY <1>0, <1>2, Constants DEF Replace, BaseInv, Loops
  <2>2. /\ pc' \in [Loops -> Places] /\ pc'[current'] = "top"
        /\ \A k \in Loops : k # current' => pc'[k] = pc[k]
    BY <1>0, <1>2, <2>1 DEF Replace, Goto, Places
  <2>3. abandoned' \subseteq Loops
    BY <1>0, <1>2 DEF Replace, TypeOK
  <2>4. UNCHANGED <<serverVars, storeVars, stop, previous, adapter, lastSeq, sincePersist, ever,
                    hand, base, history, bounds>>
    BY <1>2 DEF Replace
  <2>5. TypeOK'
    BY <2>1, <2>2, <2>3, <2>4 DEF TypeOK
  <2>6. pc[current'] = "unborn" /\ adapter[current'] = NoAdapter
    <3>1. current' > current
      BY <1>0, <2>1
    <3>2. QED BY <2>1, <3>1 DEF BaseInv, Attached
  <2>7. \A l \in Loops : l > current' => l > current /\ l # current'
    BY <1>0, <2>1, Constants DEF Loops
  <2>8. "top" \notin Attached /\ "top" # "hand"
    BY DEF Attached
  <2>9. QED BY <2>1, <2>2, <2>4, <2>5, <2>6, <2>7, <2>8 DEF BaseInv
<1>3. QED BY <1>1, <1>2

\* Every step.
LEMMA BaseStep ==
    ASSUME TypeOK, BaseInv, [Next]_vars
    PROVE  TypeOK' /\ BaseInv'
<1>1. CASE UNCHANGED vars
  BY <1>1 DEF vars, TypeOK, BaseInv
<1>2. QED BY <1>1, BaseLoop, BaseAttach, BaseEvent, BaseServer, BaseProcess, BaseReload
          DEF Next, Loop

-----------------------------------------------------------------------------
(* What is accounted for stays so.                                         *)

\* What a loop has passed on and what was reported is not taken back.
LEMMA HistoryGrows ==
    ASSUME TypeOK, [Next]_vars
    PROVE  /\ \A l \in Loops : got[l] \subseteq got'[l]
           /\ excused \subseteq excused'
<1>1. ASSUME NEW l \in Loops, Ingest(l)
      PROVE  (\A k \in Loops : got[k] \subseteq got'[k]) /\ excused \subseteq excused'
  BY <1>1 DEF Ingest, TypeOK
<1>2. ASSUME NEW l \in Loops, Announce(l) \/ Take(l)
      PROVE  (\A k \in Loops : got[k] \subseteq got'[k]) /\ excused \subseteq excused'
  BY <1>2 DEF Announce, Take
<1>3. ASSUME Exit \/ Crash
      PROVE  (\A k \in Loops : got[k] \subseteq got'[k]) /\ excused \subseteq excused'
  BY <1>3 DEF Exit, Crash, NewProcess
<1>4. ASSUME NEW l \in Loops,
             \/ Begin(l) \/ Dial(l) \/ RecordRun(l) \/ Disconnected(l) \/ Leave(l) \/ Wake(l)
             \/ DialFails(l) \/ SendReplay(l) \/ Hangup(l)
      PROVE  UNCHANGED <<got, excused>>
  BY <1>4 DEF Begin, Dial, RecordRun, Disconnected, Leave, Wake, DialFails, SendReplay, Hangup
<1>5. ASSUME StopLoop \/ Replace \/ Push \/ GameRestart \/ UNCHANGED vars
      PROVE  UNCHANGED <<got, excused>>
  BY <1>5 DEF StopLoop, Replace, Push, GameRestart, vars
<1>6. QED BY <1>1, <1>2, <1>3, <1>4, <1>5 DEF Next, Loop

\* An event in hand is passed on, or its process ends, or it stays in hand.
LEMMA HandKept ==
    ASSUME TypeOK, BaseInv, [Next]_vars, NEW l \in Loops, pc[l] = "hand"
    PROVE  \/ Ingest(l) \/ Exit \/ Crash
           \/ pc'[l] = "hand" /\ hand'[l] = hand[l] /\ adapter'[l].run = adapter[l].run
<1>0. pc \in [Loops -> Places] /\ adapter \in [Loops -> Adapter]
  BY DEF TypeOK
<1>1. ASSUME NEW k \in Loops, Begin(k) \/ RecordRun(k) \/ Wake(k) \/ DialFails(k)
      PROVE  pc'[l] = "hand" /\ hand' = hand /\ adapter' = adapter
  BY <1>0, <1>1 DEF Begin, RecordRun, Wake, DialFails, Goto
<1>2. ASSUME NEW k \in Loops, Disconnected(k) \/ Leave(k)
      PROVE  pc'[l] = "hand" /\ hand' = hand /\ adapter'[l] = adapter[l]
  BY <1>0, <1>2 DEF Disconnected, Leave, Goto
<1>3. ASSUME NEW k \in Loops, Dial(k) \/ Announce(k)
      PROVE  pc'[l] = "hand" /\ hand' = hand /\ adapter'[l] = adapter[l]
  <2>1. k # l /\ pc'[l] = "hand" /\ hand' = hand
    BY <1>0, <1>3 DEF Dial, Announce, Goto
  <2>2. QED BY <1>3, <2>1, DialAdapter, AnnounceAdapter
<1>4. ASSUME NEW k \in Loops, Take(k)
      PROVE  pc'[l] = "hand" /\ hand'[l] = hand[l] /\ adapter'[l] = adapter[l]
  <2>1. k # l /\ pc'[l] = "hand" /\ hand'[l] = hand[l]
    BY <1>0, <1>4 DEF Take, Goto, TypeOK
  <2>2. QED BY <1>4, <2>1, TakeAdapter
<1>5. ASSUME NEW k \in Loops, Ingest(k), k # l
      PROVE  pc'[l] = "hand" /\ hand'[l] = hand[l] /\ adapter' = adapter
  BY <1>0, <1>5 DEF Ingest, Goto, TypeOK
<1>6. ASSUME NEW k \in Loops, SendReplay(k) \/ Hangup(k)
      PROVE  pc' = pc /\ hand' = hand /\ adapter'[l].run = adapter[l].run
  <2>1. pc' = pc /\ hand' = hand
    BY <1>6 DEF SendReplay, Hangup
  <2>2. CASE SendReplay(k)
    BY <2>1, <2>2, SendReplayAdapter
  <2>3. CASE Hangup(k)
    <3>1. HangUp(adapter[k]).run = adapter[k].run
      BY <1>0, HungUp
    <3>2. QED BY <2>1, <2>3, <3>1, ClosedAdapter
  <2>4. QED BY <1>6, <2>2, <2>3
<1>7. ASSUME StopLoop PROVE pc' = pc /\ hand' = hand /\ adapter'[l].run = adapter[l].run
  <2>1. pc' = pc /\ hand' = hand /\ current \in Loops
    BY <1>7 DEF StopLoop, TypeOK
  <2>2. HangUp(adapter[current]).run = adapter[current].run
    BY <1>0, <2>1, HungUp
  <2>3. QED BY <1>7, <2>1, <2>2, ClosedAdapter
<1>8. ASSUME Replace PROVE pc'[l] = "hand" /\ hand' = hand /\ adapter' = adapter
  <2>1. /\ stopping /\ current < MaxLoop /\ current \in 1..MaxLoop
        /\ pc' = [pc EXCEPT ![current + 1] = "top"]
    BY <1>8 DEF Replace, Goto, BaseInv, TypeOK, Loops
  <2>2. current + 1 \in Loops /\ current + 1 > current
    BY <2>1, Constants DEF Loops
  <2>3. pc[current + 1] = "unborn"
    BY <2>2 DEF BaseInv
  <2>4. l # current + 1
    BY <2>3
  <2>5. QED BY <1>0, <1>8, <2>1, <2>4 DEF Replace
<1>9. ASSUME Push PROVE pc' = pc /\ hand' = hand /\ adapter'[l].run = adapter[l].run
  BY <1>9, PushAdapter DEF Push
<1>10. ASSUME GameRestart PROVE pc' = pc /\ hand' = hand /\ adapter'[l].run = adapter[l].run
  <2>1. HangUp(adapter[l]).run = adapter[l].run
    BY <1>0, HungUp
  <2>2. QED BY <1>10, <2>1, RestartAdapter DEF GameRestart
<1>11. CASE UNCHANGED vars
  BY <1>11 DEF vars
<1>12. CASE Next
  BY <1>12, <1>1, <1>2, <1>3, <1>4, <1>5, <1>6, <1>7, <1>8, <1>9, <1>10 DEF Next, Loop
<1>13. QED BY <1>11, <1>12

\* An event that was passed on, is in hand or was reported stays one of these.
LEMMA AccountedGrows ==
    ASSUME TypeOK, BaseInv, [Next]_vars
    PROVE  Accounted \subseteq Accounted'
<1>1. Got \subseteq Got' /\ excused \subseteq excused'
  BY HistoryGrows DEF Got
<1>2. ASSUME NEW l \in Loops, pc[l] = "hand"
      PROVE  <<adapter[l].run, hand[l]>> \in Accounted'
  <2>1. CASE Ingest(l)
    <3>1. <<adapter[l].run, hand[l]>> \in got'[l]
      BY <2>1 DEF Ingest, TypeOK
    <3>2. QED BY <3>1 DEF Accounted, Got
  <2>2. CASE Exit \/ Crash
    <3>1. <<adapter[l].run, hand[l]>> \in Unsaid(l)
      BY <1>2 DEF Unsaid
    <3>2. excused' = excused \cup UNION {Unsaid(k) : k \in Loops}
      BY <2>2 DEF Exit, Crash, NewProcess
    <3>3. <<adapter[l].run, hand[l]>> \in excused'
      BY <3>1, <3>2
    <3>4. QED BY <3>3 DEF Accounted
  <2>3. CASE pc'[l] = "hand" /\ hand'[l] = hand[l] /\ adapter'[l].run = adapter[l].run
    <3>1. <<adapter[l].run, hand[l]>> \in InHand'
      BY <2>3 DEF InHand
    <3>2. QED BY <3>1 DEF Accounted
  <2>4. QED BY <1>2, <2>1, <2>2, <2>3, HandKept
<1>3. InHand \subseteq Accounted'
  BY <1>2 DEF InHand
<1>4. QED BY <1>1, <1>3 DEF Accounted

-----------------------------------------------------------------------------
(* Types.                                                                  *)

\* The initial state.
LEMMA BaseInit ==
    ASSUME Init
    PROVE  TypeOK /\ BaseInv
<1>1. TypeOK
  <2>1. /\ gameRun \in Runs /\ seq \in [Runs -> 0..MaxSeq] /\ replayFirst \in BOOLEAN
        /\ cursors \in Cursor /\ file \in Cursor /\ current \in Loops
        /\ stopping \in BOOLEAN /\ abandoned \subseteq Loops
    BY Constants, Nothings DEF Init
  <2>2. /\ pc \in [Loops -> Places] /\ stop \in [Loops -> BOOLEAN] /\ ever \in [Loops -> BOOLEAN]
        /\ previous \in [Loops -> Cursor] /\ adapter \in [Loops -> Adapter]
    BY Nothings DEF Init, Places
  <2>3. /\ lastSeq \in [Loops -> 0..MaxSeq] /\ sincePersist \in [Loops -> 0..PersistEvery]
        /\ hand \in [Loops -> 0..MaxSeq] /\ base \in [Loops -> 0..MaxSeq]
        /\ got \in [Loops -> SUBSET Event] /\ excused \subseteq Event
    BY Constants DEF Init, Zero
  <2>4. pushed \in 0..MaxPush /\ faults \in 0..MaxFault /\ crashes \in 0..MaxCrash
    BY Constants DEF Init
  <2>5. QED BY <2>1, <2>2, <2>3, <2>4 DEF TypeOK
<1>2. NoAdapter.open = FALSE
  BY DEF NoAdapter
<1>3. \A l \in Loops : pc[l] \in {"top", "unborn"} /\ adapter[l] = NoAdapter /\ got[l] = {}
                       /\ lastSeq[l] = 0 /\ (l > current => pc[l] = "unborn")
  BY DEF Init, Zero
<1>4. ~stopping
  BY DEF Init
<1>5. \A l \in Loops : pc[l] \notin Attached /\ pc[l] # "hand"
  BY <1>3 DEF Attached
<1>6. QED BY <1>1, <1>2, <1>3, <1>4, <1>5 DEF BaseInv

\* The type of every variable (the declarations of session in daemon.go, of
\* cursorStore in cursor.go and of the stand-in server in fakemod.go).
THEOREM SessionTypes == Spec => []TypeOK
<1>1. Init => TypeOK /\ BaseInv
  BY BaseInit
<1>2. TypeOK /\ BaseInv /\ [Next]_vars => (TypeOK /\ BaseInv)'
  BY BaseStep
<1>3. QED BY <1>1, <1>2, PTL DEF Spec

-----------------------------------------------------------------------------
(* While no loop was given up, one loop serves the target.  The rest is    *)
(* about that loop.                                                        *)

OneLoop == \A l \in Loops : l # current => pc[l] \in {"unborn", "finished"}

\* The actions of a loop, its network included.
LoopStep(l) == Loop(l) \/ DialFails(l) \/ SendReplay(l) \/ Hangup(l)

\* Only the current loop acts.
LEMMA OnlyCurrent ==
    ASSUME TypeOK, BaseInv, OneLoop, NEW l \in Loops, LoopStep(l)
    PROVE  l = current
<1>1. CASE Loop(l) \/ DialFails(l)
  <2>1. pc[l] \notin {"unborn", "finished"}
    BY <1>1 DEF Loop, Begin, Dial, RecordRun, Announce, Take, Ingest, Disconnected, Leave, Wake,
                DialFails
  <2>2. QED BY <2>1 DEF OneLoop
<1>2. CASE SendReplay(l) \/ Hangup(l)
  <2>1. adapter[l].open /\ ~NoAdapter.open
    BY <1>2 DEF SendReplay, Hangup, NoAdapter
  <2>2. pc[l] \in Attached
    BY <2>1 DEF BaseInv
  <2>3. QED BY <2>2 DEF OneLoop, Attached
<1>3. QED BY <1>1, <1>2 DEF LoopStep

\* What a loop does concerns no other loop and no part of the daemon.
LEMMA LoopFrame ==
    ASSUME TypeOK, NEW l \in Loops, LoopStep(l)
    PROVE  /\ \A k \in Loops : k # l => pc'[k] = pc[k]
           /\ UNCHANGED <<serverVars, daemonVars>>
<1>0. pc \in [Loops -> Places]
  BY DEF TypeOK
<1>1. CASE Begin(l) \/ DialFails(l) \/ Dial(l) \/ RecordRun(l)
  BY <1>0, <1>1 DEF Begin, DialFails, Dial, RecordRun, Goto
<1>2. CASE Announce(l) \/ Take(l) \/ Ingest(l)
  BY <1>0, <1>2 DEF Announce, Take, Ingest, Goto
<1>3. CASE Disconnected(l) \/ Leave(l) \/ Wake(l)
  BY <1>0, <1>3 DEF Disconnected, Leave, Wake, Goto
<1>4. CASE SendReplay(l) \/ Hangup(l)
  BY <1>0, <1>4 DEF SendReplay, Hangup
<1>5. QED BY <1>1, <1>2, <1>3, <1>4 DEF LoopStep, Loop

\* A loop that was given up stays so, and no loop is given up that has ended.
LEMMA StillSole ==
    ASSUME TypeOK, BaseInv, [Next]_vars, abandoned' = {}
    PROVE  abandoned = {} /\ (Replace => pc[current] = "finished")
<1>1. CASE Replace
  BY <1>1 DEF Replace
<1>2. CASE \E l \in Loops : LoopStep(l)
  <2>1. abandoned' = abandoned /\ (Replace => stopping' # stopping)
    BY <1>2, LoopFrame DEF Replace
  <2>2. ~Replace
    BY <1>2, <2>1, LoopFrame
  <2>3. QED BY <2>1, <2>2
<1>3. CASE ~Replace /\ (StopLoop \/ Exit \/ Crash \/ Push \/ GameRestart \/ UNCHANGED vars)
  BY <1>3 DEF StopLoop, Exit, Crash, NewProcess, Push, GameRestart, vars
<1>4. QED BY <1>1, <1>2, <1>3 DEF Next, LoopStep

\* One loop stays one.
LEMMA OneLoopStep ==
    ASSUME TypeOK, BaseInv, OneLoop, [Next]_vars, abandoned' = {}
    PROVE  OneLoop'
<1>0. pc \in [Loops -> Places] /\ current \in 1..MaxLoop
  BY DEF TypeOK, Loops
<1>1. CASE \E l \in Loops : LoopStep(l)
  BY <1>1, OnlyCurrent, LoopFrame DEF OneLoop
<1>2. CASE StopLoop \/ Push \/ GameRestart \/ UNCHANGED vars
  <2>1. pc' = pc /\ current' = current
    BY <1>2 DEF StopLoop, Push, GameRestart, vars
  <2>2. QED BY <2>1 DEF OneLoop
<1>3. CASE Replace
  <2>1. pc[current] = "finished"
    BY <1>3, StillSole
  <2>2. current' = current + 1 /\ pc' = [pc EXCEPT ![current + 1] = "top"]
    BY <1>3 DEF Replace, Goto
  <2>3. QED BY <1>0, <2>1, <2>2 DEF OneLoop
<1>4. CASE Exit \/ Crash
  <2>1. /\ current' = current + 1
        /\ pc' = [l \in Loops |-> IF l <= current THEN "finished"
                                  ELSE IF l = current + 1 THEN "top" ELSE "unborn"]
    BY <1>4 DEF Exit, Crash, NewProcess
  <2>2. QED BY <2>1 DEF OneLoop
<1>5. QED BY <1>1, <1>2, <1>3, <1>4 DEF Next, LoopStep

-----------------------------------------------------------------------------
(* The two streams of one adapter, live events and replay.                 *)

\* No event is in them twice.
NoRepeat(events, replay) ==
    /\ \A i, j \in 1..Len(events) : events[i] = events[j] => i = j
    /\ \A i, j \in 1..Len(replay) : replay[i] = replay[j] => i = j
    /\ \A i \in 1..Len(events), j \in 1..Len(replay) : events[i] # replay[j]

Absent(n, s) == \A i \in 1..Len(s) : s[i] # n

\* A sequence whose elements are in a smaller set is a sequence over it.
LEMMA Narrowed ==
    ASSUME NEW S, NEW T, NEW s \in Seq(S), \A i \in 1..Len(s) : s[i] \in T
    PROVE  s \in Seq(T)
OBVIOUS

\* Without its first event the stream has that event no more.
LEMMA NoRepeatTail ==
    ASSUME NEW S, NEW events \in Seq(S), NEW replay \in Seq(S), NoRepeat(events, replay),
           events # <<>>
    PROVE  /\ NoRepeat(Tail(events), replay)
           /\ Absent(Head(events), Tail(events)) /\ Absent(Head(events), replay)
           /\ \A n : Absent(n, events) => Absent(n, Tail(events))
<1> DEFINE t == Tail(events)
           h == Head(events)
<1>1. /\ Len(events) \in Nat /\ Len(events) >= 1 /\ Len(t) = Len(events) - 1 /\ h = events[1]
      /\ \A i \in 1..Len(t) : t[i] = events[i + 1]
  BY HeadAndTail
<1> HIDE DEF t, h
<1>2. NoRepeat(t, replay)
  <2>1. ASSUME NEW i \in 1..Len(t), NEW j \in 1..Len(t), t[i] = t[j] PROVE i = j
    <3>1. i + 1 \in 1..Len(events) /\ j + 1 \in 1..Len(events) /\ events[i + 1] = events[j + 1]
      BY <1>1, <2>1
    <3>2. i + 1 = j + 1
      BY <3>1 DEF NoRepeat
    <3>3. QED BY <1>1, <3>2
  <2>2. ASSUME NEW i \in 1..Len(t), NEW j \in 1..Len(replay) PROVE t[i] # replay[j]
    <3>1. i + 1 \in 1..Len(events) /\ t[i] = events[i + 1]
      BY <1>1
    <3>2. QED BY <3>1 DEF NoRepeat
  <2>3. \A i, j \in 1..Len(replay) : replay[i] = replay[j] => i = j
    BY DEF NoRepeat
  <2>4. QED BY <2>1, <2>2, <2>3 DEF NoRepeat
<1>3. Absent(h, t) /\ Absent(h, replay)
  BY <1>1 DEF NoRepeat, Absent
<1>4. \A n : Absent(n, events) => Absent(n, t)
  BY <1>1 DEF Absent
<1>5. QED BY <1>2, <1>3, <1>4 DEF t, h

\* An event that is not in them is added.
LEMMA NoRepeatAppend ==
    ASSUME NEW S, NEW events \in Seq(S), NEW replay \in Seq(S), NoRepeat(events, replay),
           NEW n \in S, Absent(n, events), Absent(n, replay)
    PROVE  /\ NoRepeat(Append(events, n), replay)
           /\ \A m : Absent(m, events) /\ m # n => Absent(m, Append(events, n))
<1> DEFINE a == Append(events, n)
<1>1. /\ Len(events) \in Nat /\ Len(a) = Len(events) + 1 /\ a[Len(events) + 1] = n
      /\ \A i \in 1..Len(events) : a[i] = events[i]
  BY HeadAndTail
<1> HIDE DEF a
<1>2. NoRepeat(a, replay)
  <2>1. \A i \in 1..Len(a) : i \in 1..Len(events) \/ (i = Len(events) + 1 /\ a[i] = n)
    BY <1>1
  <2>2. ASSUME NEW i \in 1..Len(a), NEW j \in 1..Len(a), a[i] = a[j] PROVE i = j
    <3>1. CASE i \in 1..Len(events) /\ j \in 1..Len(events)
      BY <1>1, <2>2, <3>1 DEF NoRepeat
    <3>2. CASE i \in 1..Len(events) /\ j = Len(events) + 1
      BY <1>1, <2>2, <3>2 DEF Absent
    <3>3. CASE i = Len(events) + 1 /\ j \in 1..Len(events)
      BY <1>1, <2>2, <3>3 DEF Absent
    <3>4. QED BY <2>1, <3>1, <3>2, <3>3
  <2>3. ASSUME NEW i \in 1..Len(a), NEW j \in 1..Len(replay) PROVE a[i] # replay[j]
    BY <1>1, <2>1 DEF NoRepeat, Absent
  <2>4. \A i, j \in 1..Len(replay) : replay[i] = replay[j] => i = j
    BY DEF NoRepeat
  <2>5. QED BY <2>2, <2>3, <2>4 DEF NoRepeat
<1>3. \A m : Absent(m, events) /\ m # n => Absent(m, a)
  BY <1>1 DEF Absent
<1>4. QED BY <1>2, <1>3 DEF a

\* The next event of the replay joins the live ones.
LEMMA NoRepeatMove ==
    ASSUME NEW S, NEW events \in Seq(S), NEW replay \in Seq(S), NoRepeat(events, replay),
           replay # <<>>
    PROVE  /\ NoRepeat(Append(events, Head(replay)), Tail(replay))
           /\ \A m : Absent(m, events) /\ Absent(m, replay) =>
                 Absent(m, Append(events, Head(replay))) /\ Absent(m, Tail(replay))
<1> DEFINE t == Tail(replay)
           h == Head(replay)
           a == Append(events, h)
<1>1. /\ Len(replay) \in Nat /\ Len(replay) >= 1 /\ Len(t) = Len(replay) - 1 /\ h = replay[1]
      /\ h \in S /\ \A i \in 1..Len(t) : t[i] = replay[i + 1]
  BY HeadAndTail
<1> HIDE DEF t, h
<1>2. /\ Len(events) \in Nat /\ Len(a) = Len(events) + 1 /\ a[Len(events) + 1] = h
      /\ \A i \in 1..Len(events) : a[i] = events[i]
  BY <1>1, HeadAndTail
<1> HIDE DEF a
<1>3. \A i \in 1..Len(a) : i \in 1..Len(events) \/ (i = Len(events) + 1 /\ a[i] = replay[1])
  BY <1>1, <1>2
<1>4. \A i \in 1..Len(t) : i + 1 \in 1..Len(replay) /\ i + 1 # 1 /\ t[i] = replay[i + 1]
  BY <1>1
<1>5. 1 \in 1..Len(replay)
  BY <1>1
<1>5a. ASSUME NEW i \in 1..Len(a), NEW j \in 1..Len(a), a[i] = a[j] PROVE i = j
  <2>1. CASE i \in 1..Len(events) /\ j \in 1..Len(events)
    BY <1>2, <1>5a, <2>1 DEF NoRepeat
  <2>2. CASE i \in 1..Len(events) /\ j = Len(events) + 1
    BY <1>2, <1>3, <1>5, <1>5a, <2>2 DEF NoRepeat
  <2>3. CASE i = Len(events) + 1 /\ j \in 1..Len(events)
    BY <1>2, <1>3, <1>5, <1>5a, <2>3 DEF NoRepeat
  <2>4. QED BY <1>3, <2>1, <2>2, <2>3
<1>5b. ASSUME NEW i \in 1..Len(t), NEW j \in 1..Len(t), t[i] = t[j] PROVE i = j
  <2>1. i + 1 = j + 1
    BY <1>4, <1>5b DEF NoRepeat
  <2>2. QED BY <1>1, <2>1
<1>5c. ASSUME NEW i \in 1..Len(a), NEW j \in 1..Len(t) PROVE a[i] # t[j]
  <2>1. CASE i \in 1..Len(events)
    BY <1>2, <1>4, <2>1 DEF NoRepeat
  <2>2. CASE i = Len(events) + 1
    BY <1>3, <1>4, <1>5, <2>2 DEF NoRepeat
  <2>3. QED BY <1>3, <2>1, <2>2
<1>6. \A m : Absent(m, events) /\ Absent(m, replay) => Absent(m, a) /\ Absent(m, t)
  <2> SUFFICES ASSUME NEW m, Absent(m, events), Absent(m, replay)
               PROVE  Absent(m, a) /\ Absent(m, t)
    OBVIOUS
  <2>1. Absent(m, a)
    BY <1>2, <1>3, <1>5 DEF Absent
  <2>2. Absent(m, t)
    BY <1>4 DEF Absent
  <2>3. QED BY <2>1, <2>2
<1>7. NoRepeat(a, t)
  BY <1>5a, <1>5b, <1>5c DEF NoRepeat
<1>8. QED BY <1>6, <1>7 DEF a, t, h

\* A closed adapter has no replay left.
LEMMA NoRepeatClosed ==
    ASSUME NEW events, NEW replay, NoRepeat(events, replay)
    PROVE  NoRepeat(events, <<>>) /\ \A n : Absent(n, <<>>)
BY DEF NoRepeat, Absent

-----------------------------------------------------------------------------
(* The cursors and the loop.                                               *)

\* A cursor of a run there has been goes no further than the run did.
Known(c, game, newest) ==
    /\ c.run <= game
    /\ c.run = NoRun => c.lastSeq = 0
    /\ c.run # NoRun => c.lastSeq <= newest[c.run]

\* The stored cursors are true; before it has recorded its run the loop is not
\* ahead of the cursor in memory, and after that they are of the same run.
CursorInv ==
    /\ Known(cursors, gameRun, seq) /\ Known(file, gameRun, seq)
    /\ pc[current] \in {"top", "dialing", "attached", "sleeping"} =>
          lastSeq[current] <= cursors.lastSeq
    /\ pc[current] \in {"dialing", "attached"} => previous[current] = cursors
    /\ pc[current] = "attached" => cursors.run <= adapter[current].run
    /\ pc[current] \in {"recorded", "live", "hand"} =>
          /\ cursors.run = adapter[current].run
          /\ lastSeq[current] <= seq[adapter[current].run]

\* The events of the run that the loop has not passed on.
NotPassed == {n \in 1..seq[adapter[current].run] : <<adapter[current].run, n>> \notin got[current]}

\* Every event on its way is one of these, and on its way or in hand once.
StreamInv == pc[current] \in Attached =>
    /\ adapter[current].events \in Seq(NotPassed) /\ adapter[current].replay \in Seq(NotPassed)
    /\ NoRepeat(adapter[current].events, adapter[current].replay)
    /\ pc[current] = "hand" =>
          /\ hand[current] \in NotPassed /\ hand[current] <= lastSeq[current]
          /\ Absent(hand[current], adapter[current].events)
          /\ Absent(hand[current], adapter[current].replay)

\* What the loop has passed on is of a run before the cursor's, or of that run
\* and not ahead of the loop.
GotInv ==
    /\ \A e \in got[current] :
          /\ e[2] <= seq[e[1]]
          /\ e[1] < cursors.run \/ (e[1] = cursors.run /\ e[2] <= lastSeq[current])
    /\ pc[current] \in {"live", "hand"} \/ got[current] # {} => ever[current]

SoleInv == OneLoop /\ CursorInv /\ StreamInv /\ GotInv

\* The game and its streams only go on.
LEMMA ServerGrows ==
    ASSUME TypeOK, [Next]_vars
    PROVE  /\ gameRun <= gameRun' /\ \A r \in Runs : seq[r] <= seq'[r]
           /\ replayFirst' = replayFirst
<1>0. gameRun \in Nat /\ seq \in [Runs -> 0..MaxSeq]
  BY Constants DEF TypeOK, Runs
<1>1. CASE \E l \in Loops : LoopStep(l)
  BY <1>0, <1>1, Constants, LoopFrame
<1>2. CASE StopLoop \/ Replace \/ Exit \/ Crash \/ UNCHANGED vars
  <2>1. UNCHANGED serverVars
    BY <1>2 DEF StopLoop, Replace, Exit, Crash, NewProcess, vars
  <2>2. QED BY <1>0, <2>1, Constants
<1>3. CASE Push
  <2>1. UNCHANGED <<gameRun, replayFirst>>
    BY <1>3 DEF Push
  <2>2. QED BY <1>0, <1>3, <2>1, PushAdapter, Constants, SMTT(30)
<1>4. CASE GameRestart
  BY <1>0, <1>4, Constants DEF GameRestart
<1>5. QED BY <1>1, <1>2, <1>3, <1>4 DEF Next, LoopStep

\* A true cursor stays true.
LEMMA KnownStays ==
    ASSUME NEW game \in Nat, NEW newest \in [Runs -> 0..MaxSeq],
           NEW game2 \in Nat, NEW newest2 \in [Runs -> 0..MaxSeq],
           game <= game2, \A r \in Runs : newest[r] <= newest2[r],
           NEW c \in Cursor, Known(c, game, newest)
    PROVE  Known(c, game2, newest2)
<1>1. c.run \in Nat /\ c.lastSeq \in Nat /\ (c.run # NoRun => c.run \in Runs)
  BY Constants DEF Cursor, Runs, NoRun
<1>2. c.run <= game2
  BY <1>1 DEF Known
<1>3. ASSUME c.run # NoRun PROVE c.lastSeq <= newest2[c.run]
  <2>1. c.lastSeq <= newest[c.run] /\ newest[c.run] <= newest2[c.run]
    BY <1>1, <1>3 DEF Known
  <2>2. newest[c.run] \in Nat /\ newest2[c.run] \in Nat
    BY <1>1, <1>3, Constants
  <2>3. QED BY <1>1, <2>1, <2>2
<1>4. QED BY <1>2, <1>3 DEF Known

\* What a step does not touch: the steps of the server, of the network and of
\* a stop, as the loop sees them.
Quiet ==
    \/ SendReplay(current) \/ Hangup(current) \/ StopLoop \/ Push \/ GameRestart
    \/ UNCHANGED vars

\* They leave the loop and the cursors where they are.
LEMMA QuietFrame ==
    ASSUME TypeOK, Quiet
    PROVE  /\ UNCHANGED <<pc, current, cursors, file, lastSeq, previous, got, hand, ever, base,
                          excused, replayFirst>>
           /\ adapter'[current].run = adapter[current].run
           /\ adapter'[current].lost = adapter[current].lost
           /\ adapter'[current].oldest = adapter[current].oldest
<1>1. UNCHANGED <<pc, current, cursors, file, lastSeq, previous, got, hand, ever, base, excused,
                  replayFirst>>
  BY DEF Quiet, SendReplay, Hangup, StopLoop, Push, GameRestart, vars
<1>2. current \in Loops /\ adapter[current] \in Adapter
  BY DEF TypeOK
<1>3. /\ HangUp(adapter[current]).run = adapter[current].run
      /\ HangUp(adapter[current]).lost = adapter[current].lost
      /\ HangUp(adapter[current]).oldest = adapter[current].oldest
  BY <1>2, HungUp
<1>4. CASE SendReplay(current)
  BY <1>1, <1>2, <1>4, SendReplayAdapter
<1>5. CASE Hangup(current) \/ StopLoop
  BY <1>1, <1>2, <1>3, <1>5, ClosedAdapter
<1>6. CASE Push
  BY <1>1, <1>2, <1>6, PushAdapter
<1>7. CASE GameRestart
  BY <1>1, <1>2, <1>3, <1>7, RestartAdapter
<1>8. CASE UNCHANGED vars
  BY <1>1, <1>8 DEF vars
<1>9. QED BY <1>1, <1>4, <1>5, <1>6, <1>7, <1>8 DEF Quiet

\* Every step is quiet, one of the current loop, or one that begins a new loop.
LEMMA StepKinds ==
    ASSUME TypeOK, BaseInv, OneLoop, [Next]_vars
    PROVE  Quiet \/ Loop(current) \/ DialFails(current) \/ Replace \/ Exit \/ Crash
<1>1. CASE \E l \in Loops : LoopStep(l)
  BY <1>1, OnlyCurrent DEF LoopStep, Quiet
<1>2. CASE ~\E l \in Loops : LoopStep(l)
  BY <1>2 DEF Quiet, Next, LoopStep
<1>3. QED BY <1>1, <1>2

\* The types of what the loop and its adapter hold.
LEMMA CurrentTypes ==
    ASSUME TypeOK
    PROVE  /\ current \in Loops /\ adapter[current] \in Adapter /\ previous[current] \in Cursor
           /\ cursors \in Cursor /\ file \in Cursor
           /\ cursors.run \in Nat /\ cursors.lastSeq \in 0..MaxSeq
           /\ file.run \in Nat /\ file.lastSeq \in 0..MaxSeq
           /\ cursors.run # NoRun => cursors.run \in Runs
           /\ lastSeq[current] \in 0..MaxSeq /\ hand[current] \in 0..MaxSeq
           /\ base[current] \in 0..MaxSeq
           /\ adapter[current].run \in Nat
           /\ adapter[current].run # NoRun => adapter[current].run \in Runs
           /\ adapter[current].events \in Seq(1..MaxSeq)
           /\ adapter[current].replay \in Seq(1..MaxSeq)
           /\ adapter[current].oldest \in 1..MaxSeq + 1
           /\ gameRun \in Nat /\ gameRun \in Runs
           /\ \A r \in Runs : seq[r] \in 0..MaxSeq /\ r \in Nat /\ r # NoRun
           /\ got[current] \subseteq Event
<1>1. /\ current \in Loops /\ adapter[current] \in Adapter /\ previous[current] \in Cursor
      /\ cursors \in Cursor /\ file \in Cursor
      /\ lastSeq[current] \in 0..MaxSeq /\ hand[current] \in 0..MaxSeq
      /\ base[current] \in 0..MaxSeq /\ gameRun \in Runs
      /\ got[current] \subseteq Event /\ \A r \in Runs : seq[r] \in 0..MaxSeq
  BY DEF TypeOK
<1>2. \A r \in Runs : r \in Nat /\ r # NoRun
  BY Constants DEF Runs, NoRun
<1>3. /\ cursors.run \in {NoRun} \cup Runs /\ cursors.lastSeq \in 0..MaxSeq
      /\ file.run \in {NoRun} \cup Runs /\ file.lastSeq \in 0..MaxSeq
  BY <1>1 DEF Cursor
<1>4. /\ adapter[current].run \in {NoRun} \cup Runs
      /\ adapter[current].events \in Seq(1..MaxSeq) /\ adapter[current].replay \in Seq(1..MaxSeq)
      /\ adapter[current].oldest \in 1..MaxSeq + 1
  BY <1>1 DEF Adapter
<1>5. NoRun \in Nat
  BY DEF NoRun
<1>6. QED BY <1>1, <1>2, <1>3, <1>4, <1>5

\* The cursors stay true, whatever a step makes of them.
LEMMA KnownStep ==
    ASSUME TypeOK, BaseInv, [Next]_vars, NEW c \in Cursor, Known(c, gameRun, seq)
    PROVE  Known(c, gameRun', seq')
<1>1. gameRun \in Nat /\ seq \in [Runs -> 0..MaxSeq]
  BY Constants DEF TypeOK, Runs
<1>2. gameRun' \in Nat /\ seq' \in [Runs -> 0..MaxSeq]
  <2>1. TypeOK'
    BY BaseStep
  <2>2. gameRun' \in Runs /\ seq' \in [Runs -> 0..MaxSeq]
    BY <2>1 DEF TypeOK
  <2>3. QED BY <2>2, CurrentTypes
<1>3. gameRun <= gameRun' /\ \A r \in Runs : seq[r] <= seq'[r]
  BY ServerGrows
<1>4. QED BY <1>1, <1>2, <1>3, KnownStays

\* Quiet steps keep what is known about the cursors.
LEMMA CursorQuiet ==
    ASSUME TypeOK, BaseInv, CursorInv, [Next]_vars, Quiet
    PROVE  CursorInv'
<1>1. /\ UNCHANGED <<pc, current, cursors, file, lastSeq, previous>>
      /\ adapter'[current].run = adapter[current].run
  BY QuietFrame
<1>2. Known(cursors, gameRun', seq') /\ Known(file, gameRun', seq')
  BY KnownStep DEF CursorInv, TypeOK
<1>3. pc[current] \in {"recorded", "live", "hand"} =>
         lastSeq[current] <= seq'[adapter[current].run]
  <2> SUFFICES ASSUME pc[current] \in {"recorded", "live", "hand"}
               PROVE  lastSeq[current] <= seq'[adapter[current].run]
    OBVIOUS
  <2>1. adapter[current].run \in Runs
    <3>1. adapter[current].run \in 1..gameRun
      BY CurrentTypes DEF BaseInv, Attached
    <3>2. QED BY <3>1, CurrentTypes DEF NoRun
  <2>2. seq[adapter[current].run] <= seq'[adapter[current].run]
    BY <2>1, ServerGrows
  <2>3. seq'[adapter[current].run] \in Nat
    BY <2>1, BaseStep, Constants DEF TypeOK
  <2>4. lastSeq[current] <= seq[adapter[current].run]
    BY DEF CursorInv
  <2>5. lastSeq[current] \in Nat /\ seq[adapter[current].run] \in Nat
    BY <2>1, CurrentTypes, Constants, SMTT(30)
  <2>6. QED BY <2>2, <2>3, <2>4, <2>5
<1>4. QED BY <1>1, <1>2, <1>3 DEF CursorInv

\* The loop comes to its adapter.
LEMMA CursorAttach ==
    ASSUME TypeOK, BaseInv, CursorInv, [Next]_vars,
           \/ Begin(current) \/ DialFails(current) \/ Wake(current) \/ Dial(current)
           \/ RecordRun(current) \/ Announce(current)
    PROVE  CursorInv'
<1>0. pc \in [Loops -> Places] /\ current \in Loops /\ previous \in [Loops -> Cursor]
  BY DEF TypeOK
<1>1. Known(cursors, gameRun', seq') /\ Known(file, gameRun', seq')
  BY KnownStep DEF CursorInv, TypeOK
<1>2. CASE Begin(current)
  <2>1. /\ UNCHANGED <<current, cursors, file, lastSeq, adapter, seq>>
        /\ pc[current] = "top"
        /\ \/ pc'[current] = "finished"
           \/ pc'[current] = "dialing" /\ previous'[current] = cursors
    BY <1>0, <1>2 DEF Begin, Goto
  <2>2. QED BY <1>1, <2>1 DEF CursorInv
<1>3. CASE DialFails(current)
  <2>1. /\ UNCHANGED <<current, cursors, file, lastSeq, adapter, seq>>
        /\ pc[current] \in {"top", "dialing"} /\ pc'[current] = "sleeping"
    BY <1>0, <1>3 DEF DialFails, Goto
  <2>2. QED BY <1>1, <2>1 DEF CursorInv
<1>4. CASE Wake(current)
  <2>1. /\ UNCHANGED <<current, cursors, file, lastSeq, adapter, seq>>
        /\ pc[current] = "sleeping" /\ pc'[current] \in {"top", "finished"}
    BY <1>0, <1>4 DEF Wake, Goto
  <2>2. QED BY <1>1, <2>1 DEF CursorInv
<1>5. CASE Dial(current)
  <2>1. /\ UNCHANGED <<current, cursors, file, lastSeq, previous, seq>>
        /\ pc[current] = "dialing" /\ pc'[current] = "attached"
    BY <1>0, <1>5 DEF Dial, Goto
  <2>2. adapter'[current].run = gameRun /\ cursors.run <= gameRun
    BY <1>0, <1>5, DialAdapter DEF CursorInv, Known
  <2>3. QED BY <1>1, <2>1, <2>2 DEF CursorInv
<1>6. CASE RecordRun(current)
  <2> DEFINE last == IF SameRun(current) THEN lastSeq[current] ELSE 0
             c == [run |-> adapter[current].run, lastSeq |-> last]
  <2>1. /\ UNCHANGED <<current, adapter, seq, gameRun>>
        /\ pc[current] = "attached" /\ pc'[current] = "recorded"
        /\ lastSeq' = [lastSeq EXCEPT ![current] = last]
        /\ cursors' = c /\ file' \in {file, c}
    BY <1>0, <1>6 DEF RecordRun, Goto, Store
  <2>2. previous[current] = cursors
    BY <2>1 DEF CursorInv
  <2>3. adapter[current].run \in Runs /\ adapter[current].run <= gameRun
    <3>1. adapter[current].run \in 1..gameRun
      BY <1>0, <2>1 DEF BaseInv, Attached
    <3>2. QED BY <3>1, CurrentTypes DEF NoRun
  <2>4. last \in Nat /\ last <= seq[adapter[current].run]
    <3>1. CASE SameRun(current)
      <4>1. cursors.run = adapter[current].run /\ cursors.run # NoRun
        BY <2>2, <2>3, <3>1, CurrentTypes DEF SameRun
      <4>2. lastSeq[current] <= cursors.lastSeq /\ cursors.lastSeq <= seq[cursors.run]
        BY <2>1, <4>1 DEF CursorInv, Known
      <4>3. seq[adapter[current].run] \in Nat
        BY <2>3, CurrentTypes, Constants
      <4>4. QED BY <3>1, <4>1, <4>2, <4>3, CurrentTypes, Constants, SMTT(30)
    <3>2. CASE ~SameRun(current)
      BY <2>3, <3>2, CurrentTypes, Constants
    <3>3. QED BY <3>1, <3>2
  <2> HIDE DEF last
  <2>5. Known(c, gameRun, seq)
    BY <2>3, <2>4, CurrentTypes DEF Known
  <2>6. lastSeq'[current] = last
    BY <1>0, <2>1 DEF TypeOK
  <2>7. cursors'.run = adapter[current].run
    BY <2>1
  <2> HIDE DEF c
  <2>8. Known(cursors', gameRun', seq') /\ Known(file', gameRun', seq')
    BY <2>1, <2>5 DEF CursorInv
  <2>9. QED BY <2>1, <2>4, <2>6, <2>7, <2>8 DEF CursorInv
<1>7. CASE Announce(current)
  <2>1. /\ UNCHANGED <<current, cursors, file, lastSeq, seq>>
        /\ pc[current] = "recorded" /\ pc'[current] = "live"
    BY <1>0, <1>7 DEF Announce, Goto
  <2>2. adapter'[current].run = adapter[current].run
    BY <1>0, <1>7, AnnounceAdapter
  <2>3. QED BY <1>1, <2>1, <2>2 DEF CursorInv
<1>8. QED BY <1>2, <1>3, <1>4, <1>5, <1>6, <1>7

\* The loop has an adapter, and gives it up.
LEMMA CursorLive ==
    ASSUME TypeOK, BaseInv, CursorInv, StreamInv, [Next]_vars,
           Take(current) \/ Ingest(current) \/ Disconnected(current) \/ Leave(current)
    PROVE  CursorInv'
<1>0. pc \in [Loops -> Places] /\ current \in Loops /\ lastSeq \in [Loops -> 0..MaxSeq]
  BY DEF TypeOK
<1>1. Known(cursors, gameRun', seq') /\ Known(file, gameRun', seq')
  BY KnownStep DEF CursorInv, TypeOK
<1>2. /\ pc[current] \in {"live", "hand"} /\ cursors.run = adapter[current].run
      /\ lastSeq[current] <= seq[adapter[current].run]
      /\ UNCHANGED <<current, gameRun, seq>>
  BY DEF Take, Ingest, Disconnected, Leave, CursorInv
<1>3. adapter[current].run \in Runs /\ adapter[current].run <= gameRun
  <2>1. adapter[current].run \in 1..gameRun
    BY <1>0, <1>2 DEF BaseInv, Attached
  <2>2. QED BY <2>1, CurrentTypes DEF NoRun
<1>4. CASE Ingest(current)
  <2>1. /\ UNCHANGED <<cursors, file, lastSeq, adapter>> /\ pc'[current] = "live"
    BY <1>0, <1>4 DEF Ingest, Goto
  <2>2. QED BY <1>1, <1>2, <2>1 DEF CursorInv
<1>5. CASE Leave(current)
  <2>1. /\ UNCHANGED <<cursors, file, lastSeq>> /\ pc'[current] = "finished"
    BY <1>0, <1>5 DEF Leave, Goto
  <2>2. QED BY <1>1, <1>2, <2>1 DEF CursorInv
<1>6. CASE Disconnected(current)
  <2> DEFINE c == [run |-> adapter[current].run, lastSeq |-> lastSeq[current]]
  <2>1. /\ UNCHANGED <<lastSeq>> /\ pc'[current] = "sleeping"
        /\ cursors' = c /\ file' \in {file, c}
    BY <1>0, <1>6 DEF Disconnected, Goto, Store
  <2>2. Known(c, gameRun, seq)
    BY <1>2, <1>3, CurrentTypes DEF Known
  <2>3. cursors'.lastSeq = lastSeq[current]
    BY <2>1
  <2> HIDE DEF c
  <2>4. Known(cursors', gameRun', seq') /\ Known(file', gameRun', seq')
    BY <1>1, <1>2, <2>1, <2>2
  <2>5. lastSeq'[current'] <= cursors'.lastSeq
    BY <1>2, <2>1, <2>3, CurrentTypes, Constants
  <2>6. QED BY <1>2, <2>1, <2>4, <2>5 DEF CursorInv
<1>7. CASE Take(current)
  <2> DEFINE s == Head(adapter[current].events)
             new == Newest(current, s)
             c == [run |-> adapter[current].run, lastSeq |-> new]
  <2>1. /\ pc'[current] = "hand" /\ lastSeq' = [lastSeq EXCEPT ![current] = new]
        /\ (cursors' = c /\ file' \in {file, c}) \/ UNCHANGED storeVars
    BY <1>0, <1>7 DEF Take, Goto, Store
  <2>2. s \in NotPassed /\ adapter'[current].run = adapter[current].run
    <3>1. adapter[current].events \in Seq(NotPassed) /\ adapter[current].events # <<>>
      BY <1>2, <1>7 DEF StreamInv, Attached, Take
    <3>2. s \in NotPassed
      BY <3>1, HeadAndTail
    <3>3. QED BY <1>0, <1>7, <3>2, TakeAdapter
  <2>3. s \in Nat /\ s <= seq[adapter[current].run]
    <3>1. s \in 1..seq[adapter[current].run]
      BY <2>2 DEF NotPassed
    <3>2. seq[adapter[current].run] \in Nat
      BY <1>3, CurrentTypes, Constants
    <3>3. QED BY <3>1, <3>2
  <2> HIDE DEF s
  <2>4. new \in Nat /\ new <= seq[adapter[current].run]
    BY <1>2, <2>3, CurrentTypes, Constants DEF Newest
  <2>5. new \in 0..MaxSeq
    BY <1>3, <2>4, CurrentTypes, Constants, SMTT(30)
  <2> HIDE DEF new
  <2>6. Known(c, gameRun, seq)
    BY <1>3, <2>4, CurrentTypes DEF Known
  <2>7. c.run = adapter[current].run
    OBVIOUS
  <2> HIDE DEF c
  <2>8. /\ Known(cursors', gameRun', seq') /\ Known(file', gameRun', seq')
        /\ cursors'.run = adapter[current].run
    BY <1>1, <1>2, <2>1, <2>6, <2>7
  <2>9. lastSeq'[current] = new
    BY <1>0, <2>1, <2>5
  <2>10. QED BY <1>2, <2>1, <2>2, <2>4, <2>8, <2>9 DEF CursorInv
<1>8. QED BY <1>4, <1>5, <1>6, <1>7

\* A new loop begins at the top, with nothing passed on; a cursor of a new
\* process is the one in the file.
LEMMA NewLoop ==
    ASSUME TypeOK, BaseInv, Replace \/ Exit \/ Crash
    PROVE  /\ current' = current + 1 /\ current' \in Loops
           /\ pc'[current'] = "top" /\ got'[current'] = {} /\ lastSeq'[current'] = 0
           /\ cursors' \in {cursors, file} /\ file' \in {cursors, file}
           /\ UNCHANGED <<serverVars, got>>
<1>1. current' = current + 1 /\ current < MaxLoop
  BY DEF Replace, Exit, Crash, NewProcess, BaseInv
<1>2. current \in 1..MaxLoop /\ MaxLoop \in Nat /\ pc \in [Loops -> Places]
  BY Constants DEF TypeOK, Loops
<1>3. current + 1 \in Loops /\ current + 1 > current
  BY <1>1, <1>2 DEF Loops
<1>4. got[current + 1] = {} /\ lastSeq[current + 1] = 0
  BY <1>3 DEF BaseInv
<1>5. CASE Replace
  BY <1>1, <1>2, <1>3, <1>4, <1>5 DEF Replace, Goto
<1>6. CASE Exit \/ Crash
  <2>1. /\ NewProcess /\ file' \in {cursors, file}
    BY <1>6 DEF Exit, Crash
  <2>2. /\ pc' = [l \in Loops |-> IF l <= current THEN "finished"
                                  ELSE IF l = current + 1 THEN "top" ELSE "unborn"]
        /\ lastSeq' = Zero /\ cursors' = file' /\ UNCHANGED <<serverVars, got>>
    BY <2>1 DEF NewProcess
  <2>3. pc'[current + 1] = "top"
    BY <1>2, <1>3, <2>2
  <2>4. lastSeq'[current + 1] = 0
    BY <1>3, <2>2 DEF Zero
  <2>5. QED BY <1>1, <1>3, <1>4, <2>1, <2>2, <2>3, <2>4
<1>7. QED BY <1>5, <1>6

\* It keeps what is known about the cursors, the streams and the events.
LEMMA SoleNew ==
    ASSUME TypeOK, BaseInv, CursorInv, [Next]_vars, Replace \/ Exit \/ Crash
    PROVE  CursorInv' /\ StreamInv' /\ GotInv'
<1>1. /\ pc'[current'] = "top" /\ got'[current'] = {} /\ lastSeq'[current'] = 0
      /\ cursors' \in {cursors, file} /\ file' \in {cursors, file}
      /\ UNCHANGED <<gameRun, seq>>
  BY NewLoop
<1>2. Known(cursors', gameRun', seq') /\ Known(file', gameRun', seq')
  BY <1>1 DEF CursorInv
<1>3. cursors'.lastSeq \in Nat
  BY <1>1, CurrentTypes, Constants
<1>4. CursorInv'
  BY <1>1, <1>2, <1>3 DEF CursorInv
<1>5. StreamInv'
  BY <1>1 DEF StreamInv, Attached
<1>6. GotInv'
  BY <1>1 DEF GotInv
<1>7. QED BY <1>4, <1>5, <1>6

-----------------------------------------------------------------------------
(* The streams.                                                            *)

\* An attached loop is attached to a run there has been.
LEMMA RunOfLoop ==
    ASSUME TypeOK, BaseInv, pc[current] \in Attached
    PROVE  /\ adapter[current].run \in Runs /\ adapter[current].run <= gameRun
           /\ seq[adapter[current].run] \in 0..MaxSeq
<1>1. adapter[current].run \in 1..gameRun
  BY CurrentTypes DEF BaseInv
<1>2. QED BY <1>1, CurrentTypes DEF NoRun

\* A sequence over a set is one over a larger set.
LEMMA Widened ==
    ASSUME NEW S, NEW T, S \subseteq T
    PROVE  Seq(S) \subseteq Seq(T)
OBVIOUS

\* The server's steps and the network's.
LEMMA StreamQuiet ==
    ASSUME TypeOK, BaseInv, StreamInv, GotInv, [Next]_vars, Quiet
    PROVE  StreamInv'
<1> SUFFICES ASSUME pc[current] \in Attached PROVE StreamInv'
  BY QuietFrame DEF StreamInv
<1> DEFINE a == adapter[current]
           b == adapter'[current]
<1>1. /\ UNCHANGED <<pc, current, lastSeq, got, hand>>
      /\ b.run = a.run
  BY QuietFrame
<1>2. a.run \in Runs /\ seq[a.run] \in 0..MaxSeq /\ MaxSeq \in Nat
  BY RunOfLoop, Constants
<1>3. seq'[a.run] \in 0..MaxSeq /\ seq[a.run] <= seq'[a.run]
  <2>1. TypeOK'
    BY BaseStep
  <2>2. QED BY <1>2, <2>1, ServerGrows DEF TypeOK
<1>4. NotPassed \subseteq NotPassed'
  <2>1. 1..seq[a.run] \subseteq 1..seq'[a.run]
    BY <1>2, <1>3
  <2>2. NotPassed' = {n \in 1..seq'[a.run] : <<a.run, n>> \notin got[current]}
    BY <1>1 DEF NotPassed
  <2>3. QED BY <2>1, <2>2 DEF NotPassed
<1>5. /\ a.events \in Seq(NotPassed) /\ a.replay \in Seq(NotPassed) /\ NoRepeat(a.events, a.replay)
      /\ pc[current] = "hand" =>
            /\ hand[current] \in NotPassed /\ hand[current] <= lastSeq[current]
            /\ Absent(hand[current], a.events) /\ Absent(hand[current], a.replay)
  BY DEF StreamInv
<1>6. Seq(NotPassed) \subseteq Seq(NotPassed')
  BY <1>4, Widened
<1>7. SUFFICES /\ b.events \in Seq(NotPassed') /\ b.replay \in Seq(NotPassed')
               /\ NoRepeat(b.events, b.replay)
               /\ pc[current] = "hand" =>
                     Absent(hand[current], b.events) /\ Absent(hand[current], b.replay)
  BY <1>1, <1>4, <1>5 DEF StreamInv
<1>8. <<>> \in Seq(NotPassed')
  OBVIOUS
<1>9. CASE SendReplay(current)
  <2>1. /\ a.replay # <<>> /\ b.replay = Tail(a.replay)
        /\ b.events = Append(a.events, Head(a.replay))
    BY <1>9, CurrentTypes, SendReplayAdapter
  <2>2. Head(a.replay) \in NotPassed /\ Tail(a.replay) \in Seq(NotPassed)
    BY <1>5, <2>1, HeadAndTail
  <2>3. Append(a.events, Head(a.replay)) \in Seq(NotPassed)
    BY <1>5, <2>2, HeadAndTail
  <2>4. /\ NoRepeat(b.events, b.replay)
        /\ \A m : Absent(m, a.events) /\ Absent(m, a.replay) =>
              Absent(m, b.events) /\ Absent(m, b.replay)
    BY <1>5, <2>1, NoRepeatMove
  <2>5. QED BY <1>5, <1>6, <2>1, <2>2, <2>3, <2>4
<1>10. CASE b.events = a.events /\ b.replay = a.replay
  BY <1>5, <1>6, <1>10
<1>11. CASE b.events = a.events /\ b.replay = <<>>
  BY <1>5, <1>6, <1>8, <1>11, NoRepeatClosed
<1>12. CASE Push /\ a.open
  <2>1. /\ b.replay = a.replay /\ b.events = Append(a.events, seq[gameRun] + 1)
        /\ a.run = gameRun /\ seq'[gameRun] = seq[gameRun] + 1 /\ seq'[gameRun] \in 1..MaxSeq
    BY <1>12, CurrentTypes, PushAdapter DEF BaseInv
  <2> DEFINE n == seq[gameRun] + 1
  <2>2. n \notin NotPassed
    <3>1. n \notin 1..seq[a.run]
      BY <1>2, <2>1
    <3>2. QED BY <3>1 DEF NotPassed
  <2>3. n \in NotPassed'
    <3>1. n \in 1..seq'[a.run]
      BY <1>2, <2>1
    <3>2. <<a.run, n>> \notin got[current]
      <4>1. ~(n <= seq[a.run])
        BY <1>2, <2>1
      <4>2. <<a.run, n>>[1] = a.run /\ <<a.run, n>>[2] = n
        OBVIOUS
      <4>3. QED BY <4>1, <4>2 DEF GotInv
    <3>3. QED BY <1>1, <3>1, <3>2 DEF NotPassed
  <2> HIDE DEF n
  <2>4. Absent(n, a.events) /\ Absent(n, a.replay)
    BY <1>5, <2>2, HeadAndTail DEF Absent
  <2>5. a.events \in Seq(NotPassed') /\ a.replay \in Seq(NotPassed')
    BY <1>5, <1>6
  <2>6. b.events = Append(a.events, n)
    BY <2>1 DEF n
  <2>7. NoRepeat(b.events, b.replay) /\ b.events \in Seq(NotPassed')
    BY <1>5, <2>1, <2>3, <2>4, <2>5, <2>6, NoRepeatAppend, HeadAndTail
  <2>8. ASSUME pc[current] = "hand" PROVE Absent(hand[current], b.events)
    <3>1. hand[current] # n /\ Absent(hand[current], a.events)
      BY <1>5, <2>2, <2>8
    <3>2. QED BY <1>5, <2>3, <2>4, <2>5, <2>6, <3>1, NoRepeatAppend
  <2>9. QED BY <1>5, <2>1, <2>5, <2>7, <2>8
<1>13. CASE Push /\ ~a.open
  <2>1. b = a
    BY <1>13, CurrentTypes, PushAdapter
  <2>2. QED BY <1>10, <2>1
<1>14. CASE Hangup(current) \/ StopLoop \/ GameRestart
  <2>1. b = HangUp(a)
    BY <1>14, CurrentTypes, ClosedAdapter, RestartAdapter
  <2>2. b.events = a.events /\ b.replay = <<>>
    BY <2>1, CurrentTypes, HungUp
  <2>3. QED BY <1>11, <2>2
<1>15. CASE UNCHANGED vars
  <2>1. b = a
    BY <1>1, <1>15 DEF vars
  <2>2. QED BY <1>10, <2>1
<1>16. QED BY <1>9, <1>12, <1>13, <1>14, <1>15 DEF Quiet

\* A loop that knows the run it finds is offered nothing it has passed on: the
\* replay begins behind the cursor, which the loop is not ahead of.
LEMMA ReplayIsNew ==
    ASSUME TypeOK, BaseInv, CursorInv, GotInv, pc[current] = "dialing"
    PROVE  /\ Replay(cursors) \in Seq({n \in 1..seq[gameRun] : <<gameRun, n>> \notin got[current]})
           /\ \A i, j \in 1..Len(Replay(cursors)) : Replay(cursors)[i] = Replay(cursors)[j] => i = j
<1> DEFINE r == Replay(cursors)
           from == ReplayFrom(cursors)
           last == seq[gameRun]
<1>1. /\ last \in 0..MaxSeq /\ from \in 1..MaxSeq + 1 /\ from <= last + 1
      /\ r = Sequence(from, last) /\ r \in Seq(1..MaxSeq)
  BY CurrentTypes, ServerAnswer
<1>2. /\ Len(r) = last - from + 1
      /\ \A i \in 1..(last - from + 1) : r[i] = from + i - 1
  BY <1>1, ReplaySequence
<1>3. ASSUME NEW n \in Nat, n >= from PROVE <<gameRun, n>> \notin got[current]
  <2> SUFFICES ASSUME <<gameRun, n>> \in got[current] PROVE FALSE
    OBVIOUS
  <2>1. <<gameRun, n>>[1] = gameRun /\ <<gameRun, n>>[2] = n
    OBVIOUS
  <2>2. gameRun < cursors.run \/ (gameRun = cursors.run /\ n <= lastSeq[current])
    BY <2>1 DEF GotInv
  <2>3. cursors.run = gameRun /\ n <= lastSeq[current] /\ lastSeq[current] <= cursors.lastSeq
    BY <2>2, CurrentTypes DEF CursorInv, Known
  <2>4. cursors.lastSeq <= seq[gameRun]
    BY <2>3, CurrentTypes DEF CursorInv, Known
  <2>5. From(cursors) = cursors.lastSeq
    BY <2>3, <2>4 DEF From, Usable
  <2>6. from >= cursors.lastSeq + 1
    <3>1. Oldest \in Nat /\ cursors.lastSeq \in Nat
      <4>1. Oldest \in 1..MaxSeq + 1 /\ cursors.lastSeq \in 0..MaxSeq
        BY CurrentTypes, ServerAnswer
      <4>2. QED BY <4>1, Constants
    <3>2. from = IF cursors.lastSeq < Oldest THEN Oldest ELSE cursors.lastSeq + 1
      BY <2>5 DEF ReplayFrom
    <3> HIDE DEF from
    <3>3. QED BY <3>1, <3>2
  <2>7. from \in Nat /\ cursors.lastSeq \in Nat /\ lastSeq[current] \in Nat
    <3>1. /\ from \in 1..MaxSeq + 1 /\ cursors.lastSeq \in 0..MaxSeq
          /\ lastSeq[current] \in 0..MaxSeq
      BY <1>1, CurrentTypes
    <3> HIDE DEF from
    <3>2. QED BY <3>1, Constants
  <2> HIDE DEF from
  <2>8. QED BY <1>3, <2>3, <2>6, <2>7
<1> DEFINE S == {n \in 1..last : <<gameRun, n>> \notin got[current]}
<1>4. \A i \in 1..Len(r) : r[i] \in S
  <2> SUFFICES ASSUME NEW i \in 1..Len(r) PROVE r[i] \in S
    OBVIOUS
  <2> HIDE DEF r, from, last
  <2>1. r[i] = from + i - 1 /\ r[i] \in 1..last /\ r[i] >= from /\ r[i] \in Nat
    BY <1>1, <1>2, Constants
  <2>2. QED BY <1>3, <2>1
<1>5. \A i, j \in 1..Len(r) : r[i] = r[j] => i = j
  <2> HIDE DEF r, from, last
  <2>1. QED BY <1>1, <1>2, Constants
<1> HIDE DEF r, S
<1>6. r \in Seq(S)
  BY <1>1, <1>4, Narrowed
<1>7. QED BY <1>5, <1>6 DEF r, S

\* The loop's steps without an event.
LEMMA StreamAttach ==
    ASSUME TypeOK, BaseInv, CursorInv, StreamInv, GotInv,
           \/ Begin(current) \/ DialFails(current) \/ Wake(current) \/ Disconnected(current)
           \/ Leave(current) \/ Dial(current) \/ RecordRun(current) \/ Announce(current)
    PROVE  StreamInv'
<1>0. pc \in [Loops -> Places] /\ current \in Loops
  BY DEF TypeOK
<1>1. CASE \/ Begin(current) \/ DialFails(current) \/ Wake(current) \/ Disconnected(current)
           \/ Leave(current)
  <2>1. pc'[current] \in {"finished", "dialing", "sleeping", "top"} /\ current' = current
    BY <1>0, <1>1 DEF Begin, DialFails, Wake, Disconnected, Leave, Goto
  <2>2. QED BY <2>1 DEF StreamInv, Attached
<1>2. CASE Dial(current)
  <2>1. /\ UNCHANGED <<current, seq, gameRun, got>> /\ pc[current] = "dialing"
        /\ pc'[current] = "attached" /\ previous[current] = cursors
    BY <1>0, <1>2 DEF Dial, Goto, CursorInv
  <2>2. /\ adapter'[current].run = gameRun
        /\ adapter'[current].replay = (IF replayFirst THEN <<>> ELSE Replay(cursors))
        /\ adapter'[current].events = (IF replayFirst THEN Replay(cursors) ELSE <<>>)
    BY <1>0, <1>2, <2>1, DialAdapter
  <2>3. NotPassed' = {n \in 1..seq[gameRun] : <<gameRun, n>> \notin got[current]}
    BY <2>1, <2>2 DEF NotPassed
  <2>4. /\ Replay(cursors) \in Seq(NotPassed') /\ <<>> \in Seq(NotPassed')
        /\ \A i, j \in 1..Len(Replay(cursors)) : Replay(cursors)[i] = Replay(cursors)[j] => i = j
    BY <2>1, <2>3, ReplayIsNew
  <2>5. NoRepeat(Replay(cursors), <<>>) /\ NoRepeat(<<>>, Replay(cursors))
    BY <2>4 DEF NoRepeat
  <2>6. QED BY <2>1, <2>2, <2>4, <2>5 DEF StreamInv
<1>3. CASE RecordRun(current) \/ Announce(current)
  <2>1. /\ UNCHANGED <<current, seq, got>> /\ pc[current] \in {"attached", "recorded"}
        /\ pc'[current] \in {"recorded", "live"}
    BY <1>0, <1>3 DEF RecordRun, Announce, Goto
  <2>2. /\ adapter'[current].run = adapter[current].run
        /\ adapter'[current].replay = adapter[current].replay
        /\ adapter'[current].events = adapter[current].events
    <3>1. CASE RecordRun(current)
      BY <3>1 DEF RecordRun
    <3>2. CASE Announce(current)
      BY <1>0, <3>2, AnnounceAdapter
    <3>3. QED BY <1>3, <3>1, <3>2
  <2>3. NotPassed' = NotPassed
    BY <2>1, <2>2 DEF NotPassed
  <2>4. pc[current] \in Attached /\ pc'[current] # "hand"
    BY <2>1 DEF Attached
  <2>5. QED BY <2>1, <2>2, <2>3, <2>4 DEF StreamInv
<1>4. QED BY <1>1, <1>2, <1>3

\* The loop takes an event in hand, and passes it on.
LEMMA StreamEvent ==
    ASSUME TypeOK, BaseInv, CursorInv, StreamInv, Take(current) \/ Ingest(current)
    PROVE  StreamInv'
<1> DEFINE a == adapter[current]
           b == adapter'[current]
<1>0. pc \in [Loops -> Places] /\ current \in Loops /\ hand \in [Loops -> 0..MaxSeq]
      /\ lastSeq \in [Loops -> 0..MaxSeq] /\ got \in [Loops -> SUBSET Event]
  BY DEF TypeOK
<1>1. /\ UNCHANGED <<current, seq>> /\ pc[current] \in {"live", "hand"}
      /\ pc[current] \in Attached
  BY DEF Take, Ingest, Attached
<1>2. a.events \in Seq(NotPassed) /\ a.replay \in Seq(NotPassed) /\ NoRepeat(a.events, a.replay)
  BY <1>1 DEF StreamInv
<1>3. CASE Take(current)
  <2> DEFINE s == Head(a.events)
  <2>1. /\ b.run = a.run /\ b.replay = a.replay /\ b.events = Tail(a.events) /\ a.events # <<>>
        /\ s \in 1..MaxSeq
    BY <1>0, <1>3, TakeAdapter
  <2>2. /\ hand' = [hand EXCEPT ![current] = s] /\ got' = got /\ pc'[current] = "hand"
        /\ lastSeq' = [lastSeq EXCEPT ![current] = Newest(current, s)]
    BY <1>0, <1>3 DEF Take, Goto
  <2>3. hand'[current] = s /\ lastSeq'[current] = Newest(current, s)
    BY <1>0, <2>1, <2>2
  <2>4. NotPassed' = NotPassed
    BY <1>1, <2>1, <2>2 DEF NotPassed
  <2>5. s \in NotPassed /\ Tail(a.events) \in Seq(NotPassed)
    BY <1>2, <2>1, HeadAndTail
  <2>6. NoRepeat(b.events, b.replay) /\ Absent(s, b.events) /\ Absent(s, b.replay)
    BY <1>2, <2>1, NoRepeatTail
  <2> HIDE DEF s
  <2>7. s <= Newest(current, s)
    BY <1>0, <2>1, Constants DEF Newest
  <2>8. QED BY <1>1, <1>2, <2>1, <2>2, <2>3, <2>4, <2>5, <2>6, <2>7 DEF StreamInv
<1>4. CASE Ingest(current)
  <2> DEFINE h == hand[current]
  <2>1. /\ pc[current] = "hand" /\ pc'[current] = "live" /\ adapter' = adapter
        /\ got'[current] = got[current] \cup {<<a.run, h>>}
    BY <1>0, <1>4 DEF Ingest, Goto
  <2>2. Absent(h, a.events) /\ Absent(h, a.replay)
    BY <1>1, <2>1 DEF StreamInv
  <2>3. \A n \in NotPassed : n # h => n \in NotPassed'
    <3> SUFFICES ASSUME NEW n \in NotPassed, n # h PROVE n \in NotPassed'
      OBVIOUS
    <3>1. n \in 1..seq[a.run] /\ <<a.run, n>> \notin got[current] /\ <<a.run, n>> # <<a.run, h>>
      BY DEF NotPassed
    <3>2. QED BY <1>1, <2>1, <3>1 DEF NotPassed
  <2>4. a.events \in Seq(NotPassed')
    <3>1. \A i \in 1..Len(a.events) : a.events[i] \in NotPassed /\ a.events[i] # h
      BY <1>2, <2>2, HeadAndTail DEF Absent
    <3>2. QED BY <1>2, <2>3, <3>1, Narrowed
  <2>5. a.replay \in Seq(NotPassed')
    <3>1. \A i \in 1..Len(a.replay) : a.replay[i] \in NotPassed /\ a.replay[i] # h
      BY <1>2, <2>2, HeadAndTail DEF Absent
    <3>2. QED BY <1>2, <2>3, <3>1, Narrowed
  <2>6. QED BY <1>1, <1>2, <2>1, <2>4, <2>5 DEF StreamInv
<1>5. QED BY <1>3, <1>4

-----------------------------------------------------------------------------
(* What was passed on.                                                     *)

\* An event that was passed on names its run and its number.
LEMMA EventParts ==
    ASSUME NEW e \in Event
    PROVE  /\ e = <<e[1], e[2]>> /\ e[1] \in Runs /\ e[1] \in Nat /\ e[2] \in 1..MaxSeq
           /\ e[2] \in Nat
BY Constants DEF Event, Runs

\* Nothing is passed on, and the loop does not fall back in the run.
LEMMA GotKept ==
    ASSUME TypeOK, BaseInv, GotInv, [Next]_vars, current' = current,
           got'[current] = got[current],
           \/ cursors' = cursors \/ cursors'.run = cursors.run
           \/ cursors'.run \in Nat /\ cursors.run < cursors'.run,
           cursors'.run = cursors.run =>
              lastSeq'[current] \in Nat /\ lastSeq[current] <= lastSeq'[current],
           ever[current] => ever'[current],
           pc'[current] \in {"live", "hand"} => pc[current] \in {"live", "hand"} \/ ever'[current]
    PROVE  GotInv'
<1>1. ASSUME NEW e \in got[current]
      PROVE  /\ e[2] <= seq'[e[1]]
             /\ e[1] < cursors'.run \/ (e[1] = cursors'.run /\ e[2] <= lastSeq'[current])
  <2>1. e[1] \in Runs /\ e[1] \in Nat /\ e[2] \in Nat
    BY CurrentTypes, EventParts
  <2>2. e[2] <= seq[e[1]] /\ seq[e[1]] <= seq'[e[1]] /\ seq[e[1]] \in Nat /\ seq'[e[1]] \in Nat
    <3>1. TypeOK'
      BY BaseStep
    <3>2. seq[e[1]] \in 0..MaxSeq /\ seq'[e[1]] \in 0..MaxSeq
      BY <2>1, <3>1 DEF TypeOK
    <3>3. QED BY <2>1, <3>2, ServerGrows, Constants DEF GotInv
  <2>3. e[1] < cursors.run \/ (e[1] = cursors.run /\ e[2] <= lastSeq[current])
    BY DEF GotInv
  <2>4. cursors.run \in Nat /\ lastSeq[current] \in Nat
    BY CurrentTypes, Constants
  <2>5. e[1] < cursors'.run \/ (e[1] = cursors'.run /\ e[2] <= lastSeq'[current])
    BY <2>1, <2>3, <2>4
  <2>6. QED BY <2>1, <2>2, <2>5
<1>2. pc'[current] \in {"live", "hand"} \/ got[current] # {} => ever'[current]
  BY DEF GotInv
<1>3. QED BY <1>1, <1>2 DEF GotInv

\* Every step of the loop and every quiet one.
LEMMA GotStep ==
    ASSUME TypeOK, BaseInv, CursorInv, StreamInv, GotInv, [Next]_vars,
           Quiet \/ Loop(current) \/ DialFails(current)
    PROVE  GotInv'
<1>0. /\ pc \in [Loops -> Places] /\ current \in Loops /\ lastSeq \in [Loops -> 0..MaxSeq]
      /\ ever \in [Loops -> BOOLEAN] /\ got \in [Loops -> SUBSET Event]
      /\ lastSeq[current] \in Nat
  BY Constants DEF TypeOK
<1>1. CASE Quiet
  <2>1. UNCHANGED <<current, cursors, lastSeq, got, ever, pc>>
    BY <1>1, QuietFrame
  <2>2. QED BY <1>0, <2>1, GotKept
<1>2. CASE \/ Begin(current) \/ DialFails(current) \/ Dial(current) \/ Wake(current)
           \/ Leave(current)
  <2>1. UNCHANGED <<current, cursors, lastSeq, got, ever>> /\ pc'[current] \notin {"live", "hand"}
    BY <1>0, <1>2 DEF Begin, DialFails, Dial, Wake, Leave, Goto
  <2>2. QED BY <1>0, <2>1, GotKept
<1>3. CASE Announce(current)
  <2>1. UNCHANGED <<current, cursors, lastSeq, got>> /\ ever'[current] = TRUE
    BY <1>0, <1>3 DEF Announce
  <2>2. QED BY <1>0, <2>1, GotKept
<1>4. CASE RecordRun(current)
  <2>1. /\ UNCHANGED <<current, got, ever>> /\ pc[current] = "attached"
        /\ pc'[current] = "recorded" /\ cursors'.run = adapter[current].run
        /\ lastSeq' = [lastSeq EXCEPT ![current] = IF SameRun(current) THEN lastSeq[current] ELSE 0]
    BY <1>0, <1>4 DEF RecordRun, Goto, Store
  <2>2. previous[current] = cursors /\ cursors.run <= adapter[current].run
    BY <2>1 DEF CursorInv
  <2>3. adapter[current].run \in Nat /\ cursors.run \in Nat
    BY CurrentTypes
  <2>4. CASE SameRun(current)
    <3>1. cursors'.run = cursors.run
      BY <2>1, <2>2, <2>4 DEF SameRun
    <3>2. lastSeq'[current] = lastSeq[current]
      BY <1>0, <2>1, <2>4
    <3>3. QED BY <1>0, <2>1, <3>1, <3>2, GotKept
  <2>5. CASE ~SameRun(current)
    <3>1. cursors.run < cursors'.run /\ cursors'.run \in Nat
      BY <2>1, <2>2, <2>3, <2>5 DEF SameRun
    <3>2. cursors'.run # cursors.run
      BY <2>3, <3>1
    <3>3. QED BY <2>1, <3>1, <3>2, GotKept
  <2>6. QED BY <2>4, <2>5
<1>5. CASE Take(current)
  <2> DEFINE s == Head(adapter[current].events)
             new == Newest(current, s)
  <2>1. /\ UNCHANGED <<current, got, ever>> /\ pc[current] = "live"
        /\ lastSeq' = [lastSeq EXCEPT ![current] = new]
        /\ cursors' = cursors \/ cursors'.run = adapter[current].run
    BY <1>0, <1>5 DEF Take, Store
  <2>2. cursors.run = adapter[current].run
    BY <2>1 DEF CursorInv
  <2>3. s \in 1..MaxSeq
    BY <1>0, <1>5, TakeAdapter
  <2> HIDE DEF s
  <2>4. new \in Nat /\ lastSeq[current] <= new /\ new \in 0..MaxSeq
    BY <1>0, <2>3, Constants DEF Newest
  <2> HIDE DEF new
  <2>5. lastSeq'[current] = new
    BY <1>0, <2>1, <2>4
  <2>6. QED BY <1>0, <2>1, <2>2, <2>4, <2>5, GotKept
<1>6. CASE Disconnected(current)
  <2>1. /\ UNCHANGED <<current, got, ever, lastSeq>> /\ pc[current] = "live"
        /\ cursors'.run = adapter[current].run /\ pc'[current] = "sleeping"
    BY <1>0, <1>6 DEF Disconnected, Store, Goto
  <2>2. cursors.run = adapter[current].run
    BY <2>1 DEF CursorInv
  <2>3. QED BY <1>0, <2>1, <2>2, GotKept
<1>7. CASE Ingest(current)
  <2> DEFINE r == adapter[current].run
             h == hand[current]
  <2>1. /\ UNCHANGED <<current, cursors, lastSeq, ever, seq>> /\ pc[current] = "hand"
        /\ got'[current] = got[current] \cup {<<r, h>>}
    BY <1>0, <1>7 DEF Ingest
  <2>2. cursors.run = r
    BY <2>1 DEF CursorInv
  <2>3. h \in NotPassed /\ h <= lastSeq[current]
    BY <2>1 DEF StreamInv, Attached
  <2>4. seq[r] \in 0..MaxSeq /\ h \in 1..seq[r]
    BY <2>1, <2>3, RunOfLoop DEF NotPassed, Attached
  <2>5. h <= seq[r]
    BY <2>4, Constants
  <2>6. <<r, h>>[1] = r /\ <<r, h>>[2] = h
    OBVIOUS
  <2> HIDE DEF r, h
  <2>7. \A e \in got'[current] :
           /\ e[2] <= seq[e[1]]
           /\ e[1] < cursors.run \/ (e[1] = cursors.run /\ e[2] <= lastSeq[current])
    BY <2>1, <2>2, <2>3, <2>5, <2>6 DEF GotInv
  <2>8. ever'[current]
    BY <2>1 DEF GotInv
  <2>9. QED BY <2>1, <2>7, <2>8 DEF GotInv
<1>8. QED BY <1>1, <1>2, <1>3, <1>4, <1>5, <1>6, <1>7 DEF Loop

-----------------------------------------------------------------------------
(* The invariant of the sole loop.                                         *)

\* The initial state.
LEMMA SoleInit ==
    ASSUME Init
    PROVE  SoleInv
<1>1. /\ current = 1 /\ 1 \in Loops /\ pc[1] = "top" /\ lastSeq[1] = 0 /\ got[1] = {}
      /\ cursors = NoCursor /\ file = NoCursor /\ gameRun = 1
      /\ \A l \in Loops : l # 1 => pc[l] = "unborn"
  BY Constants DEF Init, Zero
<1>2. NoCursor.run = NoRun /\ NoCursor.lastSeq = 0 /\ NoRun = 0
  BY DEF NoCursor, NoRun
<1>3. OneLoop
  BY <1>1 DEF OneLoop
<1>4. CursorInv
  BY <1>1, <1>2 DEF CursorInv, Known
<1>5. StreamInv
  BY <1>1 DEF StreamInv, Attached
<1>6. GotInv
  BY <1>1 DEF GotInv
<1>7. QED BY <1>3, <1>4, <1>5, <1>6 DEF SoleInv

\* Every step after which no loop was given up.
LEMMA SoleStep ==
    ASSUME TypeOK, BaseInv, SoleInv, [Next]_vars, abandoned' = {}
    PROVE  SoleInv'
<1>0. OneLoop /\ CursorInv /\ StreamInv /\ GotInv
  BY DEF SoleInv
<1>1. OneLoop'
  BY <1>0, OneLoopStep
<1>2. CASE Replace \/ Exit \/ Crash
  BY <1>0, <1>1, <1>2, SoleNew DEF SoleInv
<1>3. CASE Quiet
  BY <1>0, <1>1, <1>3, CursorQuiet, StreamQuiet, GotStep DEF SoleInv
<1>4. CASE Loop(current) \/ DialFails(current)
  <2>1. CursorInv'
    BY <1>0, <1>4, CursorAttach, CursorLive DEF Loop
  <2>2. StreamInv'
    BY <1>0, <1>4, StreamAttach, StreamEvent DEF Loop
  <2>3. GotInv'
    BY <1>0, <1>4, GotStep
  <2>4. QED BY <1>1, <2>1, <2>2, <2>3 DEF SoleInv
<1>5. QED BY <1>0, <1>2, <1>3, <1>4, StepKinds

\* Nothing that is in hand was passed on.
LEMMA SoleGivesOnce == SoleInv => \A l \in Loops :
                          pc[l] = "hand" => <<adapter[l].run, hand[l]>> \notin got[l]
<1> SUFFICES ASSUME SoleInv, NEW l \in Loops, pc[l] = "hand"
             PROVE  <<adapter[l].run, hand[l]>> \notin got[l]
  OBVIOUS
<1>1. l = current
  BY DEF SoleInv, OneLoop
<1>2. hand[current] \in NotPassed
  BY <1>1 DEF SoleInv, StreamInv, Attached
<1>3. QED BY <1>1, <1>2 DEF NotPassed

\* While no loop was given up, a loop passes no event on twice, through any
\* number of reconnections, reloads and restarts of the game (the run loop of
\* daemon.go and persistCursor).
THEOREM NothingPassedTwice == Spec => []NothingTwice
<1> DEFINE Inv == TypeOK /\ BaseInv /\ (abandoned = {} => SoleInv)
<1>1. Init => Inv
  BY BaseInit, SoleInit
<1>2. Inv /\ [Next]_vars => Inv'
  <2> SUFFICES ASSUME Inv, [Next]_vars PROVE Inv'
    OBVIOUS
  <2>1. TypeOK' /\ BaseInv'
    BY BaseStep
  <2>2. ASSUME abandoned' = {} PROVE SoleInv'
    <3>1. abandoned = {}
      BY <2>2, StillSole
    <3>2. QED BY <2>2, <3>1, SoleStep
  <2>3. QED BY <2>1, <2>2
<1>3. Inv => NothingTwice
  BY SoleGivesOnce DEF NothingTwice
<1>4. QED BY <1>1, <1>2, <1>3, PTL DEF Spec

-----------------------------------------------------------------------------
(* Nothing is lost in silence.                                             *)

\* The loop has taken all events of its run, or those from some first one on.
Begun == IF replayFirst THEN 0 ELSE base[current]

Consecutive(events) == \A i \in 1..Len(events) : events[i] = events[1] + i - 1
Following(events, newest) == IF events # <<>> THEN events[1] ELSE newest + 1

\* A server that sends its replay first sends one event after the other up to
\* the newest, and whatever lies before is accounted for, or will be when the
\* loss that its welcome told of is announced.
ChainInv == replayFirst /\ pc[current] \in Attached =>
    /\ adapter[current].replay = <<>> /\ Consecutive(adapter[current].events)
    /\ adapter[current].open /\ adapter[current].events # <<>> =>
          adapter[current].events[Len(adapter[current].events)] = seq[adapter[current].run]
    /\ adapter[current].open \/ adapter[current].events # <<>> =>
          \A e \in Past(adapter[current].run, 1,
                        Following(adapter[current].events, seq[adapter[current].run]) - 1) :
             e \in Accounted \/ (adapter[current].lost /\ e \in OutOfRing(current))
    /\ pc[current] \in {"live", "hand"} => ~adapter[current].lost

\* What the loop went past is accounted for, so is what the cursors go past, and
\* so are the runs before, unless the report of the last is still to come.
LossInv ==
    /\ Past(cursors.run, 1 + Begun, lastSeq[current]) \subseteq Accounted
    /\ replayFirst => Past(cursors.run, 1, cursors.lastSeq) \subseteq Accounted
    /\ replayFirst => Past(file.run, 1, file.lastSeq) \subseteq Accounted
    /\ \A e \in got[current] :
          e[1] < cursors.run /\ ~(pc[current] = "recorded" /\ e[1] = previous[current].run)
             => Past(e[1], 1, MaxSeq) \subseteq Accounted

\* The rest of a chain of events is one, and begins after its first.
LEMMA ConsecutiveTail ==
    ASSUME NEW events \in Seq(1..MaxSeq), events # <<>>, Consecutive(events)
    PROVE  /\ Consecutive(Tail(events))
           /\ Tail(events) # <<>> =>
                 /\ Tail(events)[1] = Head(events) + 1
                 /\ Tail(events)[Len(Tail(events))] = events[Len(events)]
           /\ Tail(events) = <<>> => events[Len(events)] = Head(events)
<1> DEFINE t == Tail(events)
           h == Head(events)
<1>1. /\ Len(events) \in Nat /\ Len(events) >= 1 /\ Len(t) = Len(events) - 1 /\ h = events[1]
      /\ t \in Seq(1..MaxSeq) /\ \A i \in 1..Len(t) : t[i] = events[i + 1]
  BY HeadAndTail
<1>2. h \in Nat
  <2>1. h \in 1..MaxSeq
    BY HeadAndTail
  <2> HIDE DEF h
  <2>2. QED BY <2>1, Constants
<1> HIDE DEF t, h
<1>3. \A i \in 1..Len(t) : t[i] = h + i
  <2> SUFFICES ASSUME NEW i \in 1..Len(t) PROVE t[i] = h + i
    OBVIOUS
  <2>1. i + 1 \in 1..Len(events) /\ t[i] = events[i + 1] /\ i \in Nat
    BY <1>1
  <2>2. events[i + 1] = events[1] + (i + 1) - 1
    BY <2>1 DEF Consecutive
  <2>3. QED BY <1>1, <1>2, <2>1, <2>2
<1>4. Consecutive(t)
  <2> SUFFICES ASSUME NEW i \in 1..Len(t) PROVE t[i] = t[1] + i - 1
    BY DEF Consecutive
  <2>1. 1 \in 1..Len(t) /\ i \in Nat
    BY <1>1
  <2>2. t[1] = h + 1 /\ t[i] = h + i
    BY <1>3, <2>1
  <2>3. QED BY <1>2, <2>1, <2>2
<1>5. ASSUME t # <<>> PROVE t[1] = h + 1 /\ t[Len(t)] = events[Len(events)]
  <2>1. Len(t) >= 1 /\ Len(t) \in Nat
    BY <1>1, <1>5, HeadAndTail
  <2>2. t[1] = h + 1
    BY <1>3, <2>1
  <2>3. t[Len(t)] = events[Len(t) + 1] /\ Len(t) + 1 = Len(events)
    BY <1>1, <2>1
  <2>4. QED BY <2>2, <2>3
<1>6. ASSUME t = <<>> PROVE events[Len(events)] = h
  <2>1. Len(t) = 0
    BY <1>6
  <2>2. Len(events) = 1
    BY <1>1, <2>1
  <2>3. QED BY <1>1, <2>2
<1>7. QED BY <1>4, <1>5, <1>6 DEF t, h

\* The newest event continues the chain.
LEMMA ConsecutiveAppend ==
    ASSUME NEW events \in Seq(1..MaxSeq), Consecutive(events), NEW n \in 1..MaxSeq,
           events # <<>> => events[Len(events)] + 1 = n
    PROVE  /\ Consecutive(Append(events, n))
           /\ Append(events, n) # <<>>
           /\ Append(events, n)[Len(Append(events, n))] = n
           /\ Append(events, n)[1] = Following(events, n - 1)
<1> DEFINE a == Append(events, n)
<1>1. /\ Len(events) \in Nat /\ Len(a) = Len(events) + 1 /\ a[Len(events) + 1] = n
      /\ \A i \in 1..Len(events) : a[i] = events[i] /\ events[i] \in 1..MaxSeq
      /\ n \in Nat
  BY HeadAndTail, Constants
<1>2. a # <<>> /\ a[Len(a)] = n
  <2>1. Len(a) # 0
    BY <1>1
  <2>2. Len(<<>>) = 0
    OBVIOUS
  <2> HIDE DEF a
  <2>3. QED BY <1>1, <2>1, <2>2
<1> HIDE DEF a
<1>3. CASE events = <<>>
  <2>1. Len(events) = 0
    BY <1>3
  <2>2. Len(a) = 1 /\ a[1] = n
    BY <1>1, <2>1
  <2>3. Consecutive(a)
    <3>1. \A i \in 1..Len(a) : i = 1
      BY <2>2
    <3>2. n = n + 1 - 1
      BY <1>1
    <3>3. QED BY <2>2, <3>1, <3>2 DEF Consecutive
  <2>4. Following(events, n - 1) = n
    BY <1>1, <1>3 DEF Following
  <2>5. QED BY <1>2, <2>2, <2>3, <2>4 DEF a
<1>4. CASE events # <<>>
  <2>1. Len(events) >= 1
    BY <1>1, <1>4, HeadAndTail
  <2>2. 1 \in 1..Len(events) /\ Len(events) \in 1..Len(events)
    BY <1>1, <2>1
  <2>3. events[1] \in Nat /\ a[1] = events[1]
    BY <1>1, <2>2, Constants
  <2>4. n = events[1] + Len(events)
    <3>1. events[Len(events)] = events[1] + Len(events) - 1
      BY <2>2 DEF Consecutive
    <3>2. QED BY <1>1, <1>4, <2>3, <3>1
  <2>5. ASSUME NEW i \in 1..Len(a) PROVE a[i] = a[1] + i - 1
    <3>1. CASE i \in 1..Len(events)
      BY <1>1, <2>3, <3>1 DEF Consecutive
    <3>2. CASE i = Len(events) + 1
      BY <1>1, <2>3, <2>4, <3>2
    <3>3. QED BY <1>1, <3>1, <3>2
  <2>6. Following(events, n - 1) = events[1]
    BY <1>4 DEF Following
  <2>7. QED BY <1>2, <2>3, <2>5, <2>6 DEF a, Consecutive
<1>5. QED BY <1>3, <1>4

\* The server's steps and the network's keep the chain.
LEMMA ChainQuiet ==
    ASSUME TypeOK, BaseInv, ChainInv, [Next]_vars, Quiet
    PROVE  ChainInv'
<1>1. /\ UNCHANGED <<pc, current, replayFirst>>
      /\ adapter'[current].run = adapter[current].run
      /\ adapter'[current].lost = adapter[current].lost
      /\ adapter'[current].oldest = adapter[current].oldest
  BY QuietFrame
<1> SUFFICES ASSUME replayFirst, pc[current] \in Attached PROVE ChainInv'
  BY <1>1 DEF ChainInv
<1> DEFINE a == adapter[current]
           b == adapter'[current]
           f == Following(a.events, seq[a.run])
           g == Following(b.events, seq'[a.run])
<1>2. /\ a.replay = <<>> /\ Consecutive(a.events)
      /\ a.open /\ a.events # <<>> => a.events[Len(a.events)] = seq[a.run]
      /\ a.open \/ a.events # <<>> =>
            \A e \in Past(a.run, 1, f - 1) :
               e \in Accounted \/ (a.lost /\ e \in OutOfRing(current))
      /\ pc[current] \in {"live", "hand"} => ~a.lost
  BY DEF ChainInv
<1>3. Accounted \subseteq Accounted' /\ OutOfRing(current)' = OutOfRing(current)
  BY <1>1, AccountedGrows DEF OutOfRing
<1>4. SUFFICES /\ b.replay = <<>> /\ Consecutive(b.events)
               /\ b.open /\ b.events # <<>> => b.events[Len(b.events)] = seq'[a.run]
               /\ b.open \/ b.events # <<>> => (a.open \/ a.events # <<>>) /\ g = f
  <2>1. b.open \/ b.events # <<>> =>
           \A e \in Past(a.run, 1, g - 1) :
              e \in Accounted' \/ (a.lost /\ e \in OutOfRing(current)')
    BY <1>2, <1>3, <1>4
  <2>2. /\ b.replay = <<>> /\ Consecutive(b.events)
        /\ b.open /\ b.events # <<>> => b.events[Len(b.events)] = seq'[b.run]
        /\ b.open \/ b.events # <<>> =>
              \A e \in Past(b.run, 1, Following(b.events, seq'[b.run]) - 1) :
                 e \in Accounted' \/ (b.lost /\ e \in OutOfRing(current)')
        /\ pc[current] \in {"live", "hand"} => ~b.lost
    BY <1>1, <1>2, <1>4, <2>1
  <2> HIDE DEF f, g
  <2>3. QED BY <1>1, <2>2 DEF ChainInv
<1> HIDE DEF f, g
<1>5. CASE SendReplay(current)
  BY <1>2, <1>5 DEF SendReplay
<1>6. CASE Push /\ a.open
  <2>1. /\ b.replay = a.replay /\ b.events = Append(a.events, seq[gameRun] + 1)
        /\ a.run = gameRun /\ seq'[gameRun] = seq[gameRun] + 1 /\ seq'[gameRun] \in 1..MaxSeq
        /\ a.events \in Seq(1..MaxSeq)
    BY <1>6, CurrentTypes, PushAdapter DEF BaseInv
  <2> DEFINE n == seq[gameRun] + 1
  <2>2. n \in 1..MaxSeq /\ n - 1 = seq[gameRun] /\ seq[gameRun] \in Nat
    BY <2>1, CurrentTypes, Constants
  <2>3. a.events # <<>> => a.events[Len(a.events)] + 1 = n
    BY <1>2, <1>6, <2>1
  <2>4. b.events = Append(a.events, n) /\ seq'[a.run] = n
    BY <2>1
  <2> HIDE DEF n
  <2>5. /\ Consecutive(b.events) /\ b.events # <<>>
        /\ b.events[Len(b.events)] = n /\ b.events[1] = Following(a.events, n - 1)
    BY <1>2, <2>1, <2>2, <2>3, <2>4, ConsecutiveAppend
  <2>6. g = f
    BY <2>1, <2>2, <2>5 DEF f, g, Following
  <2>7. QED BY <1>2, <1>6, <2>1, <2>4, <2>5, <2>6
<1>7. CASE b = a /\ seq'[a.run] = seq[a.run]
  BY <1>2, <1>7 DEF f, g
<1>8. CASE b.events = a.events /\ ~b.open /\ b.replay = <<>>
  BY <1>2, <1>8 DEF f, g, Following
<1>9. CASE Push /\ ~a.open
  <2>1. b = a
    BY <1>9, CurrentTypes, PushAdapter
  <2>2. QED BY <1>2, <1>8, <1>9, <2>1
<1>10. CASE Hangup(current) \/ StopLoop \/ GameRestart
  <2>1. b = HangUp(a)
    BY <1>10, CurrentTypes, ClosedAdapter, RestartAdapter
  <2>2. QED BY <1>8, <2>1, CurrentTypes, HungUp
<1>11. CASE UNCHANGED vars
  <2>1. b = a /\ seq' = seq
    BY <1>1, <1>11 DEF vars
  <2>2. QED BY <1>7, <2>1
<1>12. QED BY <1>5, <1>6, <1>9, <1>10, <1>11 DEF Quiet

\* What the server sends for a cursor whose events are accounted for: the rest
\* of the run, and before it only what its welcome calls lost.
LEMMA ChainDial ==
    ASSUME TypeOK, BaseInv, CursorInv, LossInv, [Next]_vars, Dial(current)
    PROVE  ChainInv'
<1> DEFINE b == adapter'[current]
           last == seq[gameRun]
           from == ReplayFrom(cursors)
           r == Replay(cursors)
<1>1. /\ UNCHANGED <<current, seq, gameRun, replayFirst>> /\ pc[current] = "dialing"
      /\ pc'[current] = "attached" /\ previous[current] = cursors
  BY DEF Dial, Goto, CursorInv, TypeOK
<1> SUFFICES ASSUME replayFirst PROVE ChainInv'
  BY <1>1 DEF ChainInv
<1>2. /\ b.run = gameRun /\ b.open /\ b.lost = Lost(cursors) /\ b.oldest = Oldest
      /\ b.replay = <<>> /\ b.events = r
  BY <1>1, CurrentTypes, DialAdapter
<1>3. /\ last \in 0..MaxSeq /\ from \in 1..MaxSeq + 1 /\ from <= last + 1
      /\ r = Sequence(from, last) /\ r \in Seq(1..MaxSeq)
      /\ Oldest \in 1..MaxSeq + 1 /\ From(cursors) \in 0..last
  BY CurrentTypes, ServerAnswer
<1>4. /\ Len(r) = last - from + 1
      /\ \A i \in 1..(last - from + 1) : r[i] = from + i - 1
  BY <1>3, ReplaySequence
<1>5. from = IF From(cursors) < Oldest THEN Oldest ELSE From(cursors) + 1
  BY DEF ReplayFrom
<1>6. last \in Nat /\ from \in Nat /\ Oldest \in Nat /\ From(cursors) \in Nat
  <2> HIDE DEF last, from
  <2>1. QED BY <1>3, Constants
<1> HIDE DEF r, from, last
<1>7. Consecutive(r) /\ (r # <<>> => r[Len(r)] = last) /\ Following(r, last) = from
  <2>1. CASE r = <<>>
    <3>1. Len(r) = 0
      BY <2>1
    <3>2. from = last + 1
      BY <1>4, <1>6, <3>1
    <3>3. QED BY <2>1, <3>1, <3>2 DEF Consecutive, Following
  <2>2. CASE r # <<>>
    <3>1. Len(r) >= 1
      BY <1>3, <2>2, HeadAndTail
    <3>2. 1 \in 1..Len(r) /\ Len(r) \in 1..Len(r) /\ \A i \in 1..Len(r) : r[i] = from + i - 1
      BY <1>4, <1>6, <3>1
    <3>3. r[1] = from /\ r[Len(r)] = last
      BY <1>4, <1>6, <3>2
    <3>4. Consecutive(r)
      BY <3>2, <3>3 DEF Consecutive
    <3>5. QED BY <2>2, <3>3, <3>4 DEF Following
  <2>3. QED BY <2>1, <2>2
<1>8. ASSUME NEW e \in Past(gameRun, 1, from - 1)
      PROVE  e \in Accounted \/ (Lost(cursors) /\ e \in Event /\ e[1] = gameRun /\ e[2] < Oldest)
  <2>1. /\ e \in Event /\ e[1] = gameRun /\ e[2] \in Nat /\ e[2] >= 1 /\ e[2] < from
    <3>1. e \in Event /\ e[1] = gameRun /\ e[2] \in 1..(from - 1)
      BY DEF Past
    <3>2. QED BY <1>6, <3>1
  <2>2. CASE ~Usable(cursors)
    <3>1. From(cursors) = 0 /\ Lost(cursors)
      BY <2>2 DEF From, Lost
    <3>2. from = Oldest
      BY <1>3, <1>5, <1>6, <3>1, Constants
    <3>3. QED BY <2>1, <3>1, <3>2
  <2>3. CASE Usable(cursors)
    <3>1. From(cursors) = cursors.lastSeq /\ cursors.run \in {NoRun, gameRun}
      BY <2>3 DEF From, Usable
    <3>2. CASE e[2] <= From(cursors)
      <4>1. cursors.run = gameRun
        <5>1. cursors.lastSeq # 0
          BY <1>6, <2>1, <3>1, <3>2
        <5>2. QED BY <3>1, <5>1 DEF CursorInv, Known
      <4>2. e[2] \in 1..cursors.lastSeq
        BY <1>6, <2>1, <3>1, <3>2
      <4>3. e \in Past(cursors.run, 1, cursors.lastSeq)
        BY <2>1, <4>1, <4>2 DEF Past
      <4>4. QED BY <4>3 DEF LossInv
    <3>3. CASE ~(e[2] <= From(cursors))
      <4>1. e[2] < Oldest /\ From(cursors) + 1 < Oldest
        BY <1>5, <1>6, <2>1, <3>3
      <4>2. QED BY <2>1, <4>1 DEF Lost
    <3>4. QED BY <3>2, <3>3
  <2>4. QED BY <2>2, <2>3
<1>9. \A e \in Past(gameRun, 1, Following(b.events, seq[gameRun]) - 1) :
         e \in Accounted' \/ (b.lost /\ e \in OutOfRing(current)')
  <2>1. OutOfRing(current)' = {e \in Event : e[1] = gameRun /\ e[2] < Oldest}
    BY <1>1, <1>2 DEF OutOfRing
  <2>2. Accounted \subseteq Accounted'
    BY AccountedGrows
  <2>3. Following(b.events, seq[gameRun]) = from
    BY <1>2, <1>7 DEF last
  <2>4. QED BY <1>2, <1>8, <2>1, <2>2, <2>3
<1>10. b.events # <<>> => b.events[Len(b.events)] = seq[gameRun]
  BY <1>2, <1>7 DEF last
<1>11. Consecutive(b.events)
  BY <1>2, <1>7
<1>12. QED BY <1>1, <1>2, <1>9, <1>10, <1>11 DEF ChainInv

\* The loop's own steps keep the chain.
LEMMA ChainLoop ==
    ASSUME TypeOK, BaseInv, ChainInv, [Next]_vars,
           \/ Begin(current) \/ DialFails(current) \/ Wake(current) \/ Disconnected(current)
           \/ Leave(current) \/ RecordRun(current) \/ Announce(current)
           \/ Take(current) \/ Ingest(current)
    PROVE  ChainInv'
<1>0. pc \in [Loops -> Places] /\ current \in Loops /\ hand \in [Loops -> 0..MaxSeq]
  BY DEF TypeOK
<1>1. CASE \/ Begin(current) \/ DialFails(current) \/ Wake(current) \/ Disconnected(current)
           \/ Leave(current)
  <2>1. pc'[current] \in {"finished", "dialing", "sleeping", "top"} /\ current' = current
    BY <1>0, <1>1 DEF Begin, DialFails, Wake, Disconnected, Leave, Goto
  <2>2. QED BY <2>1 DEF ChainInv, Attached
<1>2. CASE RecordRun(current) \/ Announce(current) \/ Take(current) \/ Ingest(current)
  <2> DEFINE a == adapter[current]
             b == adapter'[current]
             f == Following(a.events, seq[a.run])
             g == Following(b.events, seq[a.run])
  <2>1. /\ UNCHANGED <<current, seq, replayFirst>> /\ pc[current] \in Attached
        /\ pc'[current] \in Attached
    BY <1>0, <1>2 DEF RecordRun, Announce, Take, Ingest, Goto, Attached
  <2> SUFFICES ASSUME replayFirst PROVE ChainInv'
    BY <2>1 DEF ChainInv
  <2>2. /\ a.replay = <<>> /\ Consecutive(a.events)
        /\ a.open /\ a.events # <<>> => a.events[Len(a.events)] = seq[a.run]
        /\ a.open \/ a.events # <<>> =>
              \A e \in Past(a.run, 1, f - 1) :
                 e \in Accounted \/ (a.lost /\ e \in OutOfRing(current))
        /\ pc[current] \in {"live", "hand"} => ~a.lost
    BY <2>1 DEF ChainInv
  <2>3. Accounted \subseteq Accounted'
    BY AccountedGrows
  <2>4. SUFFICES /\ b.run = a.run /\ b.replay = <<>> /\ Consecutive(b.events)
                 /\ b.open /\ b.events # <<>> => b.events[Len(b.events)] = seq[a.run]
                 /\ b.open \/ b.events # <<>> =>
                       \A e \in Past(a.run, 1, g - 1) :
                          e \in Accounted' \/ (b.lost /\ e \in OutOfRing(current)')
                 /\ pc'[current] \in {"live", "hand"} => ~b.lost
    <3> HIDE DEF f
    <3>1. QED BY <2>1, <2>4 DEF ChainInv
  <2> HIDE DEF f, g
  <2>5. CASE RecordRun(current)
    <3>1. b = a /\ pc'[current] = "recorded" /\ adapter' = adapter
      BY <1>0, <2>5 DEF RecordRun, Goto
    <3>2. OutOfRing(current)' = OutOfRing(current) /\ g = f
      BY <2>1, <3>1 DEF OutOfRing, f, g
    <3>3. QED BY <2>2, <2>3, <3>1, <3>2
  <2>6. CASE Ingest(current)
    <3>1. b = a /\ pc[current] = "hand" /\ adapter' = adapter
      BY <1>0, <2>6 DEF Ingest, Goto
    <3>2. OutOfRing(current)' = OutOfRing(current) /\ g = f
      BY <2>1, <3>1 DEF OutOfRing, f, g
    <3>3. QED BY <2>2, <2>3, <3>1, <3>2
  <2>7. CASE Announce(current)
    <3>1. /\ b.run = a.run /\ b.open = a.open /\ b.lost = FALSE
          /\ b.replay = a.replay /\ b.events = a.events
      BY <1>0, <2>7, AnnounceAdapter
    <3>2. a.lost => OutOfRing(current) \subseteq Accounted'
      BY <2>7 DEF Announce, Accounted
    <3>3. g = f
      BY <3>1 DEF f, g
    <3>4. QED BY <2>2, <2>3, <3>1, <3>2, <3>3
  <2>8. CASE Take(current)
    <3> DEFINE s == Head(a.events)
               t == Tail(a.events)
    <3>1. /\ pc[current] = "live" /\ pc'[current] = "hand" /\ b.run = a.run /\ b.open = a.open
          /\ b.lost = a.lost /\ b.replay = a.replay /\ b.events = t
          /\ a.events \in Seq(1..MaxSeq) /\ a.events # <<>> /\ s \in 1..MaxSeq
          /\ hand' = [hand EXCEPT ![current] = s]
      BY <1>0, <2>8, TakeAdapter DEF Take, Goto
    <3>2. hand'[current] = s
      BY <1>0, <3>1
    <3>3. /\ Consecutive(t)
          /\ t # <<>> => t[1] = s + 1 /\ t[Len(t)] = a.events[Len(a.events)]
          /\ t = <<>> => a.events[Len(a.events)] = s
      BY <2>2, <3>1, ConsecutiveTail
    <3>4. f = s
      BY <3>1, HeadAndTail DEF f, Following
    <3> HIDE DEF s, t
    <3>5. b.open \/ t # <<>> => g = s + 1
      BY <2>2, <3>1, <3>3 DEF g, Following
    <3>6. ASSUME NEW e \in Past(a.run, 1, s) PROVE e \in Accounted'
      <4>1. e \in Event /\ e[1] = a.run /\ e[2] \in 1..s /\ s \in Nat
        BY <3>1, Constants DEF Past
      <4>2. CASE e[2] = s
        <5>1. e = <<a.run, s>>
          BY <4>1, <4>2, EventParts
        <5>2. e \in InHand'
          BY <1>0, <2>1, <3>1, <3>2, <5>1 DEF InHand
        <5>3. QED BY <5>2 DEF Accounted
      <4>3. CASE e[2] # s
        <5>1. e[2] \in 1..(s - 1)
          BY <4>1, <4>3
        <5>2. e \in Past(a.run, 1, f - 1)
          BY <3>4, <4>1, <5>1 DEF Past
        <5>3. QED BY <2>2, <2>3, <3>1, <5>2
      <4>4. QED BY <4>2, <4>3
    <3>7. b.open \/ t # <<>> => \A e \in Past(a.run, 1, g - 1) : e \in Accounted'
      <4> SUFFICES ASSUME b.open \/ t # <<>> PROVE \A e \in Past(a.run, 1, g - 1) : e \in Accounted'
        OBVIOUS
      <4>1. g - 1 = s
        BY <3>1, <3>5, Constants
      <4>2. Past(a.run, 1, g - 1) = Past(a.run, 1, s)
        BY <4>1
      <4>3. QED BY <3>6, <4>2
    <3>8. b.open /\ b.events # <<>> => b.events[Len(b.events)] = seq[a.run]
      BY <2>2, <3>1, <3>3
    <3>9. QED BY <2>2, <3>1, <3>3, <3>7, <3>8
  <2>9. QED BY <1>2, <2>5, <2>6, <2>7, <2>8
<1>3. QED BY <1>1, <1>2

-----------------------------------------------------------------------------
(* The cursors and what lies behind them.                                  *)

\* Nothing lies between a first event and one before it.
LEMMA PastParts ==
    ASSUME NEW r, NEW first \in Nat, NEW last \in Nat
    PROVE  /\ \A e \in Past(r, first, last) :
                 e \in Event /\ e[1] = r /\ e[2] \in Nat /\ first <= e[2] /\ e[2] <= last
           /\ \A e \in Event : e[1] = r /\ first <= e[2] /\ e[2] <= last => e \in Past(r, first, last)
           /\ last < first => Past(r, first, last) = {}
<1>1. \A e \in Event : e[2] \in Nat
  BY EventParts
<1>2. QED BY <1>1 DEF Past

\* Steps that leave the cursors and the place in the run as they were.
LEMMA LossKept ==
    ASSUME TypeOK, BaseInv, LossInv, [Next]_vars, current' = current,
           cursors' = cursors, file' = file, lastSeq'[current] = lastSeq[current],
           base'[current] = base[current], got'[current] = got[current],
           pc[current] # "recorded" \/ (pc'[current] = "recorded" /\ previous' = previous)
    PROVE  LossInv'
<1>1. Accounted \subseteq Accounted' /\ replayFirst' = replayFirst
  BY AccountedGrows, ServerGrows
<1>2. Begun' = Begun
  BY <1>1 DEF Begun
<1>3. QED BY <1>1, <1>2 DEF LossInv

\* A new loop begins behind the cursor, which is one of the two.
LEMMA LossNew ==
    ASSUME TypeOK, BaseInv, LossInv, [Next]_vars, Replace \/ Exit \/ Crash
    PROVE  LossInv'
<1>1. /\ current' \in Loops /\ got'[current'] = {} /\ lastSeq'[current'] = 0
      /\ cursors' \in {cursors, file} /\ file' \in {cursors, file}
  BY NewLoop
<1>2. Accounted \subseteq Accounted' /\ replayFirst' = replayFirst
  BY AccountedGrows, ServerGrows
<1>3. Begun' \in Nat
  <2>1. TypeOK'
    BY BaseStep
  <2>2. base'[current'] \in 0..MaxSeq
    BY <1>1, <2>1 DEF TypeOK
  <2>3. QED BY <2>2, Constants DEF Begun
<1>4. Past(cursors'.run, 1 + Begun', lastSeq'[current']) = {}
  BY <1>1, <1>3, PastParts
<1>5. replayFirst' => Past(cursors'.run, 1, cursors'.lastSeq) \subseteq Accounted'
  BY <1>1, <1>2 DEF LossInv
<1>6. replayFirst' => Past(file'.run, 1, file'.lastSeq) \subseteq Accounted'
  BY <1>1, <1>2 DEF LossInv
<1>7. QED BY <1>1, <1>4, <1>5, <1>6 DEF LossInv

\* The loop records its run: another one than the cursor's begins at zero, and
\* the report of the one before is still to come.
LEMMA LossRecord ==
    ASSUME TypeOK, BaseInv, CursorInv, GotInv, LossInv, [Next]_vars, RecordRun(current)
    PROVE  LossInv'
<1> DEFINE last == IF SameRun(current) THEN lastSeq[current] ELSE 0
           c == [run |-> adapter[current].run, lastSeq |-> last]
<1>1. /\ UNCHANGED <<current, got, previous>> /\ pc[current] = "attached"
      /\ pc'[current] = "recorded"
      /\ lastSeq' = [lastSeq EXCEPT ![current] = last] /\ cursors' = c /\ file' \in {file, c}
      /\ base' = [base EXCEPT ![current] = IF SameRun(current) THEN base[current] ELSE 0]
  BY DEF RecordRun, Goto, Store, TypeOK
<1>2. lastSeq'[current] = last
  <2>1. lastSeq \in [Loops -> 0..MaxSeq] /\ current \in Loops
    BY DEF TypeOK
  <2>2. QED BY <1>1, <2>1
<1>3. previous[current] = cursors /\ cursors.run <= adapter[current].run
  BY <1>1 DEF CursorInv
<1>4. Accounted \subseteq Accounted' /\ replayFirst' = replayFirst
  BY AccountedGrows, ServerGrows
<1>5. c.run = adapter[current].run /\ c.lastSeq = last
  OBVIOUS
<1> HIDE DEF c
<1>6. adapter[current].run \in Nat /\ cursors.run \in Nat /\ lastSeq[current] \in Nat
      /\ base[current] \in Nat
  BY CurrentTypes, Constants
<1>7. CASE SameRun(current)
  <2>1. last = lastSeq[current] /\ cursors.run = adapter[current].run
    BY <1>3, <1>7 DEF SameRun
  <2>2. Begun' = Begun
    <3>1. base'[current] = base[current]
      BY <1>1, <1>7, CurrentTypes DEF TypeOK
    <3>2. QED BY <1>1, <1>4, <3>1 DEF Begun
  <2>3. Past(cursors.run, 1 + Begun, lastSeq[current]) \subseteq Accounted'
    BY <1>4 DEF LossInv
  <2>4. replayFirst => Past(c.run, 1, c.lastSeq) \subseteq Accounted'
    <3> SUFFICES ASSUME replayFirst PROVE Past(c.run, 1, c.lastSeq) \subseteq Accounted'
      OBVIOUS
    <3>1. 1 + Begun = 1
      BY DEF Begun
    <3>2. QED BY <1>5, <2>1, <2>3, <3>1
  <2>5. replayFirst => Past(file.run, 1, file.lastSeq) \subseteq Accounted'
    BY <1>4 DEF LossInv
  <2>6. \A e \in got[current] : e[1] < cursors.run => Past(e[1], 1, MaxSeq) \subseteq Accounted'
    BY <1>1, <1>4 DEF LossInv
  <2> HIDE DEF last
  <2>7. QED BY <1>1, <1>2, <1>4, <1>5, <2>1, <2>2, <2>3, <2>4, <2>5, <2>6 DEF LossInv
<1>8. CASE ~SameRun(current)
  <2>1. last = 0 /\ cursors.run < adapter[current].run
    BY <1>3, <1>6, <1>8 DEF SameRun
  <2> HIDE DEF last
  <2>2. Begun' \in Nat
    <3>1. base'[current] = 0
      BY <1>1, <1>8, CurrentTypes DEF TypeOK
    <3>2. QED BY <1>1, <3>1 DEF Begun
  <2>3. Past(c.run, 1 + Begun', last) = {} /\ Past(c.run, 1, c.lastSeq) = {}
    BY <1>5, <2>1, <2>2, PastParts
  <2>4. replayFirst => Past(file.run, 1, file.lastSeq) \subseteq Accounted'
    BY <1>4 DEF LossInv
  <2>5. \A e \in got[current] : e[1] < c.run /\ e[1] # previous[current].run
                                   => Past(e[1], 1, MaxSeq) \subseteq Accounted'
    <3> SUFFICES ASSUME NEW e \in got[current], e[1] # previous[current].run
                 PROVE  Past(e[1], 1, MaxSeq) \subseteq Accounted'
      OBVIOUS
    <3>1. e[1] < cursors.run
      BY <1>3 DEF GotInv
    <3>2. QED BY <1>1, <1>4, <3>1 DEF LossInv
  <2>6. QED BY <1>1, <1>2, <1>4, <1>5, <2>3, <2>4, <2>5 DEF LossInv
<1>9. QED BY <1>7, <1>8

\* The announcement of a restarted game stands for the events of the run before.
LEMMA LossAnnounce ==
    ASSUME TypeOK, BaseInv, CursorInv, GotInv, LossInv, [Next]_vars, Announce(current)
    PROVE  LossInv'
<1>1. /\ UNCHANGED <<current, got, cursors, file, lastSeq, base>> /\ pc[current] = "recorded"
      /\ pc'[current] = "live"
  BY DEF Announce, Goto, TypeOK
<1>2. Accounted \subseteq Accounted' /\ replayFirst' = replayFirst
  BY AccountedGrows, ServerGrows
<1>3. Begun' = Begun
  BY <1>1, <1>2 DEF Begun
<1>4. ASSUME NEW e \in got[current], e[1] < cursors.run
      PROVE  Past(e[1], 1, MaxSeq) \subseteq Accounted'
  <2>1. CASE e[1] # previous[current].run
    BY <1>2, <1>4, <2>1 DEF LossInv
  <2>2. CASE e[1] = previous[current].run
    <3>1. e[1] \in Runs /\ e[1] \in Nat /\ e[1] # NoRun
      BY CurrentTypes, EventParts
    <3>2. cursors.run = adapter[current].run /\ cursors.run \in Nat
      BY <1>1, CurrentTypes DEF CursorInv
    <3>3. ever[current] /\ previous[current].run # NoRun /\ ~SameRun(current)
      BY <1>4, <2>2, <3>1, <3>2 DEF GotInv, SameRun
    <3>4. OfOldRun(current) \subseteq excused'
      BY <3>3 DEF Announce, Restarted
    <3>5. Past(e[1], 1, MaxSeq) \subseteq OfOldRun(current)
      BY <2>2, <3>3 DEF Past, OfOldRun
    <3>6. QED BY <3>4, <3>5 DEF Accounted
  <2>3. QED BY <2>1, <2>2
<1>5. QED BY <1>1, <1>2, <1>3, <1>4 DEF LossInv

\* The cursor that is stored at the end of a connection is where the loop is.
LEMMA LossDisconnected ==
    ASSUME TypeOK, BaseInv, CursorInv, LossInv, [Next]_vars, Disconnected(current)
    PROVE  LossInv'
<1> DEFINE c == [run |-> adapter[current].run, lastSeq |-> lastSeq[current]]
<1>1. /\ UNCHANGED <<current, got, lastSeq, base>> /\ pc[current] = "live"
      /\ pc'[current] = "sleeping" /\ cursors' = c /\ file' \in {file, c}
  BY DEF Disconnected, Goto, Store, TypeOK
<1>2. Accounted \subseteq Accounted' /\ replayFirst' = replayFirst
  BY AccountedGrows, ServerGrows
<1>3. Begun' = Begun
  BY <1>1, <1>2 DEF Begun
<1>4. c.run = cursors.run /\ c.lastSeq = lastSeq[current]
  BY <1>1 DEF CursorInv
<1> HIDE DEF c
<1>5. Past(cursors.run, 1 + Begun, lastSeq[current]) \subseteq Accounted'
  BY <1>2 DEF LossInv
<1>6. replayFirst => Past(c.run, 1, c.lastSeq) \subseteq Accounted'
  <2> SUFFICES ASSUME replayFirst PROVE Past(c.run, 1, c.lastSeq) \subseteq Accounted'
    OBVIOUS
  <2>1. 1 + Begun = 1
    BY DEF Begun
  <2>2. QED BY <1>4, <1>5, <2>1
<1>7. replayFirst => Past(file.run, 1, file.lastSeq) \subseteq Accounted'
  BY <1>2 DEF LossInv
<1>8. \A e \in got[current] : e[1] < c.run => Past(e[1], 1, MaxSeq) \subseteq Accounted'
  BY <1>1, <1>2, <1>4 DEF LossInv
<1>9. QED BY <1>1, <1>2, <1>3, <1>4, <1>5, <1>6, <1>7, <1>8 DEF LossInv

\* The event that is taken is in hand; what lies between it and the one before
\* is on its way behind it, or a gap that is reported.
LEMMA LossTake ==
    ASSUME TypeOK, BaseInv, CursorInv, ChainInv, LossInv, [Next]_vars, Take(current)
    PROVE  LossInv'
<1> DEFINE a == adapter[current]
           s == Head(a.events)
           new == Newest(current, s)
           c == [run |-> a.run, lastSeq |-> new]
<1>1. /\ UNCHANGED <<current, got, replayFirst>> /\ pc[current] = "live"
      /\ pc'[current] = "hand" /\ lastSeq' = [lastSeq EXCEPT ![current] = new]
      /\ (cursors' = c /\ file' \in {file, c}) \/ (cursors' = cursors /\ file' = file)
      /\ base' = [base EXCEPT ![current] = IF lastSeq[current] = 0 THEN s - 1 ELSE base[current]]
      /\ excused' = excused \cup Skipped(current, s) /\ hand' = [hand EXCEPT ![current] = s]
  BY DEF Take, Goto, Store, TypeOK
<1>2. /\ adapter'[current].run = a.run /\ a.events \in Seq(1..MaxSeq) /\ a.events # <<>>
      /\ s \in 1..MaxSeq
  BY CurrentTypes, TakeAdapter
<1>3. a.run = cursors.run
  BY <1>1 DEF CursorInv
<1>4. Following(a.events, seq[a.run]) = s
  BY <1>2, HeadAndTail DEF Following
<1> HIDE DEF s
<1>5. lastSeq[current] \in Nat /\ base[current] \in Nat /\ s \in Nat /\ s >= 1
      /\ current \in Loops
  BY <1>2, CurrentTypes, Constants
<1>6. /\ new \in 0..MaxSeq /\ new = (IF s > lastSeq[current] THEN s ELSE lastSeq[current])
      /\ new \in Nat
  BY <1>2, CurrentTypes, Constants DEF Newest
<1>7. c.run = cursors.run /\ c.lastSeq = new
  BY <1>3
<1> HIDE DEF new, c
<1>8. lastSeq'[current] = new /\ hand'[current] = s
      /\ base'[current] = IF lastSeq[current] = 0 THEN s - 1 ELSE base[current]
  BY <1>1 DEF TypeOK
<1>9. Accounted \subseteq Accounted'
  BY AccountedGrows
<1>10. ASSUME NEW e \in Event, e[1] = a.run, e[2] = s PROVE e \in Accounted'
  <2>1. e = <<a.run, s>>
    BY <1>10, EventParts
  <2>2. e \in InHand'
    BY <1>1, <1>2, <1>5, <1>8, <2>1 DEF InHand
  <2>3. QED BY <2>2 DEF Accounted
<1>11. Begun \in Nat /\ Begun' \in Nat
  BY <1>1, <1>5, <1>8 DEF Begun
<1>12. ASSUME NEW e \in Past(cursors.run, 1 + Begun', new) PROVE e \in Accounted'
  <2>1. /\ e \in Event /\ e[1] = a.run /\ e[2] \in Nat /\ 1 + Begun' <= e[2] /\ e[2] <= new
    BY <1>3, <1>6, <1>11, PastParts
  <2>2. CASE e[2] = s
    BY <1>10, <2>1, <2>2
  <2>3. CASE 1 + Begun <= e[2] /\ e[2] <= lastSeq[current]
    <3>1. e \in Past(cursors.run, 1 + Begun, lastSeq[current])
      BY <1>3, <1>5, <1>11, <2>1, <2>3, PastParts
    <3>2. QED BY <1>9, <3>1 DEF LossInv
  <2>4. CASE replayFirst /\ e[2] < s
    <3>1. e[2] \in 1..(s - 1)
      BY <1>5, <1>11, <2>1, <2>4
    <3>2. e \in Past(a.run, 1, Following(a.events, seq[a.run]) - 1)
      BY <1>4, <2>1, <3>1 DEF Past
    <3>3. e \in Accounted
      BY <1>1, <1>2, <2>4, <3>2 DEF ChainInv, Attached
    <3>4. QED BY <1>9, <3>3
  <2>5. CASE lastSeq[current] > 0 /\ lastSeq[current] < e[2] /\ e[2] < s
    <3>1. e[2] \in lastSeq[current] + 1 .. s - 1
      BY <1>5, <2>1, <2>5
    <3>2. e \in Skipped(current, s)
      BY <2>1, <2>5, <3>1 DEF Skipped
    <3>3. QED BY <1>1, <3>2 DEF Accounted
  <2>6. CASE replayFirst /\ ~(e[2] < s) /\ e[2] # s
    <3>1. Begun = 0 /\ Begun' = 0
      BY <1>1, <2>6 DEF Begun
    <3>2. 1 + Begun <= e[2] /\ e[2] <= lastSeq[current]
      BY <1>5, <1>6, <2>1, <2>6, <3>1
    <3>3. QED BY <2>3, <3>2
  <2>7. CASE ~replayFirst /\ lastSeq[current] = 0
    <3>1. Begun' = s - 1
      BY <1>1, <1>8, <2>7 DEF Begun
    <3>2. new = s
      BY <1>5, <1>6, <2>7
    <3>3. e[2] = s
      BY <1>5, <2>1, <3>1, <3>2
    <3>4. QED BY <2>2, <3>3
  <2>8. CASE ~replayFirst /\ lastSeq[current] # 0
    <3>1. Begun' = Begun
      BY <1>1, <1>8, <2>8 DEF Begun
    <3>2. \/ 1 + Begun <= e[2] /\ e[2] <= lastSeq[current]
          \/ lastSeq[current] > 0 /\ lastSeq[current] < e[2] /\ e[2] < s
          \/ e[2] = s
      BY <1>5, <1>6, <1>11, <2>1, <2>8, <3>1
    <3>3. QED BY <2>2, <2>3, <2>5, <3>2
  <2>9. QED BY <2>2, <2>4, <2>6, <2>7, <2>8
<1>13. replayFirst => Past(c.run, 1, c.lastSeq) \subseteq Accounted'
  <2> SUFFICES ASSUME replayFirst PROVE Past(c.run, 1, c.lastSeq) \subseteq Accounted'
    OBVIOUS
  <2>1. 1 + Begun' = 1
    BY <1>1 DEF Begun
  <2>2. QED BY <1>7, <1>12, <2>1
<1>14. replayFirst => /\ Past(cursors.run, 1, cursors.lastSeq) \subseteq Accounted'
                      /\ Past(file.run, 1, file.lastSeq) \subseteq Accounted'
  BY <1>9 DEF LossInv
<1>15. \A e \in got[current] : e[1] < cursors.run => Past(e[1], 1, MaxSeq) \subseteq Accounted'
  BY <1>1, <1>9 DEF LossInv
<1>16. cursors'.run = cursors.run
  BY <1>1, <1>7
<1>17. QED BY <1>1, <1>7, <1>8, <1>12, <1>13, <1>14, <1>15, <1>16 DEF LossInv

\* Every step of the loop and every quiet one keeps what was accounted for.
LEMMA LossStep ==
    ASSUME TypeOK, BaseInv, SoleInv, ChainInv, LossInv, [Next]_vars,
           Quiet \/ Loop(current) \/ DialFails(current)
    PROVE  ChainInv' /\ LossInv'
<1>0. CursorInv /\ StreamInv /\ GotInv
  BY DEF SoleInv
<1>1. CASE Quiet
  <2>1. UNCHANGED <<pc, current, cursors, file, lastSeq, previous, got, base>>
    BY <1>1, QuietFrame
  <2>2. LossInv'
    BY <2>1, LossKept
  <2>3. QED BY <1>1, <2>2, ChainQuiet
<1>2. CASE \/ Begin(current) \/ DialFails(current) \/ Dial(current) \/ Wake(current)
           \/ Leave(current) \/ Ingest(current)
  <2>1. UNCHANGED <<current, cursors, file, lastSeq, base>> /\ pc[current] # "recorded"
    BY <1>2 DEF Begin, DialFails, Dial, Wake, Leave, Ingest
  <2>2. CASE ~Ingest(current)
    <3>1. got' = got
      BY <1>2, <2>2 DEF Begin, DialFails, Dial, Wake, Leave
    <3>2. LossInv'
      BY <2>1, <3>1, LossKept
    <3>3. QED BY <1>0, <1>2, <2>2, <3>2, ChainDial, ChainLoop
  <2>3. CASE Ingest(current)
    <3>1. /\ pc[current] = "hand" /\ current \in Loops
          /\ got' = [got EXCEPT ![current] = @ \cup {<<adapter[current].run, hand[current]>>}]
          /\ got \in [Loops -> SUBSET Event]
      BY <2>3 DEF Ingest, TypeOK
    <3>2. got'[current] = got[current] \cup {<<adapter[current].run, hand[current]>>}
      BY <3>1
    <3>3. Accounted \subseteq Accounted' /\ replayFirst' = replayFirst
      BY AccountedGrows, ServerGrows
    <3>4. Begun' = Begun
      BY <2>1, <3>3 DEF Begun
    <3>5. cursors.run = adapter[current].run /\ adapter[current].run \in Nat
      BY <1>0, <3>1, CurrentTypes DEF CursorInv
    <3>6. ASSUME NEW e \in got'[current], e[1] < cursors.run PROVE e \in got[current]
      <4>1. ~(adapter[current].run < cursors.run)
        BY <3>5
      <4>2. <<adapter[current].run, hand[current]>>[1] = adapter[current].run
        OBVIOUS
      <4>3. e # <<adapter[current].run, hand[current]>>
        BY <3>6, <4>1, <4>2
      <4>4. QED BY <3>2, <4>3
    <3>7. \A e \in got'[current] : e[1] < cursors.run => Past(e[1], 1, MaxSeq) \subseteq Accounted'
      BY <2>1, <3>3, <3>6 DEF LossInv
    <3>8. LossInv'
      BY <2>1, <3>3, <3>4, <3>7 DEF LossInv
    <3>9. QED BY <2>3, <3>8, ChainLoop
  <2>4. QED BY <2>2, <2>3
<1>3. CASE RecordRun(current)
  BY <1>0, <1>3, LossRecord, ChainLoop
<1>4. CASE Announce(current)
  BY <1>0, <1>4, LossAnnounce, ChainLoop
<1>5. CASE Take(current)
  BY <1>0, <1>5, LossTake, ChainLoop
<1>6. CASE Disconnected(current)
  BY <1>0, <1>6, LossDisconnected, ChainLoop
<1>7. QED BY <1>1, <1>2, <1>3, <1>4, <1>5, <1>6 DEF Loop

\* The inductive invariant.
IInv == TypeOK /\ BaseInv /\ (abandoned = {} => SoleInv /\ ChainInv /\ LossInv)

\* Nothing has happened at first.
LEMMA LossInit ==
    ASSUME Init
    PROVE  ChainInv /\ LossInv
<1>1. /\ current = 1 /\ 1 \in Loops /\ pc[1] = "top" /\ lastSeq[1] = 0 /\ got[1] = {}
      /\ base[1] = 0 /\ cursors = NoCursor /\ file = NoCursor
  BY Constants DEF Init, Zero
<1>2. NoCursor.run = NoRun /\ NoCursor.lastSeq = 0
  BY DEF NoCursor
<1>3. Begun \in Nat
  BY <1>1 DEF Begun
<1>4. Past(NoRun, 1 + Begun, 0) = {} /\ Past(NoRun, 1, 0) = {}
  BY <1>3, PastParts
<1>5. LossInv
  BY <1>1, <1>2, <1>4 DEF LossInv
<1>6. ChainInv
  BY <1>1 DEF ChainInv, Attached
<1>7. QED BY <1>5, <1>6

\* Every step keeps the invariant.
LEMMA IInvStep ==
    ASSUME IInv, [Next]_vars
    PROVE  IInv'
<1>1. TypeOK /\ BaseInv /\ (TypeOK /\ BaseInv)'
  BY BaseStep DEF IInv
<1>2. ASSUME abandoned' = {} PROVE SoleInv' /\ ChainInv' /\ LossInv'
  <2>1. SoleInv /\ ChainInv /\ LossInv
    BY <1>1, <1>2, StillSole DEF IInv
  <2>2. SoleInv'
    BY <1>1, <1>2, <2>1, SoleStep
  <2>3. CASE Replace \/ Exit \/ Crash
    <3>1. pc'[current'] = "top"
      BY <1>1, <2>3, NewLoop
    <3>2. ChainInv'
      BY <3>1 DEF ChainInv, Attached
    <3>3. QED BY <1>1, <2>1, <2>2, <2>3, <3>2, LossNew
  <2>4. CASE Quiet \/ Loop(current) \/ DialFails(current)
    BY <1>1, <2>1, <2>2, <2>4, LossStep
  <2>5. QED BY <1>1, <2>1, <2>3, <2>4, StepKinds DEF SoleInv
<1>3. QED BY <1>1, <1>2 DEF IInv

\* What the invariant says of the connected loop and of the cursors.
LEMMA SoleAccounts == IInv => NoSilentLoss
<1> SUFFICES ASSUME IInv, abandoned = {} PROVE NoSilentLoss
  BY DEF NoSilentLoss
<1>1. TypeOK /\ BaseInv /\ OneLoop /\ CursorInv /\ LossInv
  BY DEF IInv, SoleInv
<1>2. ASSUME NEW l \in Loops, Connected(l)
      PROVE  /\ Past(adapter[l].run, 1 + (IF replayFirst THEN 0 ELSE base[l]), lastSeq[l])
                   \subseteq Accounted
             /\ \A e \in got[l] : e[1] < adapter[l].run => Past(e[1], 1, seq[e[1]]) \subseteq Accounted
  <2>1. l = current /\ pc[current] \in {"live", "hand"}
    BY <1>1, <1>2 DEF Connected, OneLoop
  <2>2. adapter[current].run = cursors.run
    BY <1>1, <2>1 DEF CursorInv
  <2>3. Past(cursors.run, 1 + (IF replayFirst THEN 0 ELSE base[current]), lastSeq[current])
           \subseteq Accounted
    BY <1>1 DEF LossInv, Begun
  <2>4. ASSUME NEW e \in got[current], e[1] < cursors.run
        PROVE  Past(e[1], 1, seq[e[1]]) \subseteq Accounted
    <3>1. Past(e[1], 1, MaxSeq) \subseteq Accounted
      BY <1>1, <2>1, <2>4 DEF LossInv
    <3>2. seq[e[1]] \in 0..MaxSeq /\ MaxSeq \in Nat
      BY <1>1, CurrentTypes, EventParts, Constants
    <3>3. 1..seq[e[1]] \subseteq 1..MaxSeq
      BY <3>2
    <3>4. Past(e[1], 1, seq[e[1]]) \subseteq Past(e[1], 1, MaxSeq)
      BY <3>3 DEF Past
    <3>5. QED BY <3>1, <3>4
  <2>5. QED BY <2>1, <2>2, <2>3, <2>4
<1>3. replayFirst => \A c \in {cursors, file} : Past(c.run, 1, c.lastSeq) \subseteq Accounted
  BY <1>1 DEF LossInv
<1>4. QED BY <1>2, <1>3 DEF NoSilentLoss

\* While no loop was given up, whatever a loop or a cursor has gone past was
\* passed on or stands in a report: a jump inside a run, the events the server
\* no longer had, and the run before a restart of the game (run, noteRemoteSeq
\* and persistCursor in daemon.go, with the server's welcome).
THEOREM NothingLostSilently == Spec => []NoSilentLoss
<1>1. Init => IInv
  BY BaseInit, SoleInit, LossInit DEF IInv
<1>2. IInv /\ [Next]_vars => IInv'
  BY IInvStep
<1>3. IInv => NoSilentLoss
  BY SoleAccounts
<1>4. QED BY <1>1, <1>2, <1>3, PTL DEF Spec
=============================================================================
