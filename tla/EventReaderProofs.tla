-------------------------- MODULE EventReaderProofs -------------------------
(***************************************************************************)
(* Theorems about the readers of the event log, PollEvents and             *)
(* FollowStream, on the lemmas about the log itself, EventRing: for any    *)
(* categories, targets, sizes of the ring, of the tables and of the        *)
(* queues, any page limits and any order of the steps.                     *)
(***************************************************************************)
EXTENDS PollEvents, FollowStream, FiniteSetTheorems, TLAPS

USE DEF ringVars, client

\* The tables have room for every key that can occur, and for one more.
Room ==
    \A kind \in Kinds :
        LET keys == {f \in Filter : KindOf(f) = kind}
        IN  IsFiniteSet(keys) /\ Cardinality(keys) < KeyLimit

-----------------------------------------------------------------------------
\* The key of an event is a filter of the kind of its table.
LEMMA KeyIsFilter ==
    ASSUME NEW e \in Event, NEW kind \in Kinds
    PROVE  KeyOf(e, kind) \in Filter /\ KindOf(KeyOf(e, kind)) = kind
<1>1. e.category \in Categories /\ e.target \in Targets
  BY DEF Event
<1>2. e.category # NoFilter /\ e.target # NoFilter
  BY <1>1, RingAssumption
<1>3. QED BY <1>1, <1>2 DEF KeyOf, KindOf, Filter, Kinds

\* A filter asks for an event exactly when it is the event's key of its kind.
LEMMA KeyMatches ==
    ASSUME NEW e \in Event, NEW f \in Filter
    PROVE  KindOf(f) \in Kinds /\ (Matches(e, f) <=> f = KeyOf(e, KindOf(f)))
<1>1. e.category \in Categories /\ e.target \in Targets
  BY DEF Event
<1>2. e.category # NoFilter /\ e.target # NoFilter
  BY <1>1, RingAssumption
<1>3. f = [category |-> f.category, target |-> f.target]
  BY DEF Filter
<1>4. QED BY <1>2, <1>3 DEF KeyOf, KindOf, Kinds, Matches

\* An operation on a table leaves a table of the same kind.
LEMMA RememberTypes ==
    ASSUME NEW keys, NEW table, DOMAIN table \subseteq keys,
           \A g \in DOMAIN table : table[g] \in 1..MaxSeq,
           NEW f \in keys, NEW seq \in 1..MaxSeq
    PROVE  /\ DOMAIN Remember(table, f, seq) \subseteq keys
           /\ \A g \in DOMAIN Remember(table, f, seq) :
                 Remember(table, f, seq)[g] \in 1..MaxSeq
<1> DEFINE rest == [g \in DOMAIN table \ {Oldest(table)} |-> table[g]]
<1>1. DOMAIN Put(table, f, seq) \subseteq keys
      /\ \A g \in DOMAIN Put(table, f, seq) : Put(table, f, seq)[g] \in 1..MaxSeq
  BY DEF Put
<1>2. DOMAIN rest \subseteq keys /\ \A g \in DOMAIN rest : rest[g] \in 1..MaxSeq
  OBVIOUS
<1>3. DOMAIN Put(rest, f, seq) \subseteq keys
      /\ \A g \in DOMAIN Put(rest, f, seq) : Put(rest, f, seq)[g] \in 1..MaxSeq
  <2> HIDE DEF rest
  <2>1. QED BY <1>2 DEF Put
<1>4. QED BY <1>1, <1>3 DEF Remember

\* The ring keeps its types when an event is ingested.
LEMMA RingTypes ==
    ASSUME RingTypeOK, NEW e \in Event, Ingest(e)
    PROVE  RingTypeOK'
<1>1. /\ log' \in Seq(Event) /\ Len(log') = Len(log) + 1 /\ Len(log') <= MaxSeq
  BY RingAssumption DEF RingTypeOK, Ingest
<1>2. CASE Len(log) - first + 1 = BufferSize
  <2>1. first \in 1..Len(log) /\ first \in 1..MaxSeq /\ first' = first + 1
    BY <1>2, RingAssumption DEF RingTypeOK, Ingest
  <2>2. (log')[first] \in Event
    BY <1>1, <2>1
  <2>3. evicted' = [kind \in Kinds |->
                      Remember(evicted[kind], KeyOf((log')[first], kind), first)]
    BY <1>2 DEF Ingest, RecordEviction
  <2>4. ASSUME NEW kind \in Kinds
        PROVE  /\ DOMAIN evicted'[kind] \subseteq {f \in Filter : KindOf(f) = kind}
               /\ \A f \in DOMAIN evicted'[kind] : evicted'[kind][f] \in 1..MaxSeq
    <3>1. KeyOf((log')[first], kind) \in {f \in Filter : KindOf(f) = kind}
      BY <2>2, KeyIsFilter
    <3>2. evicted'[kind] = Remember(evicted[kind], KeyOf((log')[first], kind), first)
      BY <2>3
    <3>3. QED BY <2>1, <3>1, <3>2, RememberTypes DEF RingTypeOK
  <2>5. first' \in 1..MaxSeq + 1 /\ first' <= Len(log') + 1
        /\ Len(log') - first' + 1 <= BufferSize
    BY <1>1, <1>2, <2>1, RingAssumption DEF RingTypeOK
  <2>6. QED BY <1>1, <2>3, <2>4, <2>5 DEF RingTypeOK
<1>3. CASE Len(log) - first + 1 # BufferSize
  <2>1. first' = first /\ evicted' = evicted
    BY <1>3 DEF Ingest
  <2>2. Len(log') - first' + 1 <= BufferSize
    BY <1>1, <1>3, <2>1, RingAssumption DEF RingTypeOK
  <2>3. QED BY <1>1, <2>1, <2>2, RingAssumption DEF RingTypeOK
<1>4. QED BY <1>2, <1>3

\* A new ring is well typed and has lost nothing.
LEMMA RingStarts ==
    /\ RingInit => RingTypeOK /\ TablesExact
    /\ RingRestart => RingTypeOK' /\ TablesExact'
<1>1. ASSUME NEW f \in Filter PROVE Kept(NewRing[KindOf(f)], f) = 0
  BY DEF Kept, NewRing, KindOf, Kinds, Filter
<1>2. \A kind \in Kinds : DOMAIN NewRing[kind] = {}
  BY DEF NewRing
<1>3. DOMAIN NewRing = Kinds
  BY DEF NewRing
<1>4. RingInit => RingTypeOK /\ TablesExact
  BY <1>1, <1>2, <1>3, RingAssumption DEF RingInit, RingTypeOK, TablesExact
<1>5. RingRestart => RingTypeOK' /\ TablesExact'
  BY <1>1, <1>2, <1>3, RingAssumption DEF RingRestart, RingTypeOK, TablesExact
<1>6. QED BY <1>4, <1>5
-----------------------------------------------------------------------------
\* With room for every key a new loss is always put into a table.
LEMMA RememberPuts ==
    ASSUME Room, RingTypeOK, NEW kind \in Kinds, NEW f, NEW seq \in Nat,
           Kept(evicted[kind], f) < seq
    PROVE  Remember(evicted[kind], f, seq) = Put(evicted[kind], f, seq)
<1> DEFINE keys == {g \in Filter : KindOf(g) = kind}
<1>1. IsFiniteSet(keys) /\ Cardinality(keys) < KeyLimit
  BY DEF Room
<1>2. DOMAIN evicted[kind] \in SUBSET keys
  BY DEF RingTypeOK
<1>3. Kept(evicted[kind], f) \in Nat
  BY RingAssumption DEF Kept, RingTypeOK
<1> HIDE DEF keys
<1>4. IsFiniteSet(DOMAIN evicted[kind])
      /\ Cardinality(DOMAIN evicted[kind]) <= Cardinality(keys)
  BY <1>1, <1>2, FS_Subset
<1>5. Cardinality(DOMAIN evicted[kind]) \in Nat /\ Cardinality(keys) \in Nat
  BY <1>1, <1>4, FS_CardinalityType
<1>6. Cardinality(DOMAIN evicted[kind]) < KeyLimit
  BY <1>1, <1>4, <1>5, RingAssumption
<1>7. ~(seq <= Kept(evicted[kind], f))
  BY <1>3
<1>8. QED BY <1>6, <1>7 DEF Remember

\* The tables stay exact when an event is ingested.
LEMMA RingExact ==
    ASSUME Room, RingTypeOK, TablesExact, NEW e \in Event, Ingest(e)
    PROVE  TablesExact'
<1>1. /\ log' \in Seq(Event) /\ Len(log') = Len(log) + 1
      /\ \A seq \in 1..Len(log) : (log')[seq] = log[seq]
  BY DEF RingTypeOK, Ingest
<1>2. first \in Nat \ {0} /\ first <= Len(log) + 1
  BY RingAssumption DEF RingTypeOK
<1>3. CASE Len(log) - first + 1 # BufferSize
  <2>1. first' = first /\ evicted' = evicted
    BY <1>3 DEF Ingest
  <2>2. \A seq \in 1..first - 1 : (log')[seq] = log[seq]
    BY <1>1, <1>2
  <2>3. ASSUME NEW f \in Filter PROVE Kept(evicted[KindOf(f)], f) \in Nat
    BY KeyMatches, RingAssumption DEF RingTypeOK, Kept, KindOf, Kinds
  <2>4. QED BY <1>2, <2>1, <2>2, <2>3 DEF TablesExact
<1>4. CASE Len(log) - first + 1 = BufferSize
  <2> DEFINE gone == (log')[first]
  <2>1. first \in 1..Len(log) /\ first' = first + 1
    BY <1>2, <1>4, RingAssumption DEF RingTypeOK, Ingest
  <2>2. gone \in Event
    BY <1>1, <2>1
  <2>3. evicted' = [kind \in Kinds |-> Remember(evicted[kind], KeyOf(gone, kind), first)]
    BY <1>4 DEF Ingest, RecordEviction
  <2> HIDE DEF gone
  <2>4. SUFFICES ASSUME NEW f \in Filter
                 PROVE  /\ \A seq \in 1..first : Matches((log')[seq], f) =>
                              seq <= Kept(evicted'[KindOf(f)], f)
                        /\ LET newest == Kept(evicted'[KindOf(f)], f)
                           IN  newest > 0 => newest <= first /\ Matches((log')[newest], f)
    <3>1. first' - 1 = first /\ \A n \in Nat : n < first' <=> n <= first
      BY <2>1
    <3>2. ASSUME NEW f \in Filter PROVE Kept(evicted'[KindOf(f)], f) \in Nat
      BY RingTypes, KeyMatches, RingAssumption, SMTT(30) DEF RingTypeOK, Kept, KindOf, Kinds
    <3>3. QED BY <2>4, <3>1, <3>2 DEF TablesExact
  <2> DEFINE kind == KindOf(f)
             key  == KeyOf(gone, kind)
             old  == evicted[kind]
  <2>5. kind \in Kinds /\ (Matches(gone, f) <=> f = key)
    BY <2>2, KeyMatches
  <2>6. key \in Filter /\ KindOf(key) = kind
    BY <2>2, <2>5, KeyIsFilter
  <2>7. Kept(old, key) < first /\ Kept(old, key) \in Nat
    <3>1. Kept(old, key) \in Nat
      BY <2>5, RingAssumption DEF RingTypeOK, Kept
    <3>2. Kept(old, key) > 0 => Kept(old, key) < first
      BY <2>6 DEF TablesExact
    <3>3. QED BY <1>2, <3>1, <3>2
  <2>8. evicted'[kind] = Put(old, key, first)
    <3>1. evicted'[kind] = Remember(old, key, first)
      BY <2>3, <2>5
    <3>2. QED BY <1>2, <2>5, <2>7, <3>1, RememberPuts
  <2>9. Kept(evicted'[kind], f) = IF f = key THEN first ELSE Kept(old, f)
    BY <2>8 DEF Put, Kept
  <2>10. \A seq \in 1..first - 1 : (log')[seq] = log[seq]
    BY <1>1, <2>1
  <2>11. CASE f = key
    BY <2>1, <2>5, <2>9, <2>11 DEF gone
  <2>12. CASE f # key
    <3>1. ~Matches((log')[first], f)
      BY <2>5, <2>12 DEF gone
    <3>2. Kept(old, f) \in Nat
      BY <2>5, RingAssumption DEF RingTypeOK, Kept
    <3>3. \A seq \in 1..first - 1 : Matches(log[seq], f) => seq <= Kept(old, f)
      BY DEF TablesExact
    <3>4. Kept(old, f) > 0 => Kept(old, f) < first /\ Matches(log[Kept(old, f)], f)
      BY DEF TablesExact
    <3>5. Kept(evicted'[kind], f) = Kept(old, f)
      BY <2>9, <2>12
    <3>6. \A seq \in 1..first : seq = first \/ seq \in 1..first - 1
      BY <2>1
    <3>7. Kept(old, f) > 0 => Kept(old, f) \in 1..first - 1
      BY <2>1, <3>2, <3>4
    <3>8. QED BY <2>1, <2>10, <3>1, <3>2, <3>3, <3>4, <3>5, <3>6, <3>7
  <2>13. QED BY <2>11, <2>12
<1>5. QED BY <1>3, <1>4
-----------------------------------------------------------------------------
\* What the daemon and the client initially hold is in range.
LEMMA TypeInit == Init => TypeOK
<1> SUFFICES ASSUME Init PROVE TypeOK
  OBVIOUS
<1>1. RingTypeOK
  BY RingStarts DEF Init
<1>2. 0 \in 0..MaxSeq /\ 1 \in 1..MaxSeq + 1 /\ 1 \in 1..MaxStreams /\ 0 \in 0..MaxStreams
  BY PollAssumption, ReaderAssumption, RingAssumption
<1>3. QED BY <1>1, <1>2 DEF Init, TypeOK

\* No step leaves the ranges.
LEMMA TypeStep == TypeOK /\ [Next]_vars => TypeOK'
<1> SUFFICES ASSUME TypeOK, [Next]_vars PROVE TypeOK'
  OBVIOUS
<1>1. ASSUME NEW e \in Event, Ingest(e), UNCHANGED <<stream, query, filter, client>>
      PROVE  TypeOK'
  <2>1. RingTypeOK'
    BY <1>1, RingTypes DEF TypeOK
  <2>2. QED BY <1>1, <2>1 DEF TypeOK
<1>2. ASSUME NEW size \in Limits, Copy(size) PROVE TypeOK'
  <2>1. query' \in [last : 0..MaxSeq, first : 1..MaxSeq + 1, reset : BOOLEAN,
                    since : 0..MaxSeq, limit : Limits]
    <3>1. Len(log) \in 0..MaxSeq /\ first \in 1..MaxSeq + 1
      BY RingAssumption DEF TypeOK, RingTypeOK
    <3>2. (IF IsReset THEN 0 ELSE cursor) \in 0..MaxSeq /\ IsReset \in BOOLEAN
      BY RingAssumption DEF TypeOK, IsReset
    <3>3. QED BY <1>2, <3>1, <3>2 DEF Copy
  <2>2. QED BY <1>2, <2>1 DEF Copy, TypeOK, RingTypeOK
<1>3. ASSUME Answer PROVE TypeOK'
  <2>1. query \in [last : 0..MaxSeq, first : 1..MaxSeq + 1, reset : BOOLEAN,
                   since : 0..MaxSeq, limit : Limits]
    BY <1>3 DEF Answer, TypeOK
  <2>2. Found \subseteq 1..MaxSeq
    BY <2>1, RingAssumption DEF Found
  <2>3. PICK page \in SUBSET Found : \E next \in page \cup {query.last} :
           cursor' = next /\ seen' = page \cup (IF query.since = 0 THEN {} ELSE seen)
    BY <1>3 DEF Answer
  <2>4. cursor' \in 0..MaxSeq /\ seen' \subseteq 1..MaxSeq
    BY <2>1, <2>2, <2>3, RingAssumption DEF TypeOK
  <2>5. lost' \subseteq 1..MaxSeq
    <3>1. query.since + 1..query.first - 1 \subseteq 1..MaxSeq
      BY <2>1, RingAssumption
    <3>2. QED BY <1>3, <3>1 DEF Answer, TypeOK
  <2>6. owed' \in 1..MaxSeq + 1 /\ from' \in 0..MaxStreams
    BY <1>3, <2>1, PollAssumption DEF Answer, TypeOK
  <2>7. QED BY <1>3, <2>4, <2>5, <2>6 DEF Answer, TypeOK, RingTypeOK
<1>4. ASSUME Restart PROVE TypeOK'
  <2>1. RingTypeOK'
    BY <1>4, RingStarts DEF Restart
  <2>2. stream' \in 1..MaxStreams
    BY <1>4, PollAssumption DEF Restart, TypeOK
  <2>3. QED BY <1>4, <2>1, <2>2 DEF Restart, TypeOK
<1>5. CASE UNCHANGED vars
  BY <1>5 DEF vars, TypeOK, RingTypeOK
<1>6. QED BY <1>1, <1>2, <1>3, <1>4, <1>5 DEF Next

\* Every variable of the daemon's ring and of a polling client stays in its range,
\* for tables of any size.
THEOREM PollTypes == Spec => []TypeOK
<1>1. QED BY TypeInit, TypeStep, PTL DEF Spec

-----------------------------------------------------------------------------
\* What is in the log stays there, until the daemon restarts.
LEMMA LogGrows ==
    ASSUME RingTypeOK, NEW e \in Event, Ingest(e)
    PROVE  /\ Len(log') = Len(log) + 1 /\ first <= first' /\ first' \in Nat
           /\ \A seq \in 1..Len(log) : (log')[seq] = log[seq]
  BY RingAssumption DEF RingTypeOK, Ingest

\* An answer in detail: the page holds everything that was found up to the new cursor.
LEMMA PageComplete ==
    ASSUME TypeOK, QueryInv, Answer
    PROVE  \E page \in SUBSET Found :
              /\ cursor' \in page \cup {query.last}
              /\ seen' = page \cup (IF query.since = 0 THEN {} ELSE seen)
              /\ \A seq \in page : seq <= cursor'
              /\ \A seq \in Found : seq <= cursor' => seq \in page
<1>1. query \in [last : 0..MaxSeq, first : 1..MaxSeq + 1, reset : BOOLEAN,
                 since : 0..MaxSeq, limit : Limits]
  BY DEF Answer, TypeOK
<1>2. PICK page \in SUBSET Found : \E next \in page \cup {query.last} :
         /\ IsPage(page) /\ GoesOn(page, next) /\ cursor' = next
         /\ seen' = page \cup (IF query.since = 0 THEN {} ELSE seen)
  BY DEF Answer
<1>3. IsPage(page) /\ GoesOn(page, cursor') /\ cursor' \in page \cup {query.last}
  BY <1>2
<1>4. Found \subseteq Nat /\ \A seq \in Found : seq <= query.last
  BY <1>1, RingAssumption DEF Found
<1>5. CASE page = {}
  <2>1. Cardinality({}) = 0
    BY FS_EmptySet
  <2>2. Found = {}
    BY <1>3, <1>5, <2>1 DEF IsPage
  <2>3. QED BY <1>2, <1>3, <1>5, <2>2
<1>6. CASE page # {}
  <2>1. cursor' \in page /\ \A seq \in page : seq <= cursor'
    BY <1>3, <1>6 DEF GoesOn
  <2>2. ASSUME NEW seq \in Found, seq <= cursor', seq \notin page PROVE FALSE
    <3>1. cursor' < seq
      BY <1>3, <2>1, <2>2 DEF IsPage
    <3>2. cursor' \in Nat /\ seq \in Nat
      BY <1>4, <2>1
    <3>3. QED BY <2>2, <3>1, <3>2
  <2>3. QED BY <1>2, <1>3, <2>1, <2>2
<1>7. QED BY <1>5, <1>6

\* The positions are numbers.
LEMMA Positions ==
    ASSUME TypeOK
    PROVE  Len(log) \in Nat /\ first \in Nat \ {0} /\ cursor \in Nat /\ owed \in Nat \ {0}
<1>1. Len(log) \in Nat
  <2>1. log \in Seq(Event)
    BY DEF TypeOK, RingTypeOK
  <2>2. QED BY <2>1
<1>2. first \in 1..MaxSeq + 1 /\ cursor \in 0..MaxSeq /\ owed \in 1..MaxSeq + 1
  BY DEF TypeOK, RingTypeOK
<1>3. QED BY <1>1, <1>2, RingAssumption

PollInv == TypeOK /\ TablesExact /\ QueryInv /\ AllAccountedFor

\* Initially nothing is owed.
LEMMA PollInit == Init => PollInv
<1> SUFFICES ASSUME Init PROVE PollInv
  OBVIOUS
<1>1. TypeOK /\ TablesExact
  BY TypeInit, RingStarts DEF Init
<1>2. QueryInv /\ AllAccountedFor
  BY DEF Init, QueryInv, AllAccountedFor, RingInit
<1>3. QED BY <1>1, <1>2 DEF PollInv

\* An answer gives the client what it asked for, or tells it of the loss.
LEMMA AnswerStep ==
    ASSUME PollInv, Answer
    PROVE  QueryInv' /\ AllAccountedFor'
<1>1. query \in [last : 0..MaxSeq, first : 1..MaxSeq + 1, reset : BOOLEAN,
                 since : 0..MaxSeq, limit : Limits]
  BY DEF PollInv, Answer, TypeOK
<1>2. /\ TypeOK /\ QueryInv /\ TablesExact /\ AllAccountedFor /\ query # Nothing
      /\ query.first <= first /\ query.last <= Len(log) /\ query.since <= query.last
  BY DEF PollInv, Answer, QueryInv
<1>3. PICK page \in SUBSET Found :
         /\ cursor' \in page \cup {query.last}
         /\ seen' = page \cup (IF query.since = 0 THEN {} ELSE seen)
         /\ \A seq \in page : seq <= cursor'
         /\ \A seq \in Found : seq <= cursor' => seq \in page
  BY <1>2, PageComplete
<1>4. Found \subseteq query.since + 1..query.last /\ Found \subseteq 1..query.last
  BY <1>1, RingAssumption DEF Found
<1>5. cursor' \in Nat /\ cursor' <= query.last /\ query.since <= cursor'
  BY <1>1, <1>2, <1>3, <1>4, RingAssumption
<1>6. /\ UNCHANGED <<log, first, evicted, stream, filter>> /\ query' = Nothing
      /\ from' = stream
  BY DEF Answer
<1>7. query.since > 0 => from = stream /\ query.since = cursor
  <2>1. query.since > 0 => ~query.reset
    BY <1>2 DEF QueryInv
  <2>2. QED BY <1>2, <2>1 DEF QueryInv
<1>8. QueryInv'
  <2>1. page \subseteq 1..cursor'
    BY <1>3, <1>4, <1>5
  <2>2. query.since > 0 => seen \subseteq 1..cursor'
    BY <1>1, <1>2, <1>5, <1>7 DEF QueryInv
  <2>3. seen' \subseteq 1..cursor'
    BY <1>1, <1>3, <2>1, <2>2
  <2>4. cursor' <= Len(log) /\ from' # 0 /\ stream \in Nat
    BY <1>1, <1>2, <1>5, <1>6, PollAssumption DEF TypeOK, RingTypeOK
  <2>5. QED BY <1>6, <2>3, <2>4 DEF QueryInv
<1>9. AllAccountedFor'
  <2>1. SUFFICES ASSUME NEW seq \in owed'..cursor', Matches(log[seq], filter)
                 PROVE  seq \in seen' \cup lost'
    BY <1>6 DEF AllAccountedFor
  <2>2. owed' \in Nat \ {0} /\ seq \in Nat \ {0} /\ seq <= query.last
    <3>1. owed' \in Nat \ {0}
      BY <1>1, <1>2, RingAssumption DEF Answer, TypeOK
    <3>2. QED BY <1>1, <1>5, <2>1, <3>1
  <2>3. CASE seq > query.since /\ seq >= query.first
    <3>1. seq \in Found
      BY <1>1, <2>1, <2>2, <2>3, RingAssumption DEF Found
    <3>2. QED BY <1>3, <1>5, <2>1, <2>2, <3>1
  <2>4. CASE query.since = 0 /\ seq < query.first
    BY <1>1, <2>1, <2>2, <2>4 DEF Answer
  <2>5. CASE query.since > 0 /\ seq <= query.since
    <3>1. owed' = owed /\ from = stream /\ seq \in owed..cursor
      BY <1>1, <1>7, <2>1, <2>2, <2>5, <1>2 DEF Answer, TypeOK
    <3>2. seq \in seen \cup lost
      BY <1>2, <2>1, <3>1 DEF AllAccountedFor
    <3>3. seen \subseteq seen' /\ lost \subseteq lost'
      BY <1>1, <1>3, <2>5 DEF Answer
    <3>4. QED BY <3>2, <3>3
  <2>6. CASE query.since > 0 /\ seq > query.since /\ seq < query.first
    <3>1. seq \in 1..first - 1 /\ filter \in Filter
      BY <1>1, <1>2, <2>2, <2>6, RingAssumption DEF TypeOK, RingTypeOK
    <3>2. seq <= Kept(evicted[KindOf(filter)], filter)
      BY <1>2, <2>1, <3>1 DEF TablesExact
    <3>3. Kept(evicted[KindOf(filter)], filter) \in Nat
      BY <1>2, <3>1, KeyMatches, RingAssumption
         DEF TypeOK, RingTypeOK, Kept, KindOf, Kinds
    <3>4. Dropped(filter, query.since)
      BY <1>1, <2>2, <2>6, <3>2, <3>3 DEF Dropped
    <3>5. seq \in {s \in query.since + 1..query.first - 1 : Matches(log[s], filter)}
      BY <1>1, <2>1, <2>2, <2>6
    <3>6. QED BY <3>4, <3>5 DEF Answer
  <2>7. QED BY <1>1, <2>2, <2>3, <2>4, <2>5, <2>6, RingAssumption
<1>10. QED BY <1>8, <1>9

\* Every step keeps the tables exact and the client's account complete.
LEMMA PollStep ==
    ASSUME Room
    PROVE  PollInv /\ [Next]_vars => PollInv'
<1> SUFFICES ASSUME PollInv, [Next]_vars PROVE PollInv'
  OBVIOUS
<1>1. TypeOK' /\ TypeOK /\ RingTypeOK
  BY TypeStep DEF PollInv, TypeOK
<1>2. ASSUME NEW e \in Event, Ingest(e), UNCHANGED <<stream, query, filter, client>>
      PROVE  PollInv'
  <2>1. TablesExact'
    BY <1>1, <1>2, RingExact DEF PollInv
  <2>2. /\ Len(log') = Len(log) + 1 /\ first <= first' /\ first' \in Nat
        /\ \A seq \in 1..Len(log) : (log')[seq] = log[seq]
    BY <1>1, <1>2, LogGrows
  <2>3. Len(log) \in Nat /\ first \in Nat /\ cursor \in Nat /\ owed \in Nat \ {0}
    BY <1>1, Positions
  <2>4. QueryInv'
    <3>1. query # Nothing => query.first \in Nat /\ query.last \in Nat
      BY <1>1 DEF TypeOK
    <3>2. QED BY <1>2, <2>2, <2>3, <3>1 DEF PollInv, QueryInv
  <2>5. AllAccountedFor'
    <3>1. SUFFICES ASSUME from = stream, NEW seq \in owed..cursor,
                          Matches((log')[seq], filter)
                   PROVE  seq \in seen \cup lost
      BY <1>2 DEF AllAccountedFor
    <3>2. seq \in 1..Len(log)
      BY <2>3, <3>1 DEF PollInv, QueryInv
    <3>3. QED BY <2>2, <3>1, <3>2 DEF PollInv, AllAccountedFor
  <2>6. QED BY <1>1, <2>1, <2>4, <2>5 DEF PollInv
<1>3. ASSUME NEW size \in Limits, Copy(size) PROVE PollInv'
  <2>1. TablesExact' /\ AllAccountedFor'
    BY <1>3 DEF Copy, PollInv, TablesExact, AllAccountedFor
  <2>2. QueryInv'
    <3>1. Len(log) \in Nat /\ first \in Nat /\ cursor \in Nat
      BY <1>1, Positions
    <3>2. query' = [last |-> Len(log), first |-> first, reset |-> IsReset,
                    since |-> IF IsReset THEN 0 ELSE cursor, limit |-> size]
      BY <1>3 DEF Copy
    <3>3. ~IsReset => cursor <= Len(log) /\ (from = 0 \/ from = stream)
      BY <3>1 DEF IsReset
    <3>4. from = 0 => cursor = 0
      BY DEF PollInv, QueryInv
    <3>5. QED BY <1>3, <3>1, <3>2, <3>3, <3>4 DEF Copy, PollInv, QueryInv
  <2>3. QED BY <1>1, <2>1, <2>2 DEF PollInv
<1>4. ASSUME Answer PROVE PollInv'
  <2>1. TablesExact'
    BY <1>4 DEF Answer, PollInv, TablesExact
  <2>2. QED BY <1>1, <1>4, <2>1, AnswerStep DEF PollInv
<1>5. ASSUME Restart PROVE PollInv'
  <2>1. TablesExact'
    BY <1>5, RingStarts DEF Restart
  <2>2. from' # stream'
    BY <1>5, PollAssumption DEF Restart, PollInv, QueryInv, TypeOK
  <2>3. from' <= stream'
    BY <1>5, PollAssumption DEF Restart, PollInv, QueryInv, TypeOK
  <2>4. QED BY <1>1, <1>5, <2>1, <2>2, <2>3 DEF Restart, PollInv, QueryInv, AllAccountedFor
<1>6. CASE UNCHANGED vars
  BY <1>1, <1>6 DEF vars, PollInv, TablesExact, QueryInv, AllAccountedFor
<1>7. QED BY <1>2, <1>3, <1>4, <1>5, <1>6 DEF Next

\* With room for every key the invariant holds in every behaviour.
LEMMA InvariantHolds ==
    ASSUME Room
    PROVE  Spec => []PollInv
<1>1. PollInv /\ [Next]_vars => PollInv'
  BY PollStep
<1>2. QED BY <1>1, PollInit, PTL DEF Spec

\* With room for every key, the tables know exactly the newest loss of every filter.
THEOREM TablesAreExact ==
    ASSUME Room
    PROVE  Spec => []TablesExact
<1>1. PollInv => TablesExact
  BY DEF PollInv
<1>2. QED BY <1>1, InvariantHolds, PTL

\* With room for every key, a client that polls gets every event that it asked for
\* or is told that it has lost it, however pages, evictions and restarts interleave.
THEOREM NoSilentLoss ==
    ASSUME Room
    PROVE  Spec => []AllAccountedFor
<1>1. PollInv => AllAccountedFor
  BY DEF PollInv
<1>2. QED BY <1>1, InvariantHolds, PTL

\* No event is found a second time by the client that has it.
THEOREM FoundOnce ==
    ASSUME Room
    PROVE  Spec => []NothingTwice
<1>1. PollInv => NothingTwice
  <2>1. SUFFICES ASSUME PollInv, query # Nothing, ~query.reset, from = stream,
                        NEW seq \in Found, seq \in seen
                 PROVE  FALSE
    BY DEF NothingTwice
  <2>2. seq > cursor /\ seq \in 1..cursor
    BY <2>1 DEF PollInv, QueryInv, Found
  <2>3. cursor \in Nat
    BY <2>1, RingAssumption DEF PollInv, TypeOK
  <2>4. QED BY <2>2, <2>3
<1>2. QED BY <1>1, InvariantHolds, PTL
-----------------------------------------------------------------------------
(* A follower: its types and the protocol of its calls.                    *)

\* While an event is in the read loop's hand nothing is counted as dropped.
TagInv == dropped <= 1 /\ (reading # Nothing => dropped = 0)

\* The answers on the way: between the server's send and the command.
Answers == {i \in 1..Len(outbound) : outbound[i].kind # "event"}
Pending == {outbound[i] : i \in Answers} \cup ({reply} \ {Nothing})

\* The command waits for one answer at a time, and it is to what it asked.
CallInv ==
    /\ Answers # {} => reply = Nothing
    /\ \A i, j \in Answers : i = j
    /\ up /\ Pending # {} => request = Nothing
    /\ pc \in {"start", "paging", "checking", "live"} =>
          Pending = {} /\ (up => request = Nothing)
    /\ pc = "subscribing" =>
          /\ \A frame \in Pending : frame.kind = "subscribed"
          /\ up /\ request # Nothing => request.step \in {"subscribe", "confirm"}
    /\ pc = "waiting" =>
          /\ \A frame \in Pending : frame.kind = "page"
          /\ up /\ request # Nothing => request.step \in {"events", "copied"}

\* Once the command has its confirmation the server sends it the events.
Asking == {"paging", "waiting", "checking", "live"}
SubscribedInv ==
    pc \in Asking \/ (pc = "subscribing" /\ (Pending # {} \/ (up /\ request = [step |-> "confirm"])))
        => subscribed

\* The constants are of their kinds.
LEMMA FollowConstants ==
    /\ MaxSeq \in Nat /\ OutboundSize \in Nat \ {0} /\ QueueSize \in Nat \ {0}
    /\ Limits \subseteq Nat /\ Filters \subseteq Filter /\ Sent \subseteq Event
    /\ Nothing \notin Requests /\ Nothing \notin Replies /\ Nothing \notin Tagged
BY RingAssumption, FollowAssumption, ReaderAssumption, NothingAssumption

\* A connection that is closed keeps a part of what was on its way.
LEMMA CloseTypes ==
    ASSUME FollowTypeOK, Close
    PROVE  /\ up' = FALSE /\ outbound' \in Seq(Frames) /\ Len(outbound') <= OutboundSize
           /\ Len(outbound') \in 0..Len(outbound)
           /\ \A i \in 1..Len(outbound') : outbound'[i] = outbound[i]
<1>1. PICK n \in 0..Len(outbound) : outbound' = SubSeq(outbound, 1, n)
  BY DEF Close
<1>2. outbound \in Seq(Frames) /\ Len(outbound) \in Nat /\ Len(outbound) <= OutboundSize
  BY DEF FollowTypeOK
<1>3. /\ outbound' \in Seq(Frames) /\ Len(outbound') = n
      /\ \A i \in 1..n : outbound'[i] = outbound[i]
  BY <1>1, <1>2
<1>4. QED BY <1>1, <1>2, <1>3, FollowConstants DEF Close

\* What is sent comes last, or the connection is closed.
LEMMA SendTypes ==
    ASSUME FollowTypeOK, NEW frame \in Frames, Send(frame)
    PROVE  /\ up' \in BOOLEAN /\ outbound' \in Seq(Frames) /\ Len(outbound') <= OutboundSize
           /\ \/ up' = up /\ outbound' = Append(outbound, frame)
              \/ Close
<1>1. outbound \in Seq(Frames) /\ up \in BOOLEAN
  BY DEF FollowTypeOK
<1>2. CASE Len(outbound) < OutboundSize
  BY <1>1, <1>2, FollowConstants DEF Send
<1>3. CASE ~(Len(outbound) < OutboundSize)
  <2>1. Close
    BY <1>3 DEF Send
  <2>2. QED BY <2>1, CloseTypes
<1>4. QED BY <1>2, <1>3

\* The initial state is in range.
LEMMA FollowInitTypes == FollowInit => FollowTypeOK /\ TagInv
<1> SUFFICES ASSUME FollowInit PROVE FollowTypeOK /\ TagInv
  OBVIOUS
<1>1. RingTypeOK
  BY RingStarts DEF FollowInit
<1>2. 0 \in 0..MaxSeq /\ NotYet \in 1..MaxSeq + 1
  BY FollowConstants DEF NotYet
<1>3. cursor \in Nat /\ origin \in {"this", "other", "unknown"}
  BY FollowAssumption DEF FollowInit
<1>4. <<>> \in Seq(Frames) /\ <<>> \in Seq(Tagged) /\ Len(<<>>) = 0
  OBVIOUS
<1>5. /\ lastSeq \in 0..MaxSeq /\ printed \subseteq 1..MaxSeq /\ warned \in BOOLEAN
      /\ excused \subseteq 1..MaxSeq /\ owed \in 1..MaxSeq + 1 /\ dropped \in 0..MaxSeq
  BY <1>2 DEF FollowInit
<1>6. /\ outbound \in Seq(Frames) /\ Len(outbound) <= OutboundSize
      /\ queue \in Seq(Tagged) /\ Len(queue) <= QueueSize
  BY <1>4, FollowConstants DEF FollowInit
<1>7. /\ up \in BOOLEAN /\ subscribed \in BOOLEAN /\ notify \in BOOLEAN /\ done \in BOOLEAN
      /\ request \in Requests \cup {Nothing} /\ reading \in Tagged \cup {Nothing}
      /\ reply \in Replies \cup {Nothing} /\ held \in Tagged \cup {Nothing}
      /\ pc \in Pcs /\ filter \in Filters /\ limit \in Limits
  BY DEF FollowInit, Pcs
<1>8. TagInv
  BY DEF FollowInit, TagInv
<1>9. QED BY <1>1, <1>3, <1>5, <1>6, <1>7, <1>8 DEF FollowTypeOK

\* The answer to a query.
LEMMA PageIsReply ==
    ASSUME FollowTypeOK, AnswerPage
    PROVE  \E next \in Page \cup {request.last} :
              LET frame == [kind |-> "page", events |-> Page, next |-> next, first |-> request.first,
                            since |-> request.since, reset |-> request.reset,
                            truncated |-> Page # Wanted, dropped |-> Dropped(filter, request.since)]
              IN  /\ frame \in Replies /\ frame.kind = "page" /\ Send(frame)
                  /\ IF Page = {} THEN next = request.last
                     ELSE next \in Page /\ \A seq \in Page : seq <= next
<1>1. request \in [step : {"copied"}, first : 1..MaxSeq + 1, last : 0..MaxSeq,
                   reset : BOOLEAN, since : 0..MaxSeq]
  BY DEF AnswerPage, Copied, FollowTypeOK, Requests
<1>2. Page \subseteq 1..MaxSeq
  <2>1. Wanted \subseteq 1..MaxSeq
    BY <1>1, FollowConstants DEF Wanted
  <2>2. QED BY <2>1 DEF Page
<1>3. PICK next \in Page \cup {request.last} :
         /\ IF Page = {} THEN next = request.last
            ELSE next \in Page /\ \A seq \in Page : seq <= next
         /\ Send([kind |-> "page", events |-> Page, next |-> next, first |-> request.first,
                  since |-> request.since, reset |-> request.reset,
                  truncated |-> Page # Wanted, dropped |-> Dropped(filter, request.since)])
  BY DEF AnswerPage
<1>4. next \in 0..MaxSeq
  BY <1>1, <1>2, FollowConstants
<1>5. (Page # Wanted) \in BOOLEAN /\ Dropped(filter, request.since) \in BOOLEAN
  BY DEF Dropped
<1>6. [kind |-> "page", events |-> Page, next |-> next, first |-> request.first,
       since |-> request.since, reset |-> request.reset,
       truncated |-> Page # Wanted, dropped |-> Dropped(filter, request.since)] \in Replies
  BY <1>1, <1>2, <1>4, <1>5 DEF Replies, Pages
<1>7. QED BY <1>3, <1>6

\* The steps of the daemon and its side of the connection.
LEMMA ServerTypes ==
    ASSUME FollowTypeOK, TagInv,
           ServerStep \/ Hangup \/ \E e \in Sent : Publish(e)
    PROVE  FollowTypeOK' /\ TagInv'
<1> USE DEF ringVars, server, inbound, counter, command, settings, output
<1>1. ASSUME NEW e \in Sent, Publish(e) PROVE FollowTypeOK' /\ TagInv'
  <2>1. RingTypeOK' /\ Len(log') \in 1..MaxSeq
    <3>1. e \in Event /\ Ingest(e) /\ RingTypeOK
      BY <1>1, FollowConstants DEF Publish, FollowTypeOK
    <3>2. Len(log') = Len(log) + 1 /\ Len(log) \in Nat /\ Len(log) < MaxSeq
      BY <3>1 DEF Ingest, RingTypeOK
    <3>3. QED BY <3>1, <3>2, RingTypes, FollowConstants
  <2>2. up' \in BOOLEAN /\ outbound' \in Seq(Frames) /\ Len(outbound') <= OutboundSize
    <3>1. [kind |-> "event", seq |-> Len(log')] \in Frames
      BY <2>1 DEF Frames
    <3>2. \/ Send([kind |-> "event", seq |-> Len(log')]) \/ UNCHANGED <<up, outbound>>
      BY <1>1 DEF Publish
    <3>3. QED BY <3>1, <3>2, SendTypes DEF FollowTypeOK
  <2>3. QED BY <1>1, <2>1, <2>2 DEF Publish, FollowTypeOK, TagInv
<1>2. ASSUME ServeSubscribe PROVE FollowTypeOK' /\ TagInv'
  <2>1. request' \in Requests
    BY <1>2 DEF ServeSubscribe, Requests
  <2>2. QED BY <1>2, <2>1 DEF ServeSubscribe, FollowTypeOK, RingTypeOK, TagInv
<1>3. ASSUME Confirm PROVE FollowTypeOK' /\ TagInv'
  <2>1. [kind |-> "subscribed"] \in Frames
    BY DEF Frames, Replies
  <2>2. QED BY <1>3, <2>1, SendTypes, ZenonT(40) DEF Confirm, FollowTypeOK, RingTypeOK, TagInv
<1>4. ASSUME CopyRing PROVE FollowTypeOK' /\ TagInv'
  <2> DEFINE reset == origin = "other" \/ cursor > Len(log)
             since == IF reset THEN 0 ELSE cursor
  <2>1. Len(log) \in 0..MaxSeq /\ first \in 1..MaxSeq + 1 /\ reset \in BOOLEAN
    BY FollowConstants DEF FollowTypeOK, RingTypeOK
  <2>2. since \in 0..MaxSeq
    BY <2>1, FollowConstants DEF FollowTypeOK
  <2>3. request' = [step |-> "copied", first |-> first, last |-> Len(log),
                    reset |-> reset, since |-> since]
    BY <1>4 DEF CopyRing
  <2>4. request' \in Requests
    <3> HIDE DEF reset, since
    <3>1. QED BY <2>1, <2>2, <2>3 DEF Requests
  <2>5. QED BY <1>4, <2>4 DEF CopyRing, FollowTypeOK, RingTypeOK, TagInv
<1>5. ASSUME AnswerPage PROVE FollowTypeOK' /\ TagInv'
  <2>1. PICK frame \in Replies : Send(frame)
    BY <1>5, PageIsReply
  <2>7. up' \in BOOLEAN /\ outbound' \in Seq(Frames) /\ Len(outbound') <= OutboundSize
    BY <2>1, SendTypes DEF Frames
  <2>8. QED BY <1>5, <2>7 DEF AnswerPage, FollowTypeOK, RingTypeOK, TagInv
<1>6. ASSUME Hangup PROVE FollowTypeOK' /\ TagInv'
  <2>1. up' = FALSE /\ outbound' \in Seq(Frames) /\ Len(outbound') <= OutboundSize
    BY <1>6, CloseTypes DEF Hangup
  <2>2. QED BY <1>6, <2>1, ZenonT(40) DEF Hangup, FollowTypeOK, RingTypeOK, TagInv
<1>7. QED BY <1>1, <1>2, <1>3, <1>4, <1>5, <1>6 DEF ServerStep

\* The steps of the client's read loop.
LEMMA ReaderTypes ==
    ASSUME FollowTypeOK, TagInv, ReadLoopStep
    PROVE  FollowTypeOK' /\ TagInv'
<1> USE DEF ringVars, server, inbound, counter, command, settings, output
<1>0. /\ outbound \in Seq(Frames) /\ Len(outbound) <= OutboundSize /\ queue \in Seq(Tagged)
      /\ Len(queue) <= QueueSize /\ Len(outbound) \in Nat /\ Len(queue) \in Nat
  BY DEF FollowTypeOK
<1>1. ASSUME outbound # <<>>
      PROVE  /\ outbound[1] \in Frames /\ Tail(outbound) \in Seq(Frames)
             /\ Len(Tail(outbound)) <= OutboundSize
  BY <1>0, <1>1, FollowConstants
<1>2. CASE RouteReply
  <2>1. outbound[1] \in Frames /\ outbound[1].kind \in {"subscribed", "page"}
    BY <1>1, <1>2 DEF RouteReply, Arrives
  <2>2. reply' \in Replies
    BY <1>2, <2>1 DEF RouteReply, Frames
  <2>3. outbound' \in Seq(Frames) /\ Len(outbound') <= OutboundSize
    BY <1>1, <1>2 DEF RouteReply, Arrives
  <2>4. QED BY <1>2, <2>2, <2>3 DEF RouteReply, FollowTypeOK, RingTypeOK, TagInv
<1>3. CASE ReadEvent
  <2>1. outbound[1] \in Frames /\ outbound[1].kind = "event"
    BY <1>1, <1>3 DEF ReadEvent, Arrives
  <2>2. outbound[1].seq \in 1..MaxSeq
    BY <2>1 DEF Frames, Replies, Pages
  <2>3. reading' \in Tagged /\ dropped' = 0
    BY <1>3, <2>2 DEF ReadEvent, Tagged, FollowTypeOK
  <2>4. outbound' \in Seq(Frames) /\ Len(outbound') <= OutboundSize
    BY <1>1, <1>3 DEF ReadEvent, Arrives
  <2>5. dropped' \in 0..MaxSeq
    BY <2>3, FollowConstants
  <2>6. QED BY <1>3, <2>3, <2>4, <2>5 DEF ReadEvent, FollowTypeOK, RingTypeOK, TagInv
<1>4. CASE QueueEvent
  <2>1. reading \in Tagged /\ dropped = 0 /\ reading' = Nothing
    BY <1>4 DEF QueueEvent, FollowTypeOK, TagInv
  <2>2. 1 \in 0..MaxSeq
    BY <2>1, FollowConstants DEF Tagged
  <2>3. /\ queue' \in Seq(Tagged) /\ Len(queue') <= QueueSize
        /\ dropped' \in {0, 1} /\ notify' \in BOOLEAN
    <3>1. CASE Len(queue) < QueueSize
      <4>1. queue' = Append(queue, reading) /\ dropped' = dropped /\ notify' = notify
        BY <1>4, <3>1 DEF QueueEvent
      <4>2. QED BY <1>0, <2>1, <3>1, <4>1, FollowConstants DEF FollowTypeOK
    <3>2. CASE ~(Len(queue) < QueueSize)
      <4>1. queue' = queue /\ dropped' = dropped + 1 /\ notify' = TRUE
        BY <1>4, <3>2 DEF QueueEvent
      <4>2. QED BY <1>0, <2>1, <4>1
    <3>3. QED BY <3>1, <3>2
  <2>4. dropped' \in 0..MaxSeq /\ dropped' <= 1
    BY <2>2, <2>3, FollowConstants
  <2>5. QED BY <1>4, <2>1, <2>3, <2>4 DEF QueueEvent, FollowTypeOK, RingTypeOK, TagInv
<1>5. CASE ReadFails
  BY <1>5 DEF ReadFails, FollowTypeOK, RingTypeOK, TagInv
<1>6. QED BY <1>2, <1>3, <1>4, <1>5 DEF ReadLoopStep

\* A request is made, or the connection is gone.
LEMMA CallTypes ==
    ASSUME FollowTypeOK, NEW step \in {"subscribe", "events"}, Call(step)
    PROVE  request' \in Requests \cup {Nothing}
BY DEF Call, Requests, FollowTypeOK

\* What Deliver prints.
LEMMA DeliverTypes ==
    ASSUME FollowTypeOK, NEW seq \in 1..MaxSeq, Deliver(seq)
    PROVE  /\ lastSeq' \in 0..MaxSeq /\ printed' \subseteq 1..MaxSeq
           /\ warned' \in BOOLEAN /\ excused' \subseteq 1..MaxSeq
<1>1. CASE Matches(log[seq], filter) /\ seq > lastSeq
  <2>1. lastSeq' = seq /\ printed' = printed \cup {seq} /\ warned' = warned /\ excused' = excused
    BY <1>1 DEF Deliver
  <2>2. QED BY <2>1, FollowConstants DEF FollowTypeOK
<1>2. CASE ~(Matches(log[seq], filter) /\ seq > lastSeq)
  BY <1>2 DEF Deliver, output, FollowTypeOK
<1>3. QED BY <1>1, <1>2

\* The steps of the command.
LEMMA CommandTypes ==
    ASSUME FollowTypeOK, TagInv, CallInv, CommandStep \/ Cancel
    PROVE  FollowTypeOK' /\ TagInv'
<1> USE DEF ringVars, server, inbound, counter, command, settings, output
<1>1. CASE Subscribe
  <2>1. request' \in Requests \cup {Nothing}
    BY <1>1, CallTypes DEF Subscribe
  <2>2. QED BY <1>1, <2>1 DEF Subscribe, FollowTypeOK, RingTypeOK, TagInv, Pcs
<1>2. CASE Subscribed
  BY <1>2 DEF Subscribed, FollowTypeOK, RingTypeOK, TagInv, Pcs
<1>3. CASE AskPage
  <2>1. request' \in Requests \cup {Nothing}
    BY <1>3, CallTypes DEF AskPage
  <2>2. QED BY <1>3, <2>1 DEF AskPage, FollowTypeOK, RingTypeOK, TagInv, Pcs
<1>4. CASE Reset
  <2>1. 0 \in 0..MaxSeq /\ 0 \in Nat
    BY FollowConstants
  <2>2. QED BY <1>4, <2>1 DEF Reset, FollowTypeOK, RingTypeOK, TagInv, Pcs
<1>5. CASE PrintPage
  <2>1. reply \in Pages
    <3>1. pc = "waiting" /\ reply # Nothing /\ reply \in Replies
      BY <1>5 DEF PrintPage, FollowTypeOK
    <3>2. reply.kind = "page"
      BY <3>1 DEF CallInv, Pending
    <3>3. QED BY <3>1, <3>2 DEF Replies
  <2>2. /\ reply.events \subseteq 1..MaxSeq /\ reply.next \in 0..MaxSeq
        /\ reply.first \in 1..MaxSeq + 1 /\ reply.since \in 0..MaxSeq
    BY <2>1 DEF Pages
  <2>3. printed' \subseteq 1..MaxSeq /\ lastSeq' \in 0..MaxSeq
    <3>1. printed \subseteq 1..MaxSeq /\ lastSeq \in 0..MaxSeq
      BY DEF FollowTypeOK
    <3>2. printed' = printed \cup reply.events /\ lastSeq' \in reply.events \cup {lastSeq}
      BY <1>5 DEF PrintPage
    <3>3. 1..MaxSeq \subseteq 0..MaxSeq
      BY FollowConstants
    <3>4. QED BY <2>2, <3>1, <3>2, <3>3
  <2>4. excused' \subseteq 1..MaxSeq
    <3>1. lastSeq + 1..reply.first - 1 \subseteq 1..MaxSeq
      BY <2>2, FollowConstants, SMTT(30) DEF FollowTypeOK
    <3>2. QED BY <1>5, <3>1 DEF PrintPage, FollowTypeOK
  <2>5. owed' \in 1..MaxSeq + 1
    BY <1>5, <2>2, FollowConstants, SMTT(30) DEF PrintPage, FollowTypeOK
  <2>6. cursor' \in Nat /\ pc' \in {"paging", "checking"}
    BY <1>5, <2>2 DEF PrintPage
  <2>7. QED BY <1>5, <2>3, <2>4, <2>5, <2>6
            DEF PrintPage, FollowTypeOK, RingTypeOK, TagInv, Pcs
<1>6. ASSUME Recover
      PROVE  cursor' \in Nat /\ warned' = TRUE /\ pc' \in Pcs /\ UNCHANGED <<lastSeq, printed, excused>>
  BY <1>6, FollowConstants DEF Recover, FollowTypeOK, Pcs
<1>7. 0 \in 0..MaxSeq
  BY FollowConstants
<1>8. CASE Overflowed
  <2>1. Recover /\ dropped' = 0 /\ reading' = reading
    BY <1>8 DEF Overflowed
  <2>2. dropped' \in 0..MaxSeq /\ TagInv'
    BY <1>7, <2>1 DEF TagInv
  <2>3. QED BY <1>6, <1>8, <2>1, <2>2, ZenonT(40) DEF Overflowed, FollowTypeOK, RingTypeOK
<1>9. CASE GoLive
  <2>1. /\ lastSeq' \in 0..MaxSeq /\ printed' \subseteq 1..MaxSeq
        /\ warned' \in BOOLEAN /\ excused' \subseteq 1..MaxSeq
    <3>1. CASE held = Nothing
      BY <1>9, <3>1 DEF GoLive, FollowTypeOK
    <3>2. CASE held # Nothing
      <4>1. held.seq \in 1..MaxSeq /\ Deliver(held.seq)
        BY <1>9, <3>2 DEF GoLive, FollowTypeOK, Tagged
      <4>2. QED BY <4>1, DeliverTypes
    <3>3. QED BY <3>1, <3>2
  <2>2. QED BY <1>9, <2>1 DEF GoLive, FollowTypeOK, RingTypeOK, TagInv, Pcs
<1>10. CASE Noticed
  <2>1. cursor' \in Nat /\ warned' \in BOOLEAN /\ pc' \in Pcs /\ UNCHANGED <<lastSeq, printed, excused>>
    BY <1>6, <1>10 DEF Noticed, FollowTypeOK
  <2>2. dropped' \in 0..MaxSeq /\ TagInv'
    BY <1>7, <1>10 DEF Noticed, TagInv
  <2>3. QED BY <1>10, <2>1, <2>2 DEF Noticed, FollowTypeOK, RingTypeOK
<1>11. CASE TakeEvent
  <2>1. queue \in Seq(Tagged) /\ queue # <<>> /\ Len(queue) <= QueueSize /\ Len(queue) \in Nat
    BY <1>11 DEF TakeEvent, FollowTypeOK
  <2>2. queue[1] \in Tagged /\ Tail(queue) \in Seq(Tagged) /\ Len(Tail(queue)) <= QueueSize
    BY <2>1, FollowConstants
  <2>3. queue[1].seq \in 1..MaxSeq
    BY <2>2 DEF Tagged
  <2>4. /\ lastSeq' \in 0..MaxSeq /\ printed' \subseteq 1..MaxSeq
        /\ warned' \in BOOLEAN /\ excused' \subseteq 1..MaxSeq
        /\ cursor' \in Nat /\ pc' \in Pcs /\ held' \in Tagged \cup {Nothing}
    <3>1. CASE queue[1].tag > 0
      BY <1>6, <1>11, <2>2, <3>1 DEF TakeEvent, FollowTypeOK
    <3>2. CASE ~(queue[1].tag > 0)
      <4>1. Deliver(queue[1].seq) /\ UNCHANGED <<pc, cursor, held>>
        BY <1>11, <3>2 DEF TakeEvent
      <4>2. QED BY <2>3, <4>1, DeliverTypes DEF FollowTypeOK
    <3>3. QED BY <3>1, <3>2
  <2>5. queue' \in Seq(Tagged) /\ Len(queue') <= QueueSize
    BY <1>11, <2>2 DEF TakeEvent
  <2>6. QED BY <1>11, <2>4, <2>5 DEF TakeEvent, FollowTypeOK, RingTypeOK, TagInv
<1>12. CASE Fails \/ Cancel
  BY <1>12, ZenonT(40) DEF Fails, Cancel, FollowTypeOK, RingTypeOK, TagInv, Pcs
<1>13. QED BY <1>1, <1>2, <1>3, <1>4, <1>5, <1>8, <1>9, <1>10, <1>11, <1>12 DEF CommandStep
-----------------------------------------------------------------------------
(* The protocol of the calls.                                              *)

\* What is left when the connection is closed was on its way before.
LEMMA CloseLeaves ==
    ASSUME FollowTypeOK, Close
    PROVE  /\ Answers' \subseteq Answers
           /\ \A i \in 1..Len(outbound') : outbound'[i] = outbound[i] /\ i \in 1..Len(outbound)
           /\ \A i \in Answers' : outbound'[i] = outbound[i]
           /\ \A i \in 1..Len(outbound') : i \in Answers' <=> i \in Answers
<1>1. /\ Len(outbound') \in 0..Len(outbound) /\ Len(outbound) \in Nat
      /\ \A i \in 1..Len(outbound') : outbound'[i] = outbound[i]
  <2>1. Len(outbound) \in Nat
    BY DEF FollowTypeOK
  <2>2. QED BY <2>1, CloseTypes
<1>2. \A i \in 1..Len(outbound') : i \in 1..Len(outbound)
  BY <1>1
<1>3. QED BY <1>1, <1>2 DEF Answers

\* A frame that is sent is the last one.
LEMMA AppendLeaves ==
    ASSUME FollowTypeOK, NEW frame \in Frames, outbound' = Append(outbound, frame)
    PROVE  /\ Len(outbound) \in Nat /\ Len(outbound') = Len(outbound) + 1
           /\ outbound'[Len(outbound) + 1] = frame
           /\ \A i \in 1..Len(outbound) : outbound'[i] = outbound[i] /\ i \in 1..Len(outbound')
           /\ \A i \in 1..Len(outbound') : i = Len(outbound) + 1 \/ i \in 1..Len(outbound)
           /\ \A i \in 1..Len(outbound) : i \in Answers' <=> i \in Answers
           /\ Len(outbound) + 1 \in Answers' <=> frame.kind # "event"
           /\ \A i \in Answers' : i = Len(outbound) + 1 \/ i \in Answers
<1>1. outbound \in Seq(Frames)
  BY DEF FollowTypeOK
<1>2. /\ Len(outbound) \in Nat /\ Len(outbound') = Len(outbound) + 1
      /\ outbound'[Len(outbound) + 1] = frame
      /\ \A i \in 1..Len(outbound) : outbound'[i] = outbound[i]
  BY <1>1
<1>3. /\ \A i \in 1..Len(outbound) : i \in 1..Len(outbound')
      /\ \A i \in 1..Len(outbound') : i = Len(outbound) + 1 \/ i \in 1..Len(outbound)
      /\ Len(outbound) + 1 \in 1..Len(outbound')
  BY <1>2
<1>4. QED BY <1>2, <1>3 DEF Answers

\* A frame that is read was the first one.
LEMMA TailLeaves ==
    ASSUME FollowTypeOK, outbound # <<>>, outbound' = Tail(outbound)
    PROVE  /\ Len(outbound) \in Nat \ {0} /\ 1 \in 1..Len(outbound)
           /\ Len(outbound') = Len(outbound) - 1
           /\ \A i \in 1..Len(outbound') :
                 /\ outbound'[i] = outbound[i + 1] /\ i + 1 \in 1..Len(outbound)
                 /\ i \in Answers' <=> i + 1 \in Answers
           /\ \A i \in 1..Len(outbound) : i = 1 \/ i - 1 \in 1..Len(outbound')
<1>1. outbound \in Seq(Frames)
  BY DEF FollowTypeOK
<1>2. /\ Len(outbound) \in Nat \ {0} /\ Len(outbound') = Len(outbound) - 1
      /\ \A i \in 1..Len(outbound') : outbound'[i] = outbound[i + 1]
  BY <1>1
<1>3. /\ \A i \in 1..Len(outbound') : i + 1 \in 1..Len(outbound)
      /\ \A i \in 1..Len(outbound) : i = 1 \/ i - 1 \in 1..Len(outbound')
      /\ 1 \in 1..Len(outbound)
  BY <1>2
<1>4. QED BY <1>2, <1>3 DEF Answers

\* Both sides of a call agree about where it is.
ProtocolInv == CallInv /\ SubscribedInv

\* Before the first request nothing is asked or answered.
LEMMA ProtocolInit == FollowInit => ProtocolInv
<1> SUFFICES ASSUME FollowInit PROVE ProtocolInv
  OBVIOUS
<1>1. Answers = {} /\ Pending = {}
  BY DEF FollowInit, Answers, Pending
<1>2. QED BY <1>1 DEF FollowInit, ProtocolInv, CallInv, SubscribedInv, Asking

\* With fewer answers on the way, and no request more, the protocol is kept.
LEMMA ProtocolKept ==
    ASSUME CallInv, SubscribedInv, pc' = pc, reply' = reply, subscribed' = subscribed,
           request' \in {request, Nothing}, up' => up,
           Answers' \subseteq Answers, \A i \in Answers' : outbound'[i] = outbound[i],
           Nothing \notin Requests
    PROVE  CallInv' /\ SubscribedInv'
<1>1. Pending' \subseteq Pending
  BY DEF Pending
<1>2. CallInv'
  BY <1>1 DEF CallInv
<1>3. request' = [step |-> "confirm"] => request = [step |-> "confirm"]
  <2>1. [step |-> "confirm"] \in Requests
    BY DEF Requests
  <2>2. QED BY <2>1
<1>4. SubscribedInv'
  BY <1>1, <1>3 DEF SubscribedInv
<1>5. QED BY <1>2, <1>4

\* The answer to the request that the server was at.
LEMMA ProtocolAnswered ==
    ASSUME FollowTypeOK, CallInv, SubscribedInv, NEW frame \in Replies, Send(frame), up,
           request # Nothing, request' = Nothing, Nothing \notin Requests,
           UNCHANGED <<pc, reply, subscribed>>,
           pc = "subscribing" => frame.kind = "subscribed" /\ subscribed,
           pc = "waiting" => frame.kind = "page",
           pc \in Asking => subscribed
    PROVE  CallInv' /\ SubscribedInv'
<1>1. frame \in Frames
  BY DEF Frames
<1>2. CASE outbound' = Append(outbound, frame)
  <2>1. Answers = {} /\ Pending = {} /\ reply = Nothing
    BY DEF CallInv, Pending
  <2>2. PICK n : \A i \in Answers' : (i = n /\ outbound'[i] = frame) \/ i \in Answers
    BY <1>1, <1>2, AppendLeaves
  <2>3. Pending' \subseteq {frame} /\ \A i, j \in Answers' : i = j
    BY <2>1, <2>2 DEF Pending
  <2>4. CallInv'
    BY <2>1, <2>3 DEF CallInv, Pending
  <2>5. SubscribedInv'
    BY <2>3 DEF SubscribedInv
  <2>6. QED BY <2>4, <2>5
<1>3. CASE Close
  <2>1. Answers' \subseteq Answers /\ \A i \in Answers' : outbound'[i] = outbound[i]
    BY <1>3, CloseLeaves
  <2>2. up' = FALSE
    BY <1>3 DEF Close
  <2>3. QED BY <2>1, <2>2, ProtocolKept
<1>4. QED BY <1>1, <1>2, <1>3, SendTypes

\* The command asks when nothing is under way.
LEMMA ProtocolAsked ==
    ASSUME CallInv, NEW step \in {"subscribe", "events"}, Call(step), Pending = {},
           up => request = Nothing, UNCHANGED <<up, outbound, reply, subscribed>>,
           pc' = (IF step = "subscribe" THEN "subscribing" ELSE "waiting"),
           step = "events" => subscribed
    PROVE  CallInv' /\ SubscribedInv'
<1>1. Answers' = Answers /\ Pending' = Pending
  BY DEF Answers, Pending
<1>2. up => request' = [step |-> step]
  BY DEF Call
<1>3. CallInv'
  BY <1>1, <1>2 DEF CallInv
<1>4. SubscribedInv'
  BY <1>1, <1>2 DEF SubscribedInv, Asking
<1>5. QED BY <1>3, <1>4

\* The answer has reached the command.
LEMMA ProtocolTaken ==
    ASSUME CallInv, SubscribedInv, reply # Nothing, reply' = Nothing,
           UNCHANGED <<up, outbound, subscribed, request>>,
           pc \in {"subscribing", "waiting"}, pc' \in {"paging", "checking"}
    PROVE  CallInv' /\ SubscribedInv'
<1>1. Answers' = Answers /\ Answers = {} /\ Pending' = {} /\ Pending # {}
  BY DEF Answers, Pending, CallInv
<1>2. CallInv'
  BY <1>1 DEF CallInv
<1>3. SubscribedInv'
  BY <1>1 DEF SubscribedInv, Asking
<1>4. QED BY <1>2, <1>3

\* Every step keeps the protocol.
LEMMA ProtocolStep ==
    FollowTypeOK /\ ProtocolInv /\ [FollowNext]_followVars => ProtocolInv'
<1> SUFFICES ASSUME FollowTypeOK, CallInv, SubscribedInv, [FollowNext]_followVars
             PROVE  CallInv' /\ SubscribedInv'
  BY DEF ProtocolInv
<1> USE DEF server, inbound, counter, command, settings, output
<1>1. ASSUME UNCHANGED <<outbound, reply, subscribed, request, up>>,
             \/ pc' = pc \/ pc' = "ended"
             \/ (pc \in Asking /\ pc # "waiting" /\ pc' \in {"paging", "checking", "live"})
      PROVE  CallInv' /\ SubscribedInv'
  <2>1. Answers' = Answers /\ Pending' = Pending
    BY <1>1 DEF Answers, Pending
  <2>2. CallInv'
    BY <1>1, <2>1 DEF CallInv, Asking
  <2>3. SubscribedInv'
    BY <1>1, <2>1 DEF SubscribedInv, Asking
  <2>4. QED BY <2>2, <2>3
<1>2. ASSUME NEW e \in Sent, Publish(e) PROVE CallInv' /\ SubscribedInv'
  <2>1. CASE Send([kind |-> "event", seq |-> Len(log')])
    <3> DEFINE frame == [kind |-> "event", seq |-> Len(log')]
    <3>1. frame \in Frames /\ frame.kind = "event"
      <4>1. Len(log') \in 1..MaxSeq
        BY <1>2, FollowConstants DEF Publish, Ingest, FollowTypeOK, RingTypeOK
      <4>2. QED BY <4>1 DEF Frames
    <3> HIDE DEF frame
    <3>2. CASE outbound' = Append(outbound, frame) /\ up' = up
      <4>1. Answers' \subseteq Answers /\ \A i \in Answers' : outbound'[i] = outbound[i]
        <5>1. Len(outbound) + 1 \notin Answers'
          BY <3>1, <3>2, AppendLeaves
        <5>2. \A i \in Answers' : i \in Answers
          BY <3>1, <3>2, <5>1, AppendLeaves
        <5>3. \A i \in 1..Len(outbound) : outbound'[i] = outbound[i]
          BY <3>1, <3>2, AppendLeaves
        <5>4. QED BY <5>2, <5>3 DEF Answers
      <4>2. QED BY <1>2, <3>2, <4>1, ProtocolKept, FollowConstants DEF Publish
    <3>3. CASE Close
      BY <1>2, <3>3, CloseLeaves, ProtocolKept, FollowConstants DEF Publish, Close
    <3>4. QED BY <2>1, <3>1, <3>2, <3>3, SendTypes DEF frame
  <2>2. CASE UNCHANGED <<up, outbound>>
    BY <1>1, <1>2, <2>2 DEF Publish
  <2>3. QED BY <1>2, <2>1, <2>2 DEF Publish
<1>3. CASE ServeSubscribe
  <2>1. Answers' = Answers /\ Pending' = Pending /\ up /\ subscribed'
    BY <1>3 DEF ServeSubscribe, Answers, Pending
  <2>2. request # Nothing /\ request.step = "subscribe" /\ request'.step = "confirm"
    <3>1. request \in Requests
      BY <1>3 DEF ServeSubscribe, Requests
    <3>2. QED BY <1>3, <3>1, FollowConstants DEF ServeSubscribe
  <2>3. pc # "waiting" /\ Pending = {} /\ pc \notin {"start", "paging", "checking", "live"}
    BY <2>1, <2>2 DEF CallInv
  <2>4. CallInv'
    BY <1>3, <2>1, <2>2, <2>3 DEF ServeSubscribe, CallInv
  <2>5. SubscribedInv'
    BY <2>1 DEF SubscribedInv
  <2>6. QED BY <2>4, <2>5
<1>4. CASE Confirm
  <2>1. [kind |-> "subscribed"] \in Replies /\ request \in Requests /\ request.step = "confirm"
    BY <1>4 DEF Confirm, Replies, Requests
  <2>2. pc # "waiting" /\ (pc = "subscribing" => subscribed) /\ (pc \in Asking => subscribed)
    BY <1>4, <2>1, FollowConstants DEF Confirm, CallInv, SubscribedInv
  <2>3. QED BY <1>4, <2>1, <2>2, ProtocolAnswered, FollowConstants DEF Confirm
<1>5. CASE CopyRing
  <2>1. Answers' = Answers /\ Pending' = Pending /\ up
    BY <1>5 DEF CopyRing, Answers, Pending
  <2>2. request \in Requests /\ request.step = "events"
    BY <1>5 DEF CopyRing, Requests
  <2>3. Pending = {} /\ pc \in {"waiting", "ended"}
    BY <1>5, <2>1, <2>2, FollowConstants DEF CopyRing, CallInv, FollowTypeOK, Pcs
  <2>4. request'.step = "copied"
    BY <1>5 DEF CopyRing
  <2>5. CallInv'
    BY <1>5, <2>1, <2>3, <2>4 DEF CopyRing, CallInv
  <2>6. SubscribedInv'
    BY <1>5, <2>1, <2>3 DEF CopyRing, SubscribedInv
  <2>7. QED BY <2>5, <2>6
<1>6. CASE AnswerPage
  <2>1. PICK frame \in Replies : Send(frame) /\ frame.kind = "page"
    BY <1>6, PageIsReply
  <2>2. pc # "subscribing" /\ request # Nothing /\ up
    BY <1>6 DEF AnswerPage, Copied, CallInv
  <2>3. QED BY <1>6, <2>1, <2>2, ProtocolAnswered, FollowConstants DEF AnswerPage, SubscribedInv
<1>7. CASE Hangup
  BY <1>7, CloseLeaves, ProtocolKept, FollowConstants DEF Hangup, Close
<1>8. CASE RouteReply
  <2>1. outbound # <<>> /\ outbound' = Tail(outbound) /\ reply' = outbound[1]
        /\ outbound[1].kind \in {"subscribed", "page"}
    BY <1>8 DEF RouteReply, Arrives
  <2>2. 1 \in Answers
    BY <2>1, TailLeaves DEF Answers
  <2>3. Answers' = {}
    <3>1. ASSUME NEW i \in Answers' PROVE FALSE
      <4>1. i \in 1..Len(outbound') /\ Len(outbound') \in Nat
        BY <3>1, <2>1, TailLeaves DEF Answers
      <4>2. i + 1 \in Answers
        BY <3>1, <2>1, <4>1, TailLeaves
      <4>3. i + 1 = 1
        BY <2>2, <4>2 DEF CallInv
      <4>4. QED BY <4>1, <4>3
    <3>2. QED BY <3>1
  <2>4. Pending' \subseteq Pending /\ Pending # {}
    BY <2>1, <2>2, <2>3 DEF Pending
  <2>5. CallInv'
    BY <1>8, <2>3, <2>4 DEF RouteReply, CallInv
  <2>6. SubscribedInv'
    BY <1>8, <2>4 DEF RouteReply, SubscribedInv
  <2>7. QED BY <2>5, <2>6
<1>9. CASE ReadEvent
  <2>1. outbound # <<>> /\ outbound' = Tail(outbound) /\ outbound[1].kind = "event"
    BY <1>9 DEF ReadEvent, Arrives
  <2>2. \A i \in Answers' : i + 1 \in Answers /\ outbound'[i] = outbound[i + 1] /\ i \in Nat
    BY <2>1, TailLeaves DEF Answers
  <2>3. Pending' \subseteq Pending
    BY <1>9, <2>2 DEF ReadEvent, Pending
  <2>4. \A i, j \in Answers' : i = j
    <3> SUFFICES ASSUME NEW i \in Answers', NEW j \in Answers' PROVE i = j
      OBVIOUS
    <3>1. i + 1 = j + 1
      BY <2>2 DEF CallInv
    <3>2. QED BY <2>2, <3>1
  <2>5. Answers' # {} => Answers # {}
    BY <2>2
  <2>6. CallInv'
    BY <1>9, <2>3, <2>4, <2>5 DEF ReadEvent, CallInv
  <2>7. SubscribedInv'
    BY <1>9, <2>3 DEF ReadEvent, SubscribedInv
  <2>8. QED BY <2>6, <2>7
<1>10. CASE QueueEvent
  BY <1>1, <1>10 DEF QueueEvent
<1>11. CASE ReadFails
  BY <1>1, <1>11 DEF ReadFails
<1>12. CASE Subscribe
  BY <1>12, ProtocolAsked DEF Subscribe, CallInv
<1>13. CASE AskPage
  BY <1>13, ProtocolAsked DEF AskPage, CallInv, SubscribedInv, Asking
<1>14. CASE Subscribed \/ Reset \/ PrintPage
  <2>1. /\ reply # Nothing /\ reply' = Nothing /\ UNCHANGED <<up, outbound, subscribed, request>>
        /\ pc \in {"subscribing", "waiting"} /\ pc' \in {"paging", "checking"}
    BY <1>14 DEF Subscribed, Reset, PrintPage
  <2>2. QED BY <2>1, ProtocolTaken
<1>15. CASE Overflowed \/ GoLive
  BY <1>1, <1>15 DEF Overflowed, GoLive, Recover, Asking
<1>16. CASE Noticed \/ TakeEvent
  BY <1>1, <1>16 DEF Noticed, TakeEvent, Recover, Asking
<1>17. CASE Fails \/ Cancel
  BY <1>1, <1>17 DEF Fails, Cancel
<1>18. CASE UNCHANGED followVars
  BY <1>1, <1>18 DEF followVars
<1>19. QED BY <1>2, <1>3, <1>4, <1>5, <1>6, <1>7, <1>8, <1>9, <1>10, <1>11, <1>12, <1>13,
              <1>14, <1>15, <1>16, <1>17, <1>18
           DEF FollowNext, ServerStep, ReadLoopStep, CommandStep

\* Every step keeps the types.
LEMMA FollowTypesStep ==
    FollowTypeOK /\ TagInv /\ ProtocolInv /\ [FollowNext]_followVars => (FollowTypeOK /\ TagInv)'
<1>1. ASSUME FollowTypeOK, TagInv, UNCHANGED followVars PROVE (FollowTypeOK /\ TagInv)'
  BY <1>1 DEF followVars, ringVars, server, inbound, counter, command, settings, output,
              FollowTypeOK, RingTypeOK, TagInv
<1>2. QED BY <1>1, ServerTypes, ReaderTypes, CommandTypes DEF FollowNext, ProtocolInv

\* Every variable of the daemon's side, the client and the command stays in its range;
\* the two queues never exceed their sizes (ipc.go:280-301 and 573-584).
THEOREM FollowTypes == FollowSpec => []FollowTypeOK
<1>1. QED BY FollowInitTypes, FollowTypesStep, ProtocolInit, ProtocolStep, PTL DEF FollowSpec
-----------------------------------------------------------------------------
(* The live stream: the events between the server's send and the command.  *)

InQueue  == {queue[i].seq : i \in 1..Len(queue)}
InHand   == IF reading = Nothing THEN {} ELSE {reading.seq}
OutEvents == (1..Len(outbound)) \ Answers
OnTheWay == {outbound[i].seq : i \in OutEvents}
Stream   == InQueue \cup InHand \cup OnTheWay

\* The events behind which the command looks for a loss: those that took a count,
\* and the one that will take it.
QueueMarks == {queue[i].seq : i \in {j \in 1..Len(queue) : queue[j].tag > 0}}
HandMarks  == {seq \in InHand : reading.tag > 0}
WayMarks   == {seq \in OnTheWay : dropped > 0 /\ \A other \in OnTheWay : seq <= other}
Marked     == QueueMarks \cup HandMarks \cup WayMarks

QueueInOrder == \A i, j \in 1..Len(queue) : i < j => queue[i].seq < queue[j].seq
WayInOrder   == \A i, j \in OutEvents : i < j => outbound[i].seq < outbound[j].seq

\* The stream is in the order of the log, up to its end.
StreamInv ==
    /\ QueueInOrder /\ WayInOrder
    /\ \A seq \in InQueue, later \in InHand \cup OnTheWay : seq < later
    /\ \A seq \in InHand, later \in OnTheWay : seq < later
    /\ \A seq \in Stream : seq <= Len(log)
    /\ held # Nothing => held.seq <= Len(log)

\* Its parts are numbers.
LEMMA StreamTypes ==
    ASSUME FollowTypeOK
    PROVE  /\ InQueue \subseteq 1..MaxSeq /\ InHand \subseteq 1..MaxSeq /\ OnTheWay \subseteq 1..MaxSeq
           /\ 1..MaxSeq \subseteq Nat /\ Stream \subseteq Nat
           /\ \A i \in OutEvents : outbound[i].seq \in 1..MaxSeq
           /\ \A i \in 1..Len(queue) :
                 queue[i] \in Tagged /\ queue[i].seq \in 1..MaxSeq /\ queue[i].tag \in Nat
           /\ Len(outbound) \in Nat /\ Len(queue) \in Nat /\ Len(log) \in Nat
           /\ reading # Nothing => reading \in Tagged /\ reading.tag \in Nat
<1>1. /\ Len(outbound) \in Nat /\ Len(queue) \in Nat /\ Len(log) \in Nat
      /\ outbound \in Seq(Frames) /\ queue \in Seq(Tagged)
  BY DEF FollowTypeOK, RingTypeOK
<1>2. ASSUME NEW i \in OutEvents PROVE outbound[i].seq \in 1..MaxSeq
  <2>1. outbound[i] \in Frames /\ outbound[i].kind = "event"
    BY <1>1 DEF OutEvents, Answers
  <2>2. QED BY <2>1 DEF Frames, Replies, Pages
<1>3. ASSUME NEW i \in 1..Len(queue)
      PROVE  queue[i] \in Tagged /\ queue[i].seq \in 1..MaxSeq /\ queue[i].tag \in Nat
  <2>1. queue[i] \in Tagged
    BY <1>1
  <2>2. QED BY <2>1, FollowConstants DEF Tagged
<1>4. reading # Nothing => reading \in Tagged /\ reading.tag \in Nat /\ reading.seq \in 1..MaxSeq
  BY FollowConstants DEF FollowTypeOK, Tagged
<1>5. InQueue \subseteq 1..MaxSeq /\ InHand \subseteq 1..MaxSeq /\ OnTheWay \subseteq 1..MaxSeq
  BY <1>2, <1>3, <1>4 DEF InQueue, InHand, OnTheWay
<1>6. 1..MaxSeq \subseteq Nat
  BY FollowConstants
<1>7. QED BY <1>1, <1>2, <1>3, <1>4, <1>5, <1>6 DEF Stream

\* An answer that is sent leaves the stream alone.
LEMMA WayAnswer ==
    ASSUME FollowTypeOK, WayInOrder, NEW frame \in Replies, outbound' = Append(outbound, frame)
    PROVE  OnTheWay' = OnTheWay /\ WayInOrder'
<1>1. frame \in Frames /\ frame.kind # "event"
  BY DEF Frames, Replies, Pages
<1>2. OutEvents' = OutEvents /\ \A i \in OutEvents : outbound'[i] = outbound[i]
  BY <1>1, AppendLeaves DEF OutEvents
<1>3. QED BY <1>2 DEF OnTheWay, WayInOrder

\* An event that is sent is the newest of the stream.
LEMMA WayEvent ==
    ASSUME FollowTypeOK, WayInOrder, NEW seq \in 1..MaxSeq, \A old \in OnTheWay : old < seq,
           outbound' = Append(outbound, [kind |-> "event", seq |-> seq])
    PROVE  OnTheWay' = OnTheWay \cup {seq} /\ WayInOrder'
<1> DEFINE frame == [kind |-> "event", seq |-> seq]
           n == Len(outbound) + 1
<1>1. frame \in Frames /\ frame.kind = "event" /\ frame.seq = seq
  BY DEF Frames
<1>2. outbound' = Append(outbound, frame)
  OBVIOUS
<1> HIDE DEF frame
<1>3. OutEvents' = OutEvents \cup {n} /\ outbound'[n] = frame
      /\ \A i \in OutEvents : outbound'[i] = outbound[i] /\ i < n /\ i \in Nat
  BY <1>1, <1>2, AppendLeaves DEF OutEvents
<1>4. OnTheWay' = OnTheWay \cup {seq}
  BY <1>1, <1>3, ZenonT(40) DEF OnTheWay
<1>5. WayInOrder'
  <2> SUFFICES ASSUME NEW i \in OutEvents', NEW j \in OutEvents', i < j
               PROVE  outbound'[i].seq < outbound'[j].seq
    BY DEF WayInOrder
  <2>1. n \in Nat /\ i # n
    BY <1>3, StreamTypes
  <2>2. CASE j = n
    BY <1>1, <1>3, <2>1, <2>2 DEF OnTheWay
  <2>3. CASE j # n
    BY <1>3, <2>1, <2>3 DEF WayInOrder
  <2>4. QED BY <2>2, <2>3
<1>6. QED BY <1>4, <1>5

\* What is lost with the connection is the end of the stream.
LEMMA WayClosed ==
    ASSUME FollowTypeOK, WayInOrder, Close
    PROVE  /\ OnTheWay' \subseteq OnTheWay /\ WayInOrder'
           /\ \A a \in OnTheWay, b \in OnTheWay' : a < b => a \in OnTheWay'
<1>1. \A i \in OutEvents' : i \in OutEvents /\ outbound'[i] = outbound[i]
  BY CloseLeaves DEF OutEvents
<1>2. OnTheWay' \subseteq OnTheWay /\ WayInOrder'
  BY <1>1 DEF OnTheWay, WayInOrder
<1>3. ASSUME NEW a \in OnTheWay, NEW b \in OnTheWay', a < b PROVE a \in OnTheWay'
  <2>1. PICK i \in OutEvents' : outbound'[i].seq = b
    BY DEF OnTheWay
  <2>2. PICK j \in OutEvents : outbound[j].seq = a
    BY DEF OnTheWay
  <2>3. /\ i \in OutEvents /\ outbound[i].seq = b /\ a \in Nat /\ b \in Nat
        /\ i \in Nat /\ j \in Nat
    BY <1>1, <2>1, <2>2, StreamTypes DEF OutEvents
  <2>4. j < i
    BY <1>3, <2>2, <2>3 DEF WayInOrder
  <2>5. j \in 1..Len(outbound') /\ outbound'[j] = outbound[j]
    <3>1. i \in 1..Len(outbound') /\ j \in 1..Len(outbound) /\ Len(outbound') \in Nat
      BY <2>1, <2>2, CloseTypes, StreamTypes DEF OutEvents
    <3>2. j \in 1..Len(outbound')
      BY <2>3, <2>4, <3>1
    <3>3. QED BY <3>2, CloseLeaves
  <2>6. j \in OutEvents'
    BY <2>2, <2>5, CloseLeaves DEF OutEvents
  <2>7. QED BY <2>2, <2>5, <2>6 DEF OnTheWay
<1>4. QED BY <1>2, <1>3

\* What is read was the beginning.
LEMMA WayRead ==
    ASSUME FollowTypeOK, WayInOrder, outbound # <<>>, outbound' = Tail(outbound)
    PROVE  /\ WayInOrder'
           /\ outbound[1].kind # "event" => OnTheWay' = OnTheWay
           /\ outbound[1].kind = "event" =>
                 /\ OnTheWay = OnTheWay' \cup {outbound[1].seq}
                 /\ \A later \in OnTheWay' : outbound[1].seq < later
<1>1. \A i \in OutEvents' : i + 1 \in OutEvents /\ outbound'[i] = outbound[i + 1] /\ i \in Nat /\ 1 < i + 1
  BY TailLeaves DEF OutEvents
<1>2. \A i \in OutEvents : i = 1 \/ (i - 1 \in OutEvents' /\ i \in Nat)
  <2> SUFFICES ASSUME NEW i \in OutEvents, i # 1 PROVE i - 1 \in OutEvents' /\ i \in Nat
    OBVIOUS
  <2>1. i \in 1..Len(outbound) /\ i - 1 \in 1..Len(outbound') /\ i \notin Answers /\ i \in Nat
    BY TailLeaves DEF OutEvents
  <2>2. i - 1 + 1 = i
    BY <2>1
  <2>3. QED BY <2>1, <2>2, TailLeaves DEF OutEvents
<1>3. WayInOrder'
  <2> SUFFICES ASSUME NEW i \in OutEvents', NEW j \in OutEvents', i < j
               PROVE  outbound'[i].seq < outbound'[j].seq
    BY DEF WayInOrder
  <2>1. i + 1 < j + 1
    BY <1>1
  <2>2. QED BY <1>1, <2>1 DEF WayInOrder
<1>4. OnTheWay' \subseteq OnTheWay
  BY <1>1 DEF OnTheWay
<1>5. ASSUME NEW seq \in OnTheWay
      PROVE  seq \in OnTheWay' \/ (seq = outbound[1].seq /\ 1 \in OutEvents)
  <2>1. PICK i \in OutEvents : outbound[i].seq = seq
    BY DEF OnTheWay
  <2>2. CASE i = 1
    BY <2>1, <2>2
  <2>3. CASE i # 1
    <3>1. i - 1 \in OutEvents' /\ i - 1 + 1 = i
      BY <1>2, <2>3
    <3>2. outbound'[i - 1] = outbound[i]
      BY <1>1, <3>1
    <3>3. QED BY <2>1, <3>1, <3>2 DEF OnTheWay
  <2>4. QED BY <2>2, <2>3
<1>6. 1 \in OutEvents <=> outbound[1].kind = "event"
  BY TailLeaves DEF OutEvents, Answers
<1>7. \A later \in OnTheWay' : 1 \in OutEvents => outbound[1].seq < later
  BY <1>1 DEF OnTheWay, WayInOrder
<1>8. 1 \in OutEvents => outbound[1].seq \in OnTheWay
  BY DEF OnTheWay
<1>9. QED BY <1>3, <1>4, <1>5, <1>6, <1>7, <1>8

\* The queue takes the event in the read loop's hand.
LEMMA QueuePut ==
    ASSUME FollowTypeOK, StreamInv, reading # Nothing, queue' = Append(queue, reading)
    PROVE  /\ InQueue' = InQueue \cup InHand /\ QueueMarks' = QueueMarks \cup HandMarks
           /\ QueueInOrder'
<1> DEFINE n == Len(queue) + 1
<1>1. /\ Len(queue') = n /\ queue'[n] = reading /\ Len(queue) \in Nat
      /\ \A i \in 1..Len(queue) : queue'[i] = queue[i] /\ i < n /\ i \in 1..n
      /\ \A i \in 1..n : i = n \/ i \in 1..Len(queue)
      /\ n \in 1..n
  <2>1. queue \in Seq(Tagged) /\ reading \in Tagged /\ Len(queue) \in Nat
    BY DEF FollowTypeOK
  <2>2. QED BY <2>1
<1> HIDE DEF n
<1>2. InQueue' = InQueue \cup InHand
  BY <1>1 DEF InQueue, InHand
<1>3. QueueMarks' = QueueMarks \cup HandMarks
  BY <1>1 DEF QueueMarks, HandMarks, InHand
<1>4. QueueInOrder'
  <2> SUFFICES ASSUME NEW i \in 1..n, NEW j \in 1..n, i < j
               PROVE  queue'[i].seq < queue'[j].seq
    BY <1>1 DEF QueueInOrder
  <2>1. i # n /\ i \in 1..Len(queue)
    <3>1. n \in Nat
      BY <1>1 DEF n
    <3>2. QED BY <1>1, <3>1
  <2>2. CASE j = n
    BY <1>1, <2>1, <2>2 DEF StreamInv, InQueue, InHand
  <2>3. CASE j # n
    BY <1>1, <2>1, <2>3 DEF StreamInv, QueueInOrder
  <2>4. QED BY <2>2, <2>3
<1>5. QED BY <1>2, <1>3, <1>4

\* The command takes the oldest event of the stream.
LEMMA QueueTake ==
    ASSUME FollowTypeOK, StreamInv, queue # <<>>, queue' = Tail(queue)
    PROVE  /\ InQueue = InQueue' \cup {queue[1].seq} /\ QueueInOrder'
           /\ queue[1].seq \in InQueue
           /\ queue[1].tag > 0 => queue[1].seq \in QueueMarks
           /\ QueueMarks' \subseteq QueueMarks
           /\ \A seq \in QueueMarks : seq \in QueueMarks' \/ (seq = queue[1].seq /\ queue[1].tag > 0)
           /\ \A later \in InQueue' \cup InHand \cup OnTheWay : queue[1].seq < later
<1>1. /\ Len(queue) \in Nat \ {0} /\ Len(queue') = Len(queue) - 1
      /\ \A i \in 1..Len(queue') : queue'[i] = queue[i + 1]
  <2>1. queue \in Seq(Tagged)
    BY DEF FollowTypeOK
  <2>2. QED BY <2>1
<1>2. /\ \A i \in 1..Len(queue') : i + 1 \in 1..Len(queue) /\ i \in Nat /\ 1 < i + 1
      /\ \A i \in 1..Len(queue) : i = 1 \/ (i - 1 \in 1..Len(queue') /\ i - 1 + 1 = i)
      /\ 1 \in 1..Len(queue)
  BY <1>1
<1>3. QueueInOrder'
  <2> SUFFICES ASSUME NEW i \in 1..Len(queue'), NEW j \in 1..Len(queue'), i < j
               PROVE  queue'[i].seq < queue'[j].seq
    BY DEF QueueInOrder
  <2>1. i + 1 < j + 1
    BY <1>2
  <2>2. QED BY <1>1, <1>2, <2>1 DEF StreamInv, QueueInOrder
<1>4. InQueue' \subseteq InQueue /\ queue[1].seq \in InQueue
  BY <1>1, <1>2 DEF InQueue
<1>5. ASSUME NEW seq \in InQueue PROVE seq \in InQueue' \cup {queue[1].seq}
  <2>1. PICK i \in 1..Len(queue) : queue[i].seq = seq
    BY DEF InQueue
  <2>2. CASE i = 1
    BY <2>1, <2>2
  <2>3. CASE i # 1
    <3>1. i - 1 \in 1..Len(queue') /\ queue'[i - 1] = queue[i]
      BY <1>1, <1>2, <2>3
    <3>2. QED BY <2>1, <3>1 DEF InQueue
  <2>4. QED BY <2>2, <2>3
<1>6. ASSUME NEW seq \in QueueMarks PROVE seq \in QueueMarks' \/ (seq = queue[1].seq /\ queue[1].tag > 0)
  <2>1. PICK i \in 1..Len(queue) : queue[i].seq = seq /\ queue[i].tag > 0
    BY DEF QueueMarks
  <2>2. CASE i = 1
    BY <2>1, <2>2
  <2>3. CASE i # 1
    <3>1. i - 1 \in 1..Len(queue') /\ queue'[i - 1] = queue[i]
      BY <1>1, <1>2, <2>3
    <3>2. QED BY <2>1, <3>1 DEF QueueMarks
  <2>4. QED BY <2>2, <2>3
<1>7. QueueMarks' \subseteq QueueMarks /\ (queue[1].tag > 0 => queue[1].seq \in QueueMarks)
  BY <1>1, <1>2 DEF QueueMarks
<1>8. ASSUME NEW later \in InQueue' \cup InHand \cup OnTheWay PROVE queue[1].seq < later
  <2>1. CASE later \in InQueue'
    <3>1. PICK i \in 1..Len(queue') : queue'[i].seq = later
      BY <2>1 DEF InQueue
    <3>2. QED BY <1>1, <1>2, <3>1 DEF StreamInv, QueueInOrder
  <2>2. CASE later \in InHand \cup OnTheWay
    BY <1>4, <2>2 DEF StreamInv
  <2>3. QED BY <2>1, <2>2
<1>9. QED BY <1>3, <1>4, <1>5, <1>6, <1>7, <1>8

\* Nothing is on its way at first.
LEMMA StreamInit == FollowInit => StreamInv
<1> SUFFICES ASSUME FollowInit PROVE StreamInv
  OBVIOUS
<1>1. InQueue = {} /\ InHand = {} /\ OnTheWay = {} /\ held = Nothing
  BY DEF FollowInit, InQueue, InHand, OnTheWay, OutEvents
<1>2. QueueInOrder /\ WayInOrder
  BY DEF FollowInit, QueueInOrder, WayInOrder, OutEvents
<1>3. QED BY <1>1, <1>2 DEF StreamInv, Stream

\* A part of the stream, in the same order.
LEMMA StreamKept ==
    ASSUME FollowTypeOK, FollowTypeOK', StreamInv, QueueInOrder', WayInOrder',
           InQueue' \subseteq InQueue, InHand' \subseteq InHand, OnTheWay' \subseteq OnTheWay,
           Len(log) <= Len(log'), held' # Nothing => held'.seq <= Len(log)
    PROVE  StreamInv'
<1>1. \A seq \in Stream' : seq \in Stream /\ seq \in Nat
  BY StreamTypes DEF Stream
<1>0. Len(log) \in Nat /\ Len(log') \in Nat
  <2>1. log \in Seq(Event) /\ log' \in Seq(Event)
    BY DEF FollowTypeOK, RingTypeOK
  <2>2. QED BY <2>1
<1>2. \A seq \in Stream' : seq <= Len(log')
  BY <1>0, <1>1, StreamTypes DEF StreamInv
<1>3. held' # Nothing => held'.seq <= Len(log')
  <2>1. held' # Nothing => held' \in Tagged
    BY DEF FollowTypeOK
  <2>2. held' # Nothing => held'.seq \in Nat
    BY <2>1, FollowConstants DEF Tagged
  <2>3. QED BY <1>0, <2>2
<1>4. QED BY <1>2, <1>3 DEF StreamInv

\* What does not change leaves its part of the stream.
LEMMA StreamSame ==
    /\ queue' = queue => InQueue' = InQueue /\ QueueMarks' = QueueMarks
                         /\ (QueueInOrder => QueueInOrder')
    /\ reading' = reading => InHand' = InHand /\ HandMarks' = HandMarks
    /\ outbound' = outbound => OnTheWay' = OnTheWay /\ (WayInOrder => WayInOrder')
    /\ OnTheWay' = OnTheWay /\ dropped' = dropped => WayMarks' = WayMarks
<1>1. queue' = queue => InQueue' = InQueue /\ QueueMarks' = QueueMarks
                        /\ (QueueInOrder => QueueInOrder')
  BY DEF InQueue, QueueMarks, QueueInOrder
<1>2. reading' = reading => InHand' = InHand /\ HandMarks' = HandMarks
  BY DEF InHand, HandMarks
<1>3. outbound' = outbound => OnTheWay' = OnTheWay /\ (WayInOrder => WayInOrder')
  BY DEF OutEvents, Answers, OnTheWay, WayInOrder
<1>4. OnTheWay' = OnTheWay /\ dropped' = dropped => WayMarks' = WayMarks
  BY DEF WayMarks
<1>5. QED BY <1>1, <1>2, <1>3, <1>4

\* What the read loop takes into its hand was the oldest on the way, with the mark.
LEMMA HandTakes ==
    ASSUME FollowTypeOK, TagInv, StreamInv, ReadEvent
    PROVE  /\ WayInOrder' /\ InHand = {} /\ HandMarks = {} /\ WayMarks' = {}
           /\ \E seq \in OnTheWay :
                 /\ InHand' = {seq} /\ OnTheWay = OnTheWay' \cup {seq}
                 /\ \A later \in OnTheWay' : seq < later
                 /\ HandMarks' = WayMarks
<1> DEFINE seq == outbound[1].seq
<1>1. outbound # <<>> /\ outbound' = Tail(outbound) /\ outbound[1].kind = "event" /\ reading = Nothing
  BY DEF ReadEvent, Arrives
<1>2. WayInOrder' /\ OnTheWay = OnTheWay' \cup {seq} /\ \A later \in OnTheWay' : seq < later
  BY <1>1, WayRead DEF StreamInv
<1>3. reading' = [seq |-> seq, tag |-> dropped] /\ dropped' = 0
  BY DEF ReadEvent
<1>4. seq \in OnTheWay /\ OnTheWay \subseteq Nat /\ seq \in 1..MaxSeq /\ dropped \in Nat
  BY <1>2, StreamTypes, FollowConstants DEF FollowTypeOK
<1>5. reading' # Nothing
  <2>1. reading' \in Tagged
    <3>1. dropped \in 0..MaxSeq
      BY DEF FollowTypeOK
    <3>2. QED BY <1>3, <1>4, <3>1 DEF Tagged
  <2>2. QED BY <2>1, FollowConstants
<1> HIDE DEF seq
<1>6. InHand' = {seq} /\ InHand = {} /\ HandMarks = {} /\ WayMarks' = {}
  BY <1>1, <1>3, <1>5 DEF InHand, HandMarks, WayMarks
<1>7. HandMarks' = {s \in {seq} : dropped > 0}
  BY <1>3, <1>6 DEF HandMarks
<1>8. WayMarks = {s \in {seq} : dropped > 0}
  <2>1. \A other \in OnTheWay : seq <= other
    BY <1>2, <1>4
  <2>2. ASSUME NEW s \in OnTheWay, \A other \in OnTheWay : s <= other PROVE s = seq
    BY <1>4, <2>1, <2>2
  <2>3. QED BY <1>4, <2>1, <2>2 DEF WayMarks
<1>9. QED BY <1>2, <1>4, <1>6, <1>7, <1>8

\* The stream stays in order.
LEMMA StreamStep ==
    ASSUME FollowTypeOK, FollowTypeOK', TagInv, StreamInv, [FollowNext]_followVars
    PROVE  StreamInv'
<1> USE DEF ringVars, server, inbound, counter, command, settings, output
<1>0. QueueInOrder /\ WayInOrder /\ (held # Nothing => held.seq <= Len(log)) /\ Len(log) \in Nat
  BY StreamTypes DEF StreamInv
<1>1. ASSUME UNCHANGED <<log, queue, reading, outbound>>, held' \in {held, Nothing} PROVE StreamInv'
  BY <1>0, <1>1, StreamSame, StreamKept
<1>2. ASSUME NEW e \in Sent, Publish(e) PROVE StreamInv'
  <2>1. /\ Len(log') = Len(log) + 1 /\ Len(log') \in 1..MaxSeq
        /\ UNCHANGED <<queue, reading, held>>
    BY <1>0, <1>2, FollowConstants DEF Publish, Ingest, FollowTypeOK, RingTypeOK
  <2>2. CASE outbound' = Append(outbound, [kind |-> "event", seq |-> Len(log')])
    <3>1. \A seq \in Stream : seq < Len(log') /\ seq \in Nat
      BY <1>0, <2>1, StreamTypes DEF StreamInv
    <3>2. OnTheWay' = OnTheWay \cup {Len(log')} /\ WayInOrder'
      <4>1. \A seq \in OnTheWay : seq < Len(log')
        BY <3>1 DEF Stream
      <4>2. QED BY <1>0, <2>1, <2>2, <4>1, WayEvent
    <3>3. InQueue' = InQueue /\ QueueInOrder' /\ InHand' = InHand
      BY <1>0, <2>1, StreamSame
    <3>4. \A seq \in Stream' : seq <= Len(log')
      BY <2>1, <3>1, <3>2, <3>3 DEF Stream
    <3>5. held' # Nothing => held'.seq <= Len(log')
      <4>1. held # Nothing => held.seq \in Nat
        BY FollowConstants, SMTT(30) DEF FollowTypeOK, Tagged
      <4>2. QED BY <1>0, <2>1, <4>1
    <3>6. QED BY <3>1, <3>2, <3>3, <3>4, <3>5 DEF StreamInv, Stream
  <2>3. CASE Close
    BY <1>0, <2>1, <2>3, WayClosed, StreamSame, StreamKept
  <2>4. CASE outbound' = outbound
    BY <1>0, <2>1, <2>4, StreamSame, StreamKept
  <2>5. QED BY <1>2, <2>2, <2>3, <2>4 DEF Publish, Send
<1>3. CASE Confirm \/ AnswerPage
  <2>1. PICK frame \in Replies : Send(frame)
    BY <1>3, PageIsReply DEF Confirm, Replies
  <2>2. UNCHANGED <<log, queue, reading, held>>
    BY <1>3 DEF Confirm, AnswerPage
  <2>3. OnTheWay' \subseteq OnTheWay /\ WayInOrder'
    BY <1>0, <2>1, WayAnswer, WayClosed DEF Send
  <2>4. QED BY <1>0, <2>2, <2>3, StreamSame, StreamKept
<1>4. CASE Hangup
  BY <1>0, <1>4, WayClosed, StreamSame, StreamKept DEF Hangup
<1>5. CASE RouteReply
  <2>1. outbound # <<>> /\ outbound' = Tail(outbound) /\ outbound[1].kind # "event"
    BY <1>5 DEF RouteReply, Arrives
  <2>2. OnTheWay' = OnTheWay /\ WayInOrder'
    BY <1>0, <2>1, WayRead
  <2>3. QED BY <1>0, <1>5, <2>2, StreamSame, StreamKept DEF RouteReply
<1>6. CASE ReadEvent
  <2>1. UNCHANGED <<log, queue, held>>
    BY <1>6 DEF ReadEvent
  <2>2. QueueInOrder' /\ InQueue' = InQueue
    BY <1>0, <2>1, StreamSame
  <2>3. PICK seq \in OnTheWay :
           /\ InHand' = {seq} /\ OnTheWay = OnTheWay' \cup {seq}
           /\ \A later \in OnTheWay' : seq < later
    BY <1>6, HandTakes
  <2>4. WayInOrder'
    BY <1>6, HandTakes
  <2>5. QED BY <2>1, <2>2, <2>3, <2>4 DEF StreamInv, Stream
<1>7. CASE QueueEvent
  <2>1. UNCHANGED <<log, outbound, held>> /\ reading # Nothing /\ reading' = Nothing
        /\ queue' \in {queue, Append(queue, reading)}
    BY <1>7 DEF QueueEvent
  <2>2. OnTheWay' = OnTheWay /\ WayInOrder' /\ InHand' = {}
    BY <1>0, <2>1, StreamSame DEF InHand
  <2>3. CASE queue' = queue
    BY <1>0, <2>1, <2>2, <2>3, StreamSame, StreamKept
  <2>4. CASE queue' = Append(queue, reading)
    <3>1. InQueue' = InQueue \cup InHand /\ QueueInOrder'
      BY <2>1, <2>4, QueuePut
    <3>2. QED BY <2>1, <2>2, <3>1 DEF StreamInv, Stream
  <2>5. QED BY <2>1, <2>3, <2>4
<1>8. CASE TakeEvent
  <2>1. queue # <<>> /\ queue' = Tail(queue) /\ UNCHANGED <<log, reading, outbound>>
        /\ held' \in {held, queue[1]}
    BY <1>8 DEF TakeEvent
  <2>2. InQueue' \subseteq InQueue /\ QueueInOrder' /\ queue[1].seq \in InQueue
    BY <2>1, QueueTake
  <2>3. held' # Nothing => held'.seq <= Len(log)
    BY <1>0, <2>1, <2>2 DEF StreamInv, Stream
  <2>4. QED BY <1>0, <2>1, <2>2, <2>3, StreamSame, StreamKept
<1>9. CASE ServeSubscribe \/ CopyRing \/ ReadFails \/ Subscribe \/ Subscribed \/ AskPage
  BY <1>1, <1>9 DEF ServeSubscribe, CopyRing, ReadFails, Subscribe, Subscribed, AskPage
<1>10. CASE Reset \/ PrintPage \/ Overflowed \/ GoLive \/ Noticed \/ Fails \/ Cancel
  BY <1>1, <1>10 DEF Reset, PrintPage, Overflowed, GoLive, Noticed, Fails, Cancel
<1>11. CASE UNCHANGED followVars
  BY <1>1, <1>11 DEF followVars
<1>12. QED BY <1>2, <1>3, <1>4, <1>5, <1>6, <1>7, <1>8, <1>9, <1>10, <1>11
           DEF FollowNext, ServerStep, ReadLoopStep, CommandStep
-----------------------------------------------------------------------------
(* Losses: what the live stream lacks, and where the command looks for it. *)

\* Events that match, are not printed yet, and will not come by the stream.
Missing == {m \in 1..Len(log) : m > lastSeq /\ Matches(log[m], filter) /\ m \notin Stream}

\* The command looks for them before it passes on an event behind them: the next
\* event of the stream is marked, or the next one to be sent will be.
Noted ==
    {m \in Nat : /\ \A b \in Stream \ Marked : m < b => \E a \in Stream : m < a /\ a < b
                 /\ up => (OnTheWay = {} /\ dropped > 0) \/ \E a \in Stream : m < a}

\* The numbers behind which nothing is missing without a note.
Horizons ==
    {k \in Nat : /\ held # Nothing /\ Matches(log[held.seq], filter) => held.seq <= k
                 /\ \A m \in Missing : m > k => m \in Noted}

\* A later number is another one.
LEMMA HorizonsUp ==
    ASSUME NEW k \in Horizons, NEW n \in Nat, k <= n, held # Nothing => held.seq \in Nat
    PROVE  n \in Horizons
<1>1. \A m \in Missing : m \in Nat
  BY DEF Missing
<1>2. k \in Nat
  BY DEF Horizons
<1>3. QED BY <1>1, <1>2 DEF Horizons

\* The end of the log is one.
LEMMA HorizonsEnd ==
    ASSUME FollowTypeOK, StreamInv
    PROVE  Len(log) \in Horizons
<1>1. Len(log) \in Nat
  BY StreamTypes
<1>2. \A m \in Missing : ~(m > Len(log))
  BY <1>1 DEF Missing
<1>3. QED BY <1>1, <1>2 DEF Horizons, StreamInv

\* Each stays one as long as what is missing stays noted.
LEMMA HorizonsGrow ==
    ASSUME FollowTypeOK, StreamInv, held' \in {held, Nothing}, filter' = filter,
           \A i \in 1..Len(log) : (log')[i] = log[i],
           \A m \in Missing' : m \in Noted' \/ (m \in Missing /\ (m \in Noted => m \in Noted'))
    PROVE  Horizons \subseteq Horizons'
<1>1. held # Nothing => held.seq \in 1..Len(log)
  <2>1. held # Nothing => held.seq \in 1..MaxSeq
    BY DEF FollowTypeOK, Tagged
  <2>2. QED BY <2>1, StreamTypes DEF StreamInv
<1>2. QED BY <1>1 DEF Horizons

\* What is noted stays so while the stream and its marks do.
LEMMA NotedSame ==
    ASSUME Stream' = Stream, Marked \subseteq Marked', up' => up,
           OnTheWay = {} /\ dropped > 0 => OnTheWay' = {} /\ dropped' > 0
    PROVE  Noted \subseteq Noted'
BY DEF Noted

\* Nothing more is missing when the log, the stream and the filter stay and lastSeq does
\* not go back.
LEMMA MissingSame ==
    ASSUME FollowTypeOK, FollowTypeOK', Stream' = Stream, UNCHANGED <<log, filter>>, lastSeq <= lastSeq'
    PROVE  Missing' \subseteq Missing
<1>1. lastSeq \in Nat /\ lastSeq' \in Nat
  <2>1. lastSeq \in 0..MaxSeq /\ lastSeq' \in 0..MaxSeq
    BY DEF FollowTypeOK
  <2>2. QED BY <2>1, FollowConstants
<1>2. 1..Len(log) \subseteq Nat
  BY StreamTypes
<1>3. QED BY <1>1, <1>2 DEF Missing

\* The end of the stream is cut off with the connection.
LEMMA NotedClosed ==
    ASSUME FollowTypeOK, FollowTypeOK', StreamInv, Close, UNCHANGED <<queue, reading, dropped>>
    PROVE  /\ Noted \subseteq Noted' /\ Stream' \subseteq Stream
           /\ \A m \in Nat : (\A seq \in Stream : seq <= m) => m \in Noted'
           /\ \A m \in Stream \ Stream' : m \in Noted'
<1>1. /\ OnTheWay' \subseteq OnTheWay /\ up' = FALSE
      /\ \A a \in OnTheWay, b \in OnTheWay' : a < b => a \in OnTheWay'
  BY WayClosed DEF StreamInv, Close
<1>2. /\ InQueue' = InQueue /\ QueueMarks' = QueueMarks /\ InHand' = InHand /\ HandMarks' = HandMarks
  BY StreamSame
<1>3. ASSUME NEW a \in Stream, NEW b \in Stream', a < b PROVE a \in Stream'
  <2>1. CASE a \in OnTheWay /\ b \in OnTheWay'
    BY <1>1, <1>3, <2>1 DEF Stream
  <2>2. CASE a \in InQueue \cup InHand
    BY <1>2, <2>2 DEF Stream
  <2>3. CASE a \in OnTheWay /\ b \notin OnTheWay'
    <3>1. b \in InQueue \cup InHand
      BY <1>2, <2>3 DEF Stream
    <3>2. b < a /\ a \in Nat /\ b \in Nat
      BY <2>3, <3>1, StreamTypes DEF StreamInv, Stream
    <3>3. QED BY <1>3, <3>2
  <2>4. QED BY <2>1, <2>2, <2>3 DEF Stream
<1>4. Stream' \subseteq Stream
  BY <1>1, <1>2 DEF Stream
<1>5. \A b \in Stream' : b \in Marked => b \in Marked'
  <2>1. \A b \in OnTheWay' : b \in WayMarks => b \in WayMarks'
    BY <1>1 DEF WayMarks
  <2>2. \A b \in Stream' : b \in WayMarks => b \in OnTheWay'
    <3> SUFFICES ASSUME NEW b \in InQueue \cup InHand, b \in OnTheWay PROVE FALSE
      BY <1>2 DEF WayMarks, Stream
    <3>1. b < b /\ b \in Nat
      BY StreamTypes DEF StreamInv
    <3>2. QED BY <3>1
  <2>3. QED BY <1>2, <2>1, <2>2 DEF Marked
<1>6. Noted \subseteq Noted'
  BY <1>1, <1>3, <1>4, <1>5 DEF Noted
<1>7. ASSUME NEW m \in Nat, \A seq \in Stream : seq <= m PROVE m \in Noted'
  <2>1. \A b \in Stream' : ~(m < b)
    BY <1>4, <1>7, StreamTypes
  <2>2. QED BY <1>1, <2>1 DEF Noted
<1>8. ASSUME NEW m \in Stream \ Stream' PROVE m \in Noted'
  BY <1>1, <1>3, <1>8, StreamTypes DEF Noted
<1>9. QED BY <1>4, <1>6, <1>7, <1>8

\* A new event is sent.
LEMMA NotedSent ==
    ASSUME FollowTypeOK, StreamInv, NEW n \in 1..MaxSeq, \A seq \in Stream : seq < n,
           OnTheWay' = OnTheWay \cup {n}, up, UNCHANGED <<queue, reading, dropped>>
    PROVE  \A m \in Noted : m < n => m \in Noted'
<1>1. /\ InQueue' = InQueue /\ QueueMarks' = QueueMarks /\ InHand' = InHand /\ HandMarks' = HandMarks
  BY StreamSame
<1>2. Stream' = Stream \cup {n} /\ OnTheWay \subseteq Stream /\ n \in Nat /\ Stream \subseteq Nat
  BY <1>1, StreamTypes DEF Stream
<1>3. WayMarks \subseteq WayMarks'
  <2>1. \A seq \in OnTheWay : seq <= n
    BY <1>2
  <2>2. QED BY <2>1 DEF WayMarks
<1>4. Marked \subseteq Marked'
  BY <1>1, <1>3 DEF Marked
<1>5. OnTheWay = {} /\ dropped > 0 => n \in Marked'
  BY <1>2 DEF Marked, WayMarks
<1>6. SUFFICES ASSUME NEW m \in Noted, m < n PROVE m \in Noted'
  OBVIOUS
<1>7. ASSUME NEW b \in Stream' \ Marked', m < b PROVE \E a \in Stream' : m < a /\ a < b
  <2>1. CASE b = n
    BY <1>2, <1>5, <1>7, <2>1 DEF Noted
  <2>2. CASE b # n
    BY <1>2, <1>4, <1>7, <2>2 DEF Noted
  <2>3. QED BY <2>1, <2>2
<1>8. QED BY <1>2, <1>6, <1>7 DEF Noted

\* A full queue drops the event in the hand and counts it.
LEMMA NotedDropped ==
    ASSUME FollowTypeOK, TagInv, StreamInv, reading # Nothing, reading' = Nothing,
           dropped' = dropped + 1, UNCHANGED <<queue, outbound, up>>
    PROVE  /\ Noted \subseteq Noted' /\ InHand \subseteq Noted'
           /\ Stream = Stream' \cup InHand
<1> DEFINE x == reading.seq
<1>1. /\ InQueue' = InQueue /\ QueueMarks' = QueueMarks /\ OnTheWay' = OnTheWay
      /\ InHand = {x} /\ InHand' = {} /\ HandMarks' = {} /\ HandMarks \subseteq {x}
  BY StreamSame DEF InHand, HandMarks
<1>2. x \in Nat /\ dropped = 0 /\ dropped' = 1
  BY <1>1, StreamTypes DEF TagInv
<1>3. /\ \A q \in InQueue : q < x /\ q \in Nat
      /\ \A o \in OnTheWay : x < o /\ o \in Nat
  BY <1>1, StreamTypes DEF StreamInv
<1> HIDE DEF x
<1>4. Stream' = InQueue \cup OnTheWay /\ Stream = InQueue \cup {x} \cup OnTheWay
  BY <1>1 DEF Stream
<1>5. WayMarks = {} /\ WayMarks' = {o \in OnTheWay : \A other \in OnTheWay : o <= other}
  BY <1>1, <1>2 DEF WayMarks
<1>6. Marked \subseteq QueueMarks \cup {x} /\ Marked' = QueueMarks \cup WayMarks'
  BY <1>1, <1>5 DEF Marked
<1>7. QueueMarks \subseteq InQueue
  BY DEF QueueMarks, InQueue
<1>8. SUFFICES ASSUME NEW m \in Nat, m \in Noted \/ m = x PROVE m \in Noted'
  BY <1>1, <1>2, <1>4 DEF Noted
<1>9. ASSUME NEW b \in Stream' \ Marked', m < b PROVE \E a \in Stream' : m < a /\ a < b
  <2>1. CASE b \in InQueue
    <3>1. b < x /\ m # x /\ b \notin Marked /\ b \in Stream
      BY <1>2, <1>3, <1>4, <1>6, <1>9, <2>1
    <3>2. PICK a \in Stream : m < a /\ a < b
      BY <1>8, <1>9, <3>1 DEF Noted
    <3>3. a \in InQueue
      BY <1>2, <1>3, <1>4, <2>1, <3>1, <3>2
    <3>4. QED BY <1>4, <3>2, <3>3
  <2>2. CASE b \in OnTheWay
    <3>1. PICK o \in OnTheWay : o < b
      BY <1>3, <1>5, <1>6, <1>9, <2>2
    <3>2. CASE m < o
      BY <1>4, <3>1, <3>2
    <3>3. CASE o <= m
      <4>1. m # x /\ b \notin Marked /\ b \in Stream
        BY <1>2, <1>3, <1>4, <1>6, <1>7, <2>2, <3>1, <3>3
      <4>2. PICK a \in Stream : m < a /\ a < b
        BY <1>8, <1>9, <4>1 DEF Noted
      <4>3. a \in OnTheWay
        BY <1>2, <1>3, <1>4, <3>1, <3>3, <4>2
      <4>4. QED BY <1>4, <4>2, <4>3
    <3>4. QED BY <1>3, <1>8, <3>1, <3>2, <3>3
  <2>3. QED BY <1>4, <1>9, <2>1, <2>2
<1>10. ASSUME up', OnTheWay # {} PROVE \E a \in Stream' : m < a
  <2>1. PICK o \in OnTheWay : TRUE
    BY <1>10
  <2>2. CASE m < o
    BY <1>4, <2>1, <2>2
  <2>3. CASE o <= m
    <3>1. m # x
      BY <1>2, <1>3, <2>1, <2>3
    <3>2. PICK a \in Stream : m < a
      BY <1>8, <1>10, <3>1 DEF Noted
    <3>3. a \in OnTheWay
      BY <1>2, <1>3, <1>4, <2>1, <2>3, <3>2
    <3>4. QED BY <1>4, <3>2, <3>3
  <2>4. QED BY <1>3, <1>8, <2>1, <2>2, <2>3
<1>11. QED BY <1>1, <1>2, <1>9, <1>10 DEF Noted

\* The command takes an event without a mark: nothing before it is missing and unnoted.
LEMMA NotedTaken ==
    ASSUME FollowTypeOK, StreamInv, queue # <<>>, queue' = Tail(queue), ~(queue[1].tag > 0),
           UNCHANGED <<reading, outbound, dropped, up>>
    PROVE  /\ Noted \subseteq Noted' /\ Stream = Stream' \cup {queue[1].seq}
           /\ \A m \in Noted : ~(m < queue[1].seq)
<1> DEFINE x == queue[1].seq
<1>1. /\ InQueue = InQueue' \cup {x} /\ x \in InQueue /\ QueueMarks' = QueueMarks
      /\ \A later \in InQueue' \cup InHand \cup OnTheWay : x < later
  BY QueueTake
<1>2. InHand' = InHand /\ HandMarks' = HandMarks /\ OnTheWay' = OnTheWay /\ WayMarks' = WayMarks
  BY StreamSame
<1>3. Marked' = Marked
  BY <1>1, <1>2 DEF Marked
<1>4. Stream = Stream' \cup {x} /\ \A later \in Stream' : x < later
  BY <1>1, <1>2 DEF Stream
<1>5. x \in Nat /\ Stream \subseteq Nat
  BY <1>1, StreamTypes
<1>6. x \notin Marked
  <2>1. x \notin QueueMarks
    <3>1. QueueMarks' \subseteq InQueue'
      BY DEF QueueMarks, InQueue
    <3>2. x \notin InQueue'
      BY <1>1, <1>5
    <3>3. QED BY <1>1, <3>1, <3>2
  <2>2. x \notin InHand /\ x \notin OnTheWay
    BY <1>1, <1>5
  <2>3. QED BY <2>1, <2>2 DEF Marked, HandMarks, WayMarks
<1> HIDE DEF x
<1>7. ASSUME NEW m \in Noted, m < x PROVE FALSE
  <2>1. PICK a \in Stream : m < a /\ a < x
    BY <1>4, <1>6, <1>7 DEF Noted
  <2>2. QED BY <1>4, <1>5, <2>1
<1>8. ASSUME NEW m \in Noted, NEW a \in Stream, m < a PROVE a \in Stream'
  BY <1>4, <1>7, <1>8
<1>9. Noted \subseteq Noted'
  BY <1>2, <1>3, <1>4, <1>8 DEF Noted
<1>10. QED BY <1>4, <1>7, <1>9 DEF x

\* What Deliver does with an event.
LEMMA DeliverSeq ==
    ASSUME FollowTypeOK, NEW seq \in 1..MaxSeq, Deliver(seq)
    PROVE  /\ lastSeq <= lastSeq' /\ (Matches(log[seq], filter) => seq <= lastSeq')
           /\ lastSeq' \in {lastSeq, seq} /\ UNCHANGED <<warned, excused>>
           /\ lastSeq' # lastSeq => /\ lastSeq' = seq /\ lastSeq < seq /\ printed' = printed \cup {seq}
                                    /\ Matches(log[seq], filter)
           /\ lastSeq' = lastSeq => printed' = printed
<1>1. lastSeq \in Nat /\ seq \in Nat
  <2>1. lastSeq \in 0..MaxSeq
    BY DEF FollowTypeOK
  <2>2. QED BY <2>1, FollowConstants
<1>2. CASE Matches(log[seq], filter) /\ seq > lastSeq
  <2>1. lastSeq' = seq /\ printed' = printed \cup {seq} /\ warned' = warned /\ excused' = excused
    BY <1>2 DEF Deliver
  <2>2. QED BY <1>1, <1>2, <2>1
<1>3. CASE ~(Matches(log[seq], filter) /\ seq > lastSeq)
  <2>1. lastSeq' = lastSeq /\ printed' = printed /\ warned' = warned /\ excused' = excused
    BY <1>3 DEF Deliver, output
  <2>2. QED BY <1>1, <1>3, <2>1
<1>4. QED BY <1>2, <1>3

\* No step misses an event without a note, but those that send the command back to the
\* ring.
LEMMA HorizonsStep ==
    ASSUME FollowTypeOK, FollowTypeOK', TagInv, StreamInv, up => subscribed,
           [FollowNext]_followVars, pc' # "paging"
    PROVE  Horizons \subseteq Horizons'
<1> USE DEF ringVars, server, inbound, counter, command, settings, output
<1>0. lastSeq <= lastSeq
  <2>1. lastSeq \in 0..MaxSeq
    BY DEF FollowTypeOK
  <2>2. QED BY <2>1, FollowConstants
<1>1. ASSUME Stream' = Stream, Marked \subseteq Marked', up' => up,
             OnTheWay = {} /\ dropped > 0 => OnTheWay' = {} /\ dropped' > 0,
             UNCHANGED <<log, filter>>, lastSeq <= lastSeq', held' \in {held, Nothing}
      PROVE  Horizons \subseteq Horizons'
  BY <1>1, NotedSame, MissingSame, HorizonsGrow
<1>2. ASSUME UNCHANGED <<log, filter, queue, reading, outbound, dropped, up>>, lastSeq <= lastSeq',
             held' \in {held, Nothing}
      PROVE  Horizons \subseteq Horizons'
  <2>1. Stream' = Stream /\ Marked' = Marked /\ OnTheWay' = OnTheWay
    BY <1>2, StreamSame DEF Stream, Marked
  <2>2. QED BY <1>1, <1>2, <2>1
<1>3. ASSUME Close, UNCHANGED <<log, filter, queue, reading, dropped, lastSeq, held>>
      PROVE  Horizons \subseteq Horizons'
  <2>1. Noted \subseteq Noted' /\ \A m \in Stream \ Stream' : m \in Noted'
    BY <1>3, NotedClosed
  <2>2. \A m \in Missing' : m \in Missing \/ m \in Stream \ Stream'
    BY <1>3 DEF Missing
  <2>3. QED BY <1>3, <2>1, <2>2, HorizonsGrow
<1>4. ASSUME NEW e \in Sent, Publish(e) PROVE Horizons \subseteq Horizons'
  <2> DEFINE n == Len(log')
  <2>1. /\ n = Len(log) + 1 /\ n \in 1..MaxSeq /\ log'[n] = e /\ e \in Event
        /\ \A i \in 1..Len(log) : (log')[i] = log[i]
        /\ \A i \in 1..n : i = n \/ i \in 1..Len(log)
        /\ UNCHANGED <<filter, queue, reading, dropped, lastSeq, held>>
    <3>1. /\ e \in Event /\ log \in Seq(Event) /\ Len(log) < MaxSeq /\ Len(log) \in Nat
          /\ log' = Append(log, e)
      BY <1>4, FollowConstants DEF Publish, Ingest, FollowTypeOK, RingTypeOK
    <3>2. UNCHANGED <<filter, queue, reading, dropped, lastSeq, held>>
      BY <1>4 DEF Publish
    <3>3. QED BY <3>1, <3>2, FollowConstants
  <2>2. \A seq \in Stream : seq < n
    BY <2>1, StreamTypes DEF StreamInv
  <2>3. Stream \subseteq Stream' => \A m \in Missing' : m = n \/ m \in Missing
    BY <2>1 DEF Missing
  <2>4. CASE Close
    <3>1. /\ Noted \subseteq Noted' /\ n \in Noted' /\ \A m \in Stream \ Stream' : m \in Noted'
      BY <2>1, <2>2, <2>4, NotedClosed, StreamTypes
    <3>2. \A m \in Missing' : m = n \/ m \in Missing \/ m \in Stream \ Stream'
      BY <2>1 DEF Missing
    <3>3. QED BY <2>1, <3>1, <3>2, HorizonsGrow
  <2>5. CASE /\ outbound' = Append(outbound, [kind |-> "event", seq |-> n]) /\ up' = up /\ up
    <3>1. OnTheWay' = OnTheWay \cup {n}
      BY <2>1, <2>2, <2>5, WayEvent DEF StreamInv, Stream
    <3>2. Stream' = Stream \cup {n}
      BY <2>1, <3>1, StreamSame DEF Stream
    <3>3. \A m \in Noted : m < n => m \in Noted'
      BY <2>1, <2>2, <2>5, <3>1, NotedSent
    <3>4. \A m \in Missing' : m \in Missing /\ m < n
      <4>1. \A m \in Missing' : m # n
        BY <3>2 DEF Missing
      <4>2. \A m \in Missing : m < n
        BY <2>1, StreamTypes DEF Missing
      <4>3. QED BY <2>3, <3>2, <4>1, <4>2
    <3>5. QED BY <2>1, <3>3, <3>4, HorizonsGrow
  <2>6. CASE UNCHANGED <<up, outbound>> /\ ~(up /\ filter.category \in {e.category, NoFilter})
    <3>1. Stream' = Stream /\ Marked' = Marked /\ OnTheWay' = OnTheWay
      BY <2>1, <2>6, StreamSame DEF Stream, Marked
    <3>2. Noted \subseteq Noted'
      BY <2>1, <2>6, <3>1, NotedSame
    <3>3. n \in Missing' => n \in Noted'
      <4>1. CASE ~up
        <5>1. \A b \in Stream' : ~(n < b)
          BY <2>1, <2>2, <3>1, StreamTypes
        <5>2. QED BY <2>1, <2>6, <4>1, <5>1, StreamTypes DEF Noted
      <4>2. CASE ~(filter.category \in {e.category, NoFilter})
        BY <2>1, <4>2 DEF Missing, Matches
      <4>3. QED BY <2>6, <4>1, <4>2
    <3>4. QED BY <2>1, <2>3, <3>1, <3>2, <3>3, HorizonsGrow
  <2>7. QED BY <1>4, <2>4, <2>5, <2>6 DEF Publish, Send
<1>5. CASE Confirm \/ AnswerPage
  <2>1. PICK frame \in Replies : Send(frame)
    BY <1>5, PageIsReply DEF Confirm, Replies
  <2>2. UNCHANGED <<log, filter, queue, reading, dropped, lastSeq, held>>
    BY <1>5 DEF Confirm, AnswerPage
  <2>3. CASE outbound' = Append(outbound, frame) /\ up' = up
    <3>1. OnTheWay' = OnTheWay
      BY <2>3, WayAnswer DEF StreamInv
    <3>2. Stream' = Stream /\ Marked' = Marked
      BY <2>2, <3>1, StreamSame DEF Stream, Marked
    <3>3. QED BY <1>0, <1>1, <2>2, <2>3, <3>1, <3>2
  <2>4. QED BY <1>3, <2>1, <2>2, <2>3 DEF Send
<1>6. CASE Hangup
  BY <1>3, <1>6 DEF Hangup
<1>7. CASE RouteReply
  <2>1. outbound # <<>> /\ outbound' = Tail(outbound) /\ outbound[1].kind # "event"
        /\ UNCHANGED <<log, filter, queue, reading, dropped, lastSeq, held, up>>
    BY <1>7 DEF RouteReply, Arrives
  <2>2. OnTheWay' = OnTheWay
    BY <2>1, WayRead DEF StreamInv
  <2>3. Stream' = Stream /\ Marked' = Marked
    BY <2>1, <2>2, StreamSame DEF Stream, Marked
  <2>4. QED BY <1>0, <1>1, <2>1, <2>2, <2>3
<1>8. CASE ReadEvent
  <2>1. UNCHANGED <<log, filter, queue, lastSeq, held, up>>
    BY <1>8 DEF ReadEvent
  <2>2. PICK seq \in OnTheWay :
           InHand' = {seq} /\ OnTheWay = OnTheWay' \cup {seq} /\ HandMarks' = WayMarks
    BY <1>8, HandTakes
  <2>3. InHand = {} /\ HandMarks = {} /\ WayMarks' = {} /\ InQueue' = InQueue /\ QueueMarks' = QueueMarks
    BY <1>8, <2>1, HandTakes, StreamSame
  <2>4. Stream' = Stream /\ Marked' = Marked /\ OnTheWay # {}
    BY <2>2, <2>3 DEF Stream, Marked
  <2>5. QED BY <1>0, <1>1, <2>1, <2>4
<1>9. CASE QueueEvent
  <2>1. UNCHANGED <<log, filter, outbound, lastSeq, held, up>> /\ reading # Nothing /\ reading' = Nothing
    BY <1>9 DEF QueueEvent
  <2>2. OnTheWay' = OnTheWay /\ InHand' = {} /\ HandMarks' = {}
    BY <2>1, StreamSame DEF InHand, HandMarks
  <2>3. CASE queue' = Append(queue, reading) /\ dropped' = dropped
    <3>1. InQueue' = InQueue \cup InHand /\ QueueMarks' = QueueMarks \cup HandMarks
      BY <2>1, <2>3, QueuePut
    <3>2. WayMarks' = WayMarks
      BY <2>2, <2>3, StreamSame
    <3>3. Stream' = Stream /\ Marked' = Marked
      BY <2>2, <3>1, <3>2 DEF Stream, Marked
    <3>4. QED BY <1>0, <1>1, <2>1, <2>2, <2>3, <3>3
  <2>4. CASE queue' = queue /\ dropped' = dropped + 1
    <3>1. Noted \subseteq Noted' /\ InHand \subseteq Noted' /\ Stream = Stream' \cup InHand
      BY <2>1, <2>4, NotedDropped
    <3>2. \A m \in Missing' : m \in Missing \/ m \in InHand
      BY <2>1, <3>1 DEF Missing
    <3>3. QED BY <2>1, <3>1, <3>2, HorizonsGrow
  <2>5. QED BY <1>9, <2>3, <2>4 DEF QueueEvent
<1>10. CASE TakeEvent
  <2>1. /\ UNCHANGED <<log, filter, reading, outbound, dropped, up, held>>
        /\ queue # <<>> /\ queue' = Tail(queue) /\ ~(queue[1].tag > 0) /\ Deliver(queue[1].seq)
    BY <1>10 DEF TakeEvent, Recover
  <2>2. /\ Noted \subseteq Noted' /\ Stream = Stream' \cup {queue[1].seq}
    BY <2>1, NotedTaken
  <2>3. queue[1].seq \in 1..MaxSeq
    BY <2>1, QueueTake, StreamTypes
  <2>4. lastSeq <= lastSeq' /\ (Matches(log[queue[1].seq], filter) => queue[1].seq <= lastSeq')
    BY <2>1, <2>3, DeliverSeq
  <2>5. lastSeq \in Nat /\ lastSeq' \in Nat
    <3>1. lastSeq \in 0..MaxSeq /\ lastSeq' \in 0..MaxSeq
      BY DEF FollowTypeOK
    <3>2. QED BY <3>1, FollowConstants
  <2>6. \A m \in Missing' : m \in Missing
    <3> SUFFICES ASSUME NEW m \in Missing' PROVE m \in Missing
      OBVIOUS
    <3>1. m \in 1..Len(log) /\ m > lastSeq' /\ Matches(log[m], filter) /\ m \notin Stream' /\ m \in Nat
      BY <2>1, StreamTypes DEF Missing
    <3>2. m # queue[1].seq
      BY <2>3, <2>4, <2>5, <3>1
    <3>3. m > lastSeq
      BY <2>4, <2>5, <3>1
    <3>4. QED BY <2>2, <3>1, <3>2, <3>3 DEF Missing
  <2>7. QED BY <2>1, <2>2, <2>6, HorizonsGrow
<1>11. CASE GoLive
  <2>1. UNCHANGED <<log, filter, queue, reading, outbound, dropped, up>> /\ held' = Nothing
    BY <1>11 DEF GoLive
  <2>2. lastSeq <= lastSeq'
    <3>1. CASE held = Nothing
      BY <1>0, <1>11, <3>1 DEF GoLive
    <3>2. CASE held # Nothing
      <4>1. held.seq \in 1..MaxSeq /\ Deliver(held.seq)
        BY <1>11, <3>2 DEF GoLive, FollowTypeOK, Tagged
      <4>2. QED BY <4>1, DeliverSeq
    <3>3. QED BY <3>1, <3>2
  <2>3. QED BY <1>2, <2>1, <2>2
<1>12. CASE PrintPage
  <2>1. UNCHANGED <<log, filter, queue, reading, outbound, dropped, up, held>> /\ lastSeq <= lastSeq'
    BY <1>12 DEF PrintPage
  <2>2. QED BY <1>2, <2>1
<1>13. CASE Noticed
  <2>1. /\ UNCHANGED <<log, filter, queue, reading, outbound, up, held, lastSeq>>
        /\ dropped' = 0 /\ ~(dropped > 0)
    BY <1>13 DEF Noticed, Recover
  <2>2. dropped' = dropped
    <3>1. dropped \in 0..MaxSeq
      BY DEF FollowTypeOK
    <3>2. QED BY <2>1, <3>1, FollowConstants
  <2>3. QED BY <1>0, <1>2, <2>1, <2>2
<1>14. CASE ServeSubscribe \/ CopyRing \/ ReadFails \/ Subscribe
  BY <1>0, <1>2, <1>14 DEF ServeSubscribe, CopyRing, ReadFails, Subscribe
<1>15. CASE AskPage \/ Fails \/ Cancel
  BY <1>0, <1>2, <1>15 DEF AskPage, Fails, Cancel
<1>16. CASE Subscribed \/ Reset \/ Overflowed
  BY <1>16 DEF Subscribed, Reset, Overflowed, Recover
<1>17. CASE UNCHANGED followVars
  BY <1>0, <1>2, <1>17 DEF followVars
<1>18. QED BY <1>4, <1>5, <1>6, <1>7, <1>8, <1>9, <1>10, <1>11, <1>12, <1>13, <1>14, <1>15, <1>16, <1>17
           DEF FollowNext, ServerStep, ReadLoopStep, CommandStep
-----------------------------------------------------------------------------
(* Pages: what an answer to the command says.                              *)

\* A finite set of numbers that is not empty has a least one.
LEMMA Least ==
    ASSUME NEW set \in SUBSET Nat, IsFiniteSet(set), set # {}
    PROVE  \E least \in set : \A n \in set : least <= n
<1> DEFINE below(m) == {n \in set : n <= m}
           all == {below(m) : m \in set}
<1>1. IsWellFoundedOn(StrictSubsetOrdering(set), FiniteSubsetsOf(set))
  BY FS_StrictSubsetOrderingWellFounded
<1>2. all \subseteq FiniteSubsetsOf(set) /\ all # {}
  <2>1. \A m \in set : below(m) \in SUBSET set
    OBVIOUS
  <2>2. \A m \in set : IsFiniteSet(below(m))
    BY <2>1, FS_Subset
  <2>3. QED BY <2>1, <2>2 DEF FiniteSubsetsOf
<1>3. \E x \in all : \A y \in all : ~(<<y, x>> \in StrictSubsetOrdering(set))
  BY <1>1, <1>2, WFMin
<1>4. PICK m \in set : \A k \in set : ~(<<below(k), below(m)>> \in StrictSubsetOrdering(set))
  BY <1>3
<1>5. ASSUME NEW k \in set, ~(m <= k) PROVE FALSE
  <2>1. m \in Nat /\ k \in Nat /\ k < m /\ m <= m
    BY <1>5
  <2>2. below(k) \subseteq below(m)
    <3>1. ASSUME NEW n \in set, n <= k PROVE n <= m
      <4>1. n \in Nat
        OBVIOUS
      <4>2. QED BY <2>1, <3>1, <4>1
    <3>2. QED BY <3>1
  <2>3. m \in below(m) /\ m \notin below(k)
    BY <1>5, <2>1
  <2>4. below(k) \in SUBSET set /\ below(m) \in SUBSET set /\ below(k) # below(m)
    BY <2>3
  <2>5. <<below(k), below(m)>> \in StrictSubsetOrdering(set)
    <3> HIDE DEF below
    <3>1. QED BY <2>2, <2>4 DEF StrictSubsetOrdering
  <2>6. QED BY <1>4, <2>5
<1>6. QED BY <1>5

\* The requests that have their copy of the ring.
Copies == [step : {"copied"}, first : 1..MaxSeq + 1, last : 0..MaxSeq,
           reset : BOOLEAN, since : 0..MaxSeq]

\* A request that has its copy has the numbers of it.
LEMMA CopyTypes ==
    ASSUME FollowTypeOK, Copied
    PROVE  /\ request \in Copies /\ request.first \in Nat \ {0} /\ request.last \in Nat
           /\ request.since \in Nat /\ request.reset \in BOOLEAN
           /\ Wanted \subseteq request.since + 1..request.last
           /\ Wanted \subseteq request.first..request.last /\ Wanted \subseteq Nat
<1>1. request \in Copies
  BY DEF Copied, FollowTypeOK, Requests, Copies
<1>2. /\ request.first \in Nat \ {0} /\ request.last \in Nat /\ request.since \in Nat
      /\ request.reset \in BOOLEAN
  BY <1>1, FollowConstants DEF Copies
<1>3. QED BY <1>1, <1>2 DEF Wanted

\* A page is the beginning of what the command wants, and none only of nothing.
LEMMA PageIsBeginning ==
    ASSUME FollowTypeOK, Copied
    PROVE  /\ Page \subseteq Wanted
           /\ \A seq \in Page, m \in Wanted : m <= seq => m \in Page
           /\ Page = {} => Wanted = {}
<1> DEFINE below(m) == {s \in Wanted : s <= m}
<1>1. Wanted \subseteq Nat /\ IsFiniteSet(Wanted) /\ limit \in Nat
  <2>1. IsFiniteSet(request.first..request.last)
    <3>1. request.first \in Int /\ request.last \in Int
      BY CopyTypes
    <3>2. QED BY <3>1, FS_Interval
  <2>2. QED BY <2>1, CopyTypes, FS_Subset, FollowConstants DEF FollowTypeOK
<1>2. \A m \in Wanted : IsFiniteSet(below(m)) /\ Cardinality(below(m)) \in Nat
  BY <1>1, FS_Subset, FS_CardinalityType
<1>3. Page \subseteq Wanted
  BY DEF Page
<1>4. limit # 0 => Page = {m \in Wanted : Cardinality(below(m)) <= limit}
  BY DEF Page
<1>5. ASSUME NEW seq \in Page, NEW m \in Wanted, m <= seq PROVE m \in Page
  <2>1. CASE limit = 0
    BY <2>1 DEF Page
  <2>2. CASE limit # 0
    <3>1. seq \in Wanted /\ seq \in Nat /\ m \in Nat
      BY <1>1, <1>3
    <3>2. below(m) \in SUBSET below(seq)
      <4>1. ASSUME NEW s \in Wanted, s <= m PROVE s <= seq
        <5>1. s \in Nat
          BY <1>1
        <5>2. QED BY <1>5, <3>1, <4>1, <5>1
      <4>2. QED BY <4>1
    <3>3. Cardinality(below(m)) <= Cardinality(below(seq))
      BY <1>2, <3>1, <3>2, FS_Subset
    <3>4. Cardinality(below(seq)) <= limit
      BY <1>4, <2>2
    <3>5. Cardinality(below(m)) <= limit
      <4> HIDE DEF below
      <4>1. QED BY <1>1, <1>2, <3>1, <3>3, <3>4
    <3>6. QED BY <1>4, <2>2, <3>5
  <2>3. QED BY <2>1, <2>2
<1>6. ASSUME Page = {}, Wanted # {} PROVE FALSE
  <2>1. limit # 0
    BY <1>6 DEF Page
  <2>2. PICK m \in Wanted : \A n \in Wanted : m <= n
    BY <1>1, <1>6, Least
  <2>3. below(m) = {m}
    <3>1. ASSUME NEW s \in Wanted PROVE s <= m <=> s = m
      <4>1. s \in Nat /\ m \in Nat /\ m <= s
        BY <1>1, <2>2
      <4>2. QED BY <4>1
    <3>2. QED BY <3>1
  <2>4. Cardinality(below(m)) = 1
    BY <2>3, FS_Singleton
  <2>5. m \in Page
    <3> HIDE DEF below
    <3>1. QED BY <1>1, <1>4, <2>1, <2>4
  <2>6. QED BY <1>6, <2>5
<1>7. QED BY <1>3, <1>5, <1>6

\* Answers that the command can rely on: nothing in them is skipped, a loss before them
\* is told when the tables have room, and a last one leaves nothing behind unnoted.
GoodPages ==
    {p \in Pages :
        /\ \A m \in p.since + 1..p.next : m >= p.first /\ Matches(log[m], filter) => m \in p.events
        /\ \A m \in p.since + 1..p.first - 1 :
              Room /\ p.since > 0 /\ Matches(log[m], filter) => p.dropped
        /\ \A m \in p.events : p.since < m /\ m <= p.next
        /\ p.since <= p.next /\ p.next <= Len(log) /\ p.first <= first
        /\ p.truncated => p.events # {}
        /\ IF p.reset THEN origin # "this" /\ p.since = 0 ELSE p.since = cursor
        /\ p.truncated \/ p.reset \/ p.next \in Horizons}
GoodCopies ==
    {r \in Copies :
        /\ r.last <= Len(log) /\ r.first <= first /\ r.since <= r.last
        /\ IF r.reset THEN origin # "this" /\ r.since = 0 ELSE r.since = cursor
        /\ r.last \in Horizons}

PageInv ==
    pc = "waiting" => Pending \subseteq GoodPages /\ (up /\ Copied => request \in GoodCopies)

\* The answer from a good copy is a good one.
LEMMA GoodAnswer ==
    ASSUME FollowTypeOK, Room => TablesExact, StreamInv, Copied, request \in GoodCopies,
           NEW next \in Page \cup {request.last},
           IF Page = {} THEN next = request.last
           ELSE next \in Page /\ \A seq \in Page : seq <= next,
           NEW p \in Pages,
           p = [kind |-> "page", events |-> Page, next |-> next, first |-> request.first,
                since |-> request.since, reset |-> request.reset,
                truncated |-> Page # Wanted, dropped |-> Dropped(filter, request.since)]
    PROVE  p \in GoodPages
<1>1. /\ request.first \in Nat \ {0} /\ request.last \in Nat /\ request.since \in Nat
      /\ request.last <= Len(log) /\ request.first <= first /\ request.since <= request.last
      /\ request.last \in Horizons /\ request.reset \in BOOLEAN
      /\ Len(log) \in Nat /\ first \in Nat
  <2>1. first \in Nat
    BY FollowConstants DEF FollowTypeOK, RingTypeOK
  <2>2. QED BY <2>1, CopyTypes, StreamTypes DEF GoodCopies
<1>2. /\ Page \subseteq Wanted /\ (Page = {} => Wanted = {})
      /\ \A seq \in Page, m \in Wanted : m <= seq => m \in Page
  BY PageIsBeginning
<1>3. Wanted \subseteq request.since + 1..request.last /\ Wanted \subseteq request.first..request.last
  BY CopyTypes
<1>4. next \in Nat /\ request.since <= next /\ next <= request.last
  <2>1. next \in request.since + 1..request.last \/ next = request.last
    BY <1>2, <1>3
  <2>2. QED BY <1>1, <2>1
<1>5. \A m \in Page : request.since < m /\ m <= next
  <2>1. \A m \in Page : m <= next
    OBVIOUS
  <2>2. \A m \in Page : request.since < m
    BY <1>1, <1>2, <1>3
  <2>3. QED BY <2>1, <2>2
<1>6. ASSUME NEW m \in Nat, request.since < m, m <= next, m >= request.first, Matches(log[m], filter)
      PROVE  m \in Page
  <2>1. m \in Wanted
    BY <1>1, <1>4, <1>6 DEF Wanted
  <2>2. QED BY <1>2, <1>6, <2>1
<1>7. ASSUME NEW m \in request.since + 1..request.first - 1, Room, request.since > 0,
             Matches(log[m], filter)
      PROVE  Dropped(filter, request.since)
  <2>1. m \in 1..first - 1 /\ filter \in Filter /\ m > request.since /\ m \in Nat
    BY <1>1, <1>7, FollowConstants, SMTT(30) DEF FollowTypeOK
  <2>2. m <= Kept(evicted[KindOf(filter)], filter)
    BY <1>7, <2>1 DEF TablesExact
  <2>3. Kept(evicted[KindOf(filter)], filter) \in Nat
    BY <2>1, KeyMatches, FollowConstants DEF FollowTypeOK, RingTypeOK, Kept, KindOf, Kinds
  <2>4. QED BY <1>1, <1>7, <2>1, <2>2, <2>3 DEF Dropped
<1>8. ASSUME Page = Wanted PROVE next \in Horizons
  <2>1. ASSUME NEW m \in Nat, next < m, m <= request.last, Matches(log[m], filter) PROVE FALSE
    <3>1. next \in Page
      BY <1>1, <1>4, <2>1
    <3>2. next \in Wanted /\ request.first <= next
      BY <1>1, <1>2, <1>3, <3>1
    <3>3. m \in Wanted
      BY <1>1, <1>4, <2>1, <3>2 DEF Wanted
    <3>4. m <= next
      BY <1>8, <3>1, <3>3
    <3>5. QED BY <1>4, <2>1, <3>4
  <2>2. held # Nothing => held.seq \in Nat
    BY FollowConstants DEF FollowTypeOK, Tagged
  <2>3. held # Nothing /\ Matches(log[held.seq], filter) => held.seq <= next
    BY <1>1, <1>4, <2>1, <2>2 DEF Horizons
  <2>4. ASSUME NEW m \in Missing, m > next PROVE m \in Noted
    <3>1. m \in Nat /\ Matches(log[m], filter)
      BY <1>1 DEF Missing
    <3>2. m > request.last
      BY <1>1, <1>4, <2>1, <2>4, <3>1
    <3>3. QED BY <1>1, <3>2 DEF Horizons
  <2>5. QED BY <1>4, <2>3, <2>4 DEF Horizons
<1>9. /\ p.events = Page /\ p.next = next /\ p.first = request.first /\ p.since = request.since
      /\ p.reset = request.reset /\ p.truncated = (Page # Wanted)
      /\ p.dropped = Dropped(filter, request.since)
  OBVIOUS
<1>10. \A m \in p.since + 1..p.next : m >= p.first /\ Matches(log[m], filter) => m \in p.events
  <2>1. \A m \in request.since + 1..next : m \in Nat /\ request.since < m /\ m <= next
    BY <1>1, <1>4
  <2>2. QED BY <1>6, <1>9, <2>1
<1>11. \A m \in p.since + 1..p.first - 1 : Room /\ p.since > 0 /\ Matches(log[m], filter) => p.dropped
  BY <1>7, <1>9
<1>12. p.truncated => p.events # {}
  BY <1>2, <1>9
<1>13. IF p.reset THEN origin # "this" /\ p.since = 0 ELSE p.since = cursor
  BY <1>9 DEF GoodCopies
<1>14. p.since <= p.next /\ p.next <= Len(log) /\ p.first <= first
  BY <1>1, <1>4, <1>9
<1>15. p.truncated \/ p.reset \/ p.next \in Horizons
  BY <1>8, <1>9
<1>16. \A m \in p.events : p.since < m /\ m <= p.next
  BY <1>5, <1>9
<1>17. QED BY <1>10, <1>11, <1>12, <1>13, <1>14, <1>15, <1>16 DEF GoodPages

\* What is sent adds at most itself to the answers on the way.
LEMMA PendingSent ==
    ASSUME FollowTypeOK, NEW frame \in Frames, Send(frame), reply' = reply
    PROVE  /\ Pending' \subseteq Pending \cup {frame} /\ (up' => up)
           /\ frame.kind = "event" => Pending' \subseteq Pending
<1>1. CASE Close
  BY <1>1, CloseLeaves DEF Pending, Close
<1>2. CASE outbound' = Append(outbound, frame) /\ up' = up
  <2>1. \A i \in Answers' : (i = Len(outbound) + 1 /\ frame.kind # "event" /\ outbound'[i] = frame)
                            \/ (i \in Answers /\ outbound'[i] = outbound[i])
    <3>1. \A i \in Answers' : i = Len(outbound) + 1 \/ i \in Answers
      BY <1>2, AppendLeaves
    <3>2. Len(outbound) + 1 \in Answers' <=> frame.kind # "event"
      BY <1>2, AppendLeaves
    <3>3. \A i \in Answers : outbound'[i] = outbound[i]
      BY <1>2, AppendLeaves DEF Answers
    <3>4. outbound'[Len(outbound) + 1] = frame
      BY <1>2, AppendLeaves
    <3>5. QED BY <3>1, <3>2, <3>3, <3>4
  <2>2. QED BY <1>2, <2>1 DEF Pending
<1>3. QED BY <1>1, <1>2 DEF Send

\* What is read was on the way.
LEMMA PendingRead ==
    ASSUME FollowTypeOK, outbound # <<>>, outbound' = Tail(outbound),
           reply' = reply \/ (reply' = outbound[1] /\ outbound[1].kind # "event")
    PROVE  Pending' \subseteq Pending
<1>1. \A i \in Answers' : i + 1 \in Answers /\ outbound'[i] = outbound[i + 1]
  BY TailLeaves DEF Answers
<1>2. outbound[1].kind # "event" => 1 \in Answers
  BY TailLeaves DEF Answers
<1>3. \A i \in Answers' : outbound'[i] \in Pending
  BY <1>1 DEF Pending
<1>4. reply' # Nothing => reply' \in Pending
  BY <1>2 DEF Pending
<1>5. QED BY <1>3, <1>4 DEF Pending

\* The log of this run only grows.
LEMMA RingGrows ==
    ASSUME FollowTypeOK, FollowTypeOK', [FollowNext]_followVars
    PROVE  /\ Len(log) \in Nat /\ Len(log') \in Nat /\ Len(log) <= Len(log')
           /\ first \in Nat /\ first' \in Nat /\ first <= first'
           /\ \A i \in 1..Len(log) : (log')[i] = log[i]
<1>1. /\ Len(log) \in Nat /\ Len(log') \in Nat /\ first \in Nat /\ first' \in Nat
  <2>1. log \in Seq(Event) /\ log' \in Seq(Event) /\ first \in 1..MaxSeq + 1 /\ first' \in 1..MaxSeq + 1
    BY DEF FollowTypeOK, RingTypeOK
  <2>2. QED BY <2>1, FollowConstants
<1>2. ASSUME NEW e \in Sent, Publish(e) PROVE Len(log) <= Len(log') /\ first <= first'
                                            /\ \A i \in 1..Len(log) : (log')[i] = log[i]
  <2>1. e \in Event /\ Ingest(e) /\ RingTypeOK
    BY <1>2, FollowConstants DEF Publish, FollowTypeOK
  <2>2. QED BY <1>1, <2>1, LogGrows
<1>3. (\E e \in Sent : Publish(e)) \/ UNCHANGED <<log, first>>
  <2> USE DEF ringVars, server, inbound, counter, command, settings, output
  <2>1. CASE ServerStep
    BY <2>1 DEF ServerStep, ServeSubscribe, Confirm, CopyRing, AnswerPage
  <2>2. CASE ReadLoopStep
    BY <2>2 DEF ReadLoopStep, RouteReply, ReadEvent, QueueEvent, ReadFails
  <2>3. CASE CommandStep
    BY <2>3 DEF CommandStep, Subscribe, Subscribed, AskPage, Reset, PrintPage, Overflowed, GoLive,
                Noticed, TakeEvent, Fails
  <2>4. CASE Hangup \/ Cancel
    BY <2>4 DEF Hangup, Cancel
  <2>5. CASE UNCHANGED followVars
    BY <2>5 DEF followVars
  <2>6. QED BY <2>1, <2>2, <2>3, <2>4, <2>5 DEF FollowNext
<1>4. QED BY <1>1, <1>2, <1>3

\* What is good stays so while the command waits.
LEMMA GoodKept ==
    ASSUME FollowTypeOK, FollowTypeOK', [FollowNext]_followVars, Horizons \subseteq Horizons',
           UNCHANGED <<filter, cursor, origin>>
    PROVE  GoodPages \subseteq GoodPages' /\ GoodCopies \subseteq GoodCopies'
<1>1. /\ Len(log) \in Nat /\ Len(log') \in Nat /\ Len(log) <= Len(log')
      /\ first \in Nat /\ first' \in Nat /\ first <= first'
      /\ \A i \in 1..Len(log) : (log')[i] = log[i]
  BY RingGrows
<1>2. ASSUME NEW r \in GoodCopies PROVE r \in GoodCopies'
  <2>1. r \in Copies /\ r.last \in Nat /\ r.first \in Nat
    BY FollowConstants DEF GoodCopies, Copies
  <2>2. r.last <= Len(log) /\ r.first <= first
    BY DEF GoodCopies
  <2>3. r.last <= Len(log') /\ r.first <= first'
    BY <1>1, <2>1, <2>2
  <2>4. QED BY <1>2, <2>1, <2>3 DEF GoodCopies
<1>3. ASSUME NEW p \in GoodPages PROVE p \in GoodPages'
  <2>1. /\ p \in Pages /\ p.since \in Nat /\ p.next \in Nat /\ p.first \in Nat
        /\ p.next <= Len(log) /\ p.first <= first
    BY FollowConstants DEF GoodPages, Pages
  <2>2. p.next <= Len(log') /\ p.first <= first'
    BY <1>1, <2>1
  <2>3. \A m \in p.since + 1..p.next : m \in 1..Len(log)
    BY <1>1, <2>1
  <2>4. \A m \in p.since + 1..p.next : m >= p.first /\ Matches((log')[m], filter) => m \in p.events
    BY <1>1, <1>3, <2>3 DEF GoodPages
  <2>5. \A m \in p.since + 1..p.first - 1 : m \in 1..Len(log)
    <3>1. first <= Len(log) + 1
      BY DEF FollowTypeOK, RingTypeOK
    <3>2. QED BY <1>1, <2>1, <3>1
  <2>6. \A m \in p.since + 1..p.first - 1 :
           Room /\ p.since > 0 /\ Matches((log')[m], filter) => p.dropped
    BY <1>1, <1>3, <2>5 DEF GoodPages
  <2>7. QED BY <1>3, <2>1, <2>2, <2>4, <2>6 DEF GoodPages
<1>4. QED BY <1>2, <1>3

\* While the command waits, its request and the answers to it stay good.
LEMMA PageStep ==
    ASSUME FollowTypeOK, FollowTypeOK', TagInv, CallInv, SubscribedInv, StreamInv, PageInv,
           Room => TablesExact, origin = "this" => cursor <= Len(log) \/ pc \in {"start", "ended"},
           [FollowNext]_followVars
    PROVE  PageInv'
<1> USE DEF ringVars, server, inbound, counter, command, settings, output
<1> SUFFICES ASSUME pc' = "waiting"
             PROVE  Pending' \subseteq GoodPages' /\ (up' /\ Copied' => request' \in GoodCopies')
  BY DEF PageInv
<1>1. CASE AskPage
  <2>1. Pending' = {}
    BY <1>1 DEF AskPage, Pending, Answers, CallInv
  <2>2. up' => request'.step = "events"
    BY <1>1 DEF AskPage, Call
  <2>3. QED BY <2>1, <2>2 DEF Copied
<1>2. ASSUME pc = "waiting", UNCHANGED <<filter, cursor, origin>>
      PROVE  /\ GoodPages \subseteq GoodPages' /\ GoodCopies \subseteq GoodCopies'
             /\ Pending \subseteq GoodPages /\ (up /\ Copied => request \in GoodCopies)
  <2>1. up => subscribed
    BY <1>2 DEF SubscribedInv, Asking
  <2>2. Horizons \subseteq Horizons'
    BY <2>1, HorizonsStep
  <2>3. QED BY <1>2, <2>2, GoodKept DEF PageInv
<1>3. ASSUME pc = "waiting", UNCHANGED <<filter, cursor, origin>>, Pending' \subseteq Pending,
             up' => up, request' = request \/ ~Copied'
      PROVE  Pending' \subseteq GoodPages' /\ (up' /\ Copied' => request' \in GoodCopies')
  BY <1>2, <1>3 DEF Copied
<1>4. ASSUME NEW e \in Sent, Publish(e)
      PROVE  Pending' \subseteq GoodPages' /\ (up' /\ Copied' => request' \in GoodCopies')
  <2> DEFINE frame == [kind |-> "event", seq |-> Len(log')]
  <2>1. frame \in Frames /\ frame.kind = "event"
    <3>1. Len(log') \in 1..MaxSeq
      BY <1>4, FollowConstants DEF Publish, Ingest, FollowTypeOK, RingTypeOK
    <3>2. QED BY <3>1 DEF Frames
  <2>2. Send(frame) \/ UNCHANGED <<up, outbound>>
    BY <1>4 DEF Publish
  <2>3. UNCHANGED <<pc, filter, cursor, origin, request, reply>>
    BY <1>4 DEF Publish
  <2>4. Pending' \subseteq Pending /\ (up' => up)
    <3>1. CASE Send(frame)
      <4> HIDE DEF frame
      <4>1. QED BY <2>1, <2>3, <3>1, PendingSent
    <3>2. CASE UNCHANGED <<up, outbound>>
      BY <2>3, <3>2 DEF Pending, Answers
    <3>3. QED BY <2>2, <3>1, <3>2
  <2>5. QED BY <1>3, <2>3, <2>4
<1>5. CASE Confirm
  BY <1>5, FollowConstants DEF Confirm, CallInv, Requests
<1>6. CASE ServeSubscribe
  BY <1>6, FollowConstants DEF ServeSubscribe, CallInv, Requests
<1>7. CASE CopyRing
  <2> DEFINE reset == origin = "other" \/ cursor > Len(log)
             since == IF reset THEN 0 ELSE cursor
  <2>1. /\ request' = [step |-> "copied", first |-> first, last |-> Len(log),
                       reset |-> reset, since |-> since]
        /\ UNCHANGED <<pc, filter, cursor, origin, outbound, reply, ringVars>> /\ up
    BY <1>7 DEF CopyRing
  <2>2. Pending' = Pending
    BY <2>1 DEF Pending, Answers
  <2>3. request' \in Copies
    <3>1. request'.step = "copied" /\ request' # Nothing
      <4>1. first \in 1..MaxSeq + 1 /\ Len(log) \in 0..MaxSeq /\ cursor \in Nat
        BY FollowConstants DEF FollowTypeOK, RingTypeOK
      <4>2. reset \in BOOLEAN /\ since \in 0..MaxSeq
        BY <4>1, FollowConstants
      <4>3. request' \in Requests
        <5> HIDE DEF reset, since
        <5>1. QED BY <2>1, <4>1, <4>2 DEF Requests
      <4>4. QED BY <2>1, <4>3, FollowConstants
    <3>2. QED BY <3>1 DEF FollowTypeOK, Copies, Requests
  <2>4. reset \in BOOLEAN /\ (reset => origin # "this") /\ (~reset => cursor <= Len(log))
    BY <2>1, StreamTypes DEF FollowTypeOK
  <2>5. Len(log) \in Horizons' /\ first \in Nat /\ Len(log) \in Nat /\ cursor \in Nat
    <3>1. Horizons \subseteq Horizons'
      BY <2>1, HorizonsStep DEF SubscribedInv, Asking
    <3>2. Len(log) \in Horizons
      BY HorizonsEnd
    <3>3. first \in Nat /\ Len(log) \in Nat
      BY RingGrows
    <3>4. QED BY <3>1, <3>2, <3>3 DEF FollowTypeOK
  <2>6. since <= Len(log) /\ (IF reset THEN since = 0 ELSE since = cursor)
    BY <2>4, <2>5
  <2>7. request' \in GoodCopies'
    <3> HIDE DEF reset, since
    <3>1. QED BY <2>1, <2>3, <2>4, <2>5, <2>6 DEF GoodCopies
  <2>8. QED BY <1>2, <2>1, <2>2, <2>7
<1>8. CASE AnswerPage
  <2>1. UNCHANGED <<pc, filter, cursor, origin, reply>> /\ request' = Nothing /\ up /\ Copied
    BY <1>8 DEF AnswerPage
  <2>2. request \in GoodCopies
    BY <1>2, <2>1
  <2>3. PICK next \in Page \cup {request.last} :
              LET frame == [kind |-> "page", events |-> Page, next |-> next, first |-> request.first,
                            since |-> request.since, reset |-> request.reset,
                            truncated |-> Page # Wanted, dropped |-> Dropped(filter, request.since)]
              IN  /\ frame \in Replies /\ frame.kind = "page" /\ Send(frame)
                  /\ IF Page = {} THEN next = request.last
                     ELSE next \in Page /\ \A seq \in Page : seq <= next
    BY <1>8, PageIsReply
  <2> DEFINE frame == [kind |-> "page", events |-> Page, next |-> next, first |-> request.first,
                       since |-> request.since, reset |-> request.reset,
                       truncated |-> Page # Wanted, dropped |-> Dropped(filter, request.since)]
  <2>4. frame \in Pages
    BY <2>3 DEF Replies
  <2>5. frame \in GoodPages
    BY <2>1, <2>2, <2>3, <2>4, GoodAnswer
  <2>6. Send(frame)
    BY <2>3
  <2>7. PICK page \in Pages : page \in GoodPages /\ Send(page)
    BY <2>4, <2>5, <2>6
  <2>8. page \in Frames
    BY DEF Frames, Replies
  <2>9. Pending' \subseteq Pending \cup {page}
    BY <2>1, <2>7, <2>8, PendingSent
  <2>10. QED BY <1>2, <2>1, <2>7, <2>9 DEF Copied
<1>9. CASE Hangup
  <2>1. Pending' \subseteq Pending /\ ~up'
    BY <1>9, CloseLeaves DEF Hangup, Close, Pending
  <2>2. QED BY <1>3, <1>9, <2>1 DEF Hangup
<1>10. CASE RouteReply \/ ReadEvent
  <2>1. Pending' \subseteq Pending
    BY <1>10, PendingRead DEF RouteReply, ReadEvent, Arrives
  <2>2. QED BY <1>3, <1>10, <2>1 DEF RouteReply, ReadEvent
<1>11. CASE QueueEvent \/ ReadFails \/ UNCHANGED followVars
  <2>1. UNCHANGED <<pc, filter, cursor, origin, up, outbound, reply, request>>
    BY <1>11 DEF QueueEvent, ReadFails, followVars
  <2>2. Pending' = Pending
    BY <2>1 DEF Pending, Answers
  <2>3. QED BY <1>3, <2>1, <2>2
<1>12. CASE Subscribe \/ Subscribed \/ Reset \/ PrintPage \/ Overflowed \/ GoLive \/ Fails \/ Cancel
  BY <1>12 DEF Subscribe, Subscribed, Reset, PrintPage, Overflowed, GoLive, Fails, Cancel, Recover
<1>13. CASE Noticed \/ TakeEvent
  BY <1>13 DEF Noticed, TakeEvent, Recover
<1>14. QED BY <1>1, <1>4, <1>5, <1>6, <1>7, <1>8, <1>9, <1>10, <1>11, <1>12, <1>13
           DEF FollowNext, ServerStep, ReadLoopStep, CommandStep
-----------------------------------------------------------------------------
(* The command: where it is, and what it has accounted for.                *)

\* The numbers up to which every event that was asked for is printed or replaced by a
\* marker.
Accounted ==
    {k \in Nat : \A m \in 1..Len(log) :
        owed <= m /\ m <= k /\ Matches(log[m], filter) => m \in printed \cup excused}

\* Positions: the command pages onwards from behind what it has printed, and goes live
\* from a number behind which nothing is missing without a note.
PlaceInv ==
    /\ printed \subseteq 1..lastSeq /\ lastSeq <= Len(log)
    /\ origin # "this" => /\ printed = {} /\ lastSeq = 0 /\ owed = NotYet
                          /\ pc \in {"start", "subscribing", "paging", "waiting", "ended"}
    /\ origin = "this" => cursor <= Len(log) \/ pc \in {"start", "ended"}
    /\ pc \in {"paging", "waiting", "checking"} => lastSeq <= cursor
    /\ pc \in {"start", "subscribing"} => printed = {} /\ lastSeq = 0 /\ owed = NotYet
    /\ pc \in {"start", "subscribing", "live"} => held = Nothing
    /\ pc \in {"paging", "waiting"} /\ owed # NotYet /\ cursor = 0 => warned
    /\ pc \in {"checking", "live"} => cursor \in Horizons

\* With room in the tables everything up to the newest event printed is accounted for,
\* and up to the place to page from.
CoverInv == Room => lastSeq \in Accounted /\ (pc \in Asking => cursor \in Accounted)

\* The numbers of the command.
LEMMA CommandNumbers ==
    ASSUME FollowTypeOK
    PROVE  /\ lastSeq \in Nat /\ cursor \in Nat /\ owed \in Nat \ {0} /\ Len(log) \in Nat
           /\ Len(log) < NotYet /\ NotYet \in Nat /\ printed \subseteq Nat
<1>1. /\ lastSeq \in 0..MaxSeq /\ owed \in 1..MaxSeq + 1 /\ Len(log) <= MaxSeq /\ Len(log) \in Nat
      /\ cursor \in Nat /\ printed \subseteq 1..MaxSeq
  BY DEF FollowTypeOK, RingTypeOK
<1>2. QED BY <1>1, FollowConstants DEF NotYet

\* What is accounted for stays so.
LEMMA AccountedKept ==
    ASSUME FollowTypeOK, FollowTypeOK', [FollowNext]_followVars, UNCHANGED <<filter, owed>>,
           printed \subseteq printed', excused \subseteq excused',
           NEW k \in Accounted, k <= Len(log) \/ owed = NotYet
    PROVE  k \in Accounted'
<1>1. /\ Len(log) \in Nat /\ Len(log') \in Nat /\ Len(log) <= Len(log')
      /\ \A i \in 1..Len(log) : (log')[i] = log[i]
  BY RingGrows
<1>2. k \in Nat
  BY DEF Accounted
<1>3. ASSUME NEW m \in 1..Len(log'), owed <= m, m <= k, Matches((log')[m], filter)
      PROVE  m \in printed' \cup excused'
  <2>1. owed # NotYet
    <3>1. Len(log') < NotYet /\ NotYet \in Nat
      <4>1. Len(log') <= MaxSeq
        BY DEF FollowTypeOK, RingTypeOK
      <4>2. QED BY <1>1, <4>1, FollowConstants DEF NotYet
    <3>2. QED BY <1>1, <1>3, <3>1
  <2>2. m \in 1..Len(log)
    BY <1>1, <1>2, <1>3, <2>1
  <2>3. m \in printed \cup excused
    BY <1>1, <1>3, <2>2 DEF Accounted
  <2>4. QED BY <2>3
<1>4. QED BY <1>2, <1>3 DEF Accounted

\* A smaller number is accounted for as well.
LEMMA AccountedDown ==
    ASSUME FollowTypeOK, NEW k \in Accounted, NEW n \in Nat, n <= k
    PROVE  n \in Accounted
<1>1. k \in Nat /\ \A m \in 1..Len(log) : m \in Nat
  BY CommandNumbers DEF Accounted
<1>2. QED BY <1>1 DEF Accounted

\* Before its first page the command owes nothing.
LEMMA NothingOwed ==
    ASSUME FollowTypeOK, owed = NotYet
    PROVE  Nat \subseteq Accounted
<1>1. \A m \in 1..Len(log) : ~(owed <= m)
  BY CommandNumbers
<1>2. QED BY <1>1 DEF Accounted

\* A page that the command prints accounts for everything up to where it goes on.
LEMMA PrintStep ==
    ASSUME FollowTypeOK, FollowTypeOK', PlaceInv, Room => cursor \in Accounted,
           reply \in GoodPages, PrintPage
    PROVE  /\ reply.since = cursor /\ reply.since <= reply.next /\ reply.next <= Len(log)
           /\ reply.since \in Nat /\ reply.next \in Nat /\ reply.events \subseteq Nat
           /\ \A m \in reply.events : lastSeq < m /\ m <= reply.next
           /\ lastSeq <= lastSeq' /\ lastSeq' <= reply.next
           /\ Room => reply.next \in Accounted'
<1>1. /\ reply \in Pages /\ reply.since \in Nat /\ reply.next \in Nat /\ reply.first \in Nat \ {0}
      /\ reply.events \subseteq Nat
  <2>1. reply \in Pages
    BY DEF GoodPages
  <2>2. QED BY <2>1, FollowConstants DEF Pages
<1>2. /\ lastSeq \in Nat /\ cursor \in Nat /\ owed \in Nat \ {0}
      /\ lastSeq' \in Nat /\ owed' \in Nat \ {0}
      /\ Len(log) \in Nat /\ pc = "waiting" /\ lastSeq <= cursor /\ ~reply.reset
  <2>1. lastSeq' \in 0..MaxSeq /\ owed' \in 1..MaxSeq + 1
    BY DEF FollowTypeOK
  <2>2. lastSeq' \in Nat /\ owed' \in Nat \ {0}
    BY <2>1, FollowConstants
  <2>3. QED BY <2>2, CommandNumbers DEF PrintPage, PlaceInv
<1>3. reply.since = cursor /\ reply.since <= reply.next /\ reply.next <= Len(log)
  BY <1>2 DEF GoodPages
<1>4. \A m \in reply.events : m \in Nat /\ lastSeq < m /\ m <= reply.next
  <2>1. \A m \in reply.events : m \in Nat /\ reply.since < m /\ m <= reply.next
    BY <1>1 DEF GoodPages
  <2>2. QED BY <1>1, <1>2, <1>3, <2>1
<1>5. lastSeq <= lastSeq' /\ lastSeq' <= reply.next
  <2>1. lastSeq' \in reply.events \cup {lastSeq}
    BY DEF PrintPage
  <2>2. lastSeq <= lastSeq'
    BY DEF PrintPage
  <2>3. lastSeq <= reply.next
    BY <1>1, <1>2, <1>3
  <2>4. QED BY <1>4, <2>1, <2>2, <2>3
<1>6. ASSUME Room, NEW m \in 1..Len(log), owed' <= m, m <= reply.next, Matches(log[m], filter)
      PROVE  m \in printed' \cup excused'
  <2>0. m \in Nat \ {0}
    BY <1>2
  <2>1. CASE m <= cursor
    <3>1. owed # NotYet /\ owed' = owed
      BY <1>1, <1>2, <1>3, <1>6, <2>0, <2>1 DEF PrintPage
    <3>2. m \in printed \cup excused
      BY <1>6, <2>0, <2>1, <3>1 DEF Accounted
    <3>3. QED BY <3>2 DEF PrintPage
  <2>2. CASE cursor < m /\ m >= reply.first
    <3>1. m \in reply.since + 1..reply.next
      BY <1>1, <1>3, <1>6, <2>0, <2>2
    <3>2. m \in reply.events
      BY <1>6, <2>2, <3>1 DEF GoodPages
    <3>3. QED BY <3>2 DEF PrintPage
  <2>3. CASE cursor < m /\ m < reply.first
    <3>1. warned \/ reply.dropped
      <4>1. CASE cursor > 0
        <5>1. m \in reply.since + 1..reply.first - 1
          BY <1>1, <1>3, <2>0, <2>3
        <5>2. QED BY <1>3, <1>6, <4>1, <5>1 DEF GoodPages
      <4>2. CASE cursor = 0
        <5>1. owed # NotYet
          BY <1>1, <1>2, <1>3, <1>6, <2>0, <2>3, <4>2 DEF PrintPage
        <5>2. QED BY <1>2, <4>2, <5>1 DEF PlaceInv
      <4>3. QED BY <1>2, <4>1, <4>2
    <3>2. m \in lastSeq + 1..reply.first - 1
      BY <1>1, <1>2, <2>0, <2>3
    <3>3. QED BY <3>1, <3>2 DEF PrintPage
  <2>4. QED BY <1>1, <1>2, <2>0, <2>1, <2>2, <2>3
<1>7. log' = log /\ filter' = filter
  BY DEF PrintPage, ringVars, settings
<1>8. Room => reply.next \in Accounted'
  BY <1>1, <1>6, <1>7 DEF Accounted
<1>9. QED BY <1>1, <1>3, <1>4, <1>5, <1>8

\* An event of the stream that the command prints: everything before it is accounted for.
LEMMA TakeStep ==
    ASSUME FollowTypeOK, StreamInv, PlaceInv, lastSeq \in Accounted, cursor \in Accounted,
           pc = "live", queue # <<>>, queue' = Tail(queue), ~(queue[1].tag > 0),
           UNCHANGED <<reading, outbound, dropped, up>>, NEW m \in 1..Len(log),
           owed <= m, m < queue[1].seq, Matches(log[m], filter)
    PROVE  m \in printed \cup excused
<1>1. /\ lastSeq \in Nat /\ cursor \in Nat /\ m \in Nat /\ cursor \in Horizons
  BY CommandNumbers DEF PlaceInv
<1>2. queue[1].seq \in Nat
  BY QueueTake, StreamTypes
<1>3. CASE m <= lastSeq \/ m <= cursor
  BY <1>3 DEF Accounted
<1>4. CASE m > lastSeq /\ m > cursor
  <2>1. /\ \A later \in InQueue' \cup InHand \cup OnTheWay : queue[1].seq < later
        /\ InQueue = InQueue' \cup {queue[1].seq}
    BY QueueTake
  <2>2. m \notin Stream
    BY <1>1, <1>2, <2>1, StreamTypes DEF Stream
  <2>3. m \in Missing
    BY <1>4, <2>2 DEF Missing
  <2>4. m \in Noted
    BY <1>1, <1>4, <2>3 DEF Horizons
  <2>5. QED BY <2>4, NotedTaken
<1>5. QED BY <1>1, <1>3, <1>4

\* At first the command has printed nothing.
LEMMA PlaceInit == FollowInit => PlaceInv /\ CoverInv /\ PageInv
<1> SUFFICES ASSUME FollowInit PROVE PlaceInv /\ CoverInv /\ PageInv
  OBVIOUS
<1>1. FollowTypeOK
  BY FollowInitTypes
<1>2. owed = NotYet /\ lastSeq = 0 /\ printed = {} /\ held = Nothing /\ pc = "start"
  BY DEF FollowInit
<1>3. lastSeq \in Accounted
  BY <1>1, <1>2, NothingOwed
<1>4. Len(log) \in Nat
  BY <1>1, CommandNumbers
<1>5. QED BY <1>2, <1>3, <1>4 DEF PlaceInv, CoverInv, PageInv, Asking

\* Going back to the ring, behind the last event printed.
LEMMA RecoverStep ==
    ASSUME FollowTypeOK, FollowTypeOK', PlaceInv, CoverInv, [FollowNext]_followVars,
           Recover, pc \in {"checking", "live"}, UNCHANGED <<log, filter, owed, origin>>
    PROVE  PlaceInv' /\ CoverInv'
<1>1. /\ origin = "this" /\ printed \subseteq 1..lastSeq /\ lastSeq <= Len(log) /\ lastSeq \in Nat
  BY CommandNumbers DEF PlaceInv
<1>2. cursor' = lastSeq /\ warned' = TRUE /\ pc' = "paging" /\ UNCHANGED <<lastSeq, printed, excused>>
  BY DEF Recover
<1>3. Room => lastSeq \in Accounted'
  BY <1>1, <1>2, AccountedKept DEF CoverInv
<1>4. PlaceInv'
  BY <1>1, <1>2 DEF PlaceInv
<1>5. QED BY <1>2, <1>3, <1>4 DEF CoverInv

\* Live delivery, or its beginning with the event that was held.
LEMMA LiveStep ==
    ASSUME FollowTypeOK, FollowTypeOK', PlaceInv, CoverInv, [FollowNext]_followVars,
           Horizons \subseteq Horizons',
           pc \in {"checking", "live"}, pc' = "live", held' = Nothing,
           UNCHANGED <<log, filter, owed, origin, cursor, excused>>,
           NEW seq \in 1..MaxSeq, seq <= Len(log),
           \/ UNCHANGED <<lastSeq, printed>>
           \/ lastSeq' = seq /\ lastSeq < seq /\ printed' = printed \cup {seq},
           Room => \A m \in 1..Len(log) :
              owed <= m /\ m < seq /\ Matches(log[m], filter) => m \in printed \cup excused
    PROVE  PlaceInv' /\ CoverInv'
<1>1. /\ origin = "this" /\ printed \subseteq 1..lastSeq /\ lastSeq <= Len(log) /\ lastSeq \in Nat
      /\ cursor \in Nat /\ cursor <= Len(log) /\ Len(log) \in Nat /\ cursor \in Horizons
  BY CommandNumbers DEF PlaceInv
<1>2. Room => cursor \in Accounted' /\ lastSeq \in Accounted'
  <2>1. printed \subseteq printed'
    OBVIOUS
  <2>2. QED BY <1>1, <2>1, AccountedKept DEF CoverInv, Asking
<1>3. CASE UNCHANGED <<lastSeq, printed>>
  BY <1>1, <1>2, <1>3 DEF PlaceInv, CoverInv
<1>4. CASE lastSeq' = seq /\ lastSeq < seq /\ printed' = printed \cup {seq}
  <2>1. printed' \subseteq 1..seq
    BY <1>1, <1>4
  <2>2. PlaceInv'
    BY <1>1, <1>4, <2>1 DEF PlaceInv
  <2>3. ASSUME Room PROVE seq \in Accounted'
    <3>1. ASSUME NEW m \in 1..Len(log), owed <= m, m <= seq, Matches(log[m], filter)
          PROVE  m \in printed' \cup excused'
      <4>1. m \in Nat /\ seq \in Nat
        BY <1>1, FollowConstants
      <4>2. CASE m = seq
        BY <1>4, <4>2
      <4>3. CASE m # seq
        BY <1>4, <2>3, <3>1, <4>1, <4>3
      <4>4. QED BY <4>2, <4>3
    <3>2. seq \in Nat
      BY FollowConstants
    <3>3. QED BY <3>1, <3>2 DEF Accounted
  <2>4. QED BY <1>2, <1>4, <2>2, <2>3 DEF CoverInv
<1>5. QED BY <1>3, <1>4

\* The command's variables do not change.
LEMMA CommandKept ==
    ASSUME FollowTypeOK, FollowTypeOK', ProtocolInv, TagInv, StreamInv, PlaceInv, CoverInv,
           [FollowNext]_followVars, UNCHANGED command
    PROVE  PlaceInv' /\ CoverInv'
<1> USE DEF command, settings, output
<1>1. /\ Len(log) \in Nat /\ Len(log') \in Nat /\ Len(log) <= Len(log')
  BY RingGrows
<1>2. lastSeq \in Nat /\ cursor \in Nat
  BY CommandNumbers
<1>3. pc \in {"checking", "live"} => cursor \in Horizons'
  <2>1. pc \in {"checking", "live"} => (up => subscribed)
    BY DEF ProtocolInv, SubscribedInv, Asking
  <2>2. QED BY <2>1, HorizonsStep DEF PlaceInv
<1>4. lastSeq' <= Len(log') /\ (cursor <= Len(log) => cursor' <= Len(log'))
  BY <1>1, <1>2 DEF PlaceInv
<1>5. PlaceInv'
  BY <1>3, <1>4 DEF PlaceInv
<1>6. Room => lastSeq \in Accounted'
  BY AccountedKept DEF PlaceInv, CoverInv
<1>7. Room /\ pc \in Asking => cursor \in Accounted'
  BY AccountedKept DEF PlaceInv, CoverInv, Asking
<1>8. QED BY <1>5, <1>6, <1>7 DEF CoverInv

\* Every step keeps the command where it may be, and its account complete.
LEMMA PlaceStep ==
    ASSUME FollowTypeOK, FollowTypeOK', ProtocolInv, TagInv, StreamInv, PageInv, PlaceInv, CoverInv,
           [FollowNext]_followVars
    PROVE  PlaceInv' /\ CoverInv'
<1> USE DEF ringVars, server, inbound, counter, settings, output
<1>0. /\ lastSeq \in Nat /\ cursor \in Nat /\ owed \in Nat \ {0} /\ Len(log) \in Nat
      /\ printed \subseteq 1..lastSeq /\ lastSeq <= Len(log)
  BY CommandNumbers DEF PlaceInv
<1>1. ASSUME UNCHANGED <<log, filter, owed, printed, excused, lastSeq, cursor>>
      PROVE  Room => lastSeq \in Accounted' /\ (cursor \in Accounted => cursor \in Accounted')
  BY <1>1 DEF CoverInv, Accounted
<1>2. pc \in Asking => (up => subscribed)
  BY DEF ProtocolInv, SubscribedInv
<1>3. CASE Subscribe
  BY <1>1, <1>3 DEF Subscribe, PlaceInv, CoverInv, Asking
<1>4. CASE Subscribed
  <2>1. /\ UNCHANGED <<log, filter, owed, printed, excused, lastSeq, cursor, origin>>
        /\ pc = "subscribing" /\ pc' = "paging"
    BY <1>4 DEF Subscribed
  <2>2. owed = NotYet /\ lastSeq = 0 /\ printed = {}
    BY <2>1 DEF PlaceInv
  <2>3. cursor \in Accounted
    BY <1>0, <2>2, NothingOwed
  <2>4. PlaceInv'
    BY <1>0, <2>1, <2>2 DEF PlaceInv
  <2>5. QED BY <1>1, <2>1, <2>3, <2>4 DEF CoverInv
<1>5. CASE AskPage
  BY <1>1, <1>5 DEF AskPage, PlaceInv, CoverInv, Asking
<1>6. ASSUME pc = "waiting", reply # Nothing PROVE reply \in GoodPages
  BY <1>6 DEF PageInv, Pending
<1>7. CASE Reset
  <2>1. /\ UNCHANGED <<log, filter, owed, printed, excused>> /\ pc' = "paging" /\ origin' = "this"
        /\ cursor' = 0 /\ lastSeq' = 0 /\ origin # "this"
    BY <1>6, <1>7 DEF Reset, GoodPages
  <2>2. printed = {} /\ lastSeq = 0 /\ owed = NotYet
    BY <2>1 DEF PlaceInv
  <2>3. PlaceInv'
    BY <1>0, <2>1, <2>2 DEF PlaceInv
  <2>4. Room => 0 \in Accounted'
    BY <1>1, <2>1, <2>2 DEF CoverInv, Accounted
  <2>5. QED BY <2>1, <2>3, <2>4 DEF CoverInv
<1>8. CASE PrintPage
  <2>1. /\ pc = "waiting" /\ reply \in GoodPages /\ (Room => cursor \in Accounted)
    BY <1>6, <1>8 DEF PrintPage, CoverInv, Asking
  <2>2. /\ reply.since = cursor /\ reply.since <= reply.next /\ reply.next <= Len(log)
        /\ reply.since \in Nat /\ reply.next \in Nat /\ reply.events \subseteq Nat
        /\ \A m \in reply.events : lastSeq < m /\ m <= reply.next
        /\ lastSeq <= lastSeq' /\ lastSeq' <= reply.next
        /\ Room => reply.next \in Accounted'
    BY <1>8, <2>1, PrintStep
  <2>3. /\ UNCHANGED <<log, filter, held>> /\ cursor' = reply.next /\ origin' = "this"
        /\ printed' = printed \cup reply.events
        /\ \A m \in reply.events : m <= lastSeq'
        /\ pc' = (IF reply.truncated THEN "paging" ELSE "checking")
    BY <1>8 DEF PrintPage
  <2>4. lastSeq' \in Nat
    <3>1. lastSeq' \in 0..MaxSeq
      BY DEF FollowTypeOK
    <3>2. QED BY <3>1, FollowConstants
  <2>5. printed' \subseteq 1..lastSeq'
    <3>1. \A m \in printed : m \in 1..lastSeq'
      BY <1>0, <2>2, <2>4
    <3>2. \A m \in reply.events : m \in 1..lastSeq'
      BY <1>0, <2>2, <2>3, <2>4
    <3>3. QED BY <2>3, <3>1, <3>2
  <2>6. lastSeq' <= Len(log) /\ lastSeq' <= cursor'
    BY <1>0, <2>2, <2>3, <2>4
  <2>7. reply.truncated => cursor' # 0
    <3>1. reply.truncated => \E m \in reply.events : m \in Nat /\ lastSeq < m /\ m <= reply.next
      BY <2>1, <2>2 DEF GoodPages
    <3>2. QED BY <1>0, <2>2, <2>3, <3>1
  <2>8. ~reply.truncated => cursor' \in Horizons'
    <3>1. ~reply.truncated => reply.next \in Horizons
      BY <1>8, <2>1 DEF GoodPages, PrintPage
    <3>2. ~reply.truncated => Horizons \subseteq Horizons'
      BY <1>2, <2>1, <2>3, HorizonsStep DEF ProtocolInv, Asking
    <3>3. QED BY <2>3, <3>1, <3>2
  <2>9. PlaceInv'
    BY <2>2, <2>3, <2>5, <2>6, <2>7, <2>8 DEF PlaceInv
  <2>10. Room => lastSeq' \in Accounted'
    <3>1. ASSUME Room, NEW m \in 1..Len(log), owed' <= m, m <= lastSeq', Matches(log[m], filter)
          PROVE  m \in printed' \cup excused'
      <4>1. m <= reply.next
        BY <1>0, <2>2, <2>4, <3>1
      <4>2. QED BY <2>2, <2>3, <3>1, <4>1 DEF Accounted
    <3>2. QED BY <2>3, <2>4, <3>1 DEF Accounted
  <2>11. QED BY <2>2, <2>3, <2>9, <2>10 DEF CoverInv
<1>9. CASE Overflowed
  BY <1>9, RecoverStep DEF Overflowed
<1>10. CASE GoLive
  <2>1. /\ UNCHANGED <<log, filter, owed, origin, cursor>>
        /\ pc = "checking" /\ pc' = "live" /\ held' = Nothing
    BY <1>10 DEF GoLive
  <2>2. cursor \in Horizons /\ Horizons \subseteq Horizons' /\ (Room => cursor \in Accounted)
    BY <1>2, <2>1, HorizonsStep DEF ProtocolInv, PlaceInv, CoverInv, Asking
  <2>3. CASE held = Nothing
    <3>1. UNCHANGED <<lastSeq, printed, warned, excused>>
      BY <1>10, <2>3 DEF GoLive
    <3>2. PlaceInv'
      BY <1>0, <2>1, <2>2, <3>1 DEF PlaceInv
    <3>3. QED BY <1>1, <2>1, <2>2, <3>1, <3>2 DEF CoverInv
  <2>4. CASE held # Nothing
    <3>1. held.seq \in 1..MaxSeq /\ held.seq <= Len(log) /\ Deliver(held.seq)
      BY <1>10, <2>4 DEF GoLive, FollowTypeOK, Tagged, StreamInv
    <3>2. /\ excused' = excused
          /\ UNCHANGED <<lastSeq, printed>>
             \/ (lastSeq' = held.seq /\ lastSeq < held.seq /\ printed' = printed \cup {held.seq}
                 /\ Matches(log[held.seq], filter))
      BY <3>1, DeliverSeq
    <3>3. CASE UNCHANGED <<lastSeq, printed>>
      <4>1. PlaceInv'
        BY <1>0, <2>1, <2>2, <3>3 DEF PlaceInv
      <4>2. QED BY <1>1, <2>1, <2>2, <3>2, <3>3, <4>1 DEF CoverInv
    <3>4. CASE /\ lastSeq' = held.seq /\ lastSeq < held.seq /\ printed' = printed \cup {held.seq}
               /\ Matches(log[held.seq], filter)
      <4>1. held.seq <= cursor /\ held.seq \in Nat
        BY <2>2, <2>4, <3>1, <3>4, FollowConstants DEF Horizons
      <4>2. Room => \A m \in 1..Len(log) :
               owed <= m /\ m < held.seq /\ Matches(log[m], filter) => m \in printed \cup excused
        <5>1. ASSUME Room, NEW m \in 1..Len(log), owed <= m, m < held.seq, Matches(log[m], filter)
              PROVE  m \in printed \cup excused
          <6>1. m <= cursor
            BY <1>0, <4>1, <5>1
          <6>2. QED BY <2>2, <5>1, <6>1 DEF Accounted
        <5>2. QED BY <5>1
      <4>3. QED BY <2>1, <2>2, <3>1, <3>2, <3>4, <4>2, LiveStep
    <3>5. QED BY <3>2, <3>3, <3>4
  <2>5. QED BY <2>3, <2>4
<1>11. CASE Noticed
  <2>1. CASE dropped > 0
    BY <1>11, <2>1, RecoverStep DEF Noticed
  <2>2. CASE ~(dropped > 0)
    <3>1. UNCHANGED command
      BY <1>11, <2>2 DEF Noticed, command
    <3>2. QED BY <3>1, CommandKept
  <2>3. QED BY <2>1, <2>2
<1>12. CASE TakeEvent
  <2>1. CASE queue[1].tag > 0
    BY <1>12, <2>1, RecoverStep DEF TakeEvent
  <2>2. CASE ~(queue[1].tag > 0)
    <3>1. /\ UNCHANGED <<log, filter, owed, origin, cursor, held, reading, outbound, dropped, up>>
          /\ pc = "live" /\ pc' = "live" /\ queue # <<>> /\ queue' = Tail(queue) /\ Deliver(queue[1].seq)
      BY <1>12, <2>2 DEF TakeEvent
    <3>2. /\ queue[1].seq \in 1..MaxSeq /\ queue[1].seq <= Len(log)
      BY <3>1, QueueTake, StreamTypes DEF StreamInv, Stream
    <3>3. /\ excused' = excused
          /\ UNCHANGED <<lastSeq, printed>>
             \/ (lastSeq' = queue[1].seq /\ lastSeq < queue[1].seq /\ printed' = printed \cup {queue[1].seq})
      BY <3>1, <3>2, DeliverSeq
    <3>4. Horizons \subseteq Horizons' /\ held' = Nothing
      BY <1>2, <3>1, HorizonsStep DEF ProtocolInv, PlaceInv, Asking
    <3>5. Room => \A m \in 1..Len(log) :
             owed <= m /\ m < queue[1].seq /\ Matches(log[m], filter) => m \in printed \cup excused
      BY <2>2, <3>1, TakeStep DEF CoverInv, Asking
    <3>6. QED BY <3>1, <3>2, <3>3, <3>4, <3>5, LiveStep
  <2>3. QED BY <2>1, <2>2
<1>13. CASE Fails \/ Cancel
  <2>1. UNCHANGED <<log, filter, owed, printed, excused, lastSeq, cursor, origin>> /\ pc' = "ended"
    BY <1>13 DEF Fails, Cancel
  <2>2. QED BY <1>1, <2>1 DEF PlaceInv, CoverInv, Asking
<1>14. CASE (\E e \in Sent : Publish(e)) \/ Hangup \/ UNCHANGED followVars
  BY <1>14, CommandKept DEF Publish, Hangup, followVars
<1>15. CASE ServerStep
  BY <1>15, CommandKept DEF ServerStep, ServeSubscribe, Confirm, CopyRing, AnswerPage
<1>16. CASE ReadLoopStep
  BY <1>16, CommandKept DEF ReadLoopStep, RouteReply, ReadEvent, QueueEvent, ReadFails
<1>17. QED BY <1>3, <1>4, <1>5, <1>7, <1>8, <1>9, <1>10, <1>11, <1>12, <1>13, <1>14, <1>15, <1>16
           DEF FollowNext, CommandStep

\* With room the tables stay exact.
LEMMA TablesStep ==
    ASSUME Room, FollowTypeOK, TablesExact, [FollowNext]_followVars
    PROVE  TablesExact'
<1>1. ASSUME UNCHANGED ringVars PROVE TablesExact'
  BY <1>1 DEF ringVars, TablesExact
<1>2. ASSUME NEW e \in Sent, Publish(e) PROVE TablesExact'
  <2>1. e \in Event /\ Ingest(e) /\ RingTypeOK
    BY <1>2, FollowConstants DEF Publish, FollowTypeOK
  <2>2. QED BY <2>1, RingExact
<1>3. CASE ServerStep
  BY <1>1, <1>3 DEF ServerStep, ServeSubscribe, Confirm, CopyRing, AnswerPage
<1>4. CASE ReadLoopStep
  BY <1>1, <1>4 DEF ReadLoopStep, RouteReply, ReadEvent, QueueEvent, ReadFails
<1>5. CASE CommandStep
  BY <1>1, <1>5 DEF CommandStep, Subscribe, Subscribed, AskPage, Reset, PrintPage, Overflowed, GoLive,
                    Noticed, TakeEvent, Fails
<1>6. CASE Hangup \/ Cancel \/ UNCHANGED followVars
  BY <1>1, <1>6 DEF Hangup, Cancel, followVars
<1>7. QED BY <1>2, <1>3, <1>4, <1>5, <1>6 DEF FollowNext

\* The inductive invariant of the follower.
FollowInv ==
    /\ FollowTypeOK /\ (Room => TablesExact) /\ ProtocolInv /\ TagInv /\ StreamInv
    /\ PageInv /\ PlaceInv /\ CoverInv

\* It holds initially and every step keeps it.
LEMMA FollowInvHolds == FollowSpec => []FollowInv
<1>1. FollowInit => FollowInv
  BY FollowInitTypes, ProtocolInit, StreamInit, PlaceInit, RingStarts DEF FollowInit, FollowInv
<1>2. FollowInv /\ [FollowNext]_followVars => FollowInv'
  <2> SUFFICES ASSUME FollowInv, [FollowNext]_followVars PROVE FollowInv'
    OBVIOUS
  <2>1. FollowTypeOK' /\ TagInv' /\ ProtocolInv'
    BY FollowTypesStep, ProtocolStep DEF FollowInv
  <2>2. StreamInv'
    BY <2>1, StreamStep DEF FollowInv
  <2>3. PageInv'
    BY <2>1, PageStep DEF FollowInv, ProtocolInv, PlaceInv
  <2>4. PlaceInv' /\ CoverInv'
    BY <2>1, PlaceStep DEF FollowInv
  <2>5. Room => TablesExact'
    BY TablesStep DEF FollowInv
  <2>6. QED BY <2>1, <2>2, <2>3, <2>4, <2>5 DEF FollowInv
<1>3. QED BY <1>1, <1>2, PTL DEF FollowSpec

\* With room for every key in the tables of evictions, a follower that has printed an
\* event has printed, or marked as missing, every event before it that it was asked for,
\* however overflows, pages, evictions and the end of the connection interleave.
THEOREM FollowerSkipsNothing ==
    ASSUME Room
    PROVE  FollowSpec => []NothingSkipped
<1>1. FollowInv => NothingSkipped
  <2> SUFFICES ASSUME FollowInv, NEW seq \in owed..lastSeq, Matches(log[seq], filter)
               PROVE  seq \in printed \cup excused
    BY DEF NothingSkipped
  <2>1. /\ lastSeq \in Nat /\ owed \in Nat \ {0} /\ Len(log) \in Nat /\ lastSeq <= Len(log)
        /\ lastSeq \in Accounted
    BY CommandNumbers DEF FollowInv, PlaceInv, CoverInv
  <2>2. seq \in 1..Len(log) /\ owed <= seq /\ seq <= lastSeq
    BY <2>1
  <2>3. QED BY <2>1, <2>2 DEF Accounted
<1>2. QED BY <1>1, FollowInvHolds, PTL

\* Whatever a follower prints, from a page or live, is newer than all that it has
\* printed: nothing is printed twice or out of order.
THEOREM FollowerKeepsOrder == FollowSpec => PrintedInOrder
<1> USE DEF ringVars, server, inbound, counter, command, settings, output
<1>1. ASSUME FollowInv, [FollowNext]_followVars, NEW old \in printed
      PROVE  /\ lastSeq' # lastSeq => old < lastSeq'
             /\ PrintPage => \A new \in reply.events : old < new
  <2>1. /\ FollowTypeOK /\ lastSeq \in Nat /\ old \in Nat /\ old <= lastSeq
        /\ FollowTypeOK' /\ lastSeq' \in Nat /\ origin = "this"
    <3>1. lastSeq \in Nat /\ printed \subseteq 1..lastSeq /\ origin = "this" /\ FollowTypeOK
      BY <1>1, CommandNumbers DEF FollowInv, PlaceInv
    <3>2. FollowTypeOK'
      BY <1>1, FollowTypesStep DEF FollowInv
    <3>3. lastSeq' \in 0..MaxSeq
      BY <3>2 DEF FollowTypeOK
    <3>4. QED BY <3>1, <3>2, <3>3, FollowConstants
  <2>2. ASSUME NEW seq \in 1..MaxSeq, Deliver(seq), lastSeq' # lastSeq PROVE old < lastSeq'
    BY <2>1, <2>2, DeliverSeq, FollowConstants
  <2>3. ASSUME PrintPage
        PROVE  (lastSeq' # lastSeq => old < lastSeq') /\ \A new \in reply.events : old < new
    <3>1. reply \in GoodPages /\ pc = "waiting"
      BY <1>1, <2>3 DEF FollowInv, PageInv, Pending, PrintPage
    <3>2. lastSeq' \in reply.events \cup {lastSeq}
      BY <2>3 DEF PrintPage
    <3>3. \A new \in reply.events : new \in Nat /\ lastSeq < new
      BY <1>1, <2>1, <2>3, <3>1, PrintStep DEF FollowInv, CoverInv, Asking
    <3>4. QED BY <2>1, <3>2, <3>3
  <2>4. CASE GoLive
    <3>1. held # Nothing => held.seq \in 1..MaxSeq /\ Deliver(held.seq)
      BY <2>1, <2>4 DEF GoLive, FollowTypeOK, Tagged
    <3>2. held = Nothing => lastSeq' = lastSeq
      BY <2>4 DEF GoLive
    <3>3. QED BY <2>2, <2>4, <3>1, <3>2 DEF GoLive, PrintPage
  <2>5. CASE TakeEvent
    <3>1. queue[1].seq \in 1..MaxSeq
      BY <1>1, <2>1, <2>5, QueueTake, StreamTypes DEF TakeEvent, FollowInv
    <3>2. lastSeq' = lastSeq \/ Deliver(queue[1].seq)
      BY <2>5 DEF TakeEvent, Recover
    <3>3. QED BY <2>2, <2>5, <3>1, <3>2 DEF TakeEvent, PrintPage
  <2>6. CASE Reset
    <3>1. reply \in GoodPages
      BY <1>1, <2>6 DEF FollowInv, PageInv, Pending, Reset
    <3>2. QED BY <2>1, <2>6, <3>1 DEF Reset, GoodPages
  <2>7. CASE (\E e \in Sent : Publish(e)) \/ Hangup \/ Cancel \/ ServerStep \/ ReadLoopStep
    BY <2>3, <2>7 DEF Publish, Hangup, Cancel, ServerStep, ServeSubscribe, Confirm, CopyRing, AnswerPage,
                      ReadLoopStep, RouteReply, ReadEvent, QueueEvent, ReadFails
  <2>8. CASE Subscribe \/ Subscribed \/ AskPage \/ Overflowed \/ Noticed \/ Fails \/ UNCHANGED followVars
    BY <2>3, <2>8 DEF Subscribe, Subscribed, AskPage, Overflowed, Noticed, Fails, Recover, followVars
  <2>9. QED BY <1>1, <2>3, <2>4, <2>5, <2>6, <2>7, <2>8 DEF FollowNext, CommandStep
<1>2. FollowInv /\ [FollowNext]_followVars =>
        [\A old \in printed :
            /\ lastSeq' # lastSeq => old < lastSeq'
            /\ PrintPage => \A new \in reply.events : old < new]_followVars
  BY <1>1
<1>3. QED BY <1>2, FollowInvHolds, PTL DEF FollowSpec, PrintedInOrder
=============================================================================
