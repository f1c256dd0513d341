----------------------------- MODULE EventRing -----------------------------
(***************************************************************************)
(* The daemon's event log: the ring of the newest events and the tables    *)
(* that remember, per category, per target and per pair of both, the       *)
(* newest event that has left it (ingest, recordEviction, rememberEvicted  *)
(* in src/go/internal/daemon/daemon.go).  The log itself, which the code   *)
(* does not keep, is what the ring is measured by: the sequence number of  *)
(* an event is its place in the log, and the ring is the end of the log.   *)
(***************************************************************************)
EXTENDS Naturals, Sequences, FiniteSets

CONSTANTS
    Categories, Targets,
    NoFilter,          \* the empty filter
    BufferSize,   \* events in the ring
    KeyLimit,     \* keys in one table (evictedKeyLimit)
    MaxSeq        \* bound: events of one run of the daemon

ASSUME RingAssumption ==
    /\ NoFilter \notin Categories \cup Targets
    /\ BufferSize \in Nat \ {0} /\ KeyLimit \in Nat \ {0} /\ MaxSeq \in Nat

VARIABLES
    log,      \* the events of this run, in the order of their numbers
    first,    \* the oldest event in the ring
    evicted   \* the tables: by kind, from filter to sequence number

ringVars == <<log, first, evicted>>

Event  == [category : Categories, target : Targets]
Filter == [category : Categories \cup {NoFilter}, target : Targets \cup {NoFilter}]

\* evictedThrough, evictedCategory, evictedTarget and evictedPair.
Kinds == {"all", "category", "target", "pair"}

Matches(e, f) == f.category \in {e.category, NoFilter} /\ f.target \in {e.target, NoFilter}

\* The key of an event in the table of a kind, and the kind of a filter.
KeyOf(e, kind) ==
    [category |-> IF kind \in {"category", "pair"} THEN e.category ELSE NoFilter,
     target   |-> IF kind \in {"target", "pair"} THEN e.target ELSE NoFilter]
KindOf(f) ==
    IF f.category = NoFilter
    THEN IF f.target = NoFilter THEN "all" ELSE "target"
    ELSE IF f.target = NoFilter THEN "category" ELSE "pair"

Kept(table, f) == IF f \in DOMAIN table THEN table[f] ELSE 0

Put(table, f, seq) ==
    [g \in DOMAIN table \cup {f} |-> IF g = f THEN seq ELSE table[g]]

Oldest(table) == CHOOSE f \in DOMAIN table : \A g \in DOMAIN table : table[f] <= table[g]

\* A full table gives up its oldest key, also when it has the key already.
\* A mutant keeps the first eviction of a key instead of the last.
RememberFirst(table, f, seq) == IF f \in DOMAIN table THEN table ELSE Put(table, f, seq)
Remember(table, f, seq) ==
    IF seq <= Kept(table, f) THEN table
    ELSE IF Cardinality(DOMAIN table) < KeyLimit THEN Put(table, f, seq)
    ELSE IF table[Oldest(table)] >= seq THEN table
    ELSE Put([g \in DOMAIN table \ {Oldest(table)} |-> table[g]], f, seq)

RecordEviction(seq, e) ==
    evicted' = [kind \in Kinds |-> Remember(evicted[kind], KeyOf(e, kind), seq)]

NewRing == [kind \in Kinds |-> <<>>]

RingInit == log = <<>> /\ first = 1 /\ evicted = NewRing

\* One critical section: number, append and, when the ring is full, evict.  A
\* mutant evicts one event too late.
IngestLate(e) ==
    /\ Len(log) < MaxSeq
    /\ log' = Append(log, e)
    /\ IF Len(log) - first = BufferSize
       THEN RecordEviction(first, (log')[first]) /\ first' = first + 1
       ELSE UNCHANGED <<first, evicted>>
Ingest(e) ==
    /\ Len(log) < MaxSeq
    /\ log' = Append(log, e)
    /\ IF Len(log) - first + 1 = BufferSize
       THEN RecordEviction(first, (log')[first]) /\ first' = first + 1
       ELSE UNCHANGED <<first, evicted>>

\* A new run of the daemon begins with nothing.
RingRestart == log' = <<>> /\ first' = 1 /\ evicted' = NewRing
-----------------------------------------------------------------------------
\* What recentEvents tells a caller who saw everything up to since: whether an
\* event it asked for has left the ring.
Dropped(f, since) == since > 0 /\ Kept(evicted[KindOf(f)], f) > since

RingTypeOK ==
    /\ log \in Seq(Event) /\ Len(log) <= MaxSeq
    /\ first \in 1..MaxSeq + 1 /\ first <= Len(log) + 1
    /\ Len(log) - first + 1 <= BufferSize
    /\ DOMAIN evicted = Kinds
    /\ \A kind \in Kinds :
          /\ DOMAIN evicted[kind] \subseteq {f \in Filter : KindOf(f) = kind}
          /\ \A f \in DOMAIN evicted[kind] : evicted[kind][f] \in 1..MaxSeq

\* The tables know the loss of every filter: each keeps exactly the newest
\* event of that filter that left the ring.  It needs room for every key.
TablesExact ==
    \A f \in Filter :
        /\ \A seq \in 1..first - 1 :
              Matches(log[seq], f) => seq <= Kept(evicted[KindOf(f)], f)
        /\ LET newest == Kept(evicted[KindOf(f)], f)
           IN  newest > 0 => newest < first /\ Matches(log[newest], f)
=============================================================================
