----------------------------- MODULE PollEvents ----------------------------
(***************************************************************************)
(* A client that polls the daemon's events with a cursor (the method       *)
(* "events": recentEvents in src/go/internal/daemon/daemon.go) while the   *)
(* daemon ingests, evicts and restarts.  The client feeds each page's      *)
(* "next" and stream id back, as src/go/README.md asks it to.              *)
(***************************************************************************)
EXTENDS EventReader

CONSTANT
    MaxStreams    \* bound: runs of the daemon

ASSUME PollAssumption == MaxStreams \in Nat \ {0}

VARIABLES
    stream,     \* the run of the daemon
    query,      \* what the query under way copied under the lock
    from,       \* the run that the cursor belongs to
    seen,       \* events of that run that the client was given
    lost        \* events of that run that it was told to have lost

client == <<cursor, from, seen, lost, owed>>
vars   == <<ringVars, stream, query, filter, client>>

Init ==
    /\ RingInit
    /\ stream = 1 /\ query = Nothing /\ filter \in Filter
    /\ cursor = 0 /\ from = 0 /\ seen = {} /\ lost = {} /\ owed = 1

\* A cursor of another run, or ahead of this one.
IsReset == (from # 0 /\ from # stream) \/ cursor > Len(log)

\* Under the lock: the last number and a copy of the ring.
Copy(limit) ==
    /\ query = Nothing
    /\ query' = [last |-> Len(log), first |-> first, reset |-> IsReset,
                 since |-> IF IsReset THEN 0 ELSE cursor, limit |-> limit]
    /\ UNCHANGED <<ringVars, stream, filter, client>>

\* The events of the copy that the client asked for.  A mutant begins with the
\* event at the cursor.
FoundAtCursor ==
    {seq \in query.first..query.last : seq >= query.since /\ Matches(log[seq], filter)}
Found ==
    {seq \in query.first..query.last : seq > query.since /\ Matches(log[seq], filter)}

\* The oldest of them, as many as the limit allows.
IsPage(page) ==
    /\ \A seq \in page, left \in Found \ page : seq < left
    /\ IF query.limit = 0 \/ Cardinality(Found) <= query.limit
       THEN page = Found
       ELSE Cardinality(page) = query.limit

\* Where to go on.  A mutant goes on behind the copy although the page is cut.
GoesOnAtEnd(page, next) == next = query.last
GoesOn(page, next) ==
    IF page = {} THEN next = query.last
    ELSE next \in page /\ \A seq \in page : seq <= next

\* Without the lock: "dropped" is taken from the tables as they are by now.
Answer ==
    /\ query # Nothing
    /\ LET fresh == query.since = 0
           told  == Dropped(filter, query.since)
           skipped == {seq \in query.since + 1..query.first - 1 :
                           Matches(log[seq], filter)}
       IN  /\ \E page \in SUBSET Found : \E next \in page \cup {query.last} :
                 /\ IsPage(page) /\ GoesOn(page, next)
                 /\ cursor' = next
                 /\ seen' = page \cup (IF fresh THEN {} ELSE seen)
           /\ from' = stream
           /\ lost' = (IF told THEN skipped ELSE {}) \cup (IF fresh THEN {} ELSE lost)
           /\ owed' = IF fresh THEN query.first ELSE owed
    /\ query' = Nothing
    /\ UNCHANGED <<ringVars, stream, filter>>

\* The daemon stops or dies, also by a race on the tables, which Answer reads
\* while Ingest may write them; a query under way fails.
Restart ==
    /\ stream < MaxStreams /\ stream' = stream + 1
    /\ RingRestart /\ query' = Nothing
    /\ UNCHANGED <<filter, client>>

Next ==
    \/ \E e \in Event : Ingest(e) /\ UNCHANGED <<stream, query, filter, client>>
    \/ \E limit \in Limits : Copy(limit)
    \/ Answer
    \/ Restart

Spec == Init /\ [][Next]_vars
-----------------------------------------------------------------------------
\* Every variable stays in its range.
TypeOK ==
    /\ RingTypeOK
    /\ stream \in 1..MaxStreams /\ filter \in Filter
    /\ cursor \in 0..MaxSeq /\ from \in 0..MaxStreams
    /\ seen \subseteq 1..MaxSeq /\ lost \subseteq 1..MaxSeq
    /\ owed \in 1..MaxSeq + 1
    /\ query = Nothing \/ query \in [last : 0..MaxSeq, first : 1..MaxSeq + 1,
                                     reset : BOOLEAN, since : 0..MaxSeq, limit : Limits]

\* The cursor is a usable continuation: whatever the client asked for up to its
\* cursor it was given, or was told to have lost.
AllAccountedFor ==
    from = stream =>
        \A seq \in owed..cursor : Matches(log[seq], filter) => seq \in seen \cup lost

\* Within one run of the daemon no event is found again that the client has.
NothingTwice ==
    query # Nothing /\ ~query.reset /\ from = stream => Found \cap seen = {}

\* What the proofs need besides: a query copied an earlier state of this run, and
\* the cursor lies in the stream that it belongs to.
QueryInv ==
    /\ from <= stream /\ (from = 0 => cursor = 0)
    /\ from = stream => cursor <= Len(log) /\ seen \subseteq 1..cursor
    /\ query # Nothing =>
          /\ query.first <= first /\ query.last <= Len(log)
          /\ query.since <= query.last
          /\ query.reset => query.since = 0
          /\ query.since > 0 => from = stream
          /\ ~query.reset /\ from = stream => query.since = cursor
=============================================================================
