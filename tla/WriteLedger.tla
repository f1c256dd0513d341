---------------------------- MODULE WriteLedger ----------------------------
(***************************************************************************)
(* The write path of one target of the daemon: callWithID and              *)
(* reconcileUnknown (src/go/internal/daemon/daemon.go) over the persisted  *)
(* ledger of unknown writes (src/go/internal/daemon/unknown.go), one       *)
(* connection at a time to a game server that keeps its own request        *)
(* ledger (src/go/internal/fakemod/fakemod.go).                            *)
(*                                                                         *)
(* A call is one execution of callWithID for a write operation.  Calls     *)
(* run concurrently with each other, with the session loop that reconnects *)
(* and reconciles, and with the server.  Anything may be lost with its     *)
(* connection, every save of the ledger file may fail, and the daemon and  *)
(* the game may restart at any point, between a change of the ledger and   *)
(* its save too.                                                           *)
(***************************************************************************)
EXTENDS Naturals, FiniteSets

CONSTANTS
    Calls,            \* the executions of callWithID
    Ids,              \* request ids, chosen by callers or by the session
    IdOf,             \* the request id each call carries
    None,             \* no ledger entry
    Cap,              \* unknownWritesCap
    MaxConn,          \* bound: connections the session loop makes
    MaxRun,           \* bound: runs of the game server
    MaxCred,          \* bound: credentials the target is given
    MaxCrash,         \* bound: restarts of the daemon
    ReadmitInFlight   \* may a caller use an id again while an earlier call
                      \* with that id, already reconciled, has not returned?

Runs  == 1..MaxRun
Conns == 1..MaxConn
Creds == 1..MaxCred
Entry == [state : {"unknown", "unresolved"}, run : Runs, cred : Creds]

ASSUME LedgerAssumption ==
    /\ IdOf \in [Calls -> Ids]
    /\ None \notin Entry
    /\ Cap \in Nat \ {0}
    /\ MaxConn \in Nat \ {0} /\ MaxRun \in Nat \ {0}
    /\ MaxCred \in Nat \ {0} /\ MaxCrash \in Nat
    /\ ReadmitInFlight \in BOOLEAN
    /\ IsFiniteSet(Ids)

VARIABLES
    mem,        \* unknownWrites.items, by request id
    disk,       \* the content of unknown_writes.json
    saving,     \* the entry changed in memory and not saved yet, with what it
                \* was before: the mutex of unknownWrites is held
    pc,         \* where each call is in callWithID
    via,        \* the connection whose adapter each call picked up
    cred,       \* the credential config.Token returns now
    conn,       \* the connection the session loop dialed last, 0 before
    up,         \* that connection still carries frames
    attached,   \* ts.adapter # nil /\ ts.state.Connected
    connRun,    \* the run each connection was welcomed into
    connCred,   \* the credential each connection was opened with
    loop,       \* where the session loop is
    todo,       \* reconcileUnknown: entries (copies) still to look at
    asked,      \* reconcileUnknown: the entry asked about, with the answer
    token,      \* reconcileUnknown: the fingerprint it read when it began
    gameRun,    \* the run of the game server
    recent,     \* the server's request ledger of this run
    wire,       \* calls whose request frame is on its way
    handling,   \* calls whose request a server goroutine runs
    reply,      \* what the server answered each call
    executed,   \* calls whose write the game has performed
    runs,       \* how often the write of each id ran in this run
    known,      \* calls whose outcome reached the daemon
    crashes     \* restarts of the daemon so far

ledger  == <<mem, disk, saving>>
calls   == <<pc, via>>
link    == <<conn, up, attached, connRun, connCred>>
recon   == <<loop, todo, asked, token>>
server  == <<gameRun, recent, handling, executed, runs>>
frames  == <<wire, reply>>
vars    == <<ledger, calls, cred, link, recon, server, frames, known, crashes>>

Pcs      == {"idle", "routed", "admitting", "admitted", "sent", "answered",
             "lost", "unsent", "settling", "returned"}
InFlight == {"admitted", "sent", "answered", "lost", "unsent", "settling"}
Loops    == {"off", "attached", "scan", "asked", "marking", "live"}
Outcomes == {"completed", "failed"}
Requests == {"none", "pending"} \cup Outcomes
Answers  == Requests \cup {"unsupported"}
Replies  == {"none", "ok", "error", "unsure"}
Noted    == [id : Ids, run : Runs, cred : Creds]
Changes  == [id : Ids, previous : Entry \cup {None}]

Recorded == {id \in Ids : mem[id] # None}
Alive(k) == k = conn /\ up

\* A reply reaches the client only over a connection that still stands.
Answering(c, r) ==
    reply' = IF Alive(via[c]) THEN [reply EXCEPT ![c] = r] ELSE reply

Init ==
    /\ mem = [id \in Ids |-> None] /\ disk = mem /\ saving = {}
    /\ pc = [c \in Calls |-> "idle"] /\ via = [c \in Calls |-> 0]
    /\ cred = 1
    /\ conn = 0 /\ up = FALSE /\ attached = FALSE
    /\ connRun = [k \in Conns |-> 1] /\ connCred = [k \in Conns |-> 1]
    /\ loop = "off" /\ todo = {} /\ asked = {} /\ token = 1
    /\ gameRun = 1 /\ recent = [id \in Ids |-> "none"]
    /\ wire = {} /\ handling = {} /\ reply = [c \in Calls |-> "none"]
    /\ executed = {} /\ runs = [id \in Ids |-> 0]
    /\ known = {} /\ crashes = 0
-----------------------------------------------------------------------------
(* The ledger.  Each operation holds its mutex while it changes the map,   *)
(* writes the whole map to a temporary file and renames that; when saving  *)
(* fails it puts back what it changed.                                     *)

Unlocked == saving = {}

Change(id, entry) ==
    /\ Unlocked
    /\ mem' = [mem EXCEPT ![id] = entry]
    /\ saving' = {[id |-> id, previous |-> mem[id]]}
    /\ UNCHANGED disk

SavedInMemory == ~Unlocked /\ saving' = {} /\ UNCHANGED <<mem, disk>>  \* a mutant of Saved
Saved == ~Unlocked /\ disk' = mem /\ saving' = {} /\ UNCHANGED mem

\* A mutant of RolledBack: the entry is deleted, as Admit does with a new one.
DeletedAgain ==
    \E s \in saving :
        mem' = [mem EXCEPT ![s.id] = None] /\ saving' = {} /\ UNCHANGED disk
RolledBack ==
    \E s \in saving :
        mem' = [mem EXCEPT ![s.id] = s.previous] /\ saving' = {} /\ UNCHANGED disk

Resolve(id) == Change(id, None)

\* Two mutants of NoteUnknown: a lost reply clears the entry; the entry takes
\* the state the server reported.
NoteByClearing(id) == Resolve(id)
NotePending(id) == Change(id, [mem[id] EXCEPT !.state = "pending"])
NoteUnknown(id) == Change(id, [mem[id] EXCEPT !.state = "unknown"])

MarkUnresolved(id) == Change(id, [mem[id] EXCEPT !.state = "unresolved"])

\* Each of the three returns at once when the id has no entry any more.
NoEntry(id) == Unlocked /\ mem[id] = None /\ UNCHANGED ledger
HasEntry(id) == mem[id] # None
-----------------------------------------------------------------------------
(* callWithID for a write.                                                 *)

\* Pick up the session's adapter and state; without one the call is refused.
Route(c) ==
    /\ pc[c] = "idle" /\ attached
    /\ pc' = [pc EXCEPT ![c] = "routed"]
    /\ via' = [via EXCEPT ![c] = conn]
    /\ UNCHANGED <<ledger, cred, link, recon, server, frames, known, crashes>>

\* Admit refuses an id that has an entry and a full ledger; at any time the
\* credential may be missing.
Refused(c) ==
    /\ pc[c] = "routed"
    /\ pc' = [pc EXCEPT ![c] = "returned"]
    /\ UNCHANGED <<ledger, via, cred, link, recon, server, frames, known, crashes>>

\* A mutant of Admissible: Record instead of Admit.
OverwritesEntry(id) == mem[id] # None \/ Cardinality(Recorded) < Cap
Admissible(id) == mem[id] = None /\ Cardinality(Recorded) < Cap

\* Admit claims the id in memory ...
Admit(c) ==
    LET id == IdOf[c] IN
    /\ pc[c] = "routed"
    /\ Admissible(id)
    /\ ReadmitInFlight \/ \A d \in Calls : IdOf[d] = id => pc[d] \notin InFlight
    /\ Change(id, [state |-> "unknown", run |-> connRun[via[c]], cred |-> cred])
    /\ pc' = [pc EXCEPT ![c] = "admitting"]
    /\ UNCHANGED <<via, cred, link, recon, server, frames, known, crashes>>

\* ... and persists it before the request can leave, or refuses the write.
Admitted(c) ==
    /\ pc[c] = "admitting"
    /\ \/ Saved /\ pc' = [pc EXCEPT ![c] = "admitted"]
       \/ RolledBack /\ pc' = [pc EXCEPT ![c] = "returned"]
    /\ UNCHANGED <<via, cred, link, recon, server, frames, known, crashes>>

\* CallID puts the frame on the connection.
Send(c) ==
    /\ pc[c] = "admitted" /\ Alive(via[c])
    /\ pc' = [pc EXCEPT ![c] = "sent"]
    /\ wire' = wire \cup {c}
    /\ UNCHANGED <<ledger, via, cred, link, recon, server, reply, known, crashes>>

\* CallID failed before the first byte: capability gate, cancelled while it
\* waited for the writer slot, connection already closed.
NeverSent(c) ==
    /\ pc[c] = "admitted"
    /\ pc' = [pc EXCEPT ![c] = "unsent"]
    /\ UNCHANGED <<ledger, via, cred, link, recon, server, frames, known, crashes>>

\* CallID ends without a definitive answer: the send failed half way, the
\* deadline passed, or the connection closed with the request in flight.
GiveUp(c) ==
    /\ pc[c] \in {"admitted", "sent"}
    /\ pc' = [pc EXCEPT ![c] = "lost"]
    /\ UNCHANGED <<ledger, via, cred, link, recon, server, frames, known, crashes>>

\* CallID returns the reply; an error flagged resultUnknown is no answer.
Answered(c) ==
    /\ pc[c] = "sent" /\ reply[c] # "none"
    /\ IF reply[c] = "unsure"
       THEN pc' = [pc EXCEPT ![c] = "lost"] /\ UNCHANGED known
       ELSE pc' = [pc EXCEPT ![c] = "answered"] /\ known' = known \cup {c}
    /\ UNCHANGED <<ledger, via, cred, link, recon, server, frames, crashes>>

\* The ledger learns how the call ended: at once when there is no entry ...
Settle(c) ==
    /\ \/ /\ pc[c] \in {"answered", "unsent", "lost"} /\ NoEntry(IdOf[c])
          /\ pc' = [pc EXCEPT ![c] = "returned"]
       \/ /\ HasEntry(IdOf[c])
          /\ \/ pc[c] \in {"answered", "unsent"} /\ Resolve(IdOf[c])
             \/ pc[c] = "lost" /\ NoteUnknown(IdOf[c])
          /\ pc' = [pc EXCEPT ![c] = "settling"]
    /\ UNCHANGED <<via, cred, link, recon, server, frames, known, crashes>>

\* ... else when the change is saved or undone; a failure is only logged.
Settled(c) ==
    /\ pc[c] = "settling"
    /\ Saved \/ RolledBack
    /\ pc' = [pc EXCEPT ![c] = "returned"]
    /\ UNCHANGED <<via, cred, link, recon, server, frames, known, crashes>>
-----------------------------------------------------------------------------
(* The session loop: dial, attach, reconcile, serve events, detach.        *)

Connect ==
    /\ loop = "off" /\ conn < MaxConn
    /\ conn' = conn + 1 /\ up' = TRUE /\ attached' = TRUE
    /\ connRun' = [connRun EXCEPT ![conn + 1] = gameRun]
    /\ connCred' = [connCred EXCEPT ![conn + 1] = cred]
    /\ loop' = "attached"
    /\ UNCHANGED <<ledger, calls, cred, todo, asked, token, server, frames,
                   known, crashes>>

\* reconcileUnknown copies the entries and fingerprints the credential.
StartReconcile ==
    /\ loop = "attached" /\ Unlocked
    /\ todo' = {[id |-> id, run |-> mem[id].run, cred |-> mem[id].cred] :
                   id \in Recorded}
    /\ token' = cred
    /\ loop' = "scan"
    /\ UNCHANGED <<ledger, calls, cred, link, asked, server, frames, known, crashes>>

InScope(e) == e.run = connRun[conn] /\ e.cred = token

\* An entry of another run, instance or credential is reported, not asked.
ReportScope(e) ==
    /\ loop = "scan" /\ e \in todo /\ ~InScope(e)
    /\ \/ NoEntry(e.id) /\ UNCHANGED loop
       \/ HasEntry(e.id) /\ MarkUnresolved(e.id) /\ loop' = "marking"
    /\ todo' = todo \ {e}
    /\ UNCHANGED <<calls, cred, link, asked, token, server, frames, known, crashes>>

\* The request_status query fails: the entry waits for the next reconnect.
AskFails(e) ==
    /\ loop = "scan" /\ e \in todo /\ InScope(e)
    /\ todo' = todo \ {e}
    /\ UNCHANGED <<ledger, calls, cred, link, loop, asked, token, server, frames,
                   known, crashes>>

\* The server answers a request_status query from its ledger, or the
\* transport does not support the query.
Ask(e) ==
    /\ loop = "scan" /\ e \in todo /\ InScope(e) /\ up
    /\ \E a \in {recent[e.id], "unsupported"} :
          asked' = {[id |-> e.id, answer |-> a]}
    /\ todo' = todo \ {e}
    /\ loop' = "asked"
    /\ UNCHANGED <<ledger, calls, cred, link, token, server, frames, known, crashes>>

\* The answer is applied to the ledger some time after the server gave it.
Apply(q) ==
    /\ loop = "asked" /\ q \in asked
    /\ \/ q.answer = "pending" /\ UNCHANGED ledger /\ loop' = "scan"
       \/ q.answer # "pending" /\ NoEntry(q.id) /\ loop' = "scan"
       \/ /\ q.answer # "pending" /\ HasEntry(q.id)
          /\ IF q.answer \in Outcomes THEN Resolve(q.id) ELSE MarkUnresolved(q.id)
          /\ loop' = "marking"
    /\ known' = IF q.answer \in Outcomes
                THEN known \cup {c \in executed : IdOf[c] = q.id
                                                  /\ connRun[via[c]] = connRun[conn]}
                ELSE known
    /\ asked' = {}
    /\ UNCHANGED <<calls, cred, link, todo, token, server, frames, crashes>>

\* The change is saved or undone; a failure is only logged.
Marked ==
    /\ loop = "marking"
    /\ Saved \/ RolledBack
    /\ loop' = "scan"
    /\ UNCHANGED <<calls, cred, link, todo, asked, token, server, frames, known, crashes>>

FinishReconcile ==
    /\ loop = "scan" /\ todo = {}
    /\ loop' = "live"
    /\ UNCHANGED <<ledger, calls, cred, link, todo, asked, token, server, frames,
                   known, crashes>>

Detach ==
    /\ loop = "live" /\ ~up
    /\ attached' = FALSE
    /\ loop' = "off"
    /\ UNCHANGED <<ledger, calls, cred, conn, up, connRun, connCred, todo, asked,
                   token, server, frames, known, crashes>>
-----------------------------------------------------------------------------
(* The server, the network, the user and the daemon process.               *)

\* handleRequest: an id with an outcome is answered again, any other is claimed.
Receive(c) ==
    /\ c \in wire /\ connRun[via[c]] = gameRun
    /\ wire' = wire \ {c}
    /\ IF recent[IdOf[c]] \in Outcomes
       THEN /\ Answering(c, IF recent[IdOf[c]] = "completed" THEN "ok" ELSE "error")
            /\ UNCHANGED <<recent, handling>>
       ELSE /\ recent' = [recent EXCEPT ![IdOf[c]] = "pending"]
            /\ handling' = handling \cup {c}
            /\ UNCHANGED reply
    /\ UNCHANGED <<ledger, calls, cred, link, recon, gameRun, executed, runs,
                   known, crashes>>

\* completeWrite: the write has run and its result is kept.
Execute(c) ==
    /\ c \in handling
    /\ handling' = handling \ {c}
    /\ executed' = executed \cup {c}
    /\ runs' = [runs EXCEPT ![IdOf[c]] = @ + 1]
    /\ recent' = [recent EXCEPT ![IdOf[c]] = "completed"]
    /\ Answering(c, "ok")
    /\ UNCHANGED <<ledger, calls, cred, link, recon, gameRun, wire, known, crashes>>

\* The handler fails: definitively without effect, or it cannot tell.  The
\* stand-in server of the repository leaves the id pending; a server may keep
\* the failure instead, as reconcileUnknown allows for.
Fail(c) ==
    /\ c \in handling
    /\ handling' = handling \ {c}
    /\ \/ /\ Answering(c, "error")
          /\ \E s \in {"pending", "failed"} : recent' = [recent EXCEPT ![IdOf[c]] = s]
          /\ UNCHANGED <<executed, runs>>
       \/ /\ Answering(c, "unsure")
          /\ executed' = executed \cup {c}
          /\ runs' = [runs EXCEPT ![IdOf[c]] = @ + 1]
          /\ UNCHANGED recent
    /\ UNCHANGED <<ledger, calls, cred, link, recon, gameRun, wire, known, crashes>>

\* A frame of a dead connection never arrives.
Drop(c) ==
    /\ c \in wire /\ ~Alive(via[c])
    /\ wire' = wire \ {c}
    /\ UNCHANGED <<ledger, calls, cred, link, recon, server, reply, known, crashes>>

Disconnect ==
    /\ up /\ up' = FALSE
    /\ UNCHANGED <<ledger, calls, cred, conn, attached, connRun, connCred, recon,
                   server, frames, known, crashes>>

GameRestart ==
    /\ gameRun < MaxRun
    /\ gameRun' = gameRun + 1
    /\ recent' = [id \in Ids |-> "none"] /\ runs' = [id \in Ids |-> 0]
    /\ handling' = {} /\ wire' = {}
    /\ up' = FALSE
    /\ UNCHANGED <<ledger, calls, cred, conn, attached, connRun, connCred, recon,
                   executed, reply, known, crashes>>

RotateCredential ==
    /\ cred < MaxCred /\ cred' = cred + 1
    /\ UNCHANGED <<ledger, calls, link, recon, server, frames, known, crashes>>

\* The daemon dies and starts again: Load reads the file, calls are gone.
DaemonRestart ==
    /\ crashes < MaxCrash /\ crashes' = crashes + 1
    /\ mem' = disk /\ saving' = {}
    /\ pc' = [c \in Calls |-> IF pc[c] = "idle" THEN "idle" ELSE "returned"]
    /\ up' = FALSE /\ attached' = FALSE
    /\ loop' = "off" /\ todo' = {} /\ asked' = {}
    /\ UNCHANGED <<disk, via, cred, conn, connRun, connCred, token, server, frames,
                   known>>
-----------------------------------------------------------------------------
CallStep(c) ==
    \/ Route(c) \/ Refused(c) \/ Admit(c) \/ Admitted(c) \/ Send(c) \/ NeverSent(c)
    \/ GiveUp(c) \/ Answered(c) \/ Settle(c) \/ Settled(c)

LoopStep ==
    \/ Connect \/ StartReconcile \/ Marked \/ FinishReconcile \/ Detach
    \/ \E e \in todo : ReportScope(e) \/ AskFails(e) \/ Ask(e)
    \/ \E q \in asked : Apply(q)

ServerStep(c) == Receive(c) \/ Execute(c) \/ Fail(c) \/ Drop(c)

Next ==
    \/ \E c \in Calls : CallStep(c) \/ ServerStep(c)
    \/ LoopStep
    \/ Disconnect \/ GameRestart \/ RotateCredential \/ DaemonRestart

Spec == Init /\ [][Next]_vars
-----------------------------------------------------------------------------
(* Properties.                                                             *)

\* Every variable stays in its range.
TypeOK ==
    /\ mem \in [Ids -> Entry \cup {None}]
    /\ disk \in [Ids -> Entry \cup {None}]
    /\ saving \subseteq Changes
    /\ pc \in [Calls -> Pcs] /\ via \in [Calls -> 0..MaxConn]
    /\ cred \in Creds
    /\ conn \in 0..MaxConn /\ up \in BOOLEAN /\ attached \in BOOLEAN
    /\ connRun \in [Conns -> Runs] /\ connCred \in [Conns -> Creds]
    /\ loop \in Loops /\ todo \subseteq Noted
    /\ asked \subseteq [id : Ids, answer : Answers] /\ token \in Creds
    /\ gameRun \in Runs /\ recent \in [Ids -> Requests]
    /\ wire \subseteq Calls /\ handling \subseteq Calls
    /\ reply \in [Calls -> Replies]
    /\ executed \subseteq Calls /\ runs \in [Ids -> Nat]
    /\ known \subseteq Calls /\ crashes \in 0..MaxCrash

\* Whoever takes the mutex, and the daemon that starts after a crash, sees the
\* same ledger; while an operation is between its change and the end of its
\* save, what it would put back is what the file holds and no other entry
\* differs (Admit, Resolve, NoteUnknown, MarkUnresolved and saveLocked).
LedgerMatchesDisk ==
    /\ Unlocked => mem = disk
    /\ \A s \in saving : disk = [mem EXCEPT ![s.id] = s.previous]

\* A write that ran, runs or may still run, and whose outcome has not reached
\* the daemon, has an entry in unknown_writes.json: no crash, lost reply,
\* failed save, reconnection or concurrent reconciliation forgets it.  (The
\* frame of an id with an outcome is only answered again.)
CanRun == {c \in wire : recent[IdOf[c]] \notin Outcomes}
MayHaveRun == CanRun \cup handling \cup executed
NoForgottenWrite == \A c \in MayHaveRun \ known : disk[IdOf[c]] # None

\* One request id never runs twice within one run of the game, whatever the
\* callers retry: Admit and the server's ledger together prevent it.
AtMostOncePerRun == \A id \in Ids : runs[id] <= 1

\* The ledger never outgrows its admission bound, and no late update of an
\* entry that was resolved brings it back.
WithinCap == Cardinality(Recorded) <= Cap

\* Every step of the write path is a step of the contract or none of it: ids
\* on record are those in the file, writes that may run those that ran, run or
\* are on their way.
OnRecord == {id \in Ids : disk[id] # None}
Contract == INSTANCE WriteContract WITH visible <- OnRecord, mayRun <- MayHaveRun
Implements == Contract!Spec
-----------------------------------------------------------------------------
(* Why no write is forgotten: the inductive invariant.                     *)

Unknown == MayHaveRun \ known

\* Connections and runs.
LinkInv ==
    /\ up => conn > 0 /\ attached /\ connRun[conn] = gameRun
    /\ attached => conn > 0
    /\ loop # "off" => conn > 0 /\ attached
    /\ loop # "asked" => asked = {}
    /\ \A k \in Conns : connRun[k] <= gameRun
    /\ \A c \in Calls : via[c] <= conn /\ (pc[c] # "idle" => via[c] > 0)

\* Where a request is: on its way or being handled only in the run it was
\* sent to, never once it was answered or before it was sent.
RequestInv ==
    /\ wire \cap handling = {} /\ (wire \cup handling) \cap executed = {}
    /\ \A c \in wire \cup handling :
          connRun[via[c]] = gameRun /\ reply[c] = "none" /\ c \notin known
    /\ \A c \in handling : recent[IdOf[c]] = "pending"
    /\ \A c \in Calls : pc[c] \in {"idle", "routed", "admitting", "admitted", "unsent"}
          => c \notin wire \cup handling \cup executed \cup known /\ reply[c] = "none"
    /\ \A c \in Calls : pc[c] = "answered" => c \in known

\* Calls that share an id take turns.
TurnInv ==
    /\ \A c, d \in Calls : c # d /\ IdOf[c] = IdOf[d] /\ pc[c] \in InFlight
          => pc[d] \notin InFlight /\ d \notin Unknown
    /\ \A c, d \in Unknown : IdOf[c] = IdOf[d] => c = d

\* The mutex has one holder, and what it would put back is in the file.
Holders == {c \in Calls : pc[c] \in {"admitting", "settling"}}
HolderInv ==
    /\ Unlocked => mem = disk /\ Holders = {} /\ loop # "marking"
    /\ \A c, d \in Holders : c = d
    /\ loop = "marking" => Holders = {}
    /\ \A s, t \in saving : s = t
    /\ \A s \in saving :
          s.previous = disk[s.id] /\ \A id \in Ids \ {s.id} : mem[id] = disk[id]

\* The holder changes a new entry of its own that no other write could need,
\* the state of an entry, or an entry whose outcome is known.
Sends(c) == pc[c] = "admitted" /\ Alive(via[c])
ChangeInv ==
    \A s \in saving :
        /\ mem[s.id] # None /\ s.previous # None => mem[s.id].run = s.previous.run
        /\ mem[s.id] = None =>
              \A c \in Calls : IdOf[c] = s.id =>
                  c \notin Unknown /\ (Sends(c) => recent[s.id] \in Outcomes)
        /\ \A c \in Calls : pc[c] = "admitting" =>
              /\ IdOf[c] = s.id /\ s.previous = None
              /\ mem[s.id] # None /\ mem[s.id].run = connRun[via[c]]
              /\ \A d \in Calls : IdOf[d] = s.id => pc[d] \notin InFlight

\* The entry of a write is its own; so is the one of a call about to send,
\* unless the server would only repeat an earlier answer.
OwnEntry(c) == disk[IdOf[c]] # None /\ disk[IdOf[c]].run = connRun[via[c]]
EntryInv ==
    /\ \A c \in Unknown : OwnEntry(c)
    /\ \A c \in Calls : Sends(c) => OwnEntry(c) \/ recent[IdOf[c]] \in Outcomes

\* What reconcileUnknown copied and heard is not out of date in a way that
\* matters: writes sent since went out on its own connection.
CopyInv ==
    /\ loop \in {"scan", "asked", "marking"} =>
          \A e \in todo : \A c \in Unknown :
             IdOf[c] = e.id => connRun[via[c]] \in {e.run, connRun[conn]}
    /\ \A q \in asked : \A c \in Unknown :
          IdOf[c] = q.id => connRun[via[c]] = connRun[conn]
    /\ \A q \in asked : q.answer \in Outcomes /\ connRun[conn] = gameRun
          => recent[q.id] \in Outcomes

IInv ==
    /\ TypeOK /\ LinkInv /\ RequestInv /\ TurnInv
    /\ HolderInv /\ ChangeInv /\ EntryInv /\ CopyInv
=============================================================================
