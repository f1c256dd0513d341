# A TLA+ verification of mc-agent-bridge

mc-agent-bridge connects agents to Minecraft: a Go daemon (`src/go`) keeps one
session per configured target (a game server or client with the control mod),
routes operations to it, records events, and offers both to local clients over
IPC; a command line client and a webhook forwarder sit on top. An older Python
bridge (`src/src/mc_agent_bridge`) with the same purpose is still shipped.

This directory holds TLA+ modules of the parts whose correctness depends on
concurrency, failures and restarts, the TLC configurations that check them on
small instances, and proofs that hold for every instance.

## The system

Paths are relative to `src/go/internal` unless they begin with `src/`.

| Component | State it keeps | Operations | What makes it correct |
|---|---|---|---|
| write path, `daemon/daemon.go` 571-780 and `daemon/unknown.go` | `unknownWrites.items`, `unknown_writes.json` | `callWithID`; `Admit`, `NoteUnknown`, `MarkUnresolved`, `Resolve`, `Load`; `reconcileUnknown` | a write that may have run is never forgotten and never run twice; the file is current; the ledger is bounded |
| target session, `daemon/daemon.go` 283-560 | `adapter`, `state`, `lastSeq`, `eventsSincePersist`, the cursor | the loop `run`, `attach`, `detach`, `noteRemoteSeq`, `persistCursor`, `stop` | no event is lost silently across a reconnection; one loop per target |
| event ring, `daemon/daemon.go` 785-1004 | ring, sequence, tables of evicted sequences, subscribers | `ingest`, `rememberEvicted`, `recordEviction`, `recentEvents` | pages are gapless, `dropped` is reported exactly when a requested event is gone |
| cursor store, `daemon/cursor.go` | cursors in memory and file | `Get`, `Set`, `Flush` | a cursor never runs ahead of what was delivered or reported as lost |
| control client, `control/client.go` | `pending`, `writeToken`, `events`, `done`, `stop` | `Dial`, `CallWithID`, `readLoop`, `finish`, `poison`, `Close` | each call gets its own reply or a truthful failure; nothing is written behind a partial frame; close ends |
| remote session, `session/remote.go` | `State`, event channel | `pump`, `CallID`, `Close` | events keep their order; close ends |
| legacy client and session, `legacy/client.go`, `session/legacy.go` | the channels of replies and events, the event numbers | `Request`, `readLoop`, `pump`, `Close` | an answer goes to the request it belongs to although replies carry no id |
| IPC server and client, `ipc/ipc.go` | connections, outgoing queues, dropped counters | `acceptLoop`, `send`, `Broadcast`, `Stop`; `CallWithID`, `readLoop` | a slow client blocks nobody; what it lost is reported once |
| command line, `cli/` | the follower's cursor | `cmdEvents` | nothing lost or repeated between replay and subscription |
| webhook forwarder, `webhook/webhook.go` | settings, queue, counters | `LoadConfig`, `Enqueue`, `Run`, `deliver`, `Stop` | every accepted event has one end, which is counted; a stop ends it |
| daemon process, `daemon/daemon.go` 100-282, `daemon/handlers.go` | `daemon.json`, the set of sessions | `Run`, `shutdown`, `checkNotRunning`, reload | one daemon per home; shutdown ends |
| configuration, `config/config.go` | `targets.json`, `secrets.json` | `Token`, `Resolve` | no target is guessed |
| stand-in server, `fakemod/fakemod.go` | request ledger, event buffer | `handleRequest`, `completeWrite`, `Push` | a completed id is answered again, not run again |
| Python bridge, `src/src/mc_agent_bridge` | requests in flight, event buffer; the restore state | routing, reconnect; restore and roll back; fork | as for their Go successors; a failed restore leaves the old world |
| tables, discovery, install and release scripts | none, or that of the host | | not a matter for these methods |

How they interact: the command line and the forwarder talk to the IPC server;
its handler calls `callWithID`, which calls the session's adapter, which calls
the control client; the session loop of the target owns that adapter, replaces
it at each reconnection and calls `reconcileUnknown` before it begins to read
events; events flow from the adapter through the session loop into the ring and
from there to subscribers. The shared state between all of them is the session's
adapter and state (under `ts.mu`), the ledger (under its own mutex) and the ring
(under `eventsMu`).

What is hard: calls run concurrently with the loop that reconnects; an answer
may be lost, late, or overtaken by a reconciliation that asks the server for it;
daemon and game restart independently; saves fail; queues are bounded and drop;
channels close while others send. `PROJECT.json` lists each such place under
"hazards" at its line.

## The modules

| Module | What it is |
|---|---|
| `WriteLedger` | the write path of one target: calls, ledger and its file, session loop, reconciliation, server ledger, restarts |
| `WriteContract` | what the daemon promises about non-idempotent writes |
| `WriteLedgerProofs` | theorems about `WriteLedger` and their proofs |
| `MCWriteLedger` | the small sets of calls and ids that the runs use |
| `ControlClient` | one control connection: dial, concurrent calls, the writer, the read loop, close |
| `CallContract` | what the control client promises about one call |
| `ControlClientProofs` | theorems about `ControlClient` and their proofs |
| `MCControlClient` | the small sets of callers and ids that the runs use |
| `EventRing` | the daemon's ring of events and its tables of what was evicted |
| `EventReader` | `EventRing` with what any reader of it has: a filter, a position, the oldest event it is owed |
| `PollEvents` | a reader that pages through the ring with a cursor, and restarts of the daemon |
| `FollowStream` | a reader at the end of a local API connection: `events --follow` |
| `EventReaderProofs` | theorems about both readers, on lemmas about the ring |
| `MCPollEvents`, `MCFollowStream` | the small sets of categories, targets, events and filters that their runs use |
| `TargetSession` | the loop of one target's session, its event cursor in memory and file, and the server's event stream |
| `LegacyClient` | one connection of the old line protocol, from the mod to the session loop |
| `WebhookForwarder` | the settings, the queue and the worker of the forwarder |
| `DaemonProcess` | the daemons of one home, `daemon.json`, `daemon start` and `daemon stop` |
| `TargetReload` | `targets.json`, the target commands, reload and shutdown, and all session loops |
| `TargetSessionProofs`, `LegacyClientProofs`, `WebhookForwarderProofs`, `DaemonProcessProofs`, `TargetReloadProofs` | theorems about each of them and their proofs |
| `MCTargetSession`, `MCLegacyClient`, `MCWebhookForwarder`, `MCDaemonProcess`, `MCTargetReload` | the small sets that their runs use |

### WriteLedger

One process per call, one for the session loop, one goroutine of the server per
request, and the environment. The steps of `callWithID`:

| Action | Code |
|---|---|
| `Route` | picks up the adapter and the state under `ts.mu`; from here on the call keeps that connection, even when the session reconnects |
| `Refused` | missing credential, ledger full, id on record, save failed, invalid id |
| `Admit`, `Admitted` | `unknownWrites.Admit`: the claim in memory; then the claim is persisted, before anything is sent, or undone and the write refused |
| `Send`, `NeverSent`, `GiveUp`, `Answered` | the outcomes of `adapter.CallID`: the frame is out; certainly not sent; no definitive answer; a reply |
| `Settle`, `Settled` | `Resolve` for a definitive outcome, `NoteUnknown` for an unknown one; then the change is saved or undone |

The session loop is `Connect` (dial and attach), `StartReconcile`, `ReportScope`
/ `AskFails` / `Ask` and `Apply` for each entry, `Marked` for the save of what the two
changed, `FinishReconcile`, `Detach`.
Calls are routed as soon as the session is attached, that is before and during
reconciliation, as in the code (`attach` precedes `reconcileUnknown`).
`reconcileUnknown` works on copies: `todo` holds what it copied at the start and
`asked` an answer that the server gave and that is not applied yet, so a call may
end between the two.

An operation of the ledger is two steps. `Change` takes the mutex, changes the entry in
memory and notes in `saving` what it was before; `Saved` writes the file, or `RolledBack` puts back what
`saving` holds, and the mutex is free again. Between the two the daemon may die, which leaves the old
file, as does a death between the temporary file and the rename; calls, server and network go on, but whoever needs
the ledger waits (`Unlocked`). What a power failure does to a file that was renamed without a sync is
outside the model. `DaemonRestart` loads the file. Two branches of `Load` (`unknown.go`) have no
action, because a daemon of this model never writes what they are for: a file that cannot be decoded
(75-81), as the rename replaces it at once, and one with more entries than the capacity (64-65, 90-95),
as every admission counts.

The server is that of `fakemod`: an id that completed is answered again from its
record, any other is claimed and run by its own goroutine. It looks for a result and claims the id in two
sections of its lock (`fakemod.go` 387-394); `Receive` is one step, since two requests of one id that are both
claimed may run one after the other in either case. As `reconcileUnknown`
knows an answer "failed" which `fakemod` never gives, the model's server may also
keep a failure; it then repeats it, like a result. A write that fails flagged
`resultUnknown` counts as run, which is the worse case. Ids identify
writes of one target and one credential. A frame that was sent reaches the server,
or is dropped once its connection is gone; it may arrive after the daemon has
forgotten the connection, as long as the game runs. A restart of the game ends
requests and ledger of the old run.

Left out: reads (they leave the ledger alone), the payload and its result, the
event that reports an outcome, the 128-character limit and other reasons to
refuse beyond the fact that a call may be refused, and other targets, which
share nothing but the capacity.

Bounds: `MaxConn` connections, `MaxRun` game runs, `MaxCred` credentials and
`MaxCrash` daemon restarts, each a guard of the one action that counts it. Each
call runs once; a retry with the same id is another member of `Calls` that
`IdOf` maps to the same id. `None` is the missing entry. `CHECK_DEADLOCK` is off
since the model stops when these are used up.

`ReadmitInFlight` says whether a caller may use an id again while an earlier call
with it has not returned. The ledger refuses that while the entry of the first
stands, but reconciliation may resolve the entry first. With `FALSE` callers
behave as ids allocated by the daemon make them behave (they are unique), with
`TRUE` as IPC clients may, who choose their ids.

### WriteContract

Three variables: the ids on record (`visible`), the writes that ran, run or may
still run (`mayRun`), and those whose outcome is known. A write begins only while
its id is on record, and a record is released only when the outcomes of all writes
of its id are known. `WriteLedger!Contract` maps the ids in the file, the requests
on the wire or in the server, and `known` to them.

### ControlClient

`WriteLedger` takes the outcomes of a call as given; this module is the machine that
produces them. One process per `CallWithID`, the read loop, the dialing goroutine and
its watcher, one watcher per write, the consumer of events, `Close`, and the server.

| Action | Code in `control/client.go` |
|---|---|
| `Welcomed`, `DialFails`, `DialReturns`, `DialContextEnds`, `DialWatcher` | the end of `Dial`; the watcher goroutine selects on the context and on `handshakeDone`, and `Dial` does not wait for it |
| `Register`, `Reject` | the entry checks and the entry in `pending`, under `pendingMu` |
| `TakeSlot`, `GiveUpSlot` | the three-way select on the write token |
| `Abandon`, `BeginWrite` | cancelled with the token in hand; or deadline set and watcher started |
| `Interrupt` | the watcher finds the context ended and puts the write deadline into the past |
| `Flushed`, `SendFails`, then `Poison` | the outcome of the write; the token is returned (line 368) before the failure is handled |
| `TakeReply`, `TimeOut`, `SeeDone` | the three-way select on reply, context and `done`: any that is ready |
| `ReadReply`, `ReadEvent`, `Deliver`, `AbandonDelivery` | one frame of the read loop; an event waits for room in the channel or for `stop` |
| `ReadFails`, `Drain` | the two halves of `finish` |
| `Close`, `CloseReturns` | `poison`, then the wait for `done` |

Where the code takes a lock for a few lines those lines are one step, where it selects each
ready case is an action, and where it lets go of a lock or of the token between two updates
there are two steps. `broken` is the sticky error of `bufio.Writer`: once a write to the socket
failed, every later one fails without sending. `out` holds the calls of which a byte may
have left, so a failed write may or may not add to it. The server may answer any call in
`out`, several times, in any order, send events and end the connection at any moment; frames
on their way are read in order, or lost with the connection. All calls are writes: a
read differs in the flag of its error only. Contents, TLS and frame lengths are left out.

`CallContract` says that a call ends once; with a reply only if its id was answered; and
as not sent only if no byte of it can have left. The last is what `callWithID` relies on
when it deletes a ledger entry after a `neverSent`.

Bounds: `MaxFrames` frames in flight, `MaxReplies` replies to a call, `MaxEvents` events, each a
guard of the server's actions; `EventCap` is the capacity of the channel (1024 in the code).

### EventRing, EventReader and PollEvents

`EventRing` keeps the whole log of one run of the daemon as its measure; the code keeps its end,
the ring `first..Len(log)`. A sequence number is a place in the log. `Ingest` is the critical
section of `ingest`: number, append, evict, record. The four records of what was evicted
(`evictedThrough`, `evictedCategory`, `evictedTarget`, `evictedPair`) are one function by kind;
a key is a filter in which the fields that do not matter are `NoFilter`, so a filter is the key
of an event exactly when it matches it (`KeyMatches`). `evictedThrough` is a table with one key.

`EventReader` is what `PollEvents` and `FollowStream` share: the variables `filter`, `cursor` and `owed`. The names
`Init`, `Next`, `Spec` and `TypeOK` are those of `PollEvents`; `FollowStream` has `FollowInit` and so on, so that
one module can hold the theorems about both and the lemmas about the ring that they share.

`PollEvents` adds a client that asks with a cursor and a filter and goes on with `next` and the
stream id of each answer. `recentEvents` is two steps: `Copy` under the lock, `Answer`, which
reads the tables, without it. Go may stop a process in which a map is read and written at once;
that outcome, like any other end of the daemon, is `Restart`, and it fails the query. The client
remembers what it has `seen`, what it was told to have `lost`, and the oldest event it is `owed`:
a cursor of 0 and a reset ask for what is in the ring.

Bounds: `MaxSeq` events of a run, `MaxStreams` runs. Symmetry exchanges the categories and the
targets; no property names one.

### FollowStream

`FollowStream` composes the reader of the ring with one connection of the local API and the command
`mc-agent events --follow` at its end.

| Action | Code |
|---|---|
| `Publish` | `ingest`, one critical section with the broadcast to the subscriber |
| `ServeSubscribe`, `Confirm` | the subscription, then its answer; events may be sent in between |
| `CopyRing`, `AnswerPage` | `recentEvents` under the lock and after it, and the response |
| `Send`, `Close` | a frame into the outbound channel, or the end of a client whose channel is full |
| `RouteReply`, `ReadEvent`, `QueueEvent`, `ReadFails` | the client's read loop; `Swap` of the count and the attempt to queue the event are two steps |
| `Subscribe`, `Subscribed`, `AskPage`, `Reset`, `PrintPage` | the command up to and in `recover` |
| `Overflowed`, `GoLive` | `TakeDropped` after the last page, in the first replay and in `recoverLive` |
| `Noticed`, `TakeEvent` | the two arms of the live loop |
| `Hangup`, `Fails`, `Cancel` | the connection ends, the command notices, the user interrupts |

`outbound` stands for the server's channel and for what the socket holds; when the
connection is closed, any beginning of it may still be read. `request` is the handler that
works for the client, which has at most one call under way. The two selects of the live loop
are one choice: the first only prefers the notice, and both can be ready at the second.
`origin` is the run that `--since` belongs to: `this`, `other` (a foreign `--stream-id`) or `unknown`.

`printed`, `excused` and `owed` are there for the properties. A gap marker stands for what the ring
has lost when the page behind it was copied (`excused`). `owed` is where the command's duty begins:
behind `--since`, or at the oldest event of the first page.

Bounds: `MaxSeq` events; `OutboundSize` and `QueueSize` are 256 in the code.

### TargetSession

One loop of `targetSession.run` after the other: a reload, a shutdown or a crash ends loop `l` and
loop `l + 1` takes its place. `WriteLedger` has the same loop from the side of the calls; here it
is seen from the side of the events.

| Action | Code |
|---|---|
| `Begin`, `DialFails`, `Dial` | `daemon.go` 318-363: the stop is looked at, the credential and the cursor are read, the server is dialed with the cursor and the run that it belongs to; `Dial` includes the server's answer (`fakemod.go` 267-293) |
| `RecordRun` | 365-383: a run that is not the cursor's starts at 0; the run is stored at once |
| `Announce` | 384-413: `bridge_connected`, `game_restarted`, `event_gap` |
| `Take`, `Ingest` | 417-433: the gap test, `noteRemoteSeq` with the cursor stored from the 64th event on, then the event into the ring. Two steps, as the daemon may die between them |
| `Disconnected`, `Leave`, `Wake` | 434-480: the end of the connection stores the cursor, a stop does not |
| `StopLoop`, `Replace`, `Exit` | `stop` with its join, and the reload or the shutdown around it |
| `Crash` | the process ends at any point; the next one loads the file |
| `Push`, `SendReplay`, `Hangup`, `GameRestart` | the server: its ring, the replay after the welcome, lost connections, a new run |

`Store` is `Set` with the `Flush` behind it, which may fail. `replayFirst` says in which order the
server sends: `fakemod` registers a connection before it writes the replay, so a live event may
overtake it; the mod, which is not here, may be better. `JoinTimesOut` allows a loop that is dialing to
outlive its join. `got`, `excused` and `base` are there for the properties. `excused` holds what a
report stands for: `event_gap`, `game_restarted`, and, since the process is gone that would have said it,
the report that a crash cut off between `RecordRun` and `Announce`, and the event in its hand.
Identities of instances are left out (a run belongs to one).

### LegacyClient

| Action | Code |
|---|---|
| `HelloTaken`, `DialFails` | `legacy/client.go` 62-73: the read loop runs before `Dial` has its hello, which comes through the channel of replies |
| `Refuse`, `Call` | `CallID` and `legacyLine` in `session/legacy.go`: no capability or bad parameters, or on to `Request` |
| `TakeLock` | the wait for `requestMu`, which neither the timeout nor the context ends |
| `SendLine`, `SendFails` | the line is written under `requestMu`, whole, in part, or not at all. The write has no deadline (the timer starts behind it), so it waits while the connection is full (`LineRoom`) |
| `TakeReply`, `GiveUp`, `SeeDone` | the four-way select of `Request` (timeout and context are one action) |
| `Listened` | `commandOutput` listens for output after its reply, without the lock |
| `ReadMessage`, `Deliver`, `ReadFails` | the read loop: a message waits for room in its channel |
| `Number`, `Forward`, `PumpEnds` | the session's pump |
| `Consume`, `LoopLeaves`, `Close` | the session loop and the three steps of `Close`: the pump is told, the connection closed, the read loop waited for |

The mod is external: it answers lines in their order, well or with an error, sends events and ends.
`written` is the order of the lines, the measure for `AnsweredInOrder`. Lines of the
mod that cannot be parsed are left out, since the read loop skips them. Once its own end is closed the read
loop reads no more (`ReadMessage`), although lines that were buffered before may still be read: nobody
takes an event then, and a reply differs in nothing from one that came just before the close.

Bounds: `MaxEvents` events; the channels hold 4 replies and 1024 events in the code, `LineRoom` is what the sockets hold.

### WebhookForwarder

`Configs` is every outcome of `daemonRunCreateWebhook` for the files, environments and flags of the instance:
`Merged` is the order of precedence of the numbers, `Validate` their check, `Chosen` the fallback to the command
line. A run starts with one that `NewForwarder` takes. Only the numbers of queue and attempts are
followed; the others are treated alike.

| Action | Code in `webhook/webhook.go` |
|---|---|
| `Skip`, `Offer`, `Counted` | `Enqueue`: the category is not asked for; into the channel or dropped; then the counter, under the lock |
| `TakeEvent`, `Ends` | the select of `Run` |
| `Delivered`, `Fails`, `Retry` | one post and what `deliver` makes of it |
| `Wake`, `Abandon` | the select on delay and stop |
| `Stop` | `Stop`, from `shutdown` |

A post comes to one of `Statuses`, one of each class that the code tells apart: taken, refused for good, to be
tried again, never arrived, arrived without an answer, and redirected, which Go's client follows. `deliver` also
ends an event that cannot be encoded (`webhook.go` 446-449); events come out of JSON and can, so there is no such answer.

### DaemonProcess

Each member of `Daemons` is a process of the same home.

| Action | Code |
|---|---|
| `Launch` | `daemon start` or `daemon run` |
| `CheckFile`, `DialFound`, `RemoveStale` | the three steps of `checkNotRunning`: a file that cannot be read counts as none; a daemon answers a dial while it listens, or the dial fails all the same and its file counts as stale |
| `DialHangs` | the dial and its ping have no deadline: whoever accepts and does not answer holds the start up |
| `Bind`, `Save` | the ledger is loaded, which ends a daemon that cannot read it; the local API listens; the file is written, or that or the forwarder fails |
| `Shutdown` | `Stop` is called; sessions and forwarder end while the API answers; the API ends; the file is removed |
| `CloseHangs` | a session is stopped by closing its adapter, which has no bound |
| `Crash` | also every signal, which the daemon does not handle |
| `AskStop`, `StopReturns` | `daemon stop`: call, then wait ten seconds for the file to go; one that cannot be read counts as gone |

`fixed` says whether all of them are given one `--api-address`. `raced` becomes true when two processes
are at the same time between the start and the file, or between the end of the API and the removal of the file:
nothing in the code excludes that, see below. `misled` becomes true when a file that is there could not be read, by a
daemon that starts or by a stop command, or when a daemon that serves could not be reached: each of these errors
is taken for the absence of a daemon. `Calm` is the absence of both, and the condition of what is said about
one daemon and about a true stop; crashes, hung dials and hung shutdowns are allowed under it.

Bounds: each process is started once, `MaxCrash` of them are killed, each member of `Stops` is one command.

### TargetReload

| Action | Code |
|---|---|
| `LoadTargets`, `Save` | `target add`, `remove`, `use`: load, edit, save; `target reload` goes straight to the call |
| `Reload`, `Lock`, `TellStop`, `Closed`, `Join`, `Forget`, `SetTargets`, `Snapshot`, `StartMissing` | `reloadTargets` by its locks: the file is read before `sessionsMu` is taken, or cannot be, and all stays as it is; under the lock each session is told, its adapter closed, however long that takes, and its loop joined; the targets are exchanged under another lock, and the sessions are started under the first again |
| `Stop`, `LockForShutdown`, `Unlock`, `Return` | `Stop` and `shutdown`; calls of the local API go on until it is stopped, and a reload outlives it |
| `Top`, `Leave` | a session loop: it looks for a stop, or is at work (a dial, a link, a delay) until it hears one |
| `Hold` | its link never closes: the `Close` of the adapter returns neither to the loop nor to the one that stops it |

`Run` is one more member of `Commands`: it begins at `Snapshot`, since the local API serves reloads already while `Run`
starts the first sessions (`daemon.go` 187-223), and the shutdown follows it. Between the load of the targets
in `Run` and its API nothing happens here: a file that is edited in that time differs from the targets until the next reload.
Which target is the default is left out, as no session depends on it. `unread` says that the last reload could not
read the file.

`Join` may time out while a loop works, which sets `late`; the closing before it may not. A definition is named by the command that wrote it.
`overlapped` is true once two commands were under way at once.

Bounds: each command runs once; `Ids` are numbers of loops, one for each target and each start of sessions.

## What the runs check

| Run | Instance | Properties | Result |
|---|---|---|---|
| `ledger_runs` | two calls, one id; 2 connections, 2 runs, 2 credentials, 1 daemon restart | `TypeOK`, `LedgerMatchesDisk`, `NoForgottenWrite`, `AtMostOncePerRun`, `Implements` | hold |
| `ledger_reuse` | as `ledger_runs` with 1 credential and no daemon restart, ids reused in flight | `NoForgottenWrite` | violated |
| `client_calls` | two calls with ids of their own; up to 2 replies to each, 2 events, channel of 1 | `TypeOK`, `CallsDoNotDisturb`, `CallsAreFound`, `Implements` | hold |
| `client_live` | two calls, a silent server, 2 events for a channel of 1 | `EndsForAll` | hold |
| `poll_pages` | 2 categories, 2 targets, any filter; ring of 2, 4 events, pages of 1 or all, 1 restart | `TypeOK`, `TablesExact`, `AllAccountedFor`, `NothingTwice` | hold |
| `follow_stream` | one filter of category and target; three kinds of events, 4 of them; ring of 2, pages of 1, queues of 2 and 1; `--since` 0 and 1 of a foreign or unknown run | `FollowTypeOK`, `NothingSkipped`, `PrintedInOrder`, `CatchesUp` | hold |
| `session_loops` | ring of 1, cursor stored from the 2nd event on; 3 events, 2 runs, 2 loops, 1 crash, 1 failed dial or lost connection; both orders of replay and live events | `TypeOK`, `NoSilentLoss`, `NothingTwice`, `Delivered` | hold |
| `legacy_link` | a write and a `command_output`; channels of 1, a connection that holds 1 line, 2 events | `TypeOK`, `InOrder`, `TruthfulWrites`, `CallsAndCloseEnd` | hold |
| `legacy_close` | as `legacy_link` | `CloseReturns` | violated |
| `webhook_queue` | 4 events, 3 forwarded; queue of 1 or 2, 1 to 3 attempts; five kinds of answers | `TypeOK`, `OneEnd`, `CountersTrue`, `EventsAndStopEnd` | hold |
| `daemon_process` | 3 daemons, 2 may be killed, 1 stop command; dials and closes that hang, failed reads; with a fixed address and without | `TypeOK`, `OneDaemonFound`, `StopTellsTheTruth`, `StartsAndStopsEnd` | hold |
| `targets_reload` | 2 target names, one configured; `Run`, 2 commands, a shutdown; links that never close, failed reads | `TypeOK`, `EveryLoopIsASession`, `SessionsFollowTheFile`, `NothingRunsAfterReturn`, `EverythingEnds` | hold |

Two calls with one id are the smallest instance in which calls can disturb each
other, two connections and two runs the smallest with a reconnection and a change
of run while a call of the old one is still returning, and one restart loses all
calls at any of their steps.

What they show:

- *Nothing is forgotten.* Whenever a write ran, runs or may still run and its
  outcome has not reached the daemon, its id is in `unknown_writes.json`, through
  every interleaving of calls, reconciliation, lost replies, failed saves,
  disconnections, restarts of the game and of the daemon.
- *No id runs twice* in one run of the game: between two writes of an id the
  server has its result, or the ledger keeps the id from being admitted.
- *Memory and file are one ledger* for whoever takes the mutex and for the daemon that starts after a crash; during a
  save, what would be put back is what the file holds. A roll-back that restores something else, as
  deleting the entry would be for `NoteUnknown` and `MarkUnresolved`, breaks it.
- *Calls do not disturb each other*: whatever the server repeats, and whenever the connection
  ends, the reply channel into which the read loop sends is empty, so no caller holds it up; and an
  interrupt hits only its own write, since the watcher is joined before the token is returned.
- *No call is lost*: from its registration to its end a call with an id of its own is in the
  table or has its answer, through `finish`, `poison` and `forget` of others.
- *Outcomes are truthful* in the sense of `CallContract`, whatever happens to the other call.
- *Close returns* although nobody reads the full event channel, and *every call ends* once
  the connection has stopped, without the help of its deadline.

For the connection two calls are the smallest number that compete for the token and the table,
two replies to a call the smallest repetition, and two events the smallest number that fills a
channel of one and blocks the reader. `client_live` has no replies, since a silent server is
the one under which an end is hardest to reach.

- *A polling client misses nothing unnoticed*: each event that its filter asks for, up to its
  cursor, was given to it or covered by a `dropped`; none is found twice; a cursor of an earlier
  run of the daemon is recognised. With a ring of two, four events evict behind, at and before
  a cursor; two categories and two targets give every kind of filter an unrelated eviction.

- *A follower skips nothing silently, repeats nothing and catches up*: what it was asked for is printed
  in order and once, or a gap marker stands for it, although the same event may come live and
  from the ring, the queue may overflow at any point of a replay, and the ring may have lost
  what the queue lost. After an overflow that no event follows, the notice alone brings
  the command back to the ring (`CatchesUp`). One event in the queue, one in the read loop and one on
  the wire are enough for an overflow in which tag, count and notice part; a ring of two loses
  the dropped event before the recovery. Three kinds of events are needed: wanted, filtered
  by the subscription, and filtered by the command.

- *A session goes past no event silently* (`NoSilentLoss`): what its counter, the cursor in memory and the cursor in
  the file go past was handed on, or a report stands for it, through reconnections, restarts of the
  game, failed writes of the file, reloads and crashes; *no loop hands an event on twice*; and with a server that
  sends its replay first each event of the current run arrives at last. Both hold while no loop outlives its join
  (`JoinTimesOut` is off), which the code logs and does not prevent. A ring of one event loses
  something whenever two events pass without a connection, and three events are enough to take one, store the cursor,
  and lose the next.
- *Old answers go by their order*: without request ids the n-th line gets the reply to the line that is as many
  places before it as lines before it were given up, its own as long as none was; as long as none was, no write is
  reported otherwise than it went, and no event changes its place or is lost between mod and loop. Every call ends, unless
  one writes to a mod that neither reads nor ends the connection, under the lock that the others wait for (`WriteBlocked`); and so
  does `Close`, unless a full channel holds up the read loop (`HeldUp`, see below). Two calls and channels of one are
  the smallest that fill up; two events are one in the channel and one in a hand; one line that waits is enough for a
  write that finds no room.
- *Each forwarded event has one end*: delivered, failed for good or after all its attempts, dropped at a full queue,
  or given up on a stop; the counters say so at every moment but between the channel and the counter; a receiver that never
  takes an event delays the others for a bounded number of attempts, and a stop ends the worker also while it
  waits. Three forwarded events fill a queue of one while one is in work.
- *One daemon per home*: as long as no two processes are at a delicate place at once, no file that is there could not be read and
  no daemon that serves not be reached (`Calm`), at most one serves, the file names it, and
  `daemon stop` says "stopped" only when the one it asked is gone; with a fixed address at most one serves even so. The file
  of a killed daemon keeps nobody from starting, unless a dial is never answered, and a told daemon ends, unless an
  adapter does not close; both with races or without. Three processes are one that
  was killed, one that replaces it and one that interferes; the run allows two kills.
- *A reload leaves no loop behind*: however commands, reloads, the start of the first sessions and the shutdown overlap, each
  loop that was not told to stop is the session of its target; after commands that did not overlap, the sessions are those of
  the file, unless the last reload could not read it; unless a join timed
  out, nothing runs once `Run` has returned; and everything ends, although reload and shutdown wait for loops
  under a lock that both need, unless the one that has the lock waits for an adapter that never closes (`CloseBlocked`): then
  all behind it wait too. `Run`, two commands and a shutdown are four claims on that lock.

Two disagreements between the code and what is written about it have a run that ends in the counterexample:

- `ledger_reuse`: the first call with an id loses its connection; the next
  connection reconciles and resolves it; before the first call returns, a
  second call with the same id is admitted and sent; now the first call
  returns and, with an answer that was already there, resolves the id, which
  deletes the entry of the second.
- `legacy_close`: two events come while nobody takes them, one fills the channel and the read loop holds the other; `Close`
  tells the pump to stop, closes the connection and waits for the read loop, which waits for room
  that nobody makes. `session/legacy.go` 298-299 says that `Close` "bounds its exit even when a consumer
  stopped reading the event channel". More replies to given-up requests than their channel holds (4) and one in the hand
  do the same. A stop, a reload or the shutdown that closes such a session hangs; this is the `held` of `TargetReload` and
  the `stuck` of `DaemonProcess`.

More that no run is spent on:

- `CallWithID` returns the write token before a failed write poisons the connection, although
  the comment asks for the opposite (`client.go` 368 and 372). A second call may take the
  token; it cannot send, since the buffered writer keeps its error, but it fails as one that
  may have been sent. `ipc.go` 491-497 does the same.
- `NoteUnknown` of a late call sets an entry that reconciliation has marked unresolved back to unknown
  (`unknown.go` 199).
- A user's `request_status` that finds a write completed leaves its ledger entry (it takes the path of
  a read, and `WriteLedger` has no action for it because it changes nothing), although
  `daemon.go` 759 names the status query as a way to settle it.
- An event evicted between `Copy` and `Answer` is on the page and yet makes it say `dropped`, although
  `src/go/README.md` 149 reserves the word for what the caller lost.
- An event that is dropped takes the count of the ones before with it (`QueueEvent` forgets
  `reading.tag`): a marker says one, however many were dropped in a row, although
  `ipc.go` 577 calls it the number of dropped events.
- A live follower sends nothing, so the server's idle timeout ends it ten minutes after its last page,
  also while events flow (`ipc.go` 29 and 173; here one of the reasons for `Hangup`).
- `callWithID` reads the credential of the moment (`daemon.go` 622), not the one the connection was opened with. After a
  rotation under a standing connection a write is recorded with the new one, and after a reconnection the
  scope check finds nothing to complain about, although `unknown.go` 28-29 ties the request to the connection that sent it.
- The daemon cancels the context of a dial as soon as `Dial` has returned (`daemon.go` 350). A watcher that had not run
  yet finds both its channels ready and may choose the context: it sets a deadline in the past on the new
  connection, which then ends (`client.go` 172-180).
- A call whose context ends while its reply is routed calls `forget(id)` (`client.go` 406). A second call that has
  registered the same id in between loses its entry, and its reply is dropped. The daemon keeps ids of
  writes apart while they are on record; ids of reads it does not check.
- `rememberEvicted` makes room in a full table also when it only updates a key (`daemon.go` 832): it deletes the oldest
  other key, and a client that follows that one gets the events after the loss without `dropped`. The limit is 256;
  there are seven categories, so it takes 37 targets.
- A follower with `--since` whose queue overflows before it has printed anything pages from 0, not from the user's
  cursor (`ops.go` 229 and 262), and prints events again that the user has seen.
- A loop that is stopped stores no cursor (`daemon.go` 434-442). After a reload the next loop offers the old one, and
  when the ring has moved on it reports an `event_gap` although nothing was lost, which `src/go/README.md` 119
  ties to a loss. The new loop counts from 0 in the same run and stores that at once (376-380), so after a lost connection before
  the first event it is given the whole ring again.
- While `lastSeq` is 0 the gap test (422) is off: when a live event overtakes the replay of a loop's first connection,
  events before it are skipped without a report (`NoSilentLoss` begins at `base` there).
- A loop that outlives the five seconds of its join, for instance in a dial, may store its cursor over that of its successor
  when the game restarts meanwhile, and events are lost silently; `daemon.go` 547-550 excludes that
  (`JoinTimesOut = TRUE` shows it).
- `noteRemoteSeq` never resets its count, so from the 64th event of a connection on every event writes the file.
- A legacy request writes and flushes its line under `requestMu` without a deadline (`legacy/client.go` 121-134; the timer
  starts at 135). A mod that stops reading holds it up, and every other request with it, since neither their contexts nor
  their timeouts end the wait for the lock.
- `daemon stop` ignores the error of `LoadDaemonState` (`cli.go` 408-411): a `daemon.json` that cannot be read while the
  daemon shuts down is reported as "stopped".
- `checkNotRunning` goes on when `daemon.json` cannot be read, and calls a daemon stale whose answer fails; it dials and
  pings without a deadline (`daemon.go` 273), so a process that listens on the recorded port and does not answer holds up the start.
- The late reply to a legacy request that was given up is taken for the answer of the next one, and so on
  until the connection ends; `command_output` returns whatever output arrived meanwhile, also that of others; events that
  wait in the client's channel are lost when the connection ends.
- Go's client follows redirects, with a GET and no body on 301, 302 and 303, and a delivery that was redirected counts as
  delivered, although `src/README.md` 291 says "Redirects are never followed".
- `--webhook-url` is ignored when a file or the environment gives a URL. With nothing but flags `LoadConfig` fails, and the
  fallback ignores `--webhook-queue`, `--webhook-attempts` and the environment (`cli.go` 424-448). `MC_AGENT_WEBHOOK_CONFIG` alone
  starts no forwarder.
- Two daemons that start together, or one that starts while another ends, may both serve, and one may remove the
  `daemon.json` of the other (`daemon.go` 265 and 280). `daemon start` reports "started" also when an older daemon answers.
  A connection that is accepted during `Stop` of the local API is not closed by it.
- `daemonStart` and `daemonRunning` dial without a deadline too.
- A loop that its join did not wait for may work beside its successor, two on one target, until its dial ends: `EveryLoopIsASession`
  speaks of loops that were not told, and `NothingRunsAfterReturn` of runs without a timed-out join.
- Overlapping target commands may lose an edit (load, edit and save are not one step, and share a temporary name), and overlapping reloads may leave the
  sessions of the older document. A reload forgets the target of `--fake`, which is in no file; `target use`
  does not reach a running daemon.

The properties of `WriteLedger` and `PollEvents` are safety properties and need no fairness. `FollowStream`
assumes weak fairness of the server's handlers, of the client's read loop and of the command, each of
which is a goroutine that waits for nothing but its channels; events, hang-ups and the user need
not come. `ControlClient`
assumes weak fairness of each call's own steps (a goroutine runs; a write ends at its
deadline, `ioTimeout` at the latest), of the read loop (a read of a closed socket
fails) and of the return from `Close`. The network, the server, the consumer of events and the
contexts of the calls may do nothing for ever.

The other modules assume weak fairness only. `TargetSession`: each loop goes on (a dial, a read and a delay
end), the server sends the replay that it has begun, and a daemon that waits for a loop goes on when it ends;
`DialFails` has no fairness and a bound, as one dial must succeed at last for an event to arrive. `LegacyClient`:
the goroutines and each call (a reply has a timeout); the mod may be silent, nobody has to
close, and a write to a mod that does not read has no end, since `SendLine` is not possible then. `WebhookForwarder`: the worker
(a post has a timeout) and the end of `Enqueue`; nobody has to stop it. `DaemonProcess`: `Run`
and `shutdown` of each process, and a stop command that waits; not a dial that hangs, nor an adapter that does not close, both of which may
also be answered or killed. `TargetReload`: weak fairness of one action, `GoesOn`, which is any step of a command from its call on,
of the shutdown, or of a loop. Every run has finitely many steps (each command runs once, a loop only goes forward), so nobody
can keep the others from going on and the one condition is as good as one for each. A lock that is free for good is
taken in the end; the `Close` of a link that is held up has no end. A user may leave a command at its prompt, and nobody
has to stop the daemon.

## What is proved

`WriteLedgerProofs` holds for any sets of calls and ids (ids finite), any number
of connections, runs, credentials and restarts. From `LedgerAssumption` (the
constants are of their kinds, the capacity and the bounds are positive) alone:

- `WriteLedgerTypes`: `Spec => []TypeOK`,
- `FileIsCurrent`: `Spec => []LedgerMatchesDisk`, through every failed save and crash between change and save,
- `LedgerBounded`: `Spec => []WithinCap`, which no run checks (with one id the ledger cannot outgrow a capacity),

and for `~ReadmitInFlight`, a condition that `ledger_reuse` shows to be needed:

- `NothingForgotten`: `Spec => []NoForgottenWrite`,
- `AtMostOnce`: `Spec => []AtMostOncePerRun`,
- `KeepsContract`: `Spec => Implements`.

The argument. `NoForgottenWrite` is not inductive: an entry may be deleted by the
return of another call with its id, or by an answer that reconciliation asked for
earlier. `IInv` adds what keeps these apart. `TurnInv`: at most one call of an id
is in flight, and at most one write of an id is unknown; an admission needs a free
id, and a free id has no unknown write (`EntryInv`). `RequestInv`: a request on its
way or in the server belongs to the current run and has no answer. `CopyInv`: what
reconciliation copied or was told is out of date only about writes sent over its own
connection; an outcome it was told means that the server has one, so it would not run
a later frame of that id but answer it again. `EntryInv` then survives every step:
`Resolve` by a call concerns a write that is known or was never sent, `Resolve` by
reconciliation concerns writes whose outcome it brings, and the other updates leave
existence and run of an entry alone (`StateOnly`). `HolderInv` and `ChangeInv` speak of the operation that is between
change and save: the mutex has one holder, what it would put back is what the file has, and what it is about to save is a new entry
that no other write needs, another state of the same entry, or the removal of one whose outcomes are known. `LinkInv` states how connections
and runs relate. `AtMostOnce` adds `OnceInv`: when an id has run in this run and the
server has no outcome for it, the write that ran is unknown, and by `TurnInv` nobody
else can be in the server with that id. The refinement maps each action to the step
of the contract it makes: `Admitted` claims, `Send` begins, `Drop`, `Fail` and
`GameRestart` let requests vanish, `Answered` and `Apply` learn, `Settled` and `Marked`
release, all of them when the file changes, and `EntryInv` after the step is what `Release` asks for.

`ControlClientProofs` holds for any calls and ids, any channel and any numbers of frames, replies and
events, from `ClientAssumption` (each call has an id, nobody is called like the missing call or frame, the channel has room for
an event): `ClientTypes`, `NoCallDisturbsAnother` (`CallsDoNotDisturb`) and `ClientKeepsContract` (`Implements`); and for
`OwnIds` (no two calls share an id, as ids drawn at random are meant not to; what happens when two do is among the
points above): `EveryCallIsFound` (`CallsAreFound`). `TableInv` says that an entry of `pending` belongs to a
call under way whose reply channel is empty, so the send of the read loop cannot block: every way out of the wait removes the entry or
finds it gone. `TokenInv` ties the write token, the watcher and the deadline in the past to the one call that writes.
`OutcomeInv` says where a call is of which a byte may have left: never one that is reported as not sent.
`AnswerInv` says that each reply on its way or handed over comes from an answer of the server. For the refinement each action is the end of a
call, a send or an answer of the contract, or a stutter, and `OutcomeInv` and `AnswerInv` are what the contract's guards ask for.

`EventReaderProofs` holds for any sets of categories and targets, sizes, limits and bounds. From
`RingAssumption`, `ReaderAssumption` and `PollAssumption` alone: `PollTypes`. From `Room` (each table has room for
every key that can occur and for one more; with room for every key only, an update throws another key out, see above):
`TablesAreExact`, `NoSilentLoss` (`AllAccountedFor`) and `FoundOnce` (`NothingTwice`). The argument:
with room, an eviction is always put under its four keys (`RememberPuts`), and a filter is a key
of exactly the events that it matches, so each table entry is the newest lost event of its filter
(`RingExact`). An answer then covers three ranges: up to `since` by what was known before, from
there to the start of the copied ring by the tables, which may only have grown since the copy, and
the rest by the page, which is closed downwards (`PageComplete`). `QueryInv` says that the
copy is of this run and that the cursor lies in its stream.

On the follower, from `FollowAssumption` and `NothingAssumption` (no frame, request or event is the missing one):
`FollowTypes` and `FollowerKeepsOrder` (`PrintedInOrder`), and with `Room` as well `FollowerSkipsNothing` (`NothingSkipped`).
`FollowInv` is what it takes:

- `ProtocolInv`: at most one request is between command, server and answer, and it is of the kind that the command waits for; past the
  subscription the server sends.
- `StreamInv`: socket, read loop and queue hold events in the order of the log, each once. Hence the order: `TakeEvent` prints an
  event only beyond the last one, and pages begin behind it.
- An event of the filter that is neither printed nor on its way is `Missing`. It is `Noted` when no event behind it can be
  taken before one whose tag sends the command back to the ring, or when the count that is not yet taken will. All losses
  beyond a number in `Horizons` are noted. Each step of the stream keeps such numbers (`HorizonsStep`): a drop is counted in the
  step that drops, the count becomes the tag of the next event, and the command looks at the count once more before it
  goes live.
- `PageInv`: the answer that the command waits for omits nothing between its cursor and `next` but what the ring has lost,
  which it says when the tables have room; and the end of a last page is a horizon, as the subscription came before
  the copy.
- `PlaceInv` and `CoverInv`: up to the last event printed, and up to the place to page from, everything asked for is printed
  or replaced by a marker. A live event extends that only if nothing is missing before it; it is passed on without a look at
  the ring only if it is unmarked, and then a missing event would have been noted.

`TargetSessionProofs` holds for any sizes of the ring and any numbers of events, runs, loops, failures and crashes. `SessionTypes` needs
`SessionAssumption` only. `NothingPassedTwice` (`NothingTwice`) and `NothingLostSilently` (`NoSilentLoss`) say, like the
properties, something as long as no loop was given up by its join. Then `OneLoop` holds: nobody but the current loop is at work.
For that loop `CursorInv` says that both cursors were true once, and how far the loop is from them at each place; `StreamInv`
that what the connection still brings has not been passed on and comes once; `GotInv` that what was passed on lies behind
the cursor's run and the loop's counter. This is all that `NothingTwice` takes. For the losses, `ChainInv`: a server
that replays first sends one number after the other up to the newest, and what lies before is accounted for, or was lost from the ring and
the loop has been told and will announce it. `LossInv`: what the loop, the cursor in memory and the
cursor in the file went past is accounted for, and so are earlier runs, except between `RecordRun` and `Announce`, where the
report is still to come and a crash takes it along. With a server that lets live events overtake, the same holds from `base` on: the gap
test finds each jump of the counter.

`LegacyClientProofs` holds for any calls, events and capacities, from `LegacyAssumption` and `NoCallAssumption`: `LegacyTypes`,
`BothStreamsInOrder` (`InOrder`) and `WritesAreTold` (`TruthfulWrites`). The heart is `ReplyInv`: the replies between the
mod and `Request`, over the socket, the hand of the read loop and the channel, are those to the lines that follow as many lines as replies were taken,
without a gap (`Numbered`). `CallInv` says that the call that waits has written the last line, so the reply it gets is to the
line that lies before its own by as many as requests were given up. `EventInv` and `PumpInv` say the same of the events up to the session loop, and
`TruthInv` that a reply tells of its line what happened to it.

`WebhookForwarderProofs` holds for any settings, events and answers, from `WebhookAssumption`: `ForwarderTypes`, `EveryEventOnce`
(`OneEnd`) and `StatusIsTrue` (`CountersTrue`). `SeparateInv` keeps queue, worker and ends apart; with `WorkerInv`, each step
moves one event from one place to the next, and the sum of their sizes stays the number of forwarded events. The
delay of the n-th attempt is `Backoff` doubled n - 1 times, a power, where the code doubles in a loop.

`DaemonProcessProofs` holds for any finite number of processes, commands and crashes, from `ProcessAssumption`: `DaemonTypes`,
`OneDaemonServes` (`OneDaemonFound`) and `StopIsTrue` (`StopTellsTheTruth`), which say, like the properties, what holds while all is
`Calm`, and of a fixed address what holds always. Until two met at a delicate place, `DelicateInv`:
one at most is at one. Unless a read or a dial failed, `StartInv`: a daemon past its check of the file starts alone, since the file names whoever serves (`FileInv`),
and it would have answered the dial. With a fixed address `AddressInv` needs none of this. `AskedInv` follows the daemon
that a stop command asked to its end.

`TargetReloadProofs` holds for any finite sets of targets and commands. `ReloadAssumption` asks for enough numbers for the loops, one for each target
and each command (`Run` is one of them), and `NumberInv` shows that these are enough. `ReloadTypes`, `EveryLoopIsReached` (`EveryLoopIsASession`),
`SessionsAreTheFile` (`SessionsFollowTheFile`) and `NothingRunsOn` (`NothingRunsAfterReturn`). `LockInv` and `HeldInv` say what the holder of
`sessionsMu` has done already: a session that it is through with was told to stop and has ended, unless a join timed out.
`WorksInv`: a loop that works, or that waits for its link to close, is the session of its target.
`SerialInv`: while commands do not overlap, the document of the one under way is
the file, sessions are gone exactly from where it forgets them to where it starts the new ones, and between commands
they follow the file unless the last reload could not read it.

Every property that a theorem states but `WithinCap` is also checked by a run, with the same definition. Left to TLC: the two violations, that
the actions can happen at all, and liveness, which is beyond the proof system (`EndsForAll`, `CatchesUp`,
`Delivered`, `CallsAndCloseEnd`, `EventsAndStopEnd`, `StartsAndStopsEnd`, `EverythingEnds`). No safety property of a passing run is
without a theorem.

## Plan

In the order of importance; each with its runs, and theorems where noted.

1. `WriteLedger`, `WriteContract`, proofs: done.
2. `ControlClient`, `CallContract`, proofs with the refinement: done.
3. `EventRing`, `EventReader`, `PollEvents`, proofs: done.
4. `TargetSession`, proofs: done.
5. `LegacyClient`, proofs: done.
6. `FollowStream`, proofs of its safety properties: done.
7. `WebhookForwarder`, `DaemonProcess`, `TargetReload`, proofs: done.
8. `IpcServer`: accept and stop, several clients, the dispatcher limit.
9. The Python bridge: `PyDaemon` (routing, reconnection) and `Restore` (the swap of the
   world directories and its roll-back).

## Not modelled

Wire formats, TLS and the contents of the hello and welcome, file formats, argument parsing and printing,
process start, discovery of servers, install and release scripts: they either keep no
state or belong to the host. Time is not: a timeout may end whatever it bounds at any moment. Exclusive leases
of the stand-in server, `secrets.json` and the resolution of targets keep state that is read and written in one step
and were left out for the size of the instances. Handlers that only read (`status`, `targets`, `capabilities`)
have no action. Parts planned above but not begun are marked so in
`PROJECT.json`.
