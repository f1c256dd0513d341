--------------------------- MODULE DaemonProcess ---------------------------
(***************************************************************************)
(* Daemons of one home directory: they serve, are stopped and crash       *)
(* (Run, checkNotRunning and shutdown in src/go/internal/daemon/daemon.go, *)
(* daemon.json in config/config.go), and the commands `daemon start' and   *)
(* `daemon stop' (cli/cli.go), which find them by that file.               *)
(***************************************************************************)
EXTENDS Integers, FiniteSets

CONSTANTS
    Daemons,        \* processes that may be started, each once
    Stops,          \* `daemon stop' commands
    MaxCrash,       \* bound: processes that are killed
    NoDaemon        \* no file, and nobody

ASSUME ProcessAssumption ==
    /\ NoDaemon \notin Daemons /\ IsFiniteSet(Daemons) /\ MaxCrash \in Nat

VARIABLES
    fixed,          \* all of them are given the same --api-address
    file,           \* daemon.json: the daemon it names
    pc,             \* where each daemon is
    found,          \* the daemon that a starting one has read from the file
    told,           \* daemons whose Stop was called
    command, asked, \* each stop command, and the daemon that it has asked
    raced,          \* two daemons have been at a delicate place at once
    misled,         \* a file that is there could not be read, or a daemon that
                    \* serves not be reached
    killed          \* daemons that ended without their shutdown

vars == <<fixed, file, pc, found, told, command, asked, raced, misled, killed>>

Init ==
    /\ fixed \in BOOLEAN /\ file = NoDaemon
    /\ pc = [d \in Daemons |-> "off"] /\ found = [d \in Daemons |-> NoDaemon] /\ told = {}
    /\ command = [s \in Stops |-> "ready"] /\ asked = [s \in Stops |-> NoDaemon]
    /\ raced = FALSE /\ misled = FALSE /\ killed = {}

\* The local API listens from Bind to its stop, which comes after the sessions.
Serving(d) == pc[d] \in {"save", "run", "stopping", "stuck"}

\* A daemon that starts and has not written the file, and one that has closed
\* its API and has not removed the file: what another does meanwhile is a race.
Delicate == {"check", "dial", "hung", "remove", "bind", "save", "invalid", "closed"}
Goto(d, place) ==
    /\ pc' = [pc EXCEPT ![d] = place]
    /\ raced' = (raced \/ (place \in Delicate /\ \E o \in Daemons \ {d} : pc[o] \in Delicate))
-----------------------------------------------------------------------------
(* Run.                                                                    *)

\* `daemon start' launches a process and waits for any daemon to answer.
Launch(d) ==
    /\ pc[d] = "off" /\ Goto(d, "check")
    /\ UNCHANGED <<fixed, file, found, told, command, asked, misled, killed>>

\* checkNotRunning reads the file: without one, or when it cannot be read, the
\* daemon goes on.  A mutant dials without a file, another does not look at it.
DialsNobody(d) ==
    /\ pc[d] = "check"
    /\ found' = [found EXCEPT ![d] = file] /\ Goto(d, "dial")
    /\ UNCHANGED <<fixed, file, told, command, asked, misled, killed>>
LooksAway(d) ==
    /\ pc[d] = "check" /\ Goto(d, "bind")
    /\ UNCHANGED <<fixed, file, found, told, command, asked, misled, killed>>
CheckFile(d) ==
    /\ pc[d] = "check"
    /\ \/ file = NoDaemon /\ Goto(d, "bind") /\ UNCHANGED <<found, misled>>
       \/ file # NoDaemon /\ Goto(d, "bind") /\ misled' = TRUE /\ UNCHANGED found
       \/ /\ file # NoDaemon /\ Goto(d, "dial") /\ UNCHANGED misled
          /\ found' = [found EXCEPT ![d] = file]
    /\ UNCHANGED <<fixed, file, told, command, asked, killed>>

\* It dials whom the file names and gives way to an answer; a file that nobody
\* answers for is stale, whether nobody listens or the answer failed.  A mutant
\* trusts the file as it is.
DialRemembered(d) ==
    /\ pc[d] \in {"dial", "hung"} /\ Goto(d, "exited")
    /\ UNCHANGED <<fixed, file, found, told, command, asked, misled, killed>>
DialFound(d) ==
    /\ pc[d] \in {"dial", "hung"}
    /\ \/ Serving(found[d]) /\ Goto(d, "exited") /\ UNCHANGED misled
       \/ Serving(found[d]) /\ Goto(d, "remove") /\ misled' = TRUE
       \/ ~Serving(found[d]) /\ Goto(d, "remove") /\ UNCHANGED misled
    /\ UNCHANGED <<fixed, file, found, told, command, asked, killed>>

\* Neither the dial nor its ping has a deadline: a peer that accepts and never
\* answers, be it the daemon or whoever has its port now, holds the start up.
DialHangs(d) ==
    /\ pc[d] = "dial" /\ Goto(d, "hung")
    /\ UNCHANGED <<fixed, file, found, told, command, asked, misled, killed>>

RemoveStale(d) ==
    /\ pc[d] = "remove"
    /\ file' = NoDaemon /\ Goto(d, "bind")
    /\ UNCHANGED <<fixed, found, told, command, asked, misled, killed>>

\* A ledger that cannot be read ends the daemon.  The local API listens, or its
\* address is taken; a port of its own is free.
Bind(d) ==
    /\ pc[d] = "bind"
    /\ \/ Goto(d, "failed")
       \/ Goto(d, IF fixed /\ \E o \in Daemons : Serving(o) THEN "exited" ELSE "save")
    /\ UNCHANGED <<fixed, file, found, told, command, asked, misled, killed>>

\* The file is written, or cannot be, which ends the daemon; a forwarder that is
\* refused ends it after the file is written.
Save(d) ==
    /\ pc[d] = "save"
    /\ \/ file' = d /\ Goto(d, "run")
       \/ file' = d /\ Goto(d, "invalid")
       \/ UNCHANGED file /\ Goto(d, "failed")
    /\ UNCHANGED <<fixed, found, told, command, asked, misled, killed>>

\* Stop is called, 50 ms after the request was answered; sessions, cursors and
\* forwarder are stopped while the API answers, then the API, then the file is
\* removed.  A mutant removes the file first, another stops only if the file still
\* names it.
RemovesFirst(d) ==
    /\ \/ pc[d] = "run" /\ d \in told /\ file' = NoDaemon /\ Goto(d, "stopping")
       \/ pc[d] = "stopping" /\ Goto(d, "closed") /\ UNCHANGED file
       \/ pc[d] \in {"closed", "invalid"} /\ Goto(d, "exited") /\ UNCHANGED file
    /\ UNCHANGED <<fixed, found, told, command, asked, misled, killed>>
StopsIfNamed(d) ==
    /\ \/ pc[d] = "run" /\ d \in told /\ file = d /\ Goto(d, "stopping") /\ UNCHANGED file
       \/ pc[d] = "stopping" /\ Goto(d, "closed") /\ UNCHANGED file
       \/ pc[d] \in {"closed", "invalid"} /\ file' = NoDaemon /\ Goto(d, "exited")
    /\ UNCHANGED <<fixed, found, told, command, asked, misled, killed>>
Shutdown(d) ==
    /\ \/ pc[d] = "run" /\ d \in told /\ Goto(d, "stopping") /\ UNCHANGED file
       \/ pc[d] = "stopping" /\ Goto(d, "closed") /\ UNCHANGED file
       \/ pc[d] \in {"closed", "invalid"} /\ file' = NoDaemon /\ Goto(d, "exited")
    /\ UNCHANGED <<fixed, found, told, command, asked, misled, killed>>

\* A session is stopped by closing its adapter, which has no bound: a legacy link
\* that is held up (LegacyClient!CloseReturns) never lets the shutdown go on.
CloseHangs(d) ==
    /\ pc[d] = "stopping" /\ Goto(d, "stuck")
    /\ UNCHANGED <<fixed, file, found, told, command, asked, misled, killed>>

\* A signal, which the daemon does not handle, or a failure of the host.
Crash(d) ==
    /\ pc[d] \notin {"off", "exited", "failed"} /\ Cardinality(killed) < MaxCrash
    /\ killed' = killed \cup {d}
    /\ Goto(d, "exited")
    /\ UNCHANGED <<fixed, file, found, told, command, asked, misled>>
-----------------------------------------------------------------------------
(* The commands.                                                           *)

\* `daemon stop': find the daemon and call its stop, whose answer may be lost; a
\* file that cannot be read, or a daemon that does not answer, is an error.
AskStop(s) ==
    /\ command[s] = "ready"
    /\ \/ /\ file # NoDaemon /\ Serving(file) /\ told' = told \cup {file}
          /\ \/ /\ command' = [command EXCEPT ![s] = "waits"]
                /\ asked' = [asked EXCEPT ![s] = file]
             \/ command' = [command EXCEPT ![s] = "error"] /\ UNCHANGED asked
       \/ command' = [command EXCEPT ![s] = "error"] /\ UNCHANGED <<told, asked>>
    /\ UNCHANGED <<fixed, file, pc, found, raced, misled, killed>>

\* Wait ten seconds for the file to go; one that cannot be read counts as gone.
\* A mutant takes the answer for the end.
ReturnsAtOnce(s) ==
    /\ command[s] = "waits"
    /\ command' = [command EXCEPT ![s] = "stopped"]
    /\ UNCHANGED <<fixed, file, pc, found, told, asked, raced, misled, killed>>
StopReturns(s) ==
    /\ command[s] = "waits"
    /\ \/ file = NoDaemon /\ command' = [command EXCEPT ![s] = "stopped"] /\ UNCHANGED misled
       \/ file # NoDaemon /\ command' = [command EXCEPT ![s] = "stopped"] /\ misled' = TRUE
       \/ command' = [command EXCEPT ![s] = "stopping"] /\ UNCHANGED misled
    /\ UNCHANGED <<fixed, file, pc, found, told, asked, raced, killed>>
-----------------------------------------------------------------------------
Run(d) == \/ CheckFile(d) \/ DialFound(d) \/ RemoveStale(d) \/ Bind(d) \/ Save(d) \/ Shutdown(d)
Hang(d) == DialHangs(d) \/ CloseHangs(d)

Next ==
    \/ \E d \in Daemons : Launch(d) \/ Run(d) \/ Hang(d) \/ Crash(d)
    \/ \E s \in Stops : AskStop(s) \/ StopReturns(s)

\* Run and shutdown go on by themselves, but for a dial that nobody answers and
\* the adapter that does not close.
Fairness ==
    /\ \A d \in Daemons : WF_vars(pc[d] # "hung" /\ Run(d))
    /\ \A s \in Stops : WF_vars(StopReturns(s))

Spec == Init /\ [][Next]_vars /\ Fairness
-----------------------------------------------------------------------------
TypeOK ==
    /\ fixed \in BOOLEAN /\ file \in Daemons \cup {NoDaemon}
    /\ pc \in [Daemons -> Delicate \cup {"off", "run", "stopping", "stuck", "exited", "failed"}]
    /\ found \in [Daemons -> Daemons \cup {NoDaemon}] /\ told \subseteq Daemons
    /\ command \in [Stops -> {"ready", "waits", "error", "stopped", "stopping"}]
    /\ asked \in [Stops -> Daemons \cup {NoDaemon}]
    /\ raced \in BOOLEAN /\ misled \in BOOLEAN /\ killed \subseteq Daemons
    /\ \A d \in Daemons : pc[d] \in {"dial", "hung", "remove"} => found[d] # NoDaemon

\* No two daemons were at a delicate place at once, no file that was there could
\* not be read, and no daemon that served not be reached.
Calm == ~raced /\ ~misled

\* "a daemon is already running" (daemon.go:277): through crashes that leave the
\* file, stops and shutdowns that hang, at most one daemon serves a home, as long
\* as all is calm; with a fixed address, always.
OneDaemon == fixed \/ Calm => Cardinality({d \in Daemons : Serving(d)}) <= 1

\* As long as all is calm the file names the daemon that serves, so that every
\* command finds it, and nobody else removes it (daemon.go:265 and 280).
FileNamesIt ==
    Calm => \A d \in Daemons : pc[d] \in {"run", "stopping", "stuck", "closed"} => file = d

\* One daemon per home, and found by everybody.
OneDaemonFound == OneDaemon /\ FileNamesIt

\* As long as all is calm, when `daemon stop' says that the daemon has stopped, the
\* one it has asked is gone (cli.go:406-413); a read of the file that fails is
\* taken for its end (408-411), which is why this is not so otherwise.
StopTellsTheTruth ==
    Calm => \A s \in Stops : command[s] = "stopped" => pc[asked[s]] = "exited"

\* A start ends with a daemon that serves, this one or another, unless it is
\* killed, fails on its own or is held up by a dial that nobody answers: neither
\* the file of a crashed daemon (daemon.go:279) nor a taken address makes it give
\* way to nobody, with races or without.
StartEndsServed ==
    \A d \in Daemons : pc[d] = "check" ~>
       \/ d \in killed \/ pc[d] \in {"failed", "hung"}
       \/ \E o \in Daemons : Serving(o)

\* A daemon that was told to stop ends, with races or without, or is held up by an
\* adapter that does not close (handlers.go:27-32, daemon.go:246-266 and 551-553).
ToldDaemonsEnd == \A d \in Daemons : d \in told ~> pc[d] \in {"exited", "stuck"}

\* So nothing but these two waits keeps a command from what it asks for.
StartsAndStopsEnd == StartEndsServed /\ ToldDaemonsEnd
=============================================================================
