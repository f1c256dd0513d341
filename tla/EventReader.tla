---------------------------- MODULE EventReader ----------------------------
(***************************************************************************)
(* What every reader of the daemon's events has (the parameters of the     *)
(* method "events": recentEvents in src/go/internal/daemon/daemon.go, and  *)
(* src/go/README.md on cursors): a filter, a limit for a page, and a       *)
(* position in the log; and from which event on it is owed an answer.      *)
(***************************************************************************)
EXTENDS EventRing

CONSTANTS
    Limits,       \* page sizes that are asked for; 0 is no limit
    Nothing       \* no query, request, frame or event

ASSUME ReaderAssumption == Limits \subseteq Nat

VARIABLES
    filter,       \* what the reader asks for
    cursor,       \* the position that its next query names
    owed          \* the oldest event it may expect
=============================================================================
