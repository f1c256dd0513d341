--------------------------- MODULE WriteContract ---------------------------
(***************************************************************************)
(* What the daemon promises about non-idempotent writes, whatever fails: a *)
(* write may only begin to matter while its request id is on record, and   *)
(* the record is only given up once the outcome of every such write of     *)
(* that id is known.                                                       *)
(***************************************************************************)
CONSTANTS Calls, Ids, IdOf

VARIABLES
    visible,    \* ids on record in a place that survives the daemon
    mayRun,     \* writes that ran, run or may still run
    known       \* writes whose outcome is known

vars == <<visible, mayRun, known>>

Init == visible = {} /\ mayRun = {} /\ known = {}

Claim(id) ==
    /\ visible' = visible \cup {id}
    /\ UNCHANGED <<mayRun, known>>

\* A write leaves the process.
Begin(c) ==
    /\ IdOf[c] \in visible
    /\ mayRun' = mayRun \cup {c}
    /\ UNCHANGED <<visible, known>>

\* Requests get lost or fail without effect.
Vanish(S) ==
    /\ mayRun' = mayRun \ S
    /\ UNCHANGED <<visible, known>>

Learn(S) ==
    /\ known' = known \cup S
    /\ UNCHANGED <<visible, mayRun>>

\* The record of an id is given up.
Release(id) ==
    /\ \A c \in mayRun : IdOf[c] = id => c \in known
    /\ visible' = visible \ {id}
    /\ UNCHANGED <<mayRun, known>>

Next ==
    \/ \E id \in Ids : Claim(id) \/ Release(id)
    \/ \E c \in Calls : Begin(c)
    \/ \E S \in SUBSET Calls : Vanish(S) \/ Learn(S)

Spec == Init /\ [][Next]_vars
=============================================================================
