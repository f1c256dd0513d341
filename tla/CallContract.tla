---------------------------- MODULE CallContract ----------------------------
(***************************************************************************)
(* What the control client promises about one call of a write: it ends     *)
(* once; with a reply only if a request with its id was answered, and as    *)
(* not sent only if no byte of it can have reached the server.             *)
(***************************************************************************)
CONSTANTS Callers, IdOf

VARIABLES
    outcome,    \* how each call ended: "none", "unsent", "unknown", "reply"
    delivered,  \* calls whose request may have reached the server
    answered    \* ids the server has answered

vars == <<outcome, delivered, answered>>

Init ==
    /\ outcome = [c \in Callers |-> "none"]
    /\ delivered = {} /\ answered = {}

Deliver(c) ==
    /\ outcome[c] = "none"
    /\ delivered' = delivered \cup {c}
    /\ UNCHANGED <<outcome, answered>>

Answer(c) ==
    /\ c \in delivered
    /\ answered' = answered \cup {IdOf[c]}
    /\ UNCHANGED <<outcome, delivered>>

End(c, o) ==
    /\ outcome[c] = "none"
    /\ o = "unsent" => c \notin delivered
    /\ o = "reply" => IdOf[c] \in answered
    /\ outcome' = [outcome EXCEPT ![c] = o]
    /\ UNCHANGED <<delivered, answered>>

Next == \E c \in Callers :
    Deliver(c) \/ Answer(c) \/ \E o \in {"unsent", "unknown", "reply"} : End(c, o)

Spec == Init /\ [][Next]_vars
=============================================================================
