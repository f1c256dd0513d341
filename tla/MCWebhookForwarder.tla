------------------------- MODULE MCWebhookForwarder -------------------------
(* Small instances of WebhookForwarder.                                    *)
EXTENDS WebhookForwarder, TLC

None == [url |-> FALSE, secret |-> FALSE, queue |-> Unset, attempts |-> Unset]

\* A file with a URL, its queue and attempts or zeros, which count for nothing; an
\* environment that sets a secret, and a zero, which counts; and flags.
MCFiles == {None, [None EXCEPT !.url = TRUE, !.secret = TRUE, !.queue = 1, !.attempts = 0]}
MCEnvs == {None, [None EXCEPT !.attempts = 3], [None EXCEPT !.queue = 0]}
MCFlags == {None, [None EXCEPT !.attempts = 1], [None EXCEPT !.url = TRUE, !.secret = TRUE]}
\* An answer of each class.
MCStatuses == {"ok", "redirected", "bad_request", "too_many", "unreachable"}
MCAccepted == {1, 2, 4}
=============================================================================
