--------------------------- MODULE MCWriteLedger ---------------------------
(* Small instances of WriteLedger: two calls share a request id.          *)
EXTENDS WriteLedger, TLC

CONSTANTS c1, c2, x

TwoCalls == {c1, c2}
OneId == {x}
SameId == c1 :> x @@ c2 :> x
=============================================================================
