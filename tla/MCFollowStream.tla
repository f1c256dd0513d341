--------------------------- MODULE MCFollowStream ---------------------------
(* Small instances of FollowStream.                                        *)
EXTENDS FollowStream, TLC

CONSTANTS chat, mark, alpha, beta

TwoCategories == {chat, mark}
TwoTargets == {alpha, beta}
OnePair == {[category |-> chat, target |-> alpha]}
TwoKinds == OnePair \cup {[category |-> chat, target |-> beta]}
ThreeKinds == TwoKinds \cup {[category |-> mark, target |-> alpha]}
=============================================================================
