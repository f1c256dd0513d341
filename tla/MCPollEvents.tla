---------------------------- MODULE MCPollEvents ---------------------------
(* Small instances of PollEvents.                                         *)
EXTENDS PollEvents, TLC

CONSTANTS chat, mark, alpha, beta

TwoCategories == {chat, mark}
OneCategory == {chat}
TwoTargets == {alpha, beta}
OneTarget == {alpha}
Alike == Permutations(TwoCategories) \cup Permutations(TwoTargets)
=============================================================================
