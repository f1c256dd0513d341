-------------------------- MODULE MCControlClient --------------------------
(* Small instances of ControlClient.                                      *)
EXTENDS ControlClient, TLC

CONSTANTS c1, c2, x, y

TwoCallers == {c1, c2}
TwoIds == {x, y}
OneId == {x}
OwnIds == c1 :> x @@ c2 :> y
SharedId == c1 :> x @@ c2 :> x
=============================================================================
