-------------------------- MODULE MCTargetSession --------------------------
(* Small instances of TargetSession.                                       *)
EXTENDS TargetSession, TLC
=============================================================================
