--------------------------- MODULE MCTargetReload ---------------------------
(* Small instances of TargetReload.                                        *)
EXTENDS TargetReload, TLC
=============================================================================
