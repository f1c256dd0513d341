--------------------------- MODULE MCLegacyClient ---------------------------
(* Small instances of LegacyClient.                                        *)
EXTENDS LegacyClient, TLC
CONSTANTS c1, c2
MCCalls == {c1, c2}
MCOperation == c1 :> "write" @@ c2 :> "command_output"
=============================================================================
