-------------------------- MODULE MCDaemonProcess --------------------------
(* Small instances of DaemonProcess.                                       *)
EXTENDS DaemonProcess, TLC
=============================================================================
