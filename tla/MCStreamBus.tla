---------------------------- MODULE MCStreamBus ----------------------------
(* Small instances of StreamBus for TLC.                                   *)
EXTENDS StreamBus

CONSTANTS t1, t2, t3
=============================================================================
