---------------------------- MODULE MCMonitorShm ----------------------------
(* Small instances of MonitorShm for TLC. *)
EXTENDS MonitorShm, TLC

CONSTANTS a1
=============================================================================
