------------------------------ MODULE MCDaemon ------------------------------
(* Bounds for Daemon: launchd's process and one started by hand, and two   *)
(* repositories; liveness is checked, so that no symmetry is declared.     *)
EXTENDS Daemon, TLC
=============================================================================
