----------------------- MODULE MCEnvironmentBroadcast -----------------------
(* Bounds for EnvironmentBroadcast: the repositories are interchangeable,  *)
(* but liveness is checked, so that no symmetry is declared.               *)
EXTENDS EnvironmentBroadcast, TLC
=============================================================================
