--------------------------- MODULE MCRemoteCommand ---------------------------
(* One remote command; both delays are larger than one unit of time, so    *)
(* that processes end before, between and after them.                      *)
EXTENDS RemoteCommand, TLC
=============================================================================
