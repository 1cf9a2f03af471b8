----------------------------- MODULE MCWatchLoop ----------------------------
(* Bounds for WatchLoop: callers of one kind are interchangeable.          *)
EXTENDS WatchLoop, TLC

CallerSymmetry == Permutations(People) \union Permutations(Surroundings)
=============================================================================
