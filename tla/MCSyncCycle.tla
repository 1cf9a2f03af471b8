----------------------------- MODULE MCSyncCycle ----------------------------
(* Bounds for SyncCycle: the commits of one pool are interchangeable.      *)
EXTENDS SyncCycle, TLC

CommitSymmetry == Permutations(LoopCommits) \union Permutations(OtherCommits)
                  \union Permutations(Edits)
=============================================================================
