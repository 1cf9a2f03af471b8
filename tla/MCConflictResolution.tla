------------------------- MODULE MCConflictResolution -----------------------
(* Bounds for ConflictResolution: the files of one kind are interchangeable. *)
EXTENDS ConflictResolution, TLC

FileSymmetry == Permutations(Files \ (Quoted \union Lookalikes))
=============================================================================
