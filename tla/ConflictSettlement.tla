------------------------- MODULE ConflictSettlement -------------------------
(***************************************************************************)
(* What a branch sees of the settlement of a conflict, by whatever         *)
(* commands, failures and retries: nothing at all but litter, or every     *)
(* file settled at once.  ConflictResolution implements it.                *)
(***************************************************************************)
CONSTANTS
    Files,
    Ambiguous, \* files of which an assistant may mistake one side for both
    Litters    \* can an attempt lose track of a file it has written?

VARIABLES
    local, upstream,  \* the files the local side and the upstream side have
    tree,             \* the files on disk while no merge is under way
    rescued,          \* the sides kept beside them, as <<file, side>>
    litter,           \* files that the last attempt has left behind, likewise
    settled           \* who has settled the conflict: "none" so far

vars == <<local, upstream, tree, rescued, litter, settled>>

Contents == {"ours", "theirs", "merged", "markers", "absent"}

LocalTree == [f \in Files |-> IF f \in local THEN "ours" ELSE "absent"]

Diverges ==
    /\ local \in SUBSET Files /\ upstream \in SUBSET Files
    /\ tree = LocalTree /\ rescued = {} /\ litter = {} /\ settled = "none"

(* Both sides of these files can be shown to an assistant.                 *)
Presentable == (local \intersect upstream) \union Ambiguous

AssistantSettles ==
    /\ settled' = "claude"
    /\ Files \subseteq Presentable
    /\ tree' \in [Files -> {"ours", "theirs", "merged"}]
    /\ rescued' = {}

(* Upstream wins, the local side is kept, and nothing is kept that was not *)
(* there; but a file an assistant had settled, for the local side, before  *)
(* it gave up on another one is removed.                                   *)
UpstreamWins ==
    /\ settled' = "backup"
    /\ \E dropped \in SUBSET (local \intersect Presentable) :
          LET kept == Files \ dropped
          IN  /\ tree' = [f \in Files |->
                            IF f \in upstream \intersect kept THEN "theirs" ELSE "absent"]
              /\ (local \intersect kept) \X {"ours"} \subseteq rescued'
              /\ rescued' \subseteq ((local \intersect kept) \X {"ours"})
                                       \union ((upstream \intersect kept) \X {"theirs"})

PersonSettles ==
    /\ settled' = "person"
    /\ tree' \in [Files -> Contents] /\ rescued' = {}

Settle ==
    /\ settled = "none"
    /\ AssistantSettles \/ UpstreamWins \/ PersonSettles
    /\ UNCHANGED <<local, upstream, litter>>

(* An attempt that fails leaves files behind that are nobody's, but only   *)
(* copies of sides that there are.                                         *)
Litter ==
    /\ Litters /\ settled = "none"
    /\ litter' \in SUBSET ((local \X {"ours"}) \union (upstream \X {"theirs"}))
    /\ UNCHANGED <<local, upstream, tree, rescued, settled>>

DivergesAgain == settled # "none" /\ Diverges'

Next == Settle \/ Litter \/ DivergesAgain

Spec == Diverges /\ [][Next]_vars

(* Nobody but a person commits a conflict marker.                          *)
NoMarkers == settled \in {"claude", "backup"} => \A f \in Files : tree[f] # "markers"
=============================================================================
