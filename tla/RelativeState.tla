--------------------------- MODULE RelativeState ----------------------------
(***************************************************************************)
(* The pure decisions of a sync cycle (internal/statemachine and           *)
(* internal/daemon/plan.go).  A branch is the set of commits reachable     *)
(* from its tip, so `git rev-list --left-right --count` is abstracted to   *)
(* the two set differences it counts: only their emptiness is ever used.   *)
(***************************************************************************)

EXTENDS Naturals

RelativeStates == {"equal", "ahead", "behind", "diverged"}

\* Upstream is nil in cycleObservation when there is no fresh upstream data.
Observations == RelativeStates \union {"unknown"}

Intents == {"nothing-to-do", "push", "blocked", "mutate"}

(* Classify: how the branch stands against its upstream.                   *)
Classify(local, upstream) ==
    CASE local = upstream                                  -> "equal"
      [] upstream \subseteq local /\ local # upstream      -> "ahead"
      [] local \subseteq upstream /\ local # upstream      -> "behind"
      [] OTHER                                             -> "diverged"

(* The same from the two counts that the code is given.                    *)
ClassifyCounts(ahead, behind) ==
    CASE ahead = 0 /\ behind = 0 -> "equal"
      [] ahead > 0 /\ behind = 0 -> "ahead"
      [] ahead = 0 /\ behind > 0 -> "behind"
      [] OTHER                   -> "diverged"

(* Mutant: a dirty tree is only considered when nothing is known           *)
(* about the upstream, so pending edits never reach a synced branch.       *)
PlanForgettingDirt(autoCommits, isDirty, upstream) ==
    CASE upstream = "unknown"  -> IF autoCommits /\ isDirty THEN "mutate" ELSE "nothing-to-do"
      [] upstream = "equal"    -> "nothing-to-do"
      [] upstream = "ahead"    -> "push"
      [] upstream = "behind"   -> "mutate"
      [] upstream = "diverged" -> IF autoCommits THEN "mutate" ELSE "blocked"

(* planCycle: what the rest of the cycle has to do.                        *)
PlanCycle(autoCommits, isDirty, upstream) ==
    CASE upstream \in {"unknown", "equal"} -> IF autoCommits /\ isDirty THEN "mutate" ELSE "nothing-to-do"
      [] upstream = "ahead"    -> IF autoCommits /\ isDirty THEN "mutate" ELSE "push"
      [] upstream = "behind"   -> "mutate"
      [] upstream = "diverged" -> IF autoCommits THEN "mutate" ELSE "blocked"
=============================================================================
