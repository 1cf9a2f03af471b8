------------------------- MODULE RelativeStateProofs ------------------------
(***************************************************************************)
(* The pure decisions of a cycle, proved for any commits: the two counts   *)
(* git prints are enough to classify two branches, and the plan made from  *)
(* them says what the workflow's contract asks for.                        *)
(***************************************************************************)
EXTENDS RelativeState, FiniteSetTheorems, TLAPS

LEMMA CountsTellEmptiness ==
    ASSUME NEW S, NEW T, IsFiniteSet(S)
    PROVE  /\ Cardinality(S \ T) \in Nat
           /\ Cardinality(S \ T) = 0 <=> S \subseteq T
<1>1. IsFiniteSet(S \ T)
  BY FS_Difference
<1>2. Cardinality(S \ T) \in Nat /\ (Cardinality(S \ T) = 0 <=> S \ T = {})
  BY <1>1, FS_CardinalityType, FS_EmptySet
<1> QED
  BY <1>2

(* Classify looks at how many commits each side has more, and that tells   *)
(* how the sets of commits stand to each other, which is what SyncCycle    *)
(* reads (RevListLeftRightCount, Classify).                                *)
THEOREM CountsSuffice ==
    ASSUME NEW local, NEW upstream, IsFiniteSet(local), IsFiniteSet(upstream)
    PROVE  ClassifyCounts(Cardinality(local \ upstream), Cardinality(upstream \ local))
             = Classify(local, upstream)
<1> DEFINE ahead == Cardinality(local \ upstream)
           behind == Cardinality(upstream \ local)
<1>1. /\ ahead \in Nat /\ (ahead = 0 <=> local \subseteq upstream)
      /\ behind \in Nat /\ (behind = 0 <=> upstream \subseteq local)
  BY CountsTellEmptiness
<1>2. local = upstream <=> local \subseteq upstream /\ upstream \subseteq local
  OBVIOUS
<1> HIDE DEF ahead, behind
<1>3. ClassifyCounts(ahead, behind) = Classify(local, upstream)
  BY <1>1, <1>2 DEF ClassifyCounts, Classify
<1> QED
  BY <1>3 DEF ahead, behind

(* The plan never lets a cycle write to the working tree but to commit     *)
(* edits or bring in commits that are missing, and never settles for less  *)
(* when there is either; a push is all that is needed exactly if upstream  *)
(* lacks commits and there is nothing to commit; and a workflow that only  *)
(* transports commits is blocked exactly when it would have to merge       *)
(* (planCycle).                                                            *)
THEOREM PlanIsRight ==
    ASSUME NEW autoCommits \in BOOLEAN, NEW isDirty \in BOOLEAN, NEW local, NEW upstream
    PROVE  LET plan == PlanCycle(autoCommits, isDirty, Classify(local, upstream))
               edits == autoCommits /\ isDirty
               missing == ~(upstream \subseteq local)
               unpublished == ~(local \subseteq upstream)
           IN  /\ plan = "mutate" <=> edits \/ (missing /\ (autoCommits \/ ~unpublished))
               /\ plan = "push" <=> unpublished /\ ~missing /\ ~edits
               /\ plan = "blocked" <=> unpublished /\ missing /\ ~autoCommits
               /\ plan = "nothing-to-do" <=> ~edits /\ ~missing /\ ~unpublished
<1> DEFINE state == Classify(local, upstream)
<1>1. /\ state = "equal" <=> local \subseteq upstream /\ upstream \subseteq local
      /\ state = "ahead" <=> upstream \subseteq local /\ ~(local \subseteq upstream)
      /\ state = "behind" <=> local \subseteq upstream /\ ~(upstream \subseteq local)
      /\ state = "diverged" <=> ~(local \subseteq upstream) /\ ~(upstream \subseteq local)
      /\ state \in RelativeStates
  BY DEF Classify, RelativeStates
<1> HIDE DEF state
<1>2. CASE state = "equal"
  BY <1>1, <1>2 DEF PlanCycle, state
<1>3. CASE state = "ahead"
  BY <1>1, <1>3 DEF PlanCycle, state
<1>4. CASE state = "behind"
  BY <1>1, <1>4 DEF PlanCycle, state
<1>5. CASE state = "diverged"
  BY <1>1, <1>5 DEF PlanCycle, state
<1> QED
  BY <1>1, <1>2, <1>3, <1>4, <1>5 DEF RelativeStates
=============================================================================
