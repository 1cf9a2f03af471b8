----------------------- MODULE ConflictResolutionProofs ----------------------
(***************************************************************************)
(* What the conflict policies promise, proved of ConflictResolution for    *)
(* any set of files, any names, either policy and any of the failures.     *)
(***************************************************************************)
EXTENDS ConflictResolution, FiniteSetTheorems, TLAPS

USE DEF Locations, Shapes, Contents, vars

ClaudeStep ==
    \/ \E f \in Files : ClaudeSkips(f) \/ ClaudeFails(f) \/ ClaudeResolves(f)
    \/ ClaudeFinishes \/ CommitClaude

LEMMA StagesRange == ASSUME NEW sh \in Shapes PROVE StagesOf(sh) \in SUBSET (1 .. 3)
  BY DEF StagesOf

LEMMA HeadRange == ASSUME NEW f \in Files PROVE Head(f) \in {"ours", "absent"}
  BY DEF Head

LEMMA ConflictedRange ==
    ASSUME NEW f \in Files PROVE Conflicted(f) \in {"ours", "theirs", "markers", "absent"}
  BY DEF Conflicted

LEMMA SavesRange ==
    ASSUME NEW f \in Files, NEW saved \in Saves(f) PROVE saved \subseteq Rescuable(f)
  BY DEF Saves

LEMMA CutsRange ==
    ASSUME NEW f \in Files, NEW saved, NEW cut \in Cuts(f, saved) PROVE cut \subseteq Rescuable(f)
  BY DEF Cuts

LEMMA RescuableRange == ASSUME NEW f \in Files PROVE Rescuable(f) \subseteq {"ours", "theirs"}
  BY DEF Rescuable

(* What backupStage adds to the files the attempt has written, and leaves. *)
LEMMA BackUpAdds ==
    ASSUME NEW f \in Files, NEW saved \in Saves(f) \union {{}}, BackUp(f, saved)
    PROVE  /\ backups' = backups \union ({f} \X saved) /\ saved \subseteq Rescuable(f)
           /\ \E cut \in SUBSET Rescuable(f) : strays' = strays \union ({f} \X cut)
           /\ {"write", "remove"} \intersect Failures = {} => strays' = strays
<1>1. saved \subseteq Rescuable(f) /\ backups' = backups \union ({f} \X saved)
  BY SavesRange DEF BackUp
<1>2. PICK cut \in Cuts(f, saved) : strays' = strays \union ({f} \X cut)
  BY DEF BackUp
<1>3. cut \subseteq Rescuable(f)
  BY <1>2, CutsRange
<1>4. "write" \notin Failures => strays' = strays
  BY <1>2 DEF Cuts
<1> QED
  BY <1>1, <1>2, <1>3, <1>4

(* The three ways in which a file's turn ends in the backup policy.        *)
LEMMA FileBackedUp ==
    ASSUME NEW f \in Files, BackUpAndAccept(f) \/ CannotAccept(f) \/ BackUpFails(f)
    PROVE  /\ \E saved \in SUBSET Rescuable(f) : backups' = backups \union ({f} \X saved)
           /\ \E cut \in SUBSET Rescuable(f) : strays' = strays \union ({f} \X cut)
           /\ {"write", "remove"} \intersect Failures = {} => strays' = strays
<1>1. PICK saved \in Saves(f) \union {{}} : BackUp(f, saved)
  BY DEF BackUpAndAccept, CannotAccept, BackUpFails
<1> QED
  BY <1>1, BackUpAdds

-----------------------------------------------------------------------------
(* Every variable keeps its type under every step of the resolution.       *)
THEOREM TypeCorrect == Spec => []TypeOK
<1>1. Init => TypeOK
  BY HeadRange DEF Init, TypeOK
<1>2. TypeOK /\ [Next]_vars => TypeOK'
  <2> SUFFICES ASSUME TypeOK, [Next]_vars PROVE TypeOK'
    OBVIOUS
  <2>1. CASE MergeStops
    BY <2>1, StagesRange, ConflictedRange DEF MergeStops, TypeOK
  <2>2. CASE ListConflictedFiles
    BY <2>2 DEF ListConflictedFiles, TypeOK
  <2>3. ASSUME NEW f \in Files, ClaudeSkips(f) PROVE TypeOK'
    BY <2>3 DEF ClaudeSkips, FallBack, TypeOK
  <2>4. ASSUME NEW f \in Files, ClaudeFails(f) PROVE TypeOK'
    BY <2>4 DEF ClaudeFails, FallBack, TypeOK
  <2>5. ASSUME NEW f \in Files, ClaudeResolves(f) PROVE TypeOK'
    BY <2>5 DEF ClaudeResolves, TypeOK
  <2>6. CASE ClaudeFinishes \/ CommitClaude
    BY <2>6 DEF ClaudeFinishes, CommitClaude, TypeOK
  <2>7. ASSUME NEW f \in Files, BackUpAndAccept(f) \/ CannotAccept(f) \/ BackUpFails(f)
        PROVE  TypeOK'
    <3>1. /\ backups' \subseteq Files \X {"ours", "theirs"}
          /\ strays' \subseteq Files \X {"ours", "theirs"}
      BY <2>7, FileBackedUp, RescuableRange DEF TypeOK
    <3>2. CASE BackUpAndAccept(f)
      BY <3>1, <3>2 DEF BackUpAndAccept, TypeOK
    <3>3. CASE CannotAccept(f)
      BY <3>1, <3>3 DEF CannotAccept, TypeOK
    <3>4. CASE BackUpFails(f)
      <4>1. work' \in [Files -> Contents]
        BY <3>4 DEF BackUpFails, TypeOK
      <4> QED
        BY <3>1, <3>4, <4>1 DEF BackUpFails, TypeOK
    <3> QED
      BY <2>7, <3>2, <3>3, <3>4
  <2>8. CASE BackUpFinishes \/ CommitBackup
    BY <2>8 DEF BackUpFinishes, CommitBackup, TypeOK
  <2>9. CASE RemoveBackups
    <3>1. backups' = {} /\ strays' \subseteq strays \union backups
      BY <2>9 DEF RemoveBackups, LeftBackups, Unremoved
    <3> QED
      BY <2>9, <3>1 DEF RemoveBackups, TypeOK
  <2>10. CASE MergeAbort \/ MergeAbortFails \/ PersonConcludes
    BY <2>10, HeadRange DEF MergeAbort, MergeAbortFails, PersonConcludes, Aborted, TypeOK
  <2>11. CASE NextConflict
    BY <2>11 DEF NextConflict, TypeOK
  <2>12. CASE UNCHANGED vars
    BY <2>12 DEF TypeOK
  <2> QED
    BY <2>1, <2>2, <2>3, <2>4, <2>5, <2>6, <2>7, <2>8, <2>9, <2>10, <2>11, <2>12
       DEF Next, Resolve
<1> QED
  BY <1>1, <1>2, PTL DEF Spec

-----------------------------------------------------------------------------
(* Backups are listed only from the backup policy's first file to the end  *)
(* of its failed attempt, or to its commit; and nothing strays from the    *)
(* list unless a write or a removal can fail.                              *)
NoneListed == pc \in {"diverged", "list", "claude", "commitClaude", "abort", "open"} => backups = {}

NoneStray == {"write", "remove"} \intersect Failures = {} => strays = {}

LEMMA BackupsInvariant == Spec => [](NoneListed /\ NoneStray)
<1> USE DEF NoneListed, NoneStray
<1>1. Init => NoneListed /\ NoneStray
  BY DEF Init
<1>2. TypeOK /\ NoneListed /\ NoneStray /\ [Next]_vars => (NoneListed /\ NoneStray)'
  <2> SUFFICES ASSUME TypeOK, NoneListed, NoneStray, [Next]_vars PROVE (NoneListed /\ NoneStray)'
    OBVIOUS
  <2>1. CASE MergeStops \/ ListConflictedFiles
    BY <2>1 DEF MergeStops, ListConflictedFiles
  <2>2. CASE ClaudeStep
    BY <2>2 DEF ClaudeStep, ClaudeSkips, ClaudeFails, ClaudeResolves, ClaudeFinishes,
                CommitClaude, FallBack
  <2>3. ASSUME NEW f \in Files, BackUpAndAccept(f) \/ CannotAccept(f) \/ BackUpFails(f)
        PROVE  (NoneListed /\ NoneStray)'
    <3>1. pc' \in {"backup", "cleanUp"}
      BY <2>3 DEF BackUpAndAccept, CannotAccept, BackUpFails
    <3>2. {"write", "remove"} \intersect Failures = {} => strays' = strays
      BY <2>3, FileBackedUp
    <3> QED
      BY <3>1, <3>2
  <2>4. CASE BackUpFinishes \/ CommitBackup
    BY <2>4 DEF BackUpFinishes, CommitBackup
  <2>5. CASE RemoveBackups
    BY <2>5 DEF RemoveBackups, LeftBackups, Unremoved
  <2>6. CASE MergeAbort \/ MergeAbortFails \/ PersonConcludes \/ NextConflict
    BY <2>6 DEF MergeAbort, MergeAbortFails, PersonConcludes, Aborted, NextConflict
  <2>7. CASE UNCHANGED vars
    BY <2>7
  <2> QED
    BY <2>1, <2>2, <2>3, <2>4, <2>5, <2>6, <2>7 DEF Next, Resolve, ClaudeStep
<1> QED
  BY <1>1, <1>2, TypeCorrect, PTL DEF Spec

(* Where no backup file fails to be removed, or is cut off while it is     *)
(* written, an aborted attempt leaves none for the next cycle to commit,   *)
(* whichever of git's commands, claude and the reading of a side fail.     *)
THEOREM AbortsLeaveNoBackups == Spec => []NoLeftoverBackups
<1>1. NoneListed /\ NoneStray => NoLeftoverBackups
  BY DEF NoneListed, NoneStray, NoLeftoverBackups
<1> QED
  BY <1>1, BackupsInvariant, PTL

-----------------------------------------------------------------------------
(* The inductive invariant of the backup policy: the files still to do     *)
(* have every stage the conflict gave them, and each of the others has its *)
(* upstream version and, if there was a local one, its backup - except for *)
(* the files claude had added before it gave up.                           *)
Accepting == pc \in {"backup", "commitBackup"} \/ outcome = "backup"

Treated(f) == Accepted(f) /\ (Head(f) = "ours" => <<f, "ours">> \in backups)

BackupInv ==
    /\ pc \in {"diverged", "list"} => byClaude = {}
    /\ outcome = "backup" => pc = "done" /\ todo = {}
    /\ pc = "commitBackup" => todo = {}
    /\ pc = "list" => stages = [f \in Files |-> StagesOf(shape[f])]
    /\ pc = "claude" => \A f \in Files \ byClaude : stages[f] = StagesOf(shape[f])
    /\ pc = "backup" => \A f \in todo \ byClaude : stages[f] = StagesOf(shape[f])
    /\ Accepting => \A f \in Files \ (todo \union byClaude) : Treated(f)

LEMMA AcceptTreats ==
    ASSUME TypeOK, BackupInv, NEW f \in Files \ byClaude, BackUpAndAccept(f)
    PROVE  Treated(f)'
<1>1. stages[f] = StagesOf(shape[f]) /\ f \notin Quoted
  <2>1. stages[f] = StagesOf(shape[f])
    BY DEF BackUpAndAccept, BackupInv
  <2>2. f \notin Quoted
    BY DEF BackUpAndAccept, Acceptable, UpstreamHas, SeenStages, Removable, Found
  <2> QED
    BY <2>1, <2>2
<1>2. SeenStages(f) = StagesOf(shape[f])
  BY <1>1 DEF SeenStages, Found
<1>3. PICK saved \in Saves(f) :
        /\ OursSafe(f, saved)
        /\ backups' = backups \union ({f} \X saved)
        /\ work' = [work EXCEPT ![f] = IF UpstreamHas(f, saved) THEN "theirs" ELSE "absent"]
  BY DEF BackUpAndAccept, BackUp
<1>4. shape' = shape
  BY DEF BackUpAndAccept
<1>5. Head(f)' = Head(f)
  BY <1>4 DEF Head
<1>6. Head(f) = "ours" => <<f, "ours">> \in backups'
  <2> SUFFICES ASSUME Head(f) = "ours" PROVE <<f, "ours">> \in backups'
    OBVIOUS
  <2>1. 2 \in SeenStages(f)
    BY <1>2 DEF Head
  <2>2. "ours" \in Rescuable(f)
    BY <2>1 DEF Rescuable, StageOf
  <2> QED
    BY <1>3, <2>2 DEF OursSafe
<1>7. work'[f] = IF 3 \in StagesOf(shape[f]) THEN "theirs" ELSE "absent"
  BY <1>2, <1>3 DEF TypeOK, UpstreamHas
<1> QED
  BY <1>4, <1>5, <1>6, <1>7 DEF Treated, Accepted

LEMMA OthersStayTreated ==
    ASSUME TypeOK, NEW f \in Files, BackUpAndAccept(f)
    PROVE  \A g \in Files \ {f} : Treated(g) => Treated(g)'
<1>1. PICK saved \in Saves(f) :
        /\ backups' = backups \union ({f} \X saved)
        /\ work' = [work EXCEPT ![f] = IF UpstreamHas(f, saved) THEN "theirs" ELSE "absent"]
  BY DEF BackUpAndAccept, BackUp
<1>2. shape' = shape
  BY DEF BackUpAndAccept
<1> QED
  BY <1>1, <1>2 DEF TypeOK, Treated, Accepted, Head

LEMMA BackupInductive == ASSUME TypeOK, BackupInv, [Next]_vars PROVE BackupInv'
<1>1. CASE MergeStops
  BY <1>1 DEF MergeStops, BackupInv, Accepting, TypeOK
<1>2. CASE ListConflictedFiles
  BY <1>2 DEF ListConflictedFiles, BackupInv, Accepting, TypeOK
<1>3. CASE ClaudeStep
  <2>1. ASSUME NEW f \in Files, ClaudeSkips(f) \/ ClaudeFails(f) PROVE BackupInv'
    BY <2>1 DEF ClaudeSkips, ClaudeFails, FallBack, BackupInv, Accepting
  <2>2. ASSUME NEW f \in Files, ClaudeResolves(f) PROVE BackupInv'
    BY <2>2 DEF ClaudeResolves, BackupInv, Accepting, TypeOK
  <2>3. CASE ClaudeFinishes \/ CommitClaude
    BY <2>3 DEF ClaudeFinishes, CommitClaude, BackupInv, Accepting
  <2> QED
    BY <1>3, <2>1, <2>2, <2>3 DEF ClaudeStep
<1>4. ASSUME NEW f \in Files, BackUpAndAccept(f) PROVE BackupInv'
  <2>1. /\ pc = "backup" /\ pc' = pc /\ outcome' = outcome /\ shape' = shape
        /\ todo' = todo \ {f} /\ stages' = [stages EXCEPT ![f] = {}] /\ byClaude' = byClaude
    BY <1>4 DEF BackUpAndAccept
  <2>2. \A g \in todo' \ byClaude' : stages'[g] = StagesOf(shape'[g])
    BY <2>1 DEF BackupInv, TypeOK
  <2>3. \A g \in Files \ (todo' \union byClaude') : Treated(g)'
    BY <1>4, <2>1, AcceptTreats, OthersStayTreated DEF BackupInv, Accepting
  <2> QED
    BY <2>1, <2>2, <2>3 DEF BackupInv, Accepting
<1>5. ASSUME NEW f \in Files, CannotAccept(f) \/ BackUpFails(f) PROVE BackupInv'
  BY <1>5 DEF CannotAccept, BackUpFails, BackupInv, Accepting
<1>6. CASE BackUpFinishes \/ CommitBackup
  BY <1>6 DEF BackUpFinishes, CommitBackup, BackupInv, Accepting, Treated, Accepted, Head
<1>7. CASE RemoveBackups \/ MergeAbort \/ MergeAbortFails \/ PersonConcludes
  BY <1>7 DEF RemoveBackups, MergeAbort, MergeAbortFails, PersonConcludes, Aborted, BackupInv,
              Accepting
<1>8. CASE NextConflict
  BY <1>8 DEF NextConflict, BackupInv, Accepting
<1>9. CASE UNCHANGED vars
  BY <1>9 DEF BackupInv, Accepting, Treated, Accepted, Head
<1> QED
  BY <1>1, <1>2, <1>3, <1>4, <1>5, <1>6, <1>7, <1>8, <1>9 DEF Next, Resolve, ClaudeStep

LEMMA BackupInvariant == Spec => []BackupInv
<1>1. Init => BackupInv
  BY DEF Init, BackupInv, Accepting
<1> QED
  BY <1>1, BackupInductive, TypeCorrect, PTL DEF Spec

(* No local side is replaced or removed by the backup policy before it is  *)
(* in a whole backup file, whichever reads, writes and commands fail.      *)
THEOREM OursIsRescued == Spec => []OursRescued
<1>1. BackupInv => OursRescued
  BY DEF BackupInv, Accepting, Treated, OursRescued
<1> QED
  BY <1>1, BackupInvariant, PTL

(* A merge committed by the backup policy, chosen or fallen back on, has   *)
(* exactly upstream's version of every file claude had not added.          *)
THEOREM UpstreamIsAccepted == Spec => []FallbackAccepts
<1>1. BackupInv => FallbackAccepts
  BY DEF BackupInv, Accepting, Treated, FallbackAccepts
<1> QED
  BY <1>1, BackupInvariant, PTL

-----------------------------------------------------------------------------
(* The inductive invariant of claude's attempt: the files it has yet to    *)
(* look at are as the conflict left them, and those it has added had text  *)
(* with markers.                                                           *)
Shown(f) == f \in Lookalikes \/ shape[f] = "text"

ClaudeInv ==
    /\ pc = "list" => \A f \in Files : work[f] = Conflicted(f)
    /\ pc = "claude" => \A f \in todo : work[f] = Conflicted(f)
    /\ pc \in {"claude", "commitClaude"} => \A f \in Files \ todo : Shown(f)
    /\ pc = "commitClaude" => todo = {}
    /\ outcome = "claude" => pc = "done" /\ \A f \in Files : Shown(f)

LEMMA MarkersMeanText ==
    ASSUME NEW f \in Files, shape[f] \in Shapes, work[f] = Conflicted(f), HasMarkers(f)
    PROVE  Shown(f)
  BY DEF HasMarkers, Conflicted, Shown

LEMMA ClaudeInductive == ASSUME TypeOK, ClaudeInv, [Next]_vars PROVE ClaudeInv'
<1>1. CASE MergeStops
  BY <1>1 DEF MergeStops, ClaudeInv, Conflicted
<1>2. CASE ListConflictedFiles
  BY <1>2 DEF ListConflictedFiles, ClaudeInv, Conflicted
<1>3. CASE ClaudeStep
  <2>1. ASSUME NEW f \in Files, ClaudeSkips(f) \/ ClaudeFails(f) PROVE ClaudeInv'
    BY <2>1 DEF ClaudeSkips, ClaudeFails, FallBack, ClaudeInv
  <2>2. ASSUME NEW f \in Files, ClaudeResolves(f) PROVE ClaudeInv'
    <3>1. f \in todo /\ pc = "claude" /\ HasMarkers(f) /\ work[f] = Conflicted(f)
      BY <2>2 DEF ClaudeResolves, ClaudeInv
    <3>2. Shown(f)
      BY <3>1, MarkersMeanText DEF TypeOK
    <3>3. /\ pc' = "claude" /\ shape' = shape /\ outcome' = outcome /\ todo' = todo \ {f}
          /\ \A g \in Files \ {f} : work'[g] = work[g]
      BY <2>2, <3>1 DEF ClaudeResolves, TypeOK
    <3> QED
      BY <3>1, <3>2, <3>3 DEF ClaudeInv, Shown, Conflicted, TypeOK
  <2>3. CASE ClaudeFinishes \/ CommitClaude
    BY <2>3 DEF ClaudeFinishes, CommitClaude, ClaudeInv, Shown
  <2> QED
    BY <1>3, <2>1, <2>2, <2>3 DEF ClaudeStep
<1>4. ASSUME NEW f \in Files, BackUpAndAccept(f) \/ CannotAccept(f) \/ BackUpFails(f)
      PROVE  ClaudeInv'
  BY <1>4 DEF BackUpAndAccept, CannotAccept, BackUpFails, ClaudeInv
<1>5. CASE BackUpFinishes \/ CommitBackup
  BY <1>5 DEF BackUpFinishes, CommitBackup, ClaudeInv
<1>6. CASE RemoveBackups \/ MergeAbort \/ MergeAbortFails \/ PersonConcludes
  BY <1>6 DEF RemoveBackups, MergeAbort, MergeAbortFails, PersonConcludes, Aborted, ClaudeInv
<1>7. CASE NextConflict
  BY <1>7 DEF NextConflict, ClaudeInv
<1>8. CASE UNCHANGED vars
  BY <1>8 DEF ClaudeInv, Shown, Conflicted
<1> QED
  BY <1>1, <1>2, <1>3, <1>4, <1>5, <1>6, <1>7, <1>8 DEF Next, Resolve, ClaudeStep

LEMMA ClaudeInvariant == Spec => []ClaudeInv
<1>1. Init => ClaudeInv
  BY DEF Init, ClaudeInv
<1> QED
  BY <1>1, ClaudeInductive, TypeCorrect, PTL DEF Spec

(* claude never settles a conflict of which it was shown only one side,    *)
(* unless the text of the file itself looks like a marker.                 *)
THEOREM ClaudeSeesBothSides == Spec => []ClaudeSawBothSides
<1>1. ClaudeInv => ClaudeSawBothSides
  BY DEF ClaudeInv, Shown, ClaudeSawBothSides
<1> QED
  BY <1>1, ClaudeInvariant, PTL

-----------------------------------------------------------------------------
(* The refinement of ConflictSettlement.  Its invariant says at which      *)
(* places the index is merged and the tree is the branch's own, what       *)
(* claude has left behind, and that every backup, listed or stray, is of a *)
(* side that existed, the listed ones of a file claude had not added.      *)
Places ==
    /\ outcome # "none" <=> pc = "done"
    /\ pc = "diverged" => work = [f \in Files |-> Head(f)]
    /\ pc \in {"diverged", "commitClaude", "commitBackup", "done"} =>
          \A f \in Files : stages[f] = {}
    /\ pc = "backup" => \A f \in Files \ todo : stages[f] = {}
    /\ \A f \in Files : stages[f] \subseteq StagesOf(shape[f])

Added ==
    /\ \A f \in byClaude : stages[f] = {} /\ Shown(f)
    /\ pc = "claude" => Files = todo \union byClaude
    /\ pc = "commitClaude" => Files = byClaude
    /\ pc \in {"claude", "commitClaude"} =>
          \A f \in byClaude : work[f] \in {"ours", "theirs", "merged"}
    /\ pc \in {"backup", "commitBackup"} =>
          \A f \in byClaude \ todo : work[f] = "absent" /\ Head(f) = "ours"

Sides == {b \in Files \X {"ours", "theirs"} : StageOf(b[2]) \in StagesOf(shape[b[1]])}
Kept == (\A b \in backups : b \in Sides /\ b[1] \notin byClaude) /\ strays \subseteq Sides

SettleInv ==
    TypeOK /\ NoneListed /\ NoneStray /\ BackupInv /\ ClaudeInv /\ Places /\ Added /\ Kept

LEMMA AddedStep == ASSUME SettleInv, [Next]_vars PROVE Added'
<1> USE DEF SettleInv, TypeOK, Added, Shown
<1>1. CASE MergeStops \/ ListConflictedFiles
  BY <1>1 DEF MergeStops, ListConflictedFiles, BackupInv
<1>2. ASSUME NEW f \in Files, ClaudeSkips(f) \/ ClaudeFails(f) PROVE Added'
  BY <1>2 DEF ClaudeSkips, ClaudeFails, FallBack
<1>3. ASSUME NEW f \in Files, ClaudeResolves(f) PROVE Added'
  <2>1. Shown(f)
    BY <1>3, MarkersMeanText DEF ClaudeResolves, ClaudeInv
  <2> QED
    BY <1>3, <2>1 DEF ClaudeResolves
<1>4. CASE ClaudeFinishes \/ CommitClaude
  BY <1>4 DEF ClaudeFinishes, CommitClaude
<1>5. ASSUME NEW f \in Files, BackUpAndAccept(f) PROVE Added'
  <2>1. /\ pc = "backup" /\ pc' = pc /\ shape' = shape /\ byClaude' = byClaude
        /\ todo' = todo \ {f} /\ stages' = [stages EXCEPT ![f] = {}]
        /\ \A g \in Files : Head(g)' = Head(g)
    BY <1>5 DEF BackUpAndAccept, Head
  <2>2. PICK saved \in Saves(f) :
          /\ Acceptable(f, saved)
          /\ work' = [work EXCEPT ![f] = IF UpstreamHas(f, saved) THEN "theirs" ELSE "absent"]
    BY <1>5 DEF BackUpAndAccept
  <2>3. f \in byClaude => work'[f] = "absent" /\ Head(f) = "ours"
    BY <2>2, HeadRange DEF Acceptable, UpstreamHas, SeenStages, Removable
  <2> QED
    BY <2>1, <2>2, <2>3
<1>6. ASSUME NEW f \in Files, CannotAccept(f) \/ BackUpFails(f) PROVE Added'
  BY <1>6 DEF CannotAccept, BackUpFails
<1>7. CASE BackUpFinishes \/ CommitBackup
  BY <1>7 DEF BackUpFinishes, CommitBackup, Head
<1>8. CASE RemoveBackups \/ MergeAbort \/ MergeAbortFails \/ PersonConcludes
  BY <1>8 DEF RemoveBackups, MergeAbort, MergeAbortFails, PersonConcludes, Aborted
<1>9. CASE NextConflict
  BY <1>9 DEF NextConflict
<1>10. CASE UNCHANGED vars
  BY <1>10 DEF Head
<1> QED
  BY <1>1, <1>2, <1>3, <1>4, <1>5, <1>6, <1>7, <1>8, <1>9, <1>10 DEF Next, Resolve

LEMMA PlacesStep == ASSUME SettleInv, [Next]_vars PROVE Places'
<1> USE DEF SettleInv, TypeOK, Places
<1>1. CASE MergeStops
  BY <1>1 DEF MergeStops
<1>2. CASE ListConflictedFiles
  BY <1>2 DEF ListConflictedFiles
<1>3. ASSUME NEW f \in Files, ClaudeSkips(f) \/ ClaudeFails(f) \/ ClaudeResolves(f) PROVE Places'
  BY <1>3 DEF ClaudeSkips, ClaudeFails, ClaudeResolves, FallBack
<1>4. CASE ClaudeFinishes \/ CommitClaude
  BY <1>4 DEF ClaudeFinishes, CommitClaude, Added
<1>5. ASSUME NEW f \in Files, BackUpAndAccept(f) PROVE Places'
  BY <1>5 DEF BackUpAndAccept
<1>6. ASSUME NEW f \in Files, CannotAccept(f) \/ BackUpFails(f) PROVE Places'
  BY <1>6 DEF CannotAccept, BackUpFails
<1>7. CASE BackUpFinishes \/ CommitBackup
  BY <1>7 DEF BackUpFinishes, CommitBackup
<1>8. CASE RemoveBackups \/ MergeAbortFails
  BY <1>8 DEF RemoveBackups, MergeAbortFails
<1>9. CASE MergeAbort \/ PersonConcludes
  BY <1>9 DEF MergeAbort, PersonConcludes, Aborted, Head
<1>10. CASE NextConflict
  BY <1>10 DEF NextConflict, Head
<1>11. CASE UNCHANGED vars
  BY <1>11 DEF Head
<1> QED
  BY <1>1, <1>2, <1>3, <1>4, <1>5, <1>6, <1>7, <1>8, <1>9, <1>10, <1>11 DEF Next, Resolve

(* What backupStage saves, or leaves, of a file comes from its stages.     *)
LEMMA SavedSides ==
    ASSUME SettleInv, NEW f \in Files, NEW sides \in SUBSET Rescuable(f)
    PROVE  \A b \in {f} \X sides : b \in Sides /\ b[1] \notin byClaude
<1> SUFFICES ASSUME NEW side \in sides PROVE <<f, side>> \in Sides /\ f \notin byClaude
  OBVIOUS
<1>1. side \in {"ours", "theirs"} /\ StageOf(side) \in SeenStages(f)
  BY DEF Rescuable
<1>2. StageOf(side) \in stages[f]
  BY <1>1 DEF SeenStages
<1> QED
  BY <1>1, <1>2 DEF SettleInv, Places, Added, Sides

LEMMA KeptStep == ASSUME SettleInv, [Next]_vars PROVE Kept'
<1> USE DEF SettleInv, Kept, Sides
<1>1. CASE MergeStops \/ ListConflictedFiles
  BY <1>1 DEF MergeStops, ListConflictedFiles
<1>2. CASE ClaudeStep
  BY <1>2 DEF ClaudeStep, ClaudeSkips, ClaudeFails, ClaudeResolves, ClaudeFinishes,
              CommitClaude, FallBack, NoneListed
<1>3. ASSUME NEW f \in Files, BackUpAndAccept(f) \/ CannotAccept(f) \/ BackUpFails(f) PROVE Kept'
  <2>1. PICK saved \in SUBSET Rescuable(f) : backups' = backups \union ({f} \X saved)
    BY <1>3, FileBackedUp
  <2>2. PICK cut \in SUBSET Rescuable(f) : strays' = strays \union ({f} \X cut)
    BY <1>3, FileBackedUp
  <2>3. shape' = shape /\ byClaude' = byClaude
    BY <1>3 DEF BackUpAndAccept, CannotAccept, BackUpFails
  <2>4. \A b \in backups' : b \in Sides /\ b[1] \notin byClaude
    BY <2>1, SavedSides
  <2>5. strays' \subseteq Sides
    BY <2>2, SavedSides
  <2> QED
    BY <2>3, <2>4, <2>5
<1>4. CASE BackUpFinishes \/ CommitBackup
  BY <1>4 DEF BackUpFinishes, CommitBackup
<1>5. CASE RemoveBackups
  BY <1>5 DEF RemoveBackups, LeftBackups, Unremoved
<1>6. CASE MergeAbort \/ MergeAbortFails \/ PersonConcludes \/ NextConflict
  BY <1>6 DEF MergeAbort, MergeAbortFails, PersonConcludes, Aborted, NextConflict, NoneListed
<1>7. CASE UNCHANGED vars
  BY <1>7
<1> QED
  BY <1>1, <1>2, <1>3, <1>4, <1>5, <1>6, <1>7 DEF Next, Resolve, ClaudeStep

LEMMA SettleInvariant == Spec => []SettleInv
<1>1. Init => Places /\ Added /\ Kept
  BY HeadRange DEF Init, Places, Added, Kept
<1>2. SettleInv /\ [Next]_vars => (Places /\ Added /\ Kept)'
  BY PlacesStep, AddedStep, KeptStep
<1> QED
  BY <1>1, <1>2, TypeCorrect, BackupsInvariant, BackupInvariant, ClaudeInvariant, PTL
     DEF Spec, SettleInv

(* The mapped variables of ConflictSettlement.                             *)
LocalFiles == {f \in Files : 2 \in StagesOf(shape[f])}
UpstreamFiles == {f \in Files : 3 \in StagesOf(shape[f])}
SeenTree == IF pc \in {"diverged", "done"} THEN work ELSE [f \in Files |-> Head(f)]
SeenBackups == IF pc \in {"diverged", "done"} THEN backups ELSE {}

LEMMA ShownSides ==
    ASSUME NEW f \in Files, Shown(f)
    PROVE  f \in (LocalFiles \intersect UpstreamFiles) \union Lookalikes
  BY DEF Shown, LocalFiles, UpstreamFiles, StagesOf

(* The commit of claude's resolution shows every file settled.             *)
LEMMA ClaudeCommits ==
    ASSUME SettleInv, CommitClaude, outcome' = "claude"
    PROVE  Settlement!AssistantSettles
<1>1. pc = "commitClaude" /\ pc' = "done" /\ work' = work /\ backups' = {}
  BY DEF CommitClaude, SettleInv, NoneListed, Places, TypeOK
<1>2. work' \in [Files -> {"ours", "theirs", "merged"}]
  BY <1>1 DEF SettleInv, Added, TypeOK
<1>3. \A f \in Files : Shown(f)
  BY <1>1 DEF SettleInv, Added
<1> QED
  BY <1>1, <1>2, <1>3, ShownSides DEF Settlement!AssistantSettles, Settlement!Presentable,
     LocalFiles, UpstreamFiles

(* The commit of the backup policy shows upstream's files, with the local  *)
(* ones beside them; the files claude had added are the ones it drops.     *)
LEMMA BackupCommits ==
    ASSUME SettleInv, CommitBackup, outcome' = "backup"
    PROVE  Settlement!UpstreamWins
<1>1. /\ pc = "commitBackup" /\ pc' = "done" /\ todo = {}
      /\ work' = work /\ backups' = backups /\ shape' = shape
  BY DEF CommitBackup, SettleInv, BackupInv, Places, TypeOK
<1>2. byClaude \in SUBSET (LocalFiles \intersect
                           ((LocalFiles \intersect UpstreamFiles) \union Lookalikes))
  BY <1>1, ShownSides DEF SettleInv, Added, TypeOK, Head, LocalFiles
<1>3. work = [f \in Files |-> IF f \in UpstreamFiles \intersect (Files \ byClaude)
                              THEN "theirs" ELSE "absent"]
  <2>1. \A f \in Files \ byClaude : work[f] = IF f \in UpstreamFiles THEN "theirs" ELSE "absent"
    BY <1>1 DEF SettleInv, BackupInv, Accepting, Treated, Accepted, UpstreamFiles
  <2>2. \A f \in byClaude : work[f] = "absent"
    BY <1>1 DEF SettleInv, Added
  <2> QED
    BY <2>1, <2>2 DEF SettleInv, TypeOK
<1>4. (LocalFiles \intersect (Files \ byClaude)) \X {"ours"} \subseteq backups
  BY <1>1 DEF SettleInv, BackupInv, Accepting, Treated, Head, LocalFiles
<1>5. backups \subseteq ((LocalFiles \intersect (Files \ byClaude)) \X {"ours"})
                         \union ((UpstreamFiles \intersect (Files \ byClaude)) \X {"theirs"})
  <2> SUFFICES ASSUME NEW b \in backups
               PROVE  \/ b \in (LocalFiles \intersect (Files \ byClaude)) \X {"ours"}
                      \/ b \in (UpstreamFiles \intersect (Files \ byClaude)) \X {"theirs"}
    OBVIOUS
  <2>1. /\ b \in Files \X {"ours", "theirs"} /\ StageOf(b[2]) \in StagesOf(shape[b[1]])
        /\ b[1] \notin byClaude
    BY DEF SettleInv, Kept, Sides
  <2>2. CASE b[2] = "ours"
    BY <2>1, <2>2 DEF StageOf, LocalFiles
  <2>3. CASE b[2] = "theirs"
    BY <2>1, <2>3 DEF StageOf, UpstreamFiles
  <2> QED
    BY <2>1, <2>2, <2>3
<1>6. SeenTree' = work /\ SeenBackups' = backups
  BY <1>1 DEF SeenTree, SeenBackups
<1> QED
  BY <1>2, <1>3, <1>4, <1>5, <1>6 DEF Settlement!UpstreamWins, Settlement!Presentable,
     LocalFiles, UpstreamFiles, SeenTree, SeenBackups

LEMMA PersonCommits ==
    ASSUME SettleInv, PersonConcludes, outcome' = "person", outcome = "none"
    PROVE  Settlement!PersonSettles
  BY DEF SettleInv, TypeOK, NoneListed, PersonConcludes, Aborted,
         Settlement!PersonSettles, Settlement!Contents

(* A command that changes what has strayed is an abstract step of its own. *)
SeenButLitter == <<LocalFiles, UpstreamFiles, SeenTree, SeenBackups, outcome>>

(* Every other command is hidden, but for the litter it leaves.            *)
LEMMA Unseen ==
    ASSUME SettleInv, [Next]_vars, ~NextConflict, outcome' = outcome
    PROVE  UNCHANGED SeenButLitter /\ (strays' # strays => outcome = "none")
<1> USE DEF SettleInv, TypeOK, Places, SeenButLitter, LocalFiles, UpstreamFiles, SeenTree,
            SeenBackups
<1>1. ASSUME shape' = shape PROVE \A f \in Files : Head(f)' = Head(f)
  BY <1>1 DEF Head
<1>2. CASE MergeStops
  BY <1>1, <1>2 DEF MergeStops, NoneListed
<1>3. CASE ListConflictedFiles
  BY <1>1, <1>3 DEF ListConflictedFiles
<1>4. CASE ClaudeStep
  BY <1>1, <1>4 DEF ClaudeStep, ClaudeSkips, ClaudeFails, ClaudeResolves, ClaudeFinishes,
                    CommitClaude, FallBack
<1>5. ASSUME NEW f \in Files, BackUpAndAccept(f) \/ CannotAccept(f) \/ BackUpFails(f)
      PROVE  UNCHANGED SeenButLitter /\ (strays' # strays => outcome = "none")
  BY <1>1, <1>5 DEF BackUpAndAccept, CannotAccept, BackUpFails
<1>6. CASE BackUpFinishes \/ CommitBackup
  BY <1>1, <1>6 DEF BackUpFinishes, CommitBackup
<1>7. CASE RemoveBackups \/ MergeAbortFails
  BY <1>1, <1>7 DEF RemoveBackups, MergeAbortFails
<1>8. CASE MergeAbort \/ PersonConcludes
  BY <1>1, <1>8 DEF MergeAbort, PersonConcludes, Aborted, NoneListed, Head
<1>9. CASE UNCHANGED vars
  BY <1>1, <1>9
<1> QED
  BY <1>2, <1>3, <1>4, <1>5, <1>6, <1>7, <1>8, <1>9 DEF Next, Resolve, ClaudeStep

(* What is left lying around are copies of sides that there are.           *)
LEMMA LitterStep ==
    ASSUME SettleInv, SettleInv', strays' # strays, outcome = "none", UNCHANGED SeenButLitter
    PROVE  Settlement!Litter
<1>1. {"write", "remove"} \intersect Failures # {}
  BY DEF SettleInv, NoneStray
<1>2. strays' \subseteq (LocalFiles' \X {"ours"}) \union (UpstreamFiles' \X {"theirs"})
  <2> SUFFICES ASSUME NEW b \in strays'
               PROVE  b \in LocalFiles' \X {"ours"} \/ b \in UpstreamFiles' \X {"theirs"}
    OBVIOUS
  <2>1. b \in Files \X {"ours", "theirs"} /\ StageOf(b[2]) \in StagesOf(shape'[b[1]])
    BY DEF SettleInv, Kept, Sides
  <2>2. CASE b[2] = "ours"
    BY <2>1, <2>2 DEF StageOf, LocalFiles
  <2>3. CASE b[2] = "theirs"
    BY <2>1, <2>3 DEF StageOf, UpstreamFiles
  <2> QED
    BY <2>1, <2>2, <2>3
<1>3. strays' \subseteq (LocalFiles \X {"ours"}) \union (UpstreamFiles \X {"theirs"})
  BY <1>2 DEF SeenButLitter
<1> QED
  BY <1>1, <1>3 DEF Settlement!Litter, SeenButLitter, LocalFiles, UpstreamFiles, SeenTree,
                    SeenBackups

LEMMA SettlementStep ==
    ASSUME SettleInv, SettleInv', [Next]_vars PROVE [Settlement!Next]_(Settlement!vars)
<1>1. CASE NextConflict
  BY <1>1 DEF NextConflict, SettleInv, Places, Head, Settlement!Next, Settlement!DivergesAgain,
     Settlement!Diverges, Settlement!LocalTree
<1>2. CASE outcome' # outcome /\ ~NextConflict
  <2>1. \/ CommitClaude /\ outcome' = "claude"
        \/ CommitBackup /\ outcome' = "backup"
        \/ PersonConcludes /\ outcome' = "person"
    BY <1>2 DEF Next, Resolve, MergeStops, ListConflictedFiles, ClaudeSkips, ClaudeFails,
       ClaudeResolves, ClaudeFinishes, CommitClaude, FallBack, BackUpAndAccept, CannotAccept,
       BackUpFails, BackUpFinishes, CommitBackup, RemoveBackups, MergeAbort, MergeAbortFails,
       PersonConcludes, Aborted, vars
  <2>2. outcome = "none" /\ shape' = shape
    BY <2>1 DEF SettleInv, Places, TypeOK, CommitClaude, CommitBackup, PersonConcludes, Aborted
  <2>3. strays' = strays
    BY <1>2, <2>1 DEF CommitClaude, CommitBackup, PersonConcludes, Aborted, SettleInv, Places
  <2>4. Settlement!Settle
    BY <2>1, <2>2, <2>3, ClaudeCommits, BackupCommits, PersonCommits
       DEF Settlement!Settle
  <2> QED
    BY <2>4 DEF Settlement!Next
<1>3. CASE outcome' = outcome /\ ~NextConflict
  <2>1. UNCHANGED SeenButLitter /\ (strays' # strays => outcome = "none")
    BY <1>3, Unseen
  <2>2. CASE strays' = strays
    BY <2>1, <2>2 DEF SeenButLitter, Settlement!vars, LocalFiles, UpstreamFiles, SeenTree,
                      SeenBackups
  <2>3. CASE strays' # strays
    BY <2>1, <2>3, LitterStep DEF Settlement!Next
  <2> QED
    BY <2>2, <2>3
<1> QED
  BY <1>1, <1>2, <1>3

(* A resolution settles every conflicting file in one step of what others  *)
(* see, or leaves no trace but the backup files it could not remove and    *)
(* what is left of those it could not write: ConflictResolution implements *)
(* ConflictSettlement (resolveConflicts).                                  *)
THEOREM ResolutionIsSettlement == Spec => SettlesAtOnce
<1>1. Init => Settlement!Diverges
  BY DEF Init, Head, Settlement!Diverges, Settlement!LocalTree
<1> QED
  BY <1>1, SettlementStep, SettleInvariant, PTL DEF Spec, SettlesAtOnce, Settlement!Spec

(* No resolution of gitloop's own is committed with a conflict marker in   *)
(* it: derived from the refinement.                                        *)
THEOREM MarkersAreNotCommitted == Spec => []Settlement!NoMarkers
<1> USE DEF Settlement!NoMarkers
<1>1. Settlement!Diverges => Settlement!NoMarkers
  BY DEF Settlement!Diverges
<1>2. Settlement!NoMarkers /\ [Settlement!Next]_(Settlement!vars) => Settlement!NoMarkers'
  <2>1. ASSUME Settlement!Settle PROVE Settlement!NoMarkers'
    BY <2>1 DEF Settlement!Settle, Settlement!AssistantSettles, Settlement!UpstreamWins,
                Settlement!PersonSettles
  <2>2. ASSUME Settlement!NoMarkers, Settlement!Litter PROVE Settlement!NoMarkers'
    BY <2>2 DEF Settlement!Litter
  <2>3. ASSUME Settlement!DivergesAgain PROVE Settlement!NoMarkers'
    BY <2>3 DEF Settlement!DivergesAgain, Settlement!Diverges
  <2>4. ASSUME Settlement!NoMarkers, UNCHANGED Settlement!vars PROVE Settlement!NoMarkers'
    BY <2>4 DEF Settlement!vars
  <2> QED
    BY <2>1, <2>2, <2>3, <2>4 DEF Settlement!Next
<1> QED
  BY <1>1, <1>2, ResolutionIsSettlement, PTL DEF SettlesAtOnce, Settlement!Spec

-----------------------------------------------------------------------------
(* With the backup policy nothing is settled before a backup, so that      *)
(* upstream's version is accepted of every file.                           *)
BackupOnly == byClaude = {} /\ pc \notin {"claude", "commitClaude"}

(* Under the backup policy the whole of ConflictStages' promise holds, for *)
(* every file, name and failing command: only a fallback can break it.     *)
THEOREM BackupPolicyAcceptsUpstream ==
    ASSUME OnConflict = "backup" PROVE Spec => []UpstreamAccepted
<1>1. Init => BackupOnly
  BY DEF Init, BackupOnly
<1>2. BackupOnly /\ [Next]_vars => BackupOnly'
  <2> SUFFICES ASSUME BackupOnly, [Next]_vars PROVE BackupOnly'
    OBVIOUS
  <2> USE DEF BackupOnly
  <2>1. CASE MergeStops \/ ListConflictedFiles
    BY <2>1 DEF MergeStops, ListConflictedFiles
  <2>2. ~ClaudeStep
    BY DEF ClaudeStep, ClaudeSkips, ClaudeFails, ClaudeResolves, ClaudeFinishes, CommitClaude
  <2>3. ASSUME NEW f \in Files, BackUpAndAccept(f) \/ CannotAccept(f) \/ BackUpFails(f)
        PROVE  BackupOnly'
    BY <2>3 DEF BackUpAndAccept, CannotAccept, BackUpFails
  <2>4. CASE BackUpFinishes \/ CommitBackup \/ RemoveBackups
    BY <2>4 DEF BackUpFinishes, CommitBackup, RemoveBackups
  <2>5. CASE MergeAbort \/ MergeAbortFails \/ PersonConcludes \/ NextConflict
    BY <2>5 DEF MergeAbort, MergeAbortFails, PersonConcludes, Aborted, NextConflict
  <2>6. CASE UNCHANGED vars
    BY <2>6
  <2> QED
    BY <2>1, <2>2, <2>3, <2>4, <2>5, <2>6 DEF Next, Resolve, ClaudeStep
<1>3. BackupOnly /\ FallbackAccepts => UpstreamAccepted
  BY DEF BackupOnly, FallbackAccepts, UpstreamAccepted
<1> QED
  BY <1>1, <1>2, <1>3, UpstreamIsAccepted, PTL DEF Spec

-----------------------------------------------------------------------------
(* The end of an attempt.                                                  *)
LEMMA FewerToDo ==
    ASSUME TypeOK, NEW f \in todo, todo' = todo \ {f}
    PROVE  Cardinality(todo') < Cardinality(todo)
<1>1. IsFiniteSet(todo)
  BY FS_Subset, FilesAssumption DEF TypeOK
<1>2. Cardinality(todo) \in Nat /\ Cardinality(todo') = Cardinality(todo) - 1
  BY <1>1, FS_CardinalityType, FS_RemoveElement
<1> QED
  BY <1>2

LEMMA ResolveStep ==
    ASSUME TypeOK, Resolve
    PROVE  \/ PassesLeft' < PassesLeft
           \/ PassesLeft' = PassesLeft /\ Cardinality(todo') < Cardinality(todo)
<1>1. CASE ListConflictedFiles
  BY <1>1 DEF ListConflictedFiles, PassesLeft
<1>2. ASSUME NEW f \in Files, ClaudeSkips(f) \/ ClaudeFails(f)
      PROVE  PassesLeft' < PassesLeft
  BY <1>2 DEF ClaudeSkips, ClaudeFails, FallBack, PassesLeft
<1>3. ASSUME NEW f \in Files, ClaudeResolves(f) \/ BackUpAndAccept(f)
      PROVE  PassesLeft' = PassesLeft /\ Cardinality(todo') < Cardinality(todo)
  BY <1>3, FewerToDo DEF ClaudeResolves, BackUpAndAccept, PassesLeft
<1>4. CASE ClaudeFinishes \/ CommitClaude \/ BackUpFinishes \/ CommitBackup
  BY <1>4 DEF ClaudeFinishes, CommitClaude, BackUpFinishes, CommitBackup, PassesLeft
<1>5. ASSUME NEW f \in Files, CannotAccept(f) \/ BackUpFails(f) PROVE PassesLeft' < PassesLeft
  BY <1>5 DEF CannotAccept, BackUpFails, PassesLeft
<1>6. CASE RemoveBackups \/ MergeAbort \/ MergeAbortFails
  BY <1>6 DEF RemoveBackups, MergeAbort, Aborted, MergeAbortFails, PassesLeft
<1> QED
  BY <1>1, <1>2, <1>3, <1>4, <1>5, <1>6 DEF Resolve

(* No attempt to resolve a conflict goes on for ever: each of its commands *)
(* leaves fewer files of its pass, or fewer passes.                        *)
THEOREM AttemptsEnd == Spec => AttemptEnds
<1>1. TypeOK /\ [Next]_vars =>
        [Resolve => \/ PassesLeft' < PassesLeft
                    \/ /\ PassesLeft' = PassesLeft
                       /\ Cardinality(todo') < Cardinality(todo)]_vars
  BY ResolveStep
<1> QED
  BY <1>1, TypeCorrect, PTL DEF Spec, AttemptEnds
=============================================================================
