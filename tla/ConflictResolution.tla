-------------------------- MODULE ConflictResolution -------------------------
(***************************************************************************)
(* resolveConflicts: what gitloop does with the files of a merge that      *)
(* stopped on a conflict, command by command.  The index keeps stages 1    *)
(* (ancestor), 2 (ours) and 3 (theirs) of an unmerged path and nothing but *)
(* its resolved content afterwards; contents are "ours", "theirs", the     *)
(* two "merged", with "markers", or "absent".  A failed resolution leaves  *)
(* the branch diverged, so the next cycle meets the same conflict.         *)
(***************************************************************************)
EXTENDS Naturals, FiniteSets

CONSTANTS
    Files,       \* the conflicting files
    OnConflict,  \* the configured policy
    Quoted,      \* files whose names `git status --porcelain` quotes
    Lookalikes,  \* files whose text contains a row of equals signs
    Failures     \* what may fail: git's commands and `merge --abort`, the reading
                 \* of a side, the writing and the removal of a backup, claude

ASSUME PolicyAssumption == OnConflict \in {"backup", "claude"}
ASSUME FilesAssumption == IsFiniteSet(Files) /\ Quoted \subseteq Files /\ Lookalikes \subseteq Files
ASSUME FailuresAssumption ==
    Failures \subseteq {"git", "abort", "read", "write", "remove", "claude"}

Shapes == {"text", "opaque", "deletedByThem", "deletedByUs", "renamedByBoth"}
Contents == {"ours", "theirs", "merged", "markers", "absent"}

VARIABLES
    pc,       \* where the resolution is
    shape,    \* how each file conflicts
    stages,   \* index stages of each file, {} once it is resolved
    entry,    \* its resolved content in the index
    work,     \* its content in the working tree
    todo,     \* files the current loop has yet to treat
    backups,  \* backup files this attempt has `written`, as <<file, side>>
    strays,   \* backup files it has left on disk, whole or cut off, unlisted
    outcome,  \* how the merge ended
    byClaude  \* history variable: files claude has settled in this attempt

vars == <<pc, shape, stages, entry, work, todo, backups, strays, outcome, byClaude>>

Locations == {"diverged", "list", "claude", "commitClaude", "backup", "commitBackup",
              "cleanUp", "abort", "open", "done"}

TypeOK ==
    /\ pc \in Locations
    /\ shape \in [Files -> Shapes]
    /\ stages \in [Files -> SUBSET (1 .. 3)]
    /\ entry \in [Files -> Contents] /\ work \in [Files -> Contents]
    /\ todo \subseteq Files
    /\ backups \subseteq Files \X {"ours", "theirs"}
    /\ strays \subseteq Files \X {"ours", "theirs"}
    /\ outcome \in {"none", "claude", "backup", "person"}
    /\ byClaude \subseteq Files

(* What a conflict of each shape puts in the index and the working tree.   *)
StagesOf(sh) ==
    CASE sh \in {"text", "opaque"} -> {1, 2, 3}
      [] sh = "deletedByThem"      -> {1, 2}
      [] sh = "deletedByUs"        -> {1, 3}
      [] sh = "renamedByBoth"      -> {1}

Head(f) == IF 2 \in StagesOf(shape[f]) THEN "ours" ELSE "absent"

Conflicted(f) ==
    CASE shape[f] = "text"          -> "markers"
      [] shape[f] = "deletedByUs"   -> "theirs"
      [] shape[f] = "renamedByBoth" -> "absent"
      [] OTHER                      -> "ours"

(* The path StatusPorcelain reports for a quoted file names nothing.       *)
Found(f) == f \notin Quoted

(* readConflictMarkers: any of three character runs counts.                *)
Readable(f) == Found(f) /\ work[f] # "absent"  \* mutant: no look at the text
HasMarkers(f) == Found(f) /\ (work[f] = "markers" \/ (f \in Lookalikes /\ work[f] # "absent"))

Init ==
    /\ pc = "diverged"
    /\ shape \in [Files -> Shapes]
    /\ stages = [f \in Files |-> {}]
    /\ entry = [f \in Files |-> Head(f)] /\ work = entry
    /\ todo = {} /\ backups = {} /\ strays = {} /\ outcome = "none" /\ byClaude = {}

(* What an earlier attempt has left lying around, the commit phase of this *)
(* cycle has committed by now.                                             *)
MergeStops ==
    /\ pc = "diverged"
    /\ pc' = "list"
    /\ stages' = [f \in Files |-> StagesOf(shape[f])]
    /\ work' = [f \in Files |-> Conflicted(f)]
    /\ strays' = {}
    /\ UNCHANGED <<shape, entry, todo, backups, outcome, byClaude>>

(* isClaudeAvailable is asked at every conflict: the backup policy steps   *)
(* in while the binary or the key is missing.                              *)
ListConflictedFiles ==
    /\ pc = "list"
    /\ \/ /\ pc' = "backup" \/ (OnConflict = "claude" /\ pc' = "claude")
          /\ todo' = Files
       \/ /\ "git" \in Failures
          /\ pc' = "abort" /\ UNCHANGED todo
    /\ UNCHANGED <<shape, stages, entry, work, backups, strays, outcome, byClaude>>

-----------------------------------------------------------------------------
(* tryResolveWithClaude                                                    *)

FallBack == pc' = "backup" /\ todo' = Files

(* A marker-less or unreadable file ends the attempt, whatever the files   *)
(* before it have already become.                                          *)
ClaudeSkips(f) ==
    /\ pc = "claude" /\ f \in todo
    /\ ~HasMarkers(f)
    /\ FallBack
    /\ UNCHANGED <<shape, stages, entry, work, backups, strays, outcome, byClaude>>

(* claude fails or leaves something like a marker: the file may have been  *)
(* edited, but it is not added.                                            *)
ClaudeFails(f) ==
    /\ pc = "claude" /\ f \in todo
    /\ HasMarkers(f)
    /\ Failures \intersect {"claude", "git"} # {} \/ f \in Lookalikes
    /\ \E result \in {work[f], "merged"} : work' = [work EXCEPT ![f] = result]
    /\ FallBack
    /\ UNCHANGED <<shape, stages, entry, backups, strays, outcome, byClaude>>

(* `git add` collapses the file's stages to what claude left: a synthesis, *)
(* or one of the two sides if neither looks like a conflict.               *)
ClaudeResolves(f) ==
    /\ pc = "claude" /\ f \in todo
    /\ HasMarkers(f)
    /\ \E result \in IF f \in Lookalikes THEN {"merged"} ELSE {"merged", "ours", "theirs"} :
          work' = [work EXCEPT ![f] = result] /\ entry' = [entry EXCEPT ![f] = result]
    /\ stages' = [stages EXCEPT ![f] = {}]
    /\ todo' = todo \ {f}
    /\ byClaude' = byClaude \union {f}
    /\ UNCHANGED <<pc, shape, backups, strays, outcome>>

ClaudeFinishes ==
    /\ pc = "claude" /\ todo = {}
    /\ pc' = "commitClaude"
    /\ UNCHANGED <<shape, stages, entry, work, todo, backups, strays, outcome, byClaude>>

CommitClaude ==
    /\ pc = "commitClaude"
    /\ \/ pc' = "done" /\ outcome' = "claude"
       \/ "git" \in Failures /\ pc' = "abort" /\ UNCHANGED outcome
    /\ UNCHANGED <<shape, stages, entry, work, todo, backups, strays, byClaude>>

-----------------------------------------------------------------------------
(* backupAndAcceptTheirs                                                   *)

(* ConflictStages: no stage at all for a path git does not know, or for    *)
(* one that is already resolved.                                           *)
SeenStages(f) == IF Found(f) THEN stages[f] ELSE {}

StageOf(side) == CASE side = "ours" -> 2 [] side = "theirs" -> 3

Rescuable(f) == {side \in {"ours", "theirs"} : StageOf(side) \in SeenStages(f)}

(* backupStage comes back empty-handed when reading or writing a side      *)
(* fails; a failed write may leave part of the file, and no record of it.  *)
Saves(f) == IF {"read", "write"} \intersect Failures = {} THEN {Rescuable(f)}
                                                         ELSE SUBSET Rescuable(f)
Cuts(f, saved) == IF "write" \in Failures THEN SUBSET (Rescuable(f) \ saved) ELSE {{}}

BackUp(f, saved) ==
    /\ backups' = backups \union ({f} \X saved)
    /\ \E cut \in Cuts(f, saved) : strays' = strays \union ({f} \X cut)

TolerateLoss(f, saved) == TRUE  \* mutant: a missing .ours backup is only logged
OursSafe(f, saved) == "ours" \in Rescuable(f) => "ours" \in saved

UpstreamReadable(f, saved) == "theirs" \in saved  \* mutant: presence is inferred from a read
UpstreamHas(f, saved) == 3 \in SeenStages(f)

(* `git rm` takes an unmerged path, or one that is the same in HEAD, the   *)
(* index and the working tree; it knows no quoted path.                    *)
Removable(f) ==
    Found(f) /\ (stages[f] # {} \/ (Head(f) # "absent" /\ entry[f] = Head(f) /\ work[f] = entry[f]))

(* Accepting upstream: check out their version, or remove the file.        *)
CheckoutWorks(f, saved) == UpstreamHas(f, saved)  \* mutant: always checkout --theirs
Acceptable(f, saved) == UpstreamHas(f, saved) \/ Removable(f)

BackUpAndAccept(f) ==
    /\ pc = "backup" /\ f \in todo
    /\ \E saved \in Saves(f) :
          /\ OursSafe(f, saved) /\ Acceptable(f, saved)
          /\ BackUp(f, saved)
          /\ LET upstream == IF UpstreamHas(f, saved) THEN "theirs" ELSE "absent"
             IN  /\ work' = [work EXCEPT ![f] = upstream]
                 /\ entry' = [entry EXCEPT ![f] = upstream]
    /\ stages' = [stages EXCEPT ![f] = {}]
    /\ todo' = todo \ {f}
    /\ UNCHANGED <<pc, shape, outcome, byClaude>>

(* Upstream can be neither checked out nor removed.                        *)
CannotAccept(f) ==
    /\ pc = "backup" /\ f \in todo
    /\ \E saved \in Saves(f) :
          /\ OursSafe(f, saved) /\ ~Acceptable(f, saved)
          /\ BackUp(f, saved)
    /\ pc' = "cleanUp"
    /\ UNCHANGED <<shape, stages, entry, work, todo, outcome, byClaude>>

(* Ours could not be rescued, or one of the commands on the way failed     *)
(* (the add, after a checkout, included).                                  *)
BackUpFails(f) ==
    /\ pc = "backup" /\ f \in todo
    /\ \E saved \in Saves(f) \union (IF "git" \in Failures THEN {{}} ELSE {}) :
          /\ "git" \in Failures \/ ~OursSafe(f, saved)
          /\ BackUp(f, saved)
          /\ \E content \in {work[f]} \union (IF "git" \in Failures /\ UpstreamHas(f, saved)
                                             THEN {"theirs"} ELSE {}) :
                work' = [work EXCEPT ![f] = content]
    /\ pc' = "cleanUp"
    /\ UNCHANGED <<shape, stages, entry, todo, outcome, byClaude>>

BackUpFinishes ==
    /\ pc = "backup" /\ todo = {}
    /\ pc' = "commitBackup"
    /\ UNCHANGED <<shape, stages, entry, work, todo, backups, strays, outcome, byClaude>>

(* AddAll and Commit: git refuses to commit an unmerged index.  What       *)
(* AddAll has staged before the commit fails, `merge --abort` removes.     *)
CommitBackup ==
    /\ pc = "commitBackup"
    /\ \/ pc' = "done" /\ outcome' = "backup" /\ UNCHANGED strays
       \/ /\ "git" \in Failures
          /\ pc' = "cleanUp" /\ strays' \in {strays, {}}
          /\ UNCHANGED outcome
    /\ UNCHANGED <<shape, stages, entry, work, todo, backups, byClaude>>

-----------------------------------------------------------------------------
KeptBackups == backups  \* mutant: merge --abort is trusted to remove them
LeftBackups == {}

(* abortCycle: delete the backups written so far, then abort the merge.    *)
(* A failing removal is only logged: the file stays, and is forgotten.     *)
Unremoved == IF "remove" \in Failures THEN SUBSET backups ELSE {{}}

RemoveBackups ==
    /\ pc = "cleanUp"
    /\ backups' = LeftBackups
    /\ \E kept \in Unremoved : strays' = strays \union kept
    /\ pc' = "abort"
    /\ UNCHANGED <<shape, stages, entry, work, todo, outcome, byClaude>>

Aborted ==
    /\ pc' = "diverged"
    /\ stages' = [f \in Files |-> {}]
    /\ entry' = [f \in Files |-> Head(f)] /\ work' = entry'
    /\ todo' = {} /\ byClaude' = {}
    /\ UNCHANGED <<shape, backups, strays, outcome>>

MergeAbort == pc = "abort" /\ Aborted

(* abortMerge only logs an error: the merge stays open, and from now on    *)
(* the guard of every cycle leaves it to a person.                         *)
MergeAbortFails ==
    /\ pc = "abort" /\ "abort" \in Failures
    /\ pc' = "open"
    /\ UNCHANGED <<shape, stages, entry, work, todo, backups, strays, outcome, byClaude>>

PersonConcludes ==
    /\ pc = "open"
    /\ \/ Aborted
       \/ /\ pc' = "done" /\ outcome' = "person"
          /\ stages' = [f \in Files |-> {}]
          /\ UNCHANGED <<shape, entry, work, todo, backups, strays, byClaude>>

(* Later, when a person has seen to the backups and to what else lies      *)
(* around, the branch diverges again.                                      *)
NextConflict ==
    /\ pc = "done"
    /\ pc' = "diverged"
    /\ shape' \in [Files -> Shapes]
    /\ entry' = [f \in Files |-> IF 2 \in StagesOf(shape'[f]) THEN "ours" ELSE "absent"]
    /\ work' = entry'
    /\ backups' = {} /\ strays' = {} /\ outcome' = "none" /\ todo' = {} /\ byClaude' = {}
    /\ UNCHANGED stages

Resolve ==
    \/ ListConflictedFiles
    \/ \E f \in Files : ClaudeSkips(f) \/ ClaudeFails(f) \/ ClaudeResolves(f)
    \/ ClaudeFinishes \/ CommitClaude
    \/ \E f \in Files : BackUpAndAccept(f) \/ CannotAccept(f) \/ BackUpFails(f)
    \/ BackUpFinishes \/ CommitBackup
    \/ RemoveBackups \/ MergeAbort \/ MergeAbortFails

Next == MergeStops \/ Resolve \/ PersonConcludes \/ NextConflict

Spec == Init /\ [][Next]_vars

(* Cycles keep coming while the branch is diverged (the fetch interval),   *)
(* and a person who is told of an open merge ends it.                      *)
LiveSpec == Spec /\ WF_vars(MergeStops) /\ WF_vars(Resolve) /\ WF_vars(PersonConcludes)

-----------------------------------------------------------------------------
(* Properties.                                                             *)

(* While the merge is open or after it is committed, no file that had a    *)
(* local side has been replaced or removed by the backup policy before the *)
(* local side was written to a backup (backupAndAcceptTheirs).  Only what  *)
(* claude has added before it gave up is not covered.                      *)
OursRescued ==
    pc \in {"backup", "commitBackup"} \/ outcome = "backup" =>
        \A f \in Files \ (todo \union byClaude) : Head(f) = "ours" => <<f, "ours">> \in backups

(* After a merge by the backup policy the working tree holds the upstream  *)
(* version of every conflicting file that upstream has, and no other: a    *)
(* file is deleted only if upstream deleted it (ConflictStages' comment).  *)
Accepted(f) == work[f] = IF 3 \in StagesOf(shape[f]) THEN "theirs" ELSE "absent"
UpstreamAccepted == outcome = "backup" => \A f \in Files : Accepted(f)

(* At least so it is for every file claude had not added before it gave up *)
(* on another one (resolveConflicts' fallback).                            *)
FallbackAccepts == outcome = "backup" => \A f \in Files \ byClaude : Accepted(f)

(* If a backup file can always be removed and is never cut off while it is *)
(* written, a failed resolution leaves none behind, so that retries cannot *)
(* pile them up (abortCycle).                                              *)
NoLeftoverBackups ==
    /\ {"write", "remove"} \intersect Failures = {}
    /\ pc \in {"diverged", "list", "claude", "commitClaude", "abort", "open"}
    => backups = {} /\ strays = {}

(* What claude settles was a text conflict, where both sides were on the   *)
(* page: nothing is collapsed to one side unseen (tryResolveWithClaude).   *)
(* A file whose own text looks like a marker is not told apart.            *)
ClaudeSawBothSides ==
    outcome = "claude" => \A f \in Files \ Lookalikes : shape[f] = "text"

(* Seen from outside, the commands of a resolution are one step that       *)
(* settles every file, or none: a failed attempt changes no file and       *)
(* leaves no backup but litter - those it could not remove, and what is    *)
(* left of those it could not write - while what is committed has no       *)
(* conflict marker, no side that was not there, and upstream's files with  *)
(* the local ones beside them (resolveConflicts, abortCycle).              *)
Settlement == INSTANCE ConflictSettlement WITH
    Ambiguous <- Lookalikes,
    Litters <- {"write", "remove"} \intersect Failures # {},
    litter <- strays,
    local <- {f \in Files : 2 \in StagesOf(shape[f])},
    upstream <- {f \in Files : 3 \in StagesOf(shape[f])},
    tree <- IF pc \in {"diverged", "done"} THEN work ELSE [f \in Files |-> Head(f)],
    rescued <- IF pc \in {"diverged", "done"} THEN backups ELSE {},
    settled <- outcome
SettlesAtOnce == Settlement!Spec

(* Every command of a resolution brings it nearer to its end, whatever     *)
(* fails and however often claude's attempt is given up for a backup: no   *)
(* attempt takes more than a pass over the files for claude and another    *)
(* for the backups (resolveConflicts, abortCycle).                         *)
PassesLeft ==
    CASE pc = "list"         -> 7
      [] pc = "claude"       -> 6
      [] pc = "commitClaude" -> 5
      [] pc = "backup"       -> 4
      [] pc = "commitBackup" -> 3
      [] pc = "cleanUp"      -> 2
      [] pc = "abort"        -> 1
      [] OTHER               -> 0
AttemptEnds == [][Resolve =>
    \/ PassesLeft' < PassesLeft
    \/ PassesLeft' = PassesLeft /\ Cardinality(todo') < Cardinality(todo)]_vars

(* A command, or the writing of a backup, that fails by accident, and a    *)
(* fallback that meets a file claude has already added.                    *)
Accident ==
    \/ pc \in {"list", "commitClaude"} /\ pc' = "abort"
    \/ MergeAbortFails
    \/ byClaude # {} /\ \E f \in Files : CannotAccept(f)
    \/ pc = "commitBackup" /\ pc' = "cleanUp"
    \/ \E f \in Files : BackUpFails(f) /\ ~CannotAccept(f)

(* Unless accidents go on for ever, a conflict is settled at this cycle or *)
(* a later one; no shape of conflict is aborted at every attempt.          *)
ConflictsSettle == []<><<Accident>>_vars \/ (pc = "list" ~> pc = "done")
=============================================================================
