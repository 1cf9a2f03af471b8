------------------------------ MODULE SyncCycle ------------------------------
(***************************************************************************)
(* One repository's sync cycle (runCycle and the phases it calls), step by *)
(* step between the commands it runs, interleaved with everyone else who   *)
(* touches the same checkout: a person editing, committing or pausing a    *)
(* rebase or merge, a process that shares the save lock, another clone     *)
(* that pushes, and the daemon's own crashes, failures and shutdowns.      *)
(*                                                                         *)
(* A branch is the set of commits reachable from its tip; an edit is an    *)
(* identity that is pending, staged or saved.  What a conflict resolution  *)
(* does file by file is the subject of ConflictResolution.                 *)
(***************************************************************************)
EXTENDS RelativeState, Naturals, FiniteSets

CONSTANTS
    Configured,      \* workflows the configuration may give the repository
    ModeOmitted,     \* does it name neither a mode nor a workflow?
    SaveLock,        \* is a save lock path configured?
    LinkedWorktree,  \* is .git a file pointing elsewhere (worktree, submodule)?
    OnConflict,      \* the conflict policy that will really be used
    BranchConfigured, \* does the configuration name the branch?
    Edits,           \* edits people can make to the working tree
    HumanCommits,    \* commits people make in this checkout
    OtherCommits,    \* commits other clones push
    LoopCommits,     \* commits gitloop makes
    Intrusions,      \* what people do between gitloop's guard and its last write
    Failures,        \* which operations may fail
    MaxDisturbances  \* bound on crashes, loop failures, shutdowns, paused operations

Workflows == {"auto-commit-sync", "auto-commit-only", "committed-sync"}

ASSUME ConfigurationAssumption ==
    /\ Configured \subseteq Workflows
    /\ ModeOmitted \in BOOLEAN
    /\ SaveLock \in BOOLEAN
    /\ LinkedWorktree \in BOOLEAN
    /\ OnConflict \in {"backup", "claude"}
    /\ BranchConfigured \in BOOLEAN

ASSUME EnvironmentAssumption ==
    /\ Intrusions \subseteq {"edit", "commit", "operation"}
    /\ Failures \subseteq {"fetch", "push", "git", "lock", "resolution"}
    /\ MaxDisturbances \in Nat

ASSUME CommitAssumption ==
    /\ HumanCommits \intersect OtherCommits = {}
    /\ HumanCommits \intersect LoopCommits = {}
    /\ OtherCommits \intersect LoopCommits = {}

Commits == HumanCommits \union OtherCommits \union LoopCommits
SaveLockRetries == 3

VARIABLES
    workflow,      \* the repository's effective workflow
    pc,            \* where the repository's loop is
    local,         \* history of the checked-out branch
    tracking,      \* history of its remote-tracking ref
    remote,        \* history of the branch on the remote
    op,            \* git operation left open in the checkout
    mergeHead,     \* history being merged by an open merge
    dirty,         \* edits in the working tree that no commit holds
    staged,        \* the dirty edits that are in the index
    saved,         \* edits held by commits of the local branch
    published,     \* edits held by commits of the remote branch
    lock,          \* who holds the save lock
    cycle,         \* locals and cycleResult of the running cycle
    status,        \* this repository's entry in the status file
    cancelled,     \* has the daemon's context been cancelled?
    disturbances,  \* how many disturbances there have been
    start          \* history variable: the world when the cycle began

merge == <<op, mergeHead>>
work == <<dirty, staged, saved>>
gitVars == <<local, tracking, remote, merge, work, published>>
daemon == <<workflow, cancelled, disturbances>>
vars == <<pc, gitVars, lock, cycle, status, daemon, start>>

(* Between the guard under the lock and the last write to the checkout.    *)
Writing == {"markSyncing", "commitStatus", "add", "commit", "classify", "ff",
            "ffRefused", "merge", "resolve"}
UnderLock == Writing \union {"recheck", "unlock"}
InCycle == UnderLock \union
    {"precheck", "fetch", "status", "plan", "acquire", "markIdle", "push", "record"}
Locations == InCycle \union {"starting", "select", "backoff", "down"}

HumanOps == {"rebase", "merge"}
Operations == HumanOps \union {"none", "loopMerge"}
Reasons == {"none", "diverged", "dirty-behind", "operation"}

NewCycle == [attempts |-> 0, dirty |-> FALSE, fetchFailed |-> FALSE, skipped |-> FALSE,
             err |-> FALSE, blocked |-> "none", conflict |-> FALSE, push |-> FALSE,
             detached |-> FALSE]
NoStart == [local |-> {}, remote |-> {}, edits |-> {}]

CycleType == [attempts : 0 .. SaveLockRetries - 1, dirty : BOOLEAN, fetchFailed : BOOLEAN,
              skipped : BOOLEAN, err : BOOLEAN, blocked : Reasons,
              conflict : BOOLEAN, push : BOOLEAN, detached : BOOLEAN]
StatusType == [phase : {"idle", "syncing", "conflict"},
               error : {"none", "failed", "skipped"}, blocked : Reasons]
StartType == [local : SUBSET Commits, remote : SUBSET Commits, edits : SUBSET Edits]

TypeOK ==
    /\ workflow \in Workflows
    /\ pc \in Locations
    /\ local \subseteq Commits /\ tracking \subseteq Commits /\ remote \subseteq Commits
    /\ op \in Operations /\ mergeHead \subseteq Commits
    /\ dirty \subseteq Edits /\ saved \subseteq Edits /\ published \subseteq Edits
    /\ staged \subseteq dirty
    /\ lock \in {"free", "gitloop", "writer"}
    /\ cycle \in CycleType /\ status \in StatusType
    /\ cancelled \in BOOLEAN
    /\ disturbances \in 0 .. MaxDisturbances
    /\ start \in StartType

(* A daemon about to start over a clean checkout in step with its remote.  *)
Init ==
    /\ workflow \in Configured
    /\ pc = "starting"
    /\ local = {} /\ tracking = {} /\ remote = {}
    /\ op = "none" /\ mergeHead = {}
    /\ dirty = {} /\ staged = {} /\ saved = {} /\ published = {}
    /\ lock = "free"
    /\ cycle = NewCycle
    /\ status = [phase |-> "idle", error |-> "none", blocked |-> "none"]
    /\ cancelled = FALSE
    /\ disturbances = 0
    /\ start = NoStart

-----------------------------------------------------------------------------
(* Shared by the steps of a cycle.                                         *)

AutoCommitting == {"auto-commit-sync", "auto-commit-only"}
AutoCommits == workflow \in AutoCommitting
SyncsRemote == workflow # "auto-commit-only"
CommittedSync == workflow = "committed-sync"

Known == local \union tracking \union remote \union mergeHead
Fresh(pool) == pool \ Known

BeginCycle ==
    /\ pc' = "precheck"
    /\ start' = [local |-> local, remote |-> remote, edits |-> dirty \union saved]

(* The cycle returns to the loop's select.                                 *)
EndCycle ==
    /\ pc' = "select"
    /\ cycle' = NewCycle
    /\ start' = NoStart

(* The cycle goes on at `to` with result.Err set.                          *)
FailTo(to) ==
    /\ pc' = to
    /\ cycle' = [cycle EXCEPT !.err = TRUE]

KeepSaveLock == UNCHANGED lock  \* mutant: a release that does nothing
ReleaseSaveLock == lock' = IF lock = "gitloop" THEN "free" ELSE lock

(* PreCheck: a rebase directory or MERGE_HEAD, of whatever origin.         *)
SafeUnlessMerging == op \in {"none", "rebase"}  \* mutant: only MERGE_HEAD counts
Safe == op = "none"

AbortNothing == UNCHANGED merge  \* mutant: a failed resolution just returns
AbortMerge == op' = "none" /\ mergeHead' = {}

(* A paused operation usually leaves entries in `git status` even when     *)
(* nobody has edited anything.                                             *)
StatusEntries == IF op = "none" \/ dirty # {} THEN {dirty # {}} ELSE BOOLEAN

-----------------------------------------------------------------------------
(* The loop, the guard and the fetch.                                      *)

(* resolveRepositoryMode: a repository whose mode is omitted is synced only *)
(* if it has a remote, or if its remotes cannot be listed.                 *)
ResolveMode ==
    IF ModeOmitted /\ AutoCommits THEN workflow' \in AutoCommitting ELSE UNCHANGED workflow

(* A loop that has just been (re)started: only a committed-sync repository *)
(* begins with a cycle.                                                    *)
StartLoop ==
    /\ pc = "starting"
    /\ ResolveMode
    /\ IF CommittedSync THEN BeginCycle ELSE pc' = "select" /\ UNCHANGED start
    /\ UNCHANGED <<gitVars, lock, cycle, status, cancelled, disturbances>>

(* A timer, the watcher or a trigger starts a cycle; WatchLoop says which. *)
StartCycle ==
    /\ pc = "select"
    /\ BeginCycle
    /\ UNCHANGED <<gitVars, lock, cycle, status, daemon>>

PreCheck ==
    /\ pc = "precheck"
    /\ \/ /\ ~Safe
          /\ pc' = "record" /\ cycle' = [cycle EXCEPT !.skipped = TRUE]
       \/ /\ Safe
          /\ pc' = IF SyncsRemote THEN "fetch" ELSE "status"
          /\ UNCHANGED cycle
       \/ /\ "git" \in Failures
          /\ FailTo("record")
    /\ UNCHANGED <<gitVars, lock, status, daemon, start>>

FetchSucceeds ==
    /\ pc = "fetch"
    /\ tracking' = remote
    /\ IF cancelled THEN EndCycle ELSE pc' = "status" /\ UNCHANGED <<cycle, start>>
    /\ UNCHANGED <<local, remote, merge, work, published, lock, status, daemon>>

(* Offline, an auto-commit cycle goes on to save local edits; a            *)
(* committed-sync one has nothing left to do.                              *)
FetchFails ==
    /\ pc = "fetch"
    /\ \/ /\ cancelled
          /\ EndCycle
       \/ /\ ~cancelled /\ "fetch" \in Failures
          /\ IF CommittedSync
             THEN FailTo("record")
             ELSE pc' = "status" /\ cycle' = [cycle EXCEPT !.fetchFailed = TRUE]
          /\ UNCHANGED start
    /\ UNCHANGED <<gitVars, lock, status, daemon>>

-----------------------------------------------------------------------------
(* The look before the lock, and the plan.                                 *)

ObserveStatus ==
    /\ pc = "status"
    /\ \/ /\ pc' = "plan"
          /\ \E entries \in StatusEntries : cycle' = [cycle EXCEPT !.dirty = entries]
       \/ /\ "git" \in Failures
          /\ FailTo("record")
    /\ UNCHANGED <<gitVars, lock, status, daemon, start>>

(* During a rebase HEAD is detached: checkedOutBranch refuses it in the    *)
(* place of a configured branch, and takes "HEAD" for the branch if none   *)
(* is configured.                                                          *)
BranchCheckedOut == BranchConfigured => op # "rebase"
Detached == SyncsRemote /\ op = "rebase"

(* How the branch compares; a detached HEAD, wherever the person who       *)
(* rebases has left it, compares with <remote>/HEAD in any way.            *)
Compared == IF op = "rebase" THEN RelativeStates ELSE {Classify(local, tracking)}

Upstreams == IF SyncsRemote /\ ~cycle.fetchFailed THEN Compared ELSE {"unknown"}

Plan(upstream) == PlanCycle(AutoCommits, cycle.dirty, upstream)

ObserveUpstream ==
    /\ pc = "plan"
    /\ SyncsRemote => BranchCheckedOut
    /\ \E upstream \in Upstreams :
          \/ /\ Plan(upstream) = "nothing-to-do"
             /\ pc' = "record"
             /\ cycle' = [cycle EXCEPT !.detached = Detached, !.err = cycle.fetchFailed]
          \/ /\ Plan(upstream) = "blocked"
             /\ pc' = "record"
             /\ cycle' = [cycle EXCEPT !.detached = Detached, !.err = TRUE,
                                       !.blocked = "diverged"]
          \/ /\ Plan(upstream) \in {"push", "mutate"}
             /\ pc' = IF Plan(upstream) = "push" THEN "push" ELSE "acquire"
             /\ cycle' = [cycle EXCEPT !.detached = Detached]
    /\ UNCHANGED <<gitVars, lock, status, daemon, start>>

(* Refused; or the remote has no <remote>/HEAD to compare a detached one.  *)
ObserveUpstreamFails ==
    /\ pc = "plan"
    /\ SyncsRemote
    /\ "git" \in Failures \/ op = "rebase"
    /\ FailTo("record")
    /\ UNCHANGED <<gitVars, lock, status, daemon, start>>

-----------------------------------------------------------------------------
(* The save lock and the guard under it.                                   *)

AcquireSaveLock ==
    /\ pc = "acquire"
    /\ SaveLock => lock = "free"
    /\ lock' = IF SaveLock THEN "gitloop" ELSE lock
    /\ pc' = "recheck"
    /\ cycle' = [cycle EXCEPT !.attempts = 0, !.detached = FALSE]
    /\ UNCHANGED <<gitVars, status, daemon, start>>

EndlessAttempts == TRUE  \* mutant: the retry loop has no bound
AttemptsLeft == cycle.attempts + 1 < SaveLockRetries

(* One attempt finds the lock held; the next follows after `settle`.       *)
SaveLockBusy ==
    /\ pc = "acquire"
    /\ SaveLock /\ lock # "free"
    /\ AttemptsLeft
    /\ cycle' = [cycle EXCEPT !.attempts = @ + 1]
    /\ UNCHANGED <<pc, gitVars, lock, status, daemon, start>>

(* The last attempt, or an error from the lock file, skips the cycle; the  *)
(* phase is left as it was.                                                *)
GiveUpOnSaveLock ==
    /\ pc = "acquire"
    /\ SaveLock
    /\ \/ lock # "free" /\ ~AttemptsLeft
       \/ "lock" \in Failures
    /\ status' = [status EXCEPT !.error = "skipped", !.blocked = "operation"]
    /\ EndCycle
    /\ UNCHANGED <<gitVars, lock, daemon>>

(* PreCheck again, now that the lock is held; bailing out releases it.     *)
Recheck ==
    /\ pc = "recheck"
    /\ \/ /\ Safe
          /\ pc' = "markSyncing" /\ UNCHANGED <<lock, cycle>>
       \/ /\ ~Safe
          /\ pc' = "record" /\ cycle' = [cycle EXCEPT !.skipped = TRUE]
          /\ ReleaseSaveLock
       \/ /\ "git" \in Failures
          /\ FailTo("record")
          /\ ReleaseSaveLock
    /\ UNCHANGED <<gitVars, status, daemon, start>>

\* Mutant: an unresolved conflict stays on display.
AnnounceUnlessConflict ==
    status' = IF status.phase = "conflict" THEN status ELSE [status EXCEPT !.phase = "syncing"]
AnnounceSyncing == status' = [status EXCEPT !.phase = "syncing"]

MarkSyncing ==
    /\ pc = "markSyncing"
    /\ AnnounceSyncing
    /\ pc' = IF AutoCommits THEN "commitStatus" ELSE "classify"
    /\ UNCHANGED <<gitVars, lock, cycle, daemon, start>>

-----------------------------------------------------------------------------
(* The commit phase of an auto-commit cycle.                               *)

AfterCommit == IF SyncsRemote /\ ~cycle.fetchFailed THEN "classify" ELSE "unlock"

CommitStatus ==
    /\ pc = "commitStatus"
    /\ \/ /\ \E entries \in StatusEntries : pc' = IF entries THEN "add" ELSE AfterCommit
          /\ UNCHANGED cycle
       \/ /\ "git" \in Failures
          /\ FailTo("unlock")
    /\ UNCHANGED <<gitVars, lock, status, daemon, start>>

AddAll ==
    /\ pc = "add"
    /\ \/ /\ staged' = dirty
          /\ pc' = "commit" /\ UNCHANGED cycle
       \/ /\ "git" \in Failures
          /\ FailTo("unlock") /\ UNCHANGED staged
    /\ UNCHANGED <<local, tracking, remote, merge, dirty, saved, published, lock,
                   status, daemon, start>>

(* `git commit` takes what is staged: edits made since AddAll stay         *)
(* pending.  It concludes whatever merge is open, and in a rebase it       *)
(* commits to the detached HEAD, which no branch holds.                    *)
Commit ==
    /\ pc = "commit"
    /\ staged # {} \/ op # "none"
    /\ dirty' = dirty \ staged /\ staged' = {}
    /\ IF op = "rebase"
       THEN UNCHANGED <<local, op, mergeHead, saved>>
       ELSE /\ \E c \in Fresh(LoopCommits) : local' = local \union mergeHead \union {c}
            /\ saved' = saved \union staged
            /\ op' = "none" /\ mergeHead' = {}
    /\ pc' = AfterCommit
    /\ UNCHANGED <<tracking, remote, published, lock, cycle, status, daemon, start>>

(* "nothing to commit" (someone committed in between), or a failing hook.  *)
CommitFails ==
    /\ pc = "commit"
    /\ "git" \in Failures \/ (staged = {} /\ op # "merge")
    /\ FailTo("unlock")
    /\ UNCHANGED <<gitVars, lock, status, daemon, start>>

-----------------------------------------------------------------------------
(* Integration: classify again under the lock, then fast-forward or merge. *)

MergesAlways == TRUE  \* mutant: the workflow is forgotten
MergesDiverged == AutoCommits

(* runIntegratePhase and runCommittedSyncPhase share the classification    *)
(* and part ways on a diverged branch.                                     *)
ClassifyPhase ==
    /\ pc = "classify"
    /\ BranchCheckedOut
    /\ \E state \in Compared :
          \/ /\ state = "equal" /\ pc' = "unlock"
             /\ cycle' = [cycle EXCEPT !.detached = Detached]
          \/ /\ state = "ahead" /\ pc' = "unlock"
             /\ cycle' = [cycle EXCEPT !.detached = Detached, !.push = TRUE]
          \/ /\ state = "behind" /\ pc' = "ff"
             /\ cycle' = [cycle EXCEPT !.detached = Detached]
          \/ /\ state = "diverged" /\ MergesDiverged /\ pc' = "merge"
             /\ cycle' = [cycle EXCEPT !.detached = Detached]
          \/ /\ state = "diverged" /\ ~MergesDiverged /\ pc' = "unlock"
             /\ cycle' = [cycle EXCEPT !.detached = Detached, !.err = TRUE,
                                       !.blocked = "diverged"]
    /\ UNCHANGED <<gitVars, lock, status, daemon, start>>

ClassifyFails ==
    /\ pc = "classify"
    /\ "git" \in Failures \/ op = "rebase"
    /\ FailTo("unlock")
    /\ UNCHANGED <<gitVars, lock, status, daemon, start>>

FastForwardable == local \subseteq tracking \/ tracking \subseteq local

(* `git merge --ff-only`: refuses unless the branch is an ancestor (a      *)
(* person may have committed since it was classified).  In a rebase it     *)
(* moves the detached HEAD.                                                *)
FastForward ==
    /\ pc = "ff"
    /\ \/ op = "none" /\ FastForwardable /\ local' = local \union tracking
       \/ op = "rebase" /\ UNCHANGED local
    /\ pc' = "unlock"
    /\ UNCHANGED <<tracking, remote, merge, work, published, lock, cycle, status,
                   daemon, start>>

(* Also refused when the incoming tree would overwrite pending edits.      *)
FastForwardRefused ==
    /\ pc = "ff"
    /\ \/ dirty # {} \/ op # "none" \/ "git" \in Failures
       \/ ~FastForwardable
    /\ FailTo(IF CommittedSync THEN "ffRefused" ELSE "unlock")
    /\ UNCHANGED <<gitVars, lock, status, daemon, start>>

(* refusedOverUncommittedWork: a dirty tree gets the blame.                *)
LabelRefusal ==
    /\ pc = "ffRefused"
    /\ pc' = "unlock"
    /\ \E entries \in StatusEntries \union (IF "git" \in Failures THEN {FALSE} ELSE {}) :
          cycle' = [cycle EXCEPT !.blocked = IF entries THEN "dirty-behind" ELSE "none"]
    /\ UNCHANGED <<gitVars, lock, status, daemon, start>>

(* A merge without conflicts: a merge commit, or nothing when the branch   *)
(* already holds the upstream.  In a rebase it lands on the detached HEAD. *)
(* git starts no merge over an index that differs from HEAD.               *)
MergeClean ==
    /\ pc = "merge"
    /\ op \in {"none", "rebase"} /\ staged = {}
    /\ \/ /\ op = "rebase" \/ tracking \subseteq local
          /\ UNCHANGED local
       \/ /\ op = "none" /\ ~(tracking \subseteq local)
          /\ \E c \in Fresh(LoopCommits) : local' = local \union tracking \union {c}
    /\ pc' = "unlock"
    /\ cycle' = [cycle EXCEPT !.push = TRUE]
    /\ UNCHANGED <<tracking, remote, merge, work, published, lock, status, daemon,
                   start>>

(* Merge stops with MERGE_HEAD in place: on a conflict of its own, or      *)
(* because a person's merge is already open.  hasMergeInProgress looks for *)
(* it under r.Dir/.git, which is not a directory in a linked worktree: the *)
(* conflict is then taken for a plain failure and nobody aborts the merge. *)
MergeStops ==
    /\ pc = "merge"
    /\ \/ /\ op = "none" /\ staged = {} /\ ~(tracking \subseteq local)
          /\ op' = "loopMerge" /\ mergeHead' = tracking
       \/ /\ op = "merge"
          /\ UNCHANGED <<merge>>
    /\ IF LinkedWorktree THEN FailTo("unlock") ELSE pc' = "resolve" /\ UNCHANGED cycle
    /\ UNCHANGED <<local, tracking, remote, work, published, lock, status, daemon,
                   start>>

(* Merge fails before it starts: it would overwrite pending edits.         *)
MergeRefused ==
    /\ pc = "merge"
    /\ op # "merge"
    /\ dirty # {} \/ "git" \in Failures
    /\ FailTo("unlock")
    /\ UNCHANGED <<gitVars, lock, status, daemon, start>>

-----------------------------------------------------------------------------
(* resolveConflicts, seen from the cycle: it concludes the merge, with or  *)
(* without backups left for a person, or it aborts it.                     *)

ResolveWithBackups ==
    /\ pc = "resolve"
    /\ \E c \in Fresh(LoopCommits) : local' = local \union mergeHead \union {c}
    /\ saved' = saved \union dirty /\ dirty' = {} /\ staged' = {}
    /\ op' = "none" /\ mergeHead' = {}
    /\ cycle' = [cycle EXCEPT !.conflict = TRUE, !.push = TRUE]
    /\ pc' = "unlock"
    /\ UNCHANGED <<tracking, remote, published, lock, status, daemon, start>>

ResolveWithClaude ==
    /\ pc = "resolve"
    /\ OnConflict = "claude"
    /\ \E c \in Fresh(LoopCommits) : local' = local \union mergeHead \union {c}
    /\ saved' = saved \union staged /\ dirty' = dirty \ staged /\ staged' = {}
    /\ op' = "none" /\ mergeHead' = {}
    /\ cycle' = [cycle EXCEPT !.push = TRUE]
    /\ pc' = "unlock"
    /\ UNCHANGED <<tracking, remote, published, lock, status, daemon, start>>

(* `merge --abort` keeps edits that are only in the working tree.  Those   *)
(* that backupAndAcceptTheirs has staged (AddAll takes them all) before    *)
(* its commit failed, it throws away.                                      *)
ResolveAborts ==
    /\ pc = "resolve"
    /\ FailTo("unlock")
    /\ AbortMerge
    /\ \/ UNCHANGED <<dirty, staged>>
       \/ "resolution" \in Failures /\ dirty' = {} /\ staged' = {}
    /\ UNCHANGED <<local, tracking, remote, saved, published, lock, status, daemon,
                   start>>

-----------------------------------------------------------------------------
(* Letting go of the checkout, pushing, and reporting.                     *)

Unlock ==
    /\ pc = "unlock"
    /\ ReleaseSaveLock
    /\ pc' = "markIdle"
    /\ UNCHANGED <<gitVars, cycle, status, daemon, start>>

\* Mutant: the phase goes back to idle only after a success.
AnnounceIdleOnSuccess == status' = IF cycle.err THEN status ELSE [status EXCEPT !.phase = "idle"]
AnnounceIdle == status' = [status EXCEPT !.phase = "idle"]

(* A cycle that only saved local edits still reports its failed fetch.     *)
ErrorOfPhases == cycle.err  \* mutant: the remembered fetch error is dropped
CycleError == cycle.err \/ cycle.fetchFailed

MarkIdle ==
    /\ pc = "markIdle"
    /\ AnnounceIdle
    /\ cycle' = [cycle EXCEPT !.err = CycleError]
    /\ pc' = IF ~CycleError /\ cycle.push THEN "push" ELSE "record"
    /\ UNCHANGED <<gitVars, lock, daemon, start>>

(* `git push` moves the remote branch only forward.  A push of "HEAD"      *)
(* names no branch as long as HEAD is detached.                            *)
AcceptedByForce == TRUE  \* mutant: push --force
PushAccepted == remote \subseteq local /\ ~(cycle.detached /\ op = "rebase")

PushSucceeds ==
    /\ pc = "push"
    /\ PushAccepted
    /\ remote' = local /\ tracking' = local /\ published' = saved
    /\ pc' = "record"
    /\ UNCHANGED <<local, merge, work, lock, cycle, status, daemon, start>>

(* Rejected (another clone pushed first), timed out, or cut short by the   *)
(* shutdown: in the last two cases the remote may have taken the push.     *)
(* A shutdown records only the progress, not an error.                     *)
PushFails ==
    /\ pc = "push"
    /\ \/ /\ ~PushAccepted \/ "push" \in Failures \/ cancelled
          /\ UNCHANGED <<remote, published>>
       \/ /\ PushAccepted /\ ("push" \in Failures \/ cancelled)
          /\ remote' = local /\ published' = saved
    /\ IF cancelled
       THEN /\ status' = IF cycle.conflict THEN [status EXCEPT !.phase = "conflict"] ELSE status
            /\ EndCycle
       ELSE FailTo("record") /\ UNCHANGED <<status, start>>
    /\ UNCHANGED <<local, tracking, merge, work, lock, daemon>>

(* applyCycleResult's switch.                                              *)
ResultStatus(r) ==
    CASE r.skipped -> [phase |-> "conflict", error |-> "skipped", blocked |-> "operation"]
      [] ~r.skipped /\ r.err -> [phase |-> "idle", error |-> "failed", blocked |-> r.blocked]
      [] OTHER -> [phase |-> IF r.conflict THEN "conflict" ELSE "idle",
                   error |-> "none", blocked |-> "none"]

Record ==
    /\ pc = "record"
    /\ status' = ResultStatus(cycle)
    /\ EndCycle
    /\ UNCHANGED <<gitVars, lock, daemon>>

-----------------------------------------------------------------------------
(* The daemon around the loop: failures, backoff, shutdown, crashes.       *)

Disturb ==
    /\ disturbances < MaxDisturbances
    /\ disturbances' = disturbances + 1

(* A panic anywhere in a cycle, or a failing watcher: the deferred release *)
(* frees the lock, superviseRepo records the error, and nothing else of    *)
(* the status entry changes.  A merge left open is nobody's from now on.   *)
LoopFails ==
    /\ pc \in InCycle \union {"select", "starting"}
    /\ Disturb
    /\ pc' = "backoff"
    /\ ReleaseSaveLock
    /\ status' = [status EXCEPT !.error = "failed"]
    /\ op' = IF op = "loopMerge" THEN "merge" ELSE op
    /\ cycle' = NewCycle /\ start' = NoStart
    /\ UNCHANGED <<local, tracking, remote, mergeHead, work, published, workflow,
                   cancelled>>

(* The process dies: flock is released with its file, the status file and  *)
(* the repository stay as they are.                                        *)
Crash ==
    /\ pc # "down"
    /\ Disturb
    /\ pc' = "down"
    /\ ReleaseSaveLock
    /\ op' = IF op = "loopMerge" THEN "merge" ELSE op
    /\ cycle' = NewCycle /\ start' = NoStart
    /\ UNCHANGED <<local, tracking, remote, mergeHead, work, published, status,
                   workflow, cancelled>>

(* The backoff is over: superviseRepo runs the loop again, or stops.       *)
RetryLoop ==
    /\ pc = "backoff"
    /\ pc' = IF cancelled THEN "down" ELSE "starting"
    /\ UNCHANGED <<gitVars, lock, cycle, status, daemon, start>>

Shutdown ==
    /\ pc # "down" /\ ~cancelled
    /\ Disturb
    /\ cancelled' = TRUE
    /\ UNCHANGED <<pc, gitVars, lock, cycle, status, workflow, start>>

StopLoop ==
    /\ pc = "select" /\ cancelled
    /\ pc' = "down"
    /\ UNCHANGED <<gitVars, lock, cycle, status, daemon, start>>

(* launchd, or a person, starts the daemon again over the old status file. *)
StartDaemon ==
    /\ pc = "down"
    /\ pc' = "starting" /\ cancelled' = FALSE
    /\ UNCHANGED <<gitVars, lock, cycle, status, workflow, disturbances, start>>

-----------------------------------------------------------------------------
(* Everyone else.  People know nothing of the save lock: Intrusions says   *)
(* what they do between gitloop's guard and its last write.  How an edit   *)
(* or an operation lands inside a resolution is left to that module.       *)

MayAct(kind) == pc # "resolve" /\ (pc \in Writing => kind \in Intrusions)

UnmadeEdits == Edits \ (dirty \union saved)

EditFile ==
    /\ MayAct("edit")
    /\ \E e \in UnmadeEdits : dirty' = dirty \union {e}
    /\ UNCHANGED <<pc, local, tracking, remote, merge, staged, saved, published,
                   lock, cycle, status, daemon, start>>

(* A process that coordinates through the save lock (`gitloop lock`)       *)
(* changes the working tree while it holds it.                             *)
TakeSaveLock ==
    /\ SaveLock /\ lock = "free"
    /\ UnmadeEdits # {}
    /\ lock' = "writer"
    /\ UNCHANGED <<pc, gitVars, cycle, status, daemon, start>>

SaveAndReturnLock ==
    /\ lock = "writer"
    /\ lock' = "free"
    /\ \/ \E e \in UnmadeEdits : dirty' = dirty \union {e}
       \/ UnmadeEdits = {} /\ UNCHANGED dirty
    /\ UNCHANGED <<pc, local, tracking, remote, merge, staged, saved, published,
                   cycle, status, daemon, start>>

HumanCommit ==
    /\ MayAct("commit") /\ op = "none"
    /\ \E c \in Fresh(HumanCommits) : local' = local \union {c}
    /\ saved' = saved \union dirty /\ dirty' = {} /\ staged' = {}
    /\ UNCHANGED <<pc, tracking, remote, merge, published, lock, cycle, status,
                   daemon, start>>

(* A rebase or a merge that stops and waits for the person who began it.   *)
(* git begins neither over staged edits; edits in files that the operation *)
(* leaves alone (for a rebase, untracked ones) are no hindrance.           *)
PauseOperation ==
    /\ MayAct("operation") /\ op = "none" /\ staged = {}
    /\ Disturb
    /\ \/ op' = "rebase" /\ UNCHANGED mergeHead
       \/ /\ Classify(local, tracking) = "diverged"
          /\ op' = "merge" /\ mergeHead' = tracking
    /\ UNCHANGED <<pc, local, tracking, remote, work, published, lock, cycle, status,
                   workflow, cancelled, start>>

(* It is given up, and with it what has been staged meanwhile, or (a       *)
(* merge) concluded with a commit.                                         *)
FinishOperation ==
    /\ MayAct("operation") /\ op # "none"
    /\ op' = "none" /\ mergeHead' = {}
    /\ \/ dirty' = dirty \ staged /\ staged' = {} /\ UNCHANGED <<local, saved>>
       \/ /\ op # "rebase"
          /\ \E c \in Fresh(HumanCommits) : local' = local \union mergeHead \union {c}
          /\ saved' = saved \union staged /\ dirty' = dirty \ staged /\ staged' = {}
    /\ UNCHANGED <<pc, tracking, remote, published, lock, cycle, status, daemon, start>>

(* Another clone pushes on top of the remote branch.                       *)
OtherPush ==
    /\ \E c \in Fresh(OtherCommits) : remote' = remote \union {c}
    /\ UNCHANGED <<pc, local, tracking, merge, work, published, lock, cycle, status,
                   daemon, start>>

-----------------------------------------------------------------------------
BeforeLock ==
    \/ StartLoop \/ StartCycle \/ PreCheck \/ FetchSucceeds \/ FetchFails
    \/ ObserveStatus \/ ObserveUpstream \/ ObserveUpstreamFails
    \/ AcquireSaveLock \/ SaveLockBusy \/ GiveUpOnSaveLock

LockedPhases ==
    \/ Recheck \/ MarkSyncing \/ CommitStatus \/ AddAll \/ Commit \/ CommitFails
    \/ ClassifyPhase \/ ClassifyFails \/ FastForward \/ FastForwardRefused \/ LabelRefusal
    \/ MergeClean \/ MergeStops \/ MergeRefused
    \/ ResolveWithBackups \/ ResolveWithClaude \/ ResolveAborts
    \/ Unlock

AfterLock == MarkIdle \/ PushSucceeds \/ PushFails \/ Record

CycleStep == BeforeLock \/ LockedPhases \/ AfterLock

DaemonStep == LoopFails \/ Crash \/ RetryLoop \/ Shutdown \/ StopLoop \/ StartDaemon

EnvironmentStep ==
    \/ EditFile \/ TakeSaveLock \/ SaveAndReturnLock
    \/ HumanCommit \/ PauseOperation \/ FinishOperation \/ OtherPush

Next == CycleStep \/ DaemonStep \/ EnvironmentStep

Spec == Init /\ [][Next]_vars

(* The loop never stops between two triggers, people finish what they      *)
(* pause and writers release the lock, launchd restarts the daemon, select *)
(* does not ignore a cancelled context forever, and not every attempt at   *)
(* the lock collides with a writer.                                        *)
Fairness ==
    /\ WF_vars(CycleStep) /\ WF_vars(RetryLoop) /\ WF_vars(StartDaemon)
    /\ WF_vars(SaveAndReturnLock) /\ WF_vars(FinishOperation)
    /\ SF_vars(StopLoop) /\ SF_vars(AcquireSaveLock)

LiveSpec == Spec /\ Fairness

(* The network does not fail every time, nor does every merge abort.       *)
RemoteFairness ==
    SF_vars(FetchSucceeds) /\ SF_vars(PushSucceeds) /\ SF_vars(ResolveWithBackups)

-----------------------------------------------------------------------------
(* Properties.                                                             *)

(* gitloop holds the save lock exactly while it is in the locked phases:   *)
(* never across the fetch, the push or a wait, and never past a cycle that *)
(* panicked or bailed out (runLockedPhases' release and deferred release). *)
LockScope == lock = "gitloop" <=> (SaveLock /\ pc \in UnderLock)

checkout == <<local, op, mergeHead, dirty, staged>>

(* A step of the running loop that changes the checkout.                   *)
CheckoutWrite ==
    /\ pc' # pc /\ pc' \notin {"backoff", "down"}
    /\ checkout' # checkout

(* Whenever gitloop changes the checkout, the status file already says     *)
(* `syncing`, and the configured save lock is gitloop's: a process that    *)
(* honours either one is never surprised (status.go, runLockedPhases).     *)
WritesAnnounced ==
    [][CheckoutWrite => /\ status.phase = "syncing"
                        /\ SaveLock => lock = "gitloop"]_vars

(* gitloop never writes to a checkout in which a person's rebase or merge  *)
(* is open, although it looked for one long before, outside the lock.      *)
HandsOff == [][CheckoutWrite => op \notin HumanOps]_vars

(* No step loses a commit of the local or of the remote branch: the branch *)
(* is merged or fast-forwarded, never reset, and never pushed by force.    *)
HistoryOnlyGrows == [][local \subseteq local' /\ remote \subseteq remote']_vars

(* A merge gitloop began is over, committed or aborted, before the cycle   *)
(* goes on to anything else (resolveConflicts, Merge).                     *)
NoMergeLeftBehind == op = "loopMerge" => pc = "resolve"

(* Until something first disturbs the daemon or the checkout (a loop that  *)
(* fails, a crash, a shutdown, a paused operation), `syncing` in the       *)
(* status file means that a cycle is in its writing phases, whichever way  *)
(* it left the ones before and the lock (the comment on PhaseSyncing).     *)
SyncingMeansWriting ==
    disturbances = 0 /\ status.phase = "syncing" => pc \in Writing \union {"unlock", "markIdle"}

(* A committed-sync repository gets no commit of gitloop's, here or on the *)
(* remote, and nothing is ever staged in it (runCommittedSyncPhase).       *)
CommittedSyncOnlyTransports ==
    CommittedSync => staged = {} /\ (local \union remote) \intersect LoopCommits = {}

(* When a cycle is recorded as successful, the edits that were there when  *)
(* it began are in commits of the branch.  If it also found the branch     *)
(* checked out (with a branch configured, it has), those edits and the     *)
(* branch's commits are on the remote, and what the remote held then is on *)
(* the branch, whatever was edited, committed, pushed or failed meanwhile. *)
(* Without a configured branch, a rebase begun between the guard and the   *)
(* observation lets the cycle succeed over a detached HEAD                 *)
(* (checkedOutBranch), and then nothing is said of the remote.             *)
SuccessMeansSynced ==
    [][pc = "record" /\ pc' = "select" /\ status'.error = "none" =>
         /\ AutoCommits => start.edits \subseteq saved
         /\ SyncsRemote /\ ~cycle.detached =>
               start.local \subseteq remote /\ start.remote \subseteq local
         /\ workflow = "auto-commit-sync" /\ ~cycle.detached =>
               start.edits \subseteq published]_vars

(* A cycle that left conflict backups for a person reports `conflict`.     *)
ConflictReported == [][cycle.conflict /\ pc' = "select" => status'.phase = "conflict"]_vars

(* Every step of the cycle, of the daemon and of everyone else is, to the  *)
(* edits and the two branches, one step of CommitTransport or none: no     *)
(* order of steps loses an edit or a commit, commits an edit nowhere, or   *)
(* publishes a branch without what the remote had (runCycle).              *)
Transport == INSTANCE CommitTransport WITH
    pending <- dirty, committed <- saved, here <- local, there <- remote, delivered <- published
TransportsCommits == Transport!Spec

(* No step loses an edit, whoever pauses an operation and wherever: it     *)
(* stays pending or in a commit of the branch.  There are three            *)
(* exceptions: a commit that meets a rebase begun after the guard puts the *)
(* edit on the detached HEAD (runCommitPhase); a resolution whose commit   *)
(* fails aborts the merge over edits it has staged (backupAndAcceptTheirs);*)
(* and a person who gives an operation up gives up what is staged in it.   *)
EditsSurvive ==
    [][\/ pc = "commit" /\ op = "rebase"
       \/ ResolveAborts /\ "resolution" \in Failures
       \/ FinishOperation /\ staged # {}
       \/ dirty \union saved \subseteq dirty' \union saved']_vars

(* How far a cycle still has to go.                                        *)
StepsLeft ==
    CASE pc = "precheck"               -> 19
      [] pc = "fetch"                  -> 18
      [] pc = "status"                 -> 17
      [] pc = "plan"                   -> 16
      [] pc = "acquire"                -> 12 + SaveLockRetries - cycle.attempts
      [] pc = "recheck"                -> 12
      [] pc = "markSyncing"            -> 11
      [] pc = "commitStatus"           -> 10
      [] pc = "add"                    -> 9
      [] pc = "commit"                 -> 8
      [] pc = "classify"               -> 7
      [] pc \in {"ff", "merge"}        -> 6
      [] pc \in {"ffRefused", "resolve"} -> 5
      [] pc = "unlock"                 -> 4
      [] pc = "markIdle"               -> 3
      [] pc = "push"                   -> 2
      [] pc = "record"                 -> 1
      [] OTHER                         -> 0

(* A cycle is never prolonged: every step of its own takes it nearer to    *)
(* its end, and what anyone else does to the lock, the checkout or the     *)
(* remote meanwhile takes it no further away, so that it runs at most 19   *)
(* operations (runCycle's phases, acquireSaveLock's bounded retries).      *)
CycleEnds == [][(pc \in InCycle) => IF CycleStep THEN StepsLeft' < StepsLeft
                                                 ELSE StepsLeft' \in {StepsLeft, 0}]_vars

(* To the other programs of the machine all of this is the loop of         *)
(* RepositoryLoop: it begins to write, finishes, fails, is retried and     *)
(* stops, and its phase changes only when it begins and ends - which is    *)
(* also all that Daemon knows of a repository (status.go, superviseRepo).  *)
WritingPhases == (Writing \ {"markSyncing"}) \union {"unlock", "markIdle"}
Loop == INSTANCE RepositoryLoop WITH
    loop <- CASE pc = "down"           -> "none"
              [] pc = "backoff"        -> "backoff"
              [] pc \in WritingPhases  -> "writing"
              [] OTHER                 -> "idle",
    phase <- IF status.phase = "syncing" THEN "syncing" ELSE "idle"
IsRepositoryLoop == Loop!Spec

(* Once people and other clones are done, the checkout ends up clean and   *)
(* equal to the remote branch, through races, rejected pushes, failed      *)
(* fetches, crashes and paused operations, if the network lets it.         *)
Converges == RemoteFairness => <>[](dirty = {} /\ local = remote)

(* Even if the network never comes back, every edit ends up in a commit.   *)
EditsGetCommitted == \A e \in Edits : e \in dirty ~> e \in saved
=============================================================================
