--------------------------- MODULE SyncCycleProofs --------------------------
(***************************************************************************)
(* Proofs about SyncCycle, for every workflow, every set of edits and      *)
(* commits, every kind of intrusion and failure.  The invariants below are *)
(* inductive relative to those before them; each has one step lemma, by    *)
(* cases on the groups of actions of Next.                                 *)
(***************************************************************************)
EXTENDS SyncCycle, TLAPS

(* What the actions are made of is visible in every proof of this module;  *)
(* the invariants, Init, Next and the groups of actions are not.           *)
USE DEF InCycle, UnderLock, Writing, HumanOps, gitVars, merge, work, daemon,
        Known, Fresh, BeginCycle, EndCycle, FailTo, NoStart, StatusEntries,
        ReleaseSaveLock, Safe, AbortMerge, AttemptsLeft, AnnounceSyncing, AnnounceIdle,
        CycleError, Disturb, AfterCommit, BranchCheckedOut, Detached, Compared, MergesDiverged,
        FastForwardable, PushAccepted, MayAct, UnmadeEdits,
        AutoCommits, SyncsRemote, CommittedSync, AutoCommitting, ResolveMode
USE DEF StartLoop, StartCycle, PreCheck, FetchSucceeds, FetchFails, ObserveStatus,
        ObserveUpstream, ObserveUpstreamFails, AcquireSaveLock, SaveLockBusy,
        GiveUpOnSaveLock
USE DEF Recheck, MarkSyncing, CommitStatus, AddAll, Commit, CommitFails,
        ClassifyPhase, ClassifyFails, FastForward, FastForwardRefused,
        LabelRefusal, MergeClean, MergeStops, MergeRefused, ResolveWithBackups,
        ResolveWithClaude, ResolveAborts, Unlock
USE DEF MarkIdle, PushSucceeds, PushFails, Record
USE DEF LoopFails, Crash, RetryLoop, Shutdown, StopLoop, StartDaemon
USE DEF EditFile, TakeSaveLock, SaveAndReturnLock, HumanCommit, PauseOperation,
        FinishOperation, OtherPush

-----------------------------------------------------------------------------
(* Types, a few variables at a time.                                       *)

Positions ==
    /\ workflow \in Workflows
    /\ pc \in Locations /\ op \in Operations /\ lock \in {"free", "gitloop", "writer"}

Contents ==
    /\ local \subseteq Commits /\ tracking \subseteq Commits /\ remote \subseteq Commits
    /\ mergeHead \subseteq Commits
    /\ dirty \subseteq Edits /\ saved \subseteq Edits /\ published \subseteq Edits
    /\ staged \subseteq dirty

Counters == cancelled \in BOOLEAN /\ disturbances \in 0 .. MaxDisturbances

CycleTyped == cycle \in CycleType

LEMMA NewCycleTyped == NewCycle \in CycleType
  BY DEF NewCycle, CycleType, Reasons, SaveLockRetries

LEMMA PositionsStep == Positions /\ [Next]_vars => Positions'
<1> SUFFICES ASSUME Positions, [Next]_vars PROVE Positions'
  OBVIOUS
<1> USE DEF Positions, Locations, Operations, Workflows
<1>1. CASE BeforeLock
  BY <1>1 DEF BeforeLock
<1>2. CASE LockedPhases
  BY <1>2 DEF LockedPhases
<1>3. CASE AfterLock
  BY <1>3 DEF AfterLock
<1>4. CASE DaemonStep
  BY <1>4 DEF DaemonStep
<1>5. CASE EnvironmentStep
  BY <1>5 DEF EnvironmentStep
<1>6. CASE UNCHANGED vars
  BY <1>6 DEF vars
<1> QED
  BY <1>1, <1>2, <1>3, <1>4, <1>5, <1>6 DEF Next, CycleStep

LEMMA ContentsStep == Contents /\ [Next]_vars => Contents'
<1> SUFFICES ASSUME Contents, [Next]_vars PROVE Contents'
  OBVIOUS
<1> USE DEF Contents, Commits
<1>1. CASE BeforeLock
  BY <1>1 DEF BeforeLock
<1>2. CASE LockedPhases
  BY <1>2 DEF LockedPhases
<1>3. CASE AfterLock
  BY <1>3 DEF AfterLock
<1>4. CASE DaemonStep
  BY <1>4 DEF DaemonStep
<1>5. CASE EnvironmentStep
  BY <1>5 DEF EnvironmentStep
<1>6. CASE UNCHANGED vars
  BY <1>6 DEF vars
<1> QED
  BY <1>1, <1>2, <1>3, <1>4, <1>5, <1>6 DEF Next, CycleStep

LEMMA CountersStep == Counters /\ [Next]_vars => Counters'
<1> SUFFICES ASSUME Counters, [Next]_vars PROVE Counters'
  OBVIOUS
<1> USE EnvironmentAssumption DEF Counters
<1>1. CASE BeforeLock
  BY <1>1 DEF BeforeLock
<1>2. CASE LockedPhases
  BY <1>2 DEF LockedPhases
<1>3. CASE AfterLock
  BY <1>3 DEF AfterLock
<1>4. CASE DaemonStep
  <2>1. CASE LoopFails
    BY <2>1
  <2>2. CASE Crash
    BY <2>2
  <2>3. CASE RetryLoop
    BY <2>3
  <2>4. CASE Shutdown
    BY <2>4
  <2>5. CASE StopLoop
    BY <2>5
  <2>6. CASE StartDaemon
    BY <2>6
  <2> QED
    BY <1>4, <2>1, <2>2, <2>3, <2>4, <2>5, <2>6 DEF DaemonStep
<1>5. CASE EnvironmentStep
  BY <1>5 DEF EnvironmentStep
<1>6. CASE UNCHANGED vars
  BY <1>6 DEF vars
<1> QED
  BY <1>1, <1>2, <1>3, <1>4, <1>5, <1>6 DEF Next, CycleStep

LEMMA CycleStepTyped == CycleTyped /\ [Next]_vars => CycleTyped'
<1> SUFFICES ASSUME CycleTyped, [Next]_vars PROVE CycleTyped'
  OBVIOUS
<1> USE DEF CycleTyped, CycleType, Reasons, SaveLockRetries
<1>1. CASE BeforeLock
  <2>1. CASE StartLoop
    BY <2>1
  <2>2. CASE StartCycle
    BY <2>2
  <2>3. CASE PreCheck
    BY <2>3
  <2>4. CASE FetchSucceeds
    BY <2>4, NewCycleTyped
  <2>5. CASE FetchFails
    BY <2>5, NewCycleTyped
  <2>6. CASE ObserveStatus
    BY <2>6
  <2>7. CASE ObserveUpstream
    <3>1. Detached \in BOOLEAN /\ "diverged" \in Reasons
      BY DEF Reasons
    <3>2. \/ cycle' = [cycle EXCEPT !.detached = Detached, !.err = cycle.fetchFailed]
          \/ cycle' = [cycle EXCEPT !.detached = Detached, !.err = TRUE, !.blocked = "diverged"]
          \/ cycle' = [cycle EXCEPT !.detached = Detached]
      BY <2>7
    <3> HIDE DEF Detached
    <3> QED
      BY <3>1, <3>2
  <2>8. CASE ObserveUpstreamFails
    BY <2>8
  <2>9. CASE AcquireSaveLock
    <3>1. cycle' = [[cycle EXCEPT !.attempts = 0] EXCEPT !.detached = FALSE]
      BY <2>9
    <3>2. [cycle EXCEPT !.attempts = 0] \in CycleType
      BY DEF CycleType
    <3> QED
      BY <3>1, <3>2
  <2>10. CASE SaveLockBusy
    BY <2>10
  <2>11. CASE GiveUpOnSaveLock
    BY <2>11, NewCycleTyped
  <2> QED
    BY <1>1, <2>1, <2>2, <2>3, <2>4, <2>5, <2>6, <2>7, <2>8, <2>9, <2>10, <2>11 DEF
        BeforeLock
<1>2. CASE LockedPhases
  BY <1>2 DEF LockedPhases
<1>3. CASE AfterLock
  <2>1. CASE MarkIdle
    BY <2>1
  <2>2. CASE PushSucceeds
    BY <2>2
  <2>3. CASE PushFails
    BY <2>3, NewCycleTyped
  <2>4. CASE Record
    BY <2>4, NewCycleTyped
  <2> QED
    BY <1>3, <2>1, <2>2, <2>3, <2>4 DEF AfterLock
<1>4. CASE DaemonStep
  <2>1. CASE LoopFails
    BY <2>1, NewCycleTyped
  <2>2. CASE Crash
    BY <2>2, NewCycleTyped
  <2>3. CASE RetryLoop
    BY <2>3
  <2>4. CASE Shutdown
    BY <2>4
  <2>5. CASE StopLoop
    BY <2>5
  <2>6. CASE StartDaemon
    BY <2>6
  <2> QED
    BY <1>4, <2>1, <2>2, <2>3, <2>4, <2>5, <2>6 DEF DaemonStep
<1>5. CASE EnvironmentStep
  BY <1>5 DEF EnvironmentStep
<1>6. CASE UNCHANGED vars
  BY <1>6 DEF vars
<1> QED
  BY <1>1, <1>2, <1>3, <1>4, <1>5, <1>6 DEF Next, CycleStep

LEMMA StatusStepTyped == TypeOK /\ [Next]_vars => (status \in StatusType)'
<1> SUFFICES ASSUME TypeOK, [Next]_vars PROVE (status \in StatusType)'
  OBVIOUS
<1> USE DEF TypeOK, StatusType, CycleType, Reasons, ResultStatus
<1>1. CASE BeforeLock
  BY <1>1 DEF BeforeLock
<1>2. CASE LockedPhases
  BY <1>2 DEF LockedPhases
<1>3. CASE AfterLock
  BY <1>3 DEF AfterLock
<1>4. CASE DaemonStep
  BY <1>4 DEF DaemonStep
<1>5. CASE EnvironmentStep
  BY <1>5 DEF EnvironmentStep
<1>6. CASE UNCHANGED vars
  BY <1>6 DEF vars
<1> QED
  BY <1>1, <1>2, <1>3, <1>4, <1>5, <1>6 DEF Next, CycleStep

LEMMA StartStepTyped == TypeOK /\ [Next]_vars => (start \in StartType)'
<1> SUFFICES ASSUME TypeOK, [Next]_vars PROVE (start \in StartType)'
  OBVIOUS
<1> USE DEF TypeOK, StartType
<1>1. CASE BeforeLock
  BY <1>1 DEF BeforeLock
<1>2. CASE LockedPhases
  BY <1>2 DEF LockedPhases
<1>3. CASE AfterLock
  BY <1>3 DEF AfterLock
<1>4. CASE DaemonStep
  BY <1>4 DEF DaemonStep
<1>5. CASE EnvironmentStep
  BY <1>5 DEF EnvironmentStep
<1>6. CASE UNCHANGED vars
  BY <1>6 DEF vars
<1> QED
  BY <1>1, <1>2, <1>3, <1>4, <1>5, <1>6 DEF Next, CycleStep

LEMMA TypeInit == Init => TypeOK
<1> SUFFICES ASSUME Init PROVE TypeOK
  OBVIOUS
<1>1. Positions /\ Contents /\ cancelled \in BOOLEAN
  BY ConfigurationAssumption DEF Init, Positions, Contents, Locations, Operations
<1>2. disturbances \in 0 .. MaxDisturbances
  BY EnvironmentAssumption DEF Init
<1>3. cycle \in CycleType
  BY NewCycleTyped DEF Init
<1>4. status \in StatusType /\ start \in StartType
  BY DEF Init, StatusType, StartType, Reasons
<1> QED
  BY <1>1, <1>2, <1>3, <1>4 DEF TypeOK, Positions, Contents

LEMMA TypeStep == TypeOK /\ [Next]_vars => TypeOK'
<1> SUFFICES ASSUME TypeOK, [Next]_vars PROVE TypeOK'
  OBVIOUS
<1>1. Positions /\ Contents /\ Counters /\ CycleTyped
  BY DEF TypeOK, Positions, Contents, Counters, CycleTyped
<1>2. Positions' /\ Contents' /\ Counters' /\ CycleTyped'
  BY <1>1, PositionsStep, ContentsStep, CountersStep, CycleStepTyped
<1>3. status' \in StatusType /\ start' \in StartType
  BY StatusStepTyped, StartStepTyped
<1> QED
  BY <1>2, <1>3 DEF TypeOK, Positions, Contents, Counters, CycleTyped

(* Every variable keeps its type (the daemon's state after any number of   *)
(* cycles, failures and restarts is one the code can represent).           *)
THEOREM TypeCorrect == Spec => []TypeOK
  BY TypeInit, TypeStep, PTL DEF Spec

-----------------------------------------------------------------------------
(* The save lock, the guard and the phase.                                 *)

LEMMA LockScopeInit == Init => LockScope
  BY DEF Init, LockScope

LEMMA LockScopeStep == LockScope /\ [Next]_vars => LockScope'
<1> SUFFICES ASSUME LockScope, [Next]_vars PROVE LockScope'
  OBVIOUS
<1> USE DEF LockScope
<1>1. CASE BeforeLock
  BY <1>1 DEF BeforeLock
<1>2. CASE LockedPhases
  BY <1>2 DEF LockedPhases
<1>3. CASE AfterLock
  BY <1>3 DEF AfterLock
<1>4. CASE DaemonStep
  BY <1>4 DEF DaemonStep
<1>5. CASE EnvironmentStep
  BY <1>5 DEF EnvironmentStep
<1>6. CASE UNCHANGED vars
  BY <1>6 DEF vars
<1> QED
  BY <1>1, <1>2, <1>3, <1>4, <1>5, <1>6 DEF Next, CycleStep

(* gitloop holds the save lock in the locked phases and nowhere else: not  *)
(* across a fetch, a push or a wait, not after a panic (runLockedPhases).  *)
THEOREM LockScopeHolds == Spec => []LockScope
  BY LockScopeInit, LockScopeStep, PTL DEF Spec

(* Once announced, `syncing` stays in the status file until the unlock.    *)
Announced == pc \in (Writing \ {"markSyncing"}) \union {"unlock"} => status.phase = "syncing"

LEMMA AnnouncedStep == TypeOK /\ Announced /\ [Next]_vars => Announced'
<1> SUFFICES ASSUME TypeOK, Announced, [Next]_vars PROVE Announced'
  OBVIOUS
<1> USE DEF TypeOK, Announced, StatusType
<1>1. CASE BeforeLock
  BY <1>1 DEF BeforeLock
<1>2. CASE LockedPhases
  BY <1>2 DEF LockedPhases
<1>3. CASE AfterLock
  BY <1>3 DEF AfterLock
<1>4. CASE DaemonStep
  BY <1>4 DEF DaemonStep
<1>5. CASE EnvironmentStep
  BY <1>5 DEF EnvironmentStep
<1>6. CASE UNCHANGED vars
  BY <1>6 DEF vars
<1> QED
  BY <1>1, <1>2, <1>3, <1>4, <1>5, <1>6 DEF Next, CycleStep

LEMMA WritesAnnouncedStep ==
  TypeOK /\ LockScope /\ Announced /\ [Next]_vars /\ CheckoutWrite =>
    status.phase = "syncing" /\ (SaveLock => lock = "gitloop")
<1> SUFFICES ASSUME TypeOK, LockScope, Announced, [Next]_vars, CheckoutWrite
             PROVE status.phase = "syncing" /\ (SaveLock => lock = "gitloop")
  OBVIOUS
<1> USE DEF LockScope, Announced, CheckoutWrite, checkout
<1>1. ~BeforeLock
  BY DEF BeforeLock
<1>2. CASE LockedPhases
  BY <1>2 DEF LockedPhases
<1>3. ~AfterLock
  BY DEF AfterLock
<1>4. ~DaemonStep
  BY DEF DaemonStep
<1>5. ~EnvironmentStep
  BY DEF EnvironmentStep
<1>6. ~UNCHANGED vars
  BY DEF vars
<1> QED
  BY <1>1, <1>2, <1>3, <1>4, <1>5, <1>6 DEF Next, CycleStep

(* Whenever gitloop changes the checkout it has said `syncing` and, when a *)
(* save lock is configured, holds it (runLockedPhases).                    *)
THEOREM WritesAreAnnounced == Spec => WritesAnnounced
<1>1. Init => Announced
  BY DEF Init, Announced
<1> QED
  BY <1>1, TypeInit, TypeStep, LockScopeInit, LockScopeStep, AnnouncedStep,
     WritesAnnouncedStep, PTL DEF Spec, WritesAnnounced

LEMMA SyncingStep == TypeOK /\ SyncingMeansWriting /\ [Next]_vars => SyncingMeansWriting'
<1> SUFFICES ASSUME TypeOK, SyncingMeansWriting, [Next]_vars PROVE SyncingMeansWriting'
  OBVIOUS
<1> USE DEF TypeOK, SyncingMeansWriting, StatusType, ResultStatus
<1>1. CASE BeforeLock
  BY <1>1 DEF BeforeLock
<1>2. CASE LockedPhases
  BY <1>2 DEF LockedPhases
<1>3. CASE AfterLock
  BY <1>3 DEF AfterLock
<1>4. CASE DaemonStep
  BY <1>4 DEF DaemonStep
<1>5. CASE EnvironmentStep
  BY <1>5 DEF EnvironmentStep
<1>6. CASE UNCHANGED vars
  BY <1>6 DEF vars
<1> QED
  BY <1>1, <1>2, <1>3, <1>4, <1>5, <1>6 DEF Next, CycleStep

(* Until a loop first fails or a daemon dies, the status file says         *)
(* `syncing` only in the writing phases of a cycle: every way out of them, *)
(* errors included, goes through the step that says `idle` again.          *)
THEOREM SyncingIsWriting == Spec => []SyncingMeansWriting
<1>1. Init => SyncingMeansWriting
  BY DEF Init, SyncingMeansWriting
<1> QED
  BY <1>1, TypeInit, TypeStep, SyncingStep, PTL DEF Spec

GuardKept ==
    "operation" \notin Intrusions /\ pc \in Writing =>
        op = "none" \/ (pc = "resolve" /\ op = "loopMerge")

LEMMA GuardKeptStep == GuardKept /\ [Next]_vars => GuardKept'
<1> SUFFICES ASSUME GuardKept, [Next]_vars PROVE GuardKept'
  OBVIOUS
<1> USE DEF GuardKept
<1>1. CASE BeforeLock
  BY <1>1 DEF BeforeLock
<1>2. CASE LockedPhases
  BY <1>2 DEF LockedPhases
<1>3. CASE AfterLock
  BY <1>3 DEF AfterLock
<1>4. CASE DaemonStep
  BY <1>4 DEF DaemonStep
<1>5. CASE EnvironmentStep
  BY <1>5 DEF EnvironmentStep
<1>6. CASE UNCHANGED vars
  BY <1>6 DEF vars
<1> QED
  BY <1>1, <1>2, <1>3, <1>4, <1>5, <1>6 DEF Next, CycleStep

LEMMA HandsOffStep ==
  ASSUME "operation" \notin Intrusions, GuardKept, [Next]_vars, CheckoutWrite
  PROVE  op \notin HumanOps
<1> USE DEF GuardKept, CheckoutWrite, checkout
<1>1. ~BeforeLock
  BY DEF BeforeLock
<1>2. CASE LockedPhases
  BY <1>2 DEF LockedPhases
<1>3. ~AfterLock
  BY DEF AfterLock
<1>4. ~DaemonStep
  BY DEF DaemonStep
<1>5. ~EnvironmentStep
  BY DEF EnvironmentStep
<1>6. ~UNCHANGED vars
  BY DEF vars
<1> QED
  BY <1>1, <1>2, <1>3, <1>4, <1>5, <1>6 DEF Next, CycleStep

(* As long as nobody pauses a rebase or a merge in the short interval      *)
(* after the guard under the lock, gitloop never writes to a checkout that *)
(* is in the middle of one, however long it waited for the lock.           *)
THEOREM HumanOperationsUntouched ==
  ASSUME "operation" \notin Intrusions PROVE Spec => HandsOff
<1>1. Init => GuardKept
  BY DEF Init, GuardKept
<1>2. GuardKept /\ [Next]_vars /\ CheckoutWrite => op \notin HumanOps
  BY HandsOffStep
<1> QED
  BY <1>1, <1>2, GuardKeptStep, PTL DEF Spec, HandsOff

-----------------------------------------------------------------------------
(* Merges and histories.                                                   *)

LEMMA NoMergeLeftStep == ~LinkedWorktree /\ NoMergeLeftBehind /\ [Next]_vars => NoMergeLeftBehind'
<1> SUFFICES ASSUME ~LinkedWorktree, NoMergeLeftBehind, [Next]_vars PROVE NoMergeLeftBehind'
  OBVIOUS
<1> USE DEF NoMergeLeftBehind
<1>1. CASE BeforeLock
  BY <1>1 DEF BeforeLock
<1>2. CASE LockedPhases
  BY <1>2 DEF LockedPhases
<1>3. CASE AfterLock
  BY <1>3 DEF AfterLock
<1>4. CASE DaemonStep
  BY <1>4 DEF DaemonStep
<1>5. CASE EnvironmentStep
  BY <1>5 DEF EnvironmentStep
<1>6. CASE UNCHANGED vars
  BY <1>6 DEF vars
<1> QED
  BY <1>1, <1>2, <1>3, <1>4, <1>5, <1>6 DEF Next, CycleStep

(* Outside linked worktrees, every merge gitloop begins is committed or    *)
(* aborted before the cycle goes on (runIntegratePhase, resolveConflicts). *)
THEOREM MergesEnd == ASSUME ~LinkedWorktree PROVE Spec => []NoMergeLeftBehind
<1>1. Init => NoMergeLeftBehind
  BY DEF Init, NoMergeLeftBehind
<1>2. NoMergeLeftBehind /\ [Next]_vars => NoMergeLeftBehind'
  BY NoMergeLeftStep
<1> QED
  BY <1>1, <1>2, PTL DEF Spec

LEMMA HistoryStep == [Next]_vars => local \subseteq local' /\ remote \subseteq remote'
<1> SUFFICES ASSUME [Next]_vars PROVE local \subseteq local' /\ remote \subseteq remote'
  OBVIOUS
<1>1. CASE BeforeLock
  BY <1>1 DEF BeforeLock
<1>2. CASE LockedPhases
  BY <1>2 DEF LockedPhases
<1>3. CASE AfterLock
  BY <1>3 DEF AfterLock
<1>4. CASE DaemonStep
  BY <1>4 DEF DaemonStep
<1>5. CASE EnvironmentStep
  BY <1>5 DEF EnvironmentStep
<1>6. CASE UNCHANGED vars
  BY <1>6 DEF vars
<1> QED
  BY <1>1, <1>2, <1>3, <1>4, <1>5, <1>6 DEF Next, CycleStep

(* No commit is ever lost, locally or on the remote: gitloop moves both    *)
(* branches only forward (MergeFF, Merge, Push).                           *)
THEOREM HistoriesOnlyGrow == Spec => HistoryOnlyGrows
  BY HistoryStep, PTL DEF Spec, HistoryOnlyGrows

(* Which phases a workflow can reach; no cycle outlives a change of it.    *)
WorkflowPhases ==
    /\ pc \in {"commitStatus", "add", "commit", "merge", "resolve"} => AutoCommits
    /\ pc = "ffRefused" => CommittedSync
    /\ pc \in {"fetch", "classify", "ff", "ffRefused", "merge", "resolve", "push"} => SyncsRemote
    /\ cycle.push => SyncsRemote /\ pc \in InCycle

LEMMA WorkflowPhasesStep == TypeOK /\ WorkflowPhases /\ [Next]_vars => WorkflowPhases'
<1> SUFFICES ASSUME TypeOK, WorkflowPhases, [Next]_vars PROVE WorkflowPhases'
  OBVIOUS
<1> USE ConfigurationAssumption DEF TypeOK, CycleType, WorkflowPhases, NewCycle, Plan, PlanCycle, Upstreams, Workflows
<1>1. CASE BeforeLock
  <2>1. CASE StartLoop
    BY <2>1
  <2>2. CASE StartCycle
    BY <2>2
  <2>3. CASE PreCheck
    BY <2>3
  <2>4. CASE FetchSucceeds
    BY <2>4
  <2>5. CASE FetchFails
    BY <2>5
  <2>6. CASE ObserveStatus
    BY <2>6
  <2>7. CASE ObserveUpstream
    BY <2>7
  <2>8. CASE ObserveUpstreamFails
    BY <2>8
  <2>9. CASE AcquireSaveLock
    BY <2>9
  <2>10. CASE SaveLockBusy
    BY <2>10
  <2>11. CASE GiveUpOnSaveLock
    BY <2>11
  <2> QED
    BY <1>1, <2>1, <2>2, <2>3, <2>4, <2>5, <2>6, <2>7, <2>8, <2>9, <2>10, <2>11 DEF
        BeforeLock
<1>2. CASE LockedPhases
  BY <1>2 DEF LockedPhases
<1>3. CASE AfterLock
  BY <1>3 DEF AfterLock
<1>4. CASE DaemonStep
  BY <1>4 DEF DaemonStep
<1>5. CASE EnvironmentStep
  BY <1>5 DEF EnvironmentStep
<1>6. CASE UNCHANGED vars
  BY <1>6 DEF vars
<1> QED
  BY <1>1, <1>2, <1>3, <1>4, <1>5, <1>6 DEF Next, CycleStep

(* CommittedSyncOnlyTransports, with every ref the loop may copy from.     *)
OnlyTransports ==
    CommittedSync =>
        /\ staged = {}
        /\ (local \union tracking \union remote \union mergeHead) \intersect LoopCommits = {}

LEMMA OnlyTransportsStep == WorkflowPhases /\ OnlyTransports /\ [Next]_vars => OnlyTransports'
<1> SUFFICES ASSUME WorkflowPhases, OnlyTransports, [Next]_vars PROVE OnlyTransports'
  OBVIOUS
<1> USE CommitAssumption DEF WorkflowPhases, OnlyTransports
<1>1. CASE BeforeLock
  BY <1>1 DEF BeforeLock
<1>2. CASE LockedPhases
  BY <1>2 DEF LockedPhases
<1>3. CASE AfterLock
  BY <1>3 DEF AfterLock
<1>4. CASE DaemonStep
  BY <1>4 DEF DaemonStep
<1>5. CASE EnvironmentStep
  BY <1>5 DEF EnvironmentStep
<1>6. CASE UNCHANGED vars
  BY <1>6 DEF vars
<1> QED
  BY <1>1, <1>2, <1>3, <1>4, <1>5, <1>6 DEF Next, CycleStep

LEMMA WorkflowPhasesInit == Init => WorkflowPhases
  BY DEF Init, NewCycle, WorkflowPhases

(* A committed-sync repository never receives a commit of gitloop's and    *)
(* nothing is staged in it (runCommittedSyncPhase).                        *)
THEOREM CommittedSyncTransports == Spec => []CommittedSyncOnlyTransports
<1>1. Init => OnlyTransports
  BY DEF Init, OnlyTransports
<1>2. OnlyTransports => CommittedSyncOnlyTransports
  BY DEF OnlyTransports, CommittedSyncOnlyTransports
<1> QED
  BY <1>1, <1>2, TypeInit, TypeStep, WorkflowPhasesInit, WorkflowPhasesStep,
     OnlyTransportsStep, PTL DEF Spec

-----------------------------------------------------------------------------
(* A successful cycle has synced what it found when it began.  The         *)
(* invariant follows the cycle: what the branches and edits at its start   *)
(* have become (Histories, EditsKept), what the fetch has brought          *)
(* (UpstreamKnown), where the edits are by each phase (EditsSaved), and    *)
(* when all of it has reached the remote (SyncKnown).  GuardKept is needed *)
(* for all but the first: on a detached HEAD a commit, a merge and a       *)
(* fast-forward do nothing for the branch.                                 *)

PastGuard == InCycle \ {"precheck", "record"}
Succeeding == ~cycle.err /\ ~cycle.skipped
Synced == start.local \subseteq remote /\ (AutoCommits => start.edits \subseteq published)

(* Refs and edits only gain; a branch the remote holds has its edits there.*)
Histories ==
    /\ tracking \subseteq remote
    /\ start.local \subseteq local /\ start.remote \subseteq remote
    /\ published \subseteq saved
    /\ local \subseteq remote => saved \subseteq published

(* What is staged while an operation is open would go with it.             *)
NothingStagedInOperation == op # "none" => staged = {}

EditsKept ==
    /\ start.edits \subseteq dirty \union saved
    /\ pc = "commit" => start.edits \subseteq staged \union saved

UpstreamKnown ==
    pc \in PastGuard \ {"fetch"} /\ SyncsRemote /\ ~cycle.fetchFailed =>
        start.remote \subseteq tracking

EditsSaved ==
    AutoCommits =>
        /\ pc = "plan" /\ ~cycle.dirty => start.edits \subseteq saved
        /\ pc \in {"classify", "ff", "merge", "resolve", "push"} => start.edits \subseteq saved
        /\ pc \in {"unlock", "markIdle"} /\ ~cycle.err => start.edits \subseteq saved
        /\ pc = "record" /\ Succeeding => start.edits \subseteq saved

SyncKnown ==
    SyncsRemote =>
        /\ pc = "ff" => Synced
        /\ pc = "ffRefused" => cycle.err
        /\ pc \in {"unlock", "markIdle"} /\ ~cycle.err /\ ~cycle.fetchFailed /\ ~cycle.push =>
              Synced /\ start.remote \subseteq local
        /\ pc = "record" /\ Succeeding /\ ~cycle.detached =>
              Synced /\ start.remote \subseteq local

(* planCycle leaves no pending edit behind in an auto-commit workflow.      *)
LEMMA PlanCoversEdits ==
  ASSUME NEW isDirty \in BOOLEAN, NEW upstream \in Observations,
         PlanCycle(TRUE, isDirty, upstream) \in {"push", "nothing-to-do", "blocked"}
  PROVE  ~isDirty
  BY DEF PlanCycle, Observations, RelativeStates

LEMMA HistoriesStep == TypeOK /\ Histories /\ [Next]_vars => Histories'
<1> SUFFICES ASSUME TypeOK, Histories, [Next]_vars PROVE Histories'
  OBVIOUS
<1> USE DEF TypeOK, Histories
<1>1. CASE BeforeLock
  BY <1>1 DEF BeforeLock
<1>2. CASE LockedPhases
  BY <1>2 DEF LockedPhases
<1>3. CASE AfterLock
  BY <1>3 DEF AfterLock
<1>4. CASE DaemonStep
  BY <1>4 DEF DaemonStep
<1>5. CASE EnvironmentStep
  BY <1>5 DEF EnvironmentStep
<1>6. CASE UNCHANGED vars
  BY <1>6 DEF vars
<1> QED
  BY <1>1, <1>2, <1>3, <1>4, <1>5, <1>6 DEF Next, CycleStep

LEMMA NothingStagedStep ==
  ASSUME "operation" \notin Intrusions
  PROVE  GuardKept /\ NothingStagedInOperation /\ [Next]_vars => NothingStagedInOperation'
<1> SUFFICES ASSUME GuardKept, NothingStagedInOperation, [Next]_vars
             PROVE NothingStagedInOperation'
  OBVIOUS
<1> USE DEF GuardKept, NothingStagedInOperation
<1>1. CASE BeforeLock
  BY <1>1 DEF BeforeLock
<1>2. CASE LockedPhases
  BY <1>2 DEF LockedPhases
<1>3. CASE AfterLock
  BY <1>3 DEF AfterLock
<1>4. CASE DaemonStep
  BY <1>4 DEF DaemonStep
<1>5. CASE EnvironmentStep
  BY <1>5 DEF EnvironmentStep
<1>6. CASE UNCHANGED vars
  BY <1>6 DEF vars
<1> QED
  BY <1>1, <1>2, <1>3, <1>4, <1>5, <1>6 DEF Next, CycleStep

SafeInv == TypeOK /\ GuardKept /\ NothingStagedInOperation

LEMMA EditsKeptStep ==
  ASSUME "operation" \notin Intrusions
  PROVE  SafeInv /\ WorkflowPhases /\ EditsKept /\ EditsSaved /\ [Next]_vars => EditsKept'
<1> SUFFICES ASSUME SafeInv, WorkflowPhases, EditsKept, EditsSaved, [Next]_vars
             PROVE EditsKept'
  OBVIOUS
<1> USE DEF SafeInv, TypeOK, GuardKept, NothingStagedInOperation, WorkflowPhases,
            EditsKept, EditsSaved
<1>1. CASE BeforeLock
  BY <1>1 DEF BeforeLock
<1>2. CASE LockedPhases
  BY <1>2 DEF LockedPhases
<1>3. CASE AfterLock
  BY <1>3 DEF AfterLock
<1>4. CASE DaemonStep
  BY <1>4 DEF DaemonStep
<1>5. CASE EnvironmentStep
  BY <1>5 DEF EnvironmentStep
<1>6. CASE UNCHANGED vars
  BY <1>6 DEF vars
<1> QED
  BY <1>1, <1>2, <1>3, <1>4, <1>5, <1>6 DEF Next, CycleStep

LEMMA UpstreamKnownStep == TypeOK /\ Histories /\ UpstreamKnown /\ [Next]_vars => UpstreamKnown'
<1> SUFFICES ASSUME TypeOK, Histories, UpstreamKnown, [Next]_vars PROVE UpstreamKnown'
  OBVIOUS
<1> USE DEF TypeOK, CycleType, Histories, UpstreamKnown, PastGuard
<1>1. CASE BeforeLock
  BY <1>1 DEF BeforeLock
<1>2. CASE LockedPhases
  BY <1>2 DEF LockedPhases
<1>3. CASE AfterLock
  BY <1>3 DEF AfterLock
<1>4. CASE DaemonStep
  BY <1>4 DEF DaemonStep
<1>5. CASE EnvironmentStep
  BY <1>5 DEF EnvironmentStep
<1>6. CASE UNCHANGED vars
  BY <1>6 DEF vars
<1> QED
  BY <1>1, <1>2, <1>3, <1>4, <1>5, <1>6 DEF Next, CycleStep

LEMMA EditsSavedStep ==
  ASSUME "operation" \notin Intrusions
  PROVE  SafeInv /\ WorkflowPhases /\ EditsKept /\ EditsSaved /\ [Next]_vars => EditsSaved'
<1> SUFFICES ASSUME SafeInv, WorkflowPhases, EditsKept, EditsSaved, [Next]_vars
             PROVE EditsSaved'
  OBVIOUS
<1> USE ConfigurationAssumption DEF SafeInv, TypeOK, GuardKept, CycleType, WorkflowPhases,
            EditsKept, EditsSaved, PastGuard, Succeeding, Workflows
<1>1. CASE BeforeLock
  <2>1. CASE StartLoop
    BY <2>1
  <2>2. CASE StartCycle
    BY <2>2
  <2>3. CASE PreCheck
    BY <2>3
  <2>4. CASE FetchSucceeds
    BY <2>4
  <2>5. CASE FetchFails
    BY <2>5
  <2>6. CASE ObserveStatus
    BY <2>6
  <2>7. CASE ObserveUpstream
    <3>1. Upstreams \subseteq Observations
      BY DEF Upstreams, Classify, Observations, RelativeStates
    <3>2. cycle.dirty \in BOOLEAN /\ AutoCommits \in BOOLEAN
      OBVIOUS
    <3>3. CASE pc' = "acquire"
      BY <2>7, <3>3
    <3>4. CASE ~(pc' = "acquire")
      <4>1. PICK upstream \in Upstreams :
               Plan(upstream) \in {"push", "nothing-to-do", "blocked"}
        BY <2>7, <3>4
      <4>2. AutoCommits => ~cycle.dirty
        BY <3>1, <3>2, <4>1, PlanCoversEdits DEF Plan
      <4>3. AutoCommits => start.edits \subseteq saved
        BY <2>7, <4>2
      <4>4. UNCHANGED <<start, saved, workflow>> /\ pc' \in {"push", "record"}
        BY <2>7, <3>4
      <4> QED
        BY <4>3, <4>4
    <3> QED
      BY <3>3, <3>4
  <2>8. CASE ObserveUpstreamFails
    BY <2>8
  <2>9. CASE AcquireSaveLock
    BY <2>9
  <2>10. CASE SaveLockBusy
    BY <2>10
  <2>11. CASE GiveUpOnSaveLock
    BY <2>11
  <2> QED
    BY <1>1, <2>1, <2>2, <2>3, <2>4, <2>5, <2>6, <2>7, <2>8, <2>9, <2>10, <2>11 DEF
        BeforeLock
<1>2. CASE LockedPhases
  <2>1. CASE Recheck
    BY <2>1
  <2>2. CASE MarkSyncing
    BY <2>2
  <2>3. CASE CommitStatus
    BY <2>3
  <2>4. CASE AddAll
    BY <2>4
  <2>5. CASE Commit
    BY <2>5
  <2>6. CASE CommitFails
    BY <2>6
  <2>7. CASE ClassifyPhase
    BY <2>7
  <2>8. CASE ClassifyFails
    BY <2>8
  <2>9. CASE FastForward
    BY <2>9
  <2>10. CASE FastForwardRefused
    BY <2>10
  <2>11. CASE LabelRefusal
    BY <2>11
  <2>12. CASE MergeClean
    BY <2>12
  <2>13. CASE MergeStops
    BY <2>13
  <2>14. CASE MergeRefused
    BY <2>14
  <2>15. CASE ResolveWithBackups
    BY <2>15
  <2>16. CASE ResolveWithClaude
    BY <2>16
  <2>17. CASE ResolveAborts
    BY <2>17
  <2>18. CASE Unlock
    BY <2>18
  <2> QED
    BY <1>2, <2>1, <2>2, <2>3, <2>4, <2>5, <2>6, <2>7, <2>8, <2>9, <2>10, <2>11, <2>12,
       <2>13, <2>14, <2>15, <2>16, <2>17, <2>18 DEF LockedPhases
<1>3. CASE AfterLock
  <2>1. CASE MarkIdle
    <3>1. cycle'.err = (cycle.err \/ cycle.fetchFailed) /\ cycle'.skipped = cycle.skipped
      BY <2>1
    <3> QED
      BY <2>1, <3>1
  <2>2. CASE PushSucceeds
    BY <2>2
  <2>3. CASE PushFails
    BY <2>3
  <2>4. CASE Record
    BY <2>4
  <2> QED
    BY <1>3, <2>1, <2>2, <2>3, <2>4 DEF AfterLock
<1>4. CASE DaemonStep
  BY <1>4 DEF DaemonStep
<1>5. CASE EnvironmentStep
  BY <1>5 DEF EnvironmentStep
<1>6. CASE UNCHANGED vars
  BY <1>6 DEF vars
<1> QED
  BY <1>1, <1>2, <1>3, <1>4, <1>5, <1>6 DEF Next, CycleStep

LEMMA SyncKnownStep ==
  ASSUME "operation" \notin Intrusions
  PROVE  SafeInv /\ Histories /\ EditsKept /\ UpstreamKnown /\ EditsSaved /\ SyncKnown
           /\ [Next]_vars => SyncKnown'
<1> SUFFICES ASSUME SafeInv, Histories, EditsKept, UpstreamKnown, EditsSaved, SyncKnown, [Next]_vars
             PROVE SyncKnown'
  OBVIOUS
<1> USE ConfigurationAssumption DEF SafeInv, TypeOK, GuardKept, CycleType, Histories, UpstreamKnown,
            EditsSaved, SyncKnown, PastGuard, Succeeding, Synced
<1>1. CASE BeforeLock
  <2>1. CASE ObserveUpstream
    <3>1. CASE SyncsRemote /\ op # "rebase" /\ ~cycle.fetchFailed
      <4>1. Upstreams = {Classify(local, tracking)}
        BY <3>1 DEF Upstreams
      <4> QED
        BY <2>1, <3>1, <4>1 DEF Plan, PlanCycle, Classify
    <3>2. CASE SyncsRemote /\ op = "rebase"
      BY <2>1, <3>2
    <3>3. CASE SyncsRemote /\ cycle.fetchFailed
      <4>1. Upstreams = {"unknown"}
        BY <3>3 DEF Upstreams
      <4> QED
        BY <2>1, <3>3, <4>1 DEF Plan, PlanCycle
    <3>4. CASE ~SyncsRemote
      BY <2>1, <3>4
    <3> QED
      BY <3>1, <3>2, <3>3, <3>4
  <2>2. CASE BeforeLock /\ ~ObserveUpstream
    BY <2>2 DEF BeforeLock
  <2> QED
    BY <1>1, <2>1, <2>2
<1>2. CASE LockedPhases
  <2>1. CASE Recheck \/ MarkSyncing \/ CommitStatus \/ AddAll \/ Commit \/ CommitFails
    BY <2>1
  <2>2. CASE ClassifyPhase
    <3>1. Compared = {Classify(local, tracking)}
      BY <2>2
    <3> QED
      BY <2>2, <3>1 DEF Classify
  <2>3. CASE ClassifyFails \/ FastForwardRefused \/ LabelRefusal
    BY <2>3
  <2>4. CASE FastForward
    BY <2>4
  <2>5. CASE MergeClean \/ MergeStops \/ MergeRefused
    BY <2>5
  <2>6. CASE ResolveWithBackups \/ ResolveWithClaude \/ ResolveAborts \/ Unlock
    BY <2>6
  <2> QED
    BY <1>2, <2>1, <2>2, <2>3, <2>4, <2>5, <2>6 DEF LockedPhases
<1>3. CASE AfterLock
  BY <1>3 DEF AfterLock
<1>4. CASE DaemonStep
  BY <1>4 DEF DaemonStep
<1>5. CASE EnvironmentStep
  BY <1>5 DEF EnvironmentStep
<1>6. CASE UNCHANGED vars
  BY <1>6 DEF vars
<1> QED
  BY <1>1, <1>2, <1>3, <1>4, <1>5, <1>6 DEF Next, CycleStep

SyncInv ==
    /\ SafeInv /\ WorkflowPhases /\ Histories /\ EditsKept
    /\ UpstreamKnown /\ EditsSaved /\ SyncKnown

LEMMA SyncInvInit == Init => SyncInv
<1> SUFFICES ASSUME Init PROVE SyncInv
  OBVIOUS
<1>1. SafeInv /\ WorkflowPhases
  BY TypeInit, WorkflowPhasesInit DEF Init, SafeInv, GuardKept, NothingStagedInOperation
<1>2. Histories /\ EditsKept /\ UpstreamKnown /\ EditsSaved /\ SyncKnown
  BY DEF Init, Histories, EditsKept, UpstreamKnown, EditsSaved, SyncKnown, PastGuard
<1> QED
  BY <1>1, <1>2 DEF SyncInv

LEMMA SyncInvStep ==
  ASSUME "operation" \notin Intrusions PROVE SyncInv /\ [Next]_vars => SyncInv'
<1> SUFFICES ASSUME SyncInv, [Next]_vars PROVE SyncInv'
  OBVIOUS
<1>1. SafeInv'
  BY TypeStep, GuardKeptStep, NothingStagedStep DEF SyncInv, SafeInv
<1>2. WorkflowPhases' /\ Histories' /\ UpstreamKnown'
  BY WorkflowPhasesStep, HistoriesStep, UpstreamKnownStep DEF SyncInv, SafeInv
<1>3. EditsKept' /\ EditsSaved' /\ SyncKnown'
  BY EditsKeptStep, EditsSavedStep, SyncKnownStep DEF SyncInv
<1> QED
  BY <1>1, <1>2, <1>3 DEF SyncInv

SyncedAtSuccess ==
    pc = "record" /\ pc' = "select" /\ status'.error = "none" =>
        /\ AutoCommits => start.edits \subseteq saved
        /\ SyncsRemote /\ ~cycle.detached =>
              start.local \subseteq remote /\ start.remote \subseteq local
        /\ workflow = "auto-commit-sync" /\ ~cycle.detached => start.edits \subseteq published

LEMMA SyncedAtSuccessStep == SyncInv /\ [Next]_vars => SyncedAtSuccess
<1> SUFFICES ASSUME SyncInv, [Next]_vars,
                    pc = "record", pc' = "select", status'.error = "none"
             PROVE  /\ AutoCommits => start.edits \subseteq saved
                    /\ SyncsRemote /\ ~cycle.detached =>
                          start.local \subseteq remote /\ start.remote \subseteq local
                    /\ workflow = "auto-commit-sync" /\ ~cycle.detached =>
                          start.edits \subseteq published
  BY DEF SyncedAtSuccess
<1>1. Record
  BY DEF Next, CycleStep, BeforeLock, LockedPhases, AfterLock, DaemonStep, EnvironmentStep,
         vars
<1>2. Succeeding
  BY <1>1 DEF SyncInv, SafeInv, TypeOK, CycleType, ResultStatus, Succeeding
<1> QED
  BY <1>2 DEF SyncInv, EditsSaved, SyncKnown, Synced, Succeeding

(* As long as nobody begins an operation between the guard under the lock  *)
(* and the last write: a cycle reported as successful has committed every  *)
(* edit that existed when it began and, if it found the branch checked     *)
(* out, pushed every commit and integrated every commit of the remote      *)
(* since; for every workflow, whatever fails, and whatever is edited,      *)
(* committed, pushed or paused elsewhere meanwhile (runCycle,              *)
(* runLockedPhases, checkedOutBranch, applyCycleResult).                   *)
THEOREM SuccessIsSync ==
  ASSUME "operation" \notin Intrusions PROVE Spec => SuccessMeansSynced
<1>1. SyncInv /\ [Next]_vars => [SyncedAtSuccess]_vars
  BY SyncedAtSuccessStep
<1>2. [][SyncedAtSuccess]_vars => SuccessMeansSynced
  BY PTL DEF SuccessMeansSynced, SyncedAtSuccess
<1>3. SyncInv /\ [Next]_vars => SyncInv'
  BY SyncInvStep
<1> QED
  BY <1>1, <1>2, <1>3, SyncInvInit, PTL DEF Spec

(* With a branch configured no cycle takes a detached HEAD for the branch, *)
(* so that its success is that of the branch (checkedOutBranch).           *)
BranchFound == cycle.detached = FALSE

LEMMA BranchFoundStep ==
  ASSUME BranchConfigured PROVE TypeOK /\ BranchFound /\ [Next]_vars => BranchFound'
<1> SUFFICES ASSUME TypeOK, BranchFound, [Next]_vars PROVE BranchFound'
  OBVIOUS
<1> USE DEF TypeOK, CycleType, BranchFound, NewCycle
<1>1. CASE BeforeLock
  <2>1. CASE ObserveUpstream
    <3>1. Detached = FALSE
      BY <2>1
    <3>2. cycle'.detached = Detached
      BY <2>1
    <3> QED
      BY <3>1, <3>2
  <2>2. CASE AcquireSaveLock
    BY <2>2
  <2>3. CASE BeforeLock /\ ~ObserveUpstream /\ ~AcquireSaveLock
    BY <2>3 DEF BeforeLock
  <2> QED
    BY <1>1, <2>1, <2>2, <2>3
<1>2. CASE LockedPhases
  <2>1. CASE ClassifyPhase
    <3>1. Detached = FALSE
      BY <2>1
    <3>2. cycle'.detached = Detached
      BY <2>1
    <3> QED
      BY <3>1, <3>2
  <2>2. CASE LockedPhases /\ ~ClassifyPhase
    BY <2>2 DEF LockedPhases
  <2> QED
    BY <1>2, <2>1, <2>2
<1>3. CASE AfterLock
  BY <1>3 DEF AfterLock
<1>4. CASE DaemonStep
  BY <1>4 DEF DaemonStep
<1>5. CASE EnvironmentStep
  BY <1>5 DEF EnvironmentStep
<1>6. CASE UNCHANGED vars
  BY <1>6 DEF vars
<1> QED
  BY <1>1, <1>2, <1>3, <1>4, <1>5, <1>6 DEF Next, CycleStep

SyncedBothWays ==
    pc = "record" /\ pc' = "select" /\ status'.error = "none" =>
        /\ AutoCommits => start.edits \subseteq saved
        /\ SyncsRemote => start.local \subseteq remote /\ start.remote \subseteq local
        /\ workflow = "auto-commit-sync" => start.edits \subseteq published

(* So with a configured branch a reported success says it all: what the    *)
(* branch and the working tree held when the cycle began is on the remote, *)
(* and what the remote held is on the branch.                              *)
THEOREM ConfiguredSuccessIsSync ==
  ASSUME "operation" \notin Intrusions, BranchConfigured
  PROVE  Spec => [][SyncedBothWays]_vars
<1>1. Init => BranchFound
  BY DEF Init, BranchFound, NewCycle
<1>2. TypeOK /\ BranchFound /\ [Next]_vars => BranchFound'
  BY BranchFoundStep
<1>3. BranchFound /\ SyncedAtSuccess => SyncedBothWays
  BY DEF BranchFound, SyncedAtSuccess, SyncedBothWays
<1>4. SyncInv /\ BranchFound /\ [Next]_vars => [SyncedBothWays]_vars
  BY SyncedAtSuccessStep, <1>3
<1>5. SyncInv /\ [Next]_vars => SyncInv'
  BY SyncInvStep
<1> QED
  BY <1>1, <1>2, <1>4, <1>5, SyncInvInit, TypeInit, TypeStep, PTL DEF Spec

-----------------------------------------------------------------------------
(* The refinement of CommitTransport.  Outside the interval after the      *)
(* guard, gitloop commits nothing into a rebase; what a merge brings in    *)
(* comes from the remote.                                                  *)

FromRemote == tracking \subseteq remote /\ mergeHead \subseteq remote

LEMMA FromRemoteStep == FromRemote /\ [Next]_vars => FromRemote'
<1> SUFFICES ASSUME FromRemote, [Next]_vars PROVE FromRemote'
  OBVIOUS
<1> USE DEF FromRemote
<1>1. CASE BeforeLock
  BY <1>1 DEF BeforeLock
<1>2. CASE LockedPhases
  BY <1>2 DEF LockedPhases
<1>3. CASE AfterLock
  BY <1>3 DEF AfterLock
<1>4. CASE DaemonStep
  BY <1>4 DEF DaemonStep
<1>5. CASE EnvironmentStep
  BY <1>5 DEF EnvironmentStep
<1>6. CASE UNCHANGED vars
  BY <1>6 DEF vars
<1> QED
  BY <1>1, <1>2, <1>3, <1>4, <1>5, <1>6 DEF Next, CycleStep

(* What a failed resolution throws away are edits made since the cycle     *)
(* committed: none, if nobody edits in the middle of its writes.           *)
CleanTree ==
    /\ lock = "writer" => SaveLock
    /\ pc = "commit" => dirty \subseteq staged
    /\ pc \in {"classify", "ff", "merge", "resolve"} /\ AutoCommits => dirty = {}

LEMMA CleanTreeStep ==
  ASSUME "operation" \notin Intrusions, "edit" \notin Intrusions
  PROVE  SafeInv /\ LockScope /\ CleanTree /\ [Next]_vars => CleanTree'
<1> SUFFICES ASSUME SafeInv, LockScope, CleanTree, [Next]_vars PROVE CleanTree'
  OBVIOUS
<1> USE DEF SafeInv, TypeOK, GuardKept, LockScope, CleanTree
<1>1. CASE BeforeLock
  BY <1>1 DEF BeforeLock
<1>2. CASE LockedPhases
  BY <1>2 DEF LockedPhases
<1>3. CASE AfterLock
  BY <1>3 DEF AfterLock
<1>4. CASE DaemonStep
  BY <1>4 DEF DaemonStep
<1>5. CASE EnvironmentStep
  BY <1>5 DEF EnvironmentStep
<1>6. CASE UNCHANGED vars
  BY <1>6 DEF vars
<1> QED
  BY <1>1, <1>2, <1>3, <1>4, <1>5, <1>6 DEF Next, CycleStep

(* A failed resolution has nothing to throw away.                          *)
AbortsKeepEdits ==
    "resolution" \notin Failures \/ (pc = "resolve" => dirty = {})

TransportInv ==
    /\ SafeInv /\ LockScope /\ WorkflowPhases /\ FromRemote
    /\ "edit" \notin Intrusions => CleanTree

LEMMA TransportInvInit == Init => TransportInv
<1> SUFFICES ASSUME Init PROVE TransportInv
  OBVIOUS
<1>1. SafeInv /\ LockScope /\ WorkflowPhases
  BY TypeInit, LockScopeInit, WorkflowPhasesInit
     DEF Init, SafeInv, GuardKept, NothingStagedInOperation
<1>2. FromRemote /\ CleanTree
  BY DEF Init, FromRemote, CleanTree
<1> QED
  BY <1>1, <1>2 DEF TransportInv

LEMMA TransportInvStep ==
  ASSUME "operation" \notin Intrusions PROVE TransportInv /\ [Next]_vars => TransportInv'
<1> SUFFICES ASSUME TransportInv, [Next]_vars PROVE TransportInv'
  OBVIOUS
<1>1. SafeInv'
  BY TypeStep, GuardKeptStep, NothingStagedStep DEF TransportInv, SafeInv
<1>2. LockScope' /\ WorkflowPhases' /\ FromRemote'
  BY LockScopeStep, WorkflowPhasesStep, FromRemoteStep DEF TransportInv, SafeInv
<1>3. ("edit" \notin Intrusions => CleanTree)'
  BY CleanTreeStep DEF TransportInv
<1> QED
  BY <1>1, <1>2, <1>3 DEF TransportInv

LEMMA TransportStep ==
  ASSUME "operation" \notin Intrusions, SafeInv, FromRemote, AbortsKeepEdits, [Next]_vars
  PROVE  [Transport!Next]_(Transport!vars)
<1> USE DEF SafeInv, TypeOK, GuardKept, FromRemote, Commits, Transport!vars
<1>a. Transport!Edit => Transport!Next
  BY DEF Transport!Next
<1>b. Transport!Commit => Transport!Next
  BY DEF Transport!Next
<1>c. Transport!FastForward => Transport!Next
  BY DEF Transport!Next
<1>d. Transport!Publish => Transport!Next
  BY DEF Transport!Next
<1>e. Transport!OthersPublish => Transport!Next
  BY DEF Transport!Next
<1>1. CASE BeforeLock
  BY <1>1 DEF BeforeLock
<1>2. CASE LockedPhases
  <2>1. CASE Recheck \/ MarkSyncing \/ CommitStatus \/ AddAll \/ CommitFails \/ Unlock
    BY <2>1
  <2>2. CASE Commit
    BY <2>2, <1>b DEF Transport!Commit
  <2>3. CASE ClassifyPhase \/ ClassifyFails \/ FastForwardRefused \/ LabelRefusal
    BY <2>3
  <2>4. CASE FastForward
    BY <2>4, <1>c DEF Transport!FastForward
  <2>5. CASE MergeClean
    BY <2>5, <1>b DEF Transport!Commit
  <2>6. CASE MergeStops \/ MergeRefused
    BY <2>6
  <2>9. CASE ResolveAborts
    <3>1. UNCHANGED dirty
      BY <2>9 DEF AbortsKeepEdits
    <3> QED
      BY <2>9, <3>1
  <2>7. CASE ResolveWithBackups
    BY <2>7, <1>b DEF Transport!Commit
  <2>8. CASE ResolveWithClaude
    BY <2>8, <1>b DEF Transport!Commit
  <2> QED
    BY <1>2, <2>1, <2>2, <2>3, <2>4, <2>5, <2>6, <2>7, <2>8, <2>9 DEF LockedPhases
<1>3. CASE AfterLock
  <2>1. CASE MarkIdle \/ Record
    BY <2>1
  <2>2. CASE PushSucceeds \/ PushFails
    BY <2>2, <1>d DEF Transport!Publish
  <2> QED
    BY <1>3, <2>1, <2>2 DEF AfterLock
<1>4. CASE DaemonStep
  BY <1>4 DEF DaemonStep
<1>5. CASE EnvironmentStep
  <2>1. CASE EditFile \/ SaveAndReturnLock
    BY <2>1, <1>a DEF Transport!Edit
  <2>2. CASE TakeSaveLock \/ PauseOperation
    BY <2>2
  <2>3. CASE HumanCommit
    BY <2>3, <1>b DEF Transport!Commit
  <2>4. CASE FinishOperation
    <3>1. staged = {}
      BY <2>4 DEF NothingStagedInOperation
    <3> QED
      BY <2>4, <3>1, <1>b DEF Transport!Commit
  <2>5. CASE OtherPush
    BY <2>5, <1>e DEF Transport!OthersPublish
  <2> QED
    BY <1>5, <2>1, <2>2, <2>3, <2>4, <2>5 DEF EnvironmentStep
<1>6. CASE UNCHANGED vars
  BY <1>6 DEF vars
<1> QED
  BY <1>1, <1>2, <1>3, <1>4, <1>5, <1>6 DEF Next, CycleStep

(* As long as nobody pauses an operation after the guard under the lock,   *)
(* and nobody edits after it in a repository where the commit of a         *)
(* resolution fails, everything that happens to the edits and the branches *)
(* is a transport of commits: SyncCycle implements CommitTransport         *)
(* (runCycle).                                                             *)
THEOREM SyncIsTransport ==
  ASSUME "operation" \notin Intrusions,
         "edit" \notin Intrusions \/ "resolution" \notin Failures
  PROVE  Spec => TransportsCommits
<1>1. Init => Transport!Init
  BY DEF Init, Transport!Init
<1>2. TransportInv => SafeInv /\ FromRemote /\ AbortsKeepEdits
  BY DEF TransportInv, AbortsKeepEdits, CleanTree, WorkflowPhases
<1>3. TransportInv /\ [Next]_vars => [Transport!Next]_(Transport!vars)
  BY <1>2, TransportStep
<1>4. TransportInv /\ [Next]_vars => TransportInv'
  BY TransportInvStep
<1> QED
  BY <1>1, <1>3, <1>4, TransportInvInit, PTL DEF Spec, TransportsCommits, Transport!Spec

LEMMA NothingLostStep ==
  ASSUME published \subseteq saved, [Transport!Next]_(Transport!vars)
  PROVE  /\ dirty \union saved \subseteq dirty' \union saved'
         /\ saved \subseteq saved' /\ published \subseteq published'
         /\ local \subseteq local' /\ remote \subseteq remote'
         /\ published' \subseteq saved'
<1>1. CASE Transport!Edit
  BY <1>1 DEF Transport!Edit
<1>2. CASE Transport!Commit
  BY <1>2 DEF Transport!Commit
<1>3. CASE Transport!FastForward
  BY <1>3 DEF Transport!FastForward
<1>4. CASE Transport!Publish \/ Transport!OthersPublish
  BY <1>4 DEF Transport!Publish, Transport!OthersPublish
<1>5. CASE UNCHANGED Transport!vars
  BY <1>5 DEF Transport!vars
<1> QED
  BY <1>1, <1>2, <1>3, <1>4, <1>5 DEF Transport!Next

(* Hence nothing is ever lost in a repository gitloop syncs: what          *)
(* CommitTransport promises holds of every interleaving of the cycle.      *)
THEOREM NothingIsLost ==
  ASSUME "operation" \notin Intrusions,
         "edit" \notin Intrusions \/ "resolution" \notin Failures
  PROVE  Spec => Transport!NothingLost
<1>1. Init => published \subseteq saved
  BY DEF Init
<1>2. Spec => [][Transport!Next]_(Transport!vars)
  BY SyncIsTransport, PTL DEF TransportsCommits, Transport!Spec
<1>3. published \subseteq saved /\ [Transport!Next]_(Transport!vars) => (published \subseteq saved)'
  BY NothingLostStep
<1>4. published \subseteq saved /\ [Transport!Next]_(Transport!vars) =>
        [/\ dirty \union saved \subseteq dirty' \union saved'
         /\ saved \subseteq saved' /\ published \subseteq published'
         /\ local \subseteq local' /\ remote \subseteq remote']_(Transport!vars)
  BY NothingLostStep
<1> QED
  BY <1>1, <1>2, <1>3, <1>4, PTL DEF Spec, Transport!NothingLost

-----------------------------------------------------------------------------
(* Without any assumption on people: an edit leaves the working tree only  *)
(* into a commit of the branch, but for the exceptions EditsSurvive names. *)
EditsKeptOrExcepted ==
    \/ pc = "commit" /\ op = "rebase"
    \/ ResolveAborts /\ "resolution" \in Failures
    \/ FinishOperation /\ staged # {}
    \/ dirty \union saved \subseteq dirty' \union saved'

LEMMA SurvivalStep ==
  ASSUME TypeOK, [Next]_vars
  PROVE  EditsKeptOrExcepted
<1> USE DEF TypeOK, EditsKeptOrExcepted
<1>1. CASE BeforeLock
  BY <1>1 DEF BeforeLock
<1>2. CASE LockedPhases
  BY <1>2 DEF LockedPhases
<1>3. CASE AfterLock
  BY <1>3 DEF AfterLock
<1>4. CASE DaemonStep
  BY <1>4 DEF DaemonStep
<1>5. CASE EnvironmentStep
  BY <1>5 DEF EnvironmentStep
<1>6. CASE UNCHANGED vars
  BY <1>6 DEF vars
<1> QED
  BY <1>1, <1>2, <1>3, <1>4, <1>5, <1>6 DEF Next, CycleStep

(* Edits survive every interleaving, crash and failure, also with people   *)
(* who pause operations at the worst moment, except where EditsSurvive     *)
(* says so: a commit into a rebase, a resolution that fails after it has   *)
(* staged the tree, and an operation given up with staged edits in it.     *)
THEOREM EditsAlwaysSurvive == Spec => EditsSurvive
<1>1. TypeOK /\ [Next]_vars => [EditsKeptOrExcepted]_vars
  BY SurvivalStep
<1>2. [][EditsKeptOrExcepted]_vars => EditsSurvive
  BY PTL DEF EditsSurvive, EditsKeptOrExcepted
<1> QED
  BY <1>1, <1>2, TypeCorrect, PTL DEF Spec

-----------------------------------------------------------------------------
(* StepsLeft decreases along every path through a cycle.                   *)
LEMMA AttemptsLeftOver ==
  ASSUME TypeOK, pc = "acquire"
  PROVE  StepsLeft \in 13 .. 15
  BY DEF TypeOK, CycleType, StepsLeft, SaveLockRetries

LEMMA CycleStepsDown ==
  ASSUME TypeOK, CycleStep, pc \in InCycle
  PROVE  StepsLeft' < StepsLeft
<1>1. CASE BeforeLock
  <2>1. CASE SaveLockBusy
    BY <2>1 DEF TypeOK, CycleType, StepsLeft, SaveLockRetries
  <2>2. CASE ObserveUpstream
    <3>1. pc = "plan" /\ pc' \in {"record", "push", "acquire"}
      BY <2>2
    <3>2. cycle'.attempts = cycle.attempts
      BY <2>2 DEF TypeOK, CycleType
    <3> QED
      BY <3>1, <3>2 DEF TypeOK, CycleType, StepsLeft, SaveLockRetries
  <2>3. CASE AcquireSaveLock \/ GiveUpOnSaveLock
    <3>1. pc = "acquire" /\ pc' \in {"recheck", "select"}
      BY <2>3
    <3>2. StepsLeft' \in {0, 12}
      BY <3>1 DEF StepsLeft
    <3> QED
      BY <3>1, <3>2, AttemptsLeftOver
  <2>4. CASE PreCheck \/ FetchSucceeds \/ FetchFails \/ ObserveStatus \/ ObserveUpstreamFails
    BY <2>4 DEF StepsLeft
  <2> QED
    BY <1>1, <2>1, <2>2, <2>3, <2>4 DEF BeforeLock
<1>2. CASE LockedPhases
  <2>1. CASE Recheck \/ MarkSyncing \/ CommitStatus \/ AddAll \/ Commit \/ CommitFails
    BY <2>1 DEF StepsLeft
  <2>2. CASE ClassifyPhase \/ ClassifyFails
    <3>1. pc = "classify" /\ pc' \in {"ff", "merge", "unlock"}
      BY <2>2
    <3> QED
      BY <3>1 DEF StepsLeft
  <2>3. CASE FastForward \/ FastForwardRefused \/ LabelRefusal
    <3>1. \/ pc = "ff" /\ pc' \in {"ffRefused", "unlock"}
          \/ pc = "ffRefused" /\ pc' = "unlock"
      BY <2>3
    <3> QED
      BY <3>1 DEF StepsLeft
  <2>4. CASE MergeClean \/ MergeStops \/ MergeRefused \/ ResolveWithBackups
               \/ ResolveWithClaude \/ ResolveAborts \/ Unlock
    BY <2>4 DEF StepsLeft
  <2> QED
    BY <1>2, <2>1, <2>2, <2>3, <2>4 DEF LockedPhases
<1>3. CASE AfterLock
  BY <1>3 DEF AfterLock, StepsLeft
<1> QED
  BY <1>1, <1>2, <1>3 DEF CycleStep

LEMMA OthersStepAside ==
  ASSUME TypeOK, [Next]_vars, ~CycleStep, pc \in InCycle
  PROVE  StepsLeft' \in {StepsLeft, 0}
<1>1. \/ pc' = pc /\ cycle' = cycle
      \/ pc' \in {"backoff", "down"}
  <2>1. CASE DaemonStep
    BY <2>1 DEF DaemonStep
  <2>2. CASE EnvironmentStep
    BY <2>2 DEF EnvironmentStep
  <2>3. CASE UNCHANGED vars
    BY <2>3 DEF vars
  <2> QED
    BY <2>1, <2>2, <2>3 DEF Next
<1> QED
  BY <1>1 DEF StepsLeft

(* Every cycle ends after at most 19 operations of its own, and nobody     *)
(* else can make it longer.                                                *)
THEOREM CyclesEnd == Spec => CycleEnds
<1>1. TypeOK /\ [Next]_vars =>
        [(pc \in InCycle) => IF CycleStep THEN StepsLeft' < StepsLeft
                                         ELSE StepsLeft' \in {StepsLeft, 0}]_vars
  BY CycleStepsDown, OthersStepAside
<1> QED
  BY <1>1, TypeCorrect, PTL DEF Spec, CycleEnds

-----------------------------------------------------------------------------
(* The refinement of RepositoryLoop: the phase changes in the very steps   *)
(* that begin and end the writing, so that each step that is seen from     *)
(* outside is one of the loop's.                                           *)
LEMMA LoopStepSeen ==
  ASSUME TypeOK, [Next]_vars
  PROVE  [Loop!Next]_(Loop!vars)
<1> USE DEF TypeOK, Locations, StatusType, WritingPhases, Loop!vars
<1>1. CASE BeforeLock
  BY <1>1 DEF BeforeLock
<1>2. CASE LockedPhases
  <2>1. CASE MarkSyncing
    BY <2>1 DEF Loop!Next, Loop!BeginWriting
  <2>2. CASE Recheck
    BY <2>2
  <2>3. CASE CommitStatus \/ AddAll \/ Commit \/ CommitFails \/ ClassifyPhase \/ ClassifyFails
               \/ FastForward \/ FastForwardRefused \/ LabelRefusal
    BY <2>3
  <2>4. CASE MergeClean \/ MergeStops \/ MergeRefused \/ ResolveWithBackups
               \/ ResolveWithClaude \/ ResolveAborts \/ Unlock
    BY <2>4
  <2> QED
    BY <1>2, <2>1, <2>2, <2>3, <2>4 DEF LockedPhases
<1>3. CASE MarkIdle
  BY <1>3 DEF Loop!Next, Loop!Finish
<1>4. CASE Record
  <2>1. status'.phase # "syncing" /\ pc = "record" /\ pc' = "select"
    BY <1>4 DEF ResultStatus
  <2> QED
    BY <2>1 DEF Loop!Next, Loop!Finish
<1>5. CASE PushSucceeds \/ PushFails
  BY <1>5 DEF Loop!Next, Loop!Finish
<1>6. CASE LoopFails
  BY <1>6 DEF Loop!Next, Loop!Fail
<1>7. CASE Crash
  BY <1>7 DEF Loop!Next, Loop!Die
<1>8. CASE RetryLoop
  BY <1>8 DEF Loop!Next, Loop!Retry, Loop!Stop
<1>9. CASE Shutdown
  BY <1>9
<1>10. CASE StopLoop
  BY <1>10 DEF Loop!Next, Loop!Stop
<1>11. CASE StartDaemon
  BY <1>11 DEF Loop!Next, Loop!Start
<1>12. CASE EnvironmentStep
  BY <1>12 DEF EnvironmentStep
<1>13. CASE UNCHANGED vars
  BY <1>13 DEF vars
<1> QED
  BY <1>1, <1>2, <1>3, <1>4, <1>5, <1>6, <1>7, <1>8, <1>9, <1>10, <1>11, <1>12, <1>13
     DEF Next, CycleStep, AfterLock, DaemonStep

(* Whatever a cycle does, to the rest of the machine it is the loop of     *)
(* RepositoryLoop, the one Daemon models (status.go, superviseRepo).       *)
THEOREM SyncIsRepositoryLoop == Spec => IsRepositoryLoop
<1>1. Init => Loop!Init
  BY DEF Init, Loop!Init, WritingPhases
<1>2. TypeOK /\ [Next]_vars => [Loop!Next]_(Loop!vars)
  BY LoopStepSeen
<1> QED
  BY <1>1, <1>2, TypeCorrect, PTL DEF Spec, IsRepositoryLoop, Loop!Spec
=============================================================================
