# gitloop in TLA+

gitloop is a daemon that keeps Git checkouts in step with a remote: it commits
what changed, fetches, fast-forwards or merges, resolves conflicts by a policy,
and pushes, again and again, next to people and other programs who work in the
same checkouts. This directory holds TLA+ models of that behaviour, the TLC
configurations that check them, and proofs that TLAPS checks. All paths below are
relative to the repository.

## The system

| Component | State | Operations | Hard because | What makes it correct |
|---|---|---|---|---|
| Sync cycle (`internal/daemon/watch.go` `runCycle`, `repo.go`, `plan.go`) | locals of one cycle, `cycleResult`; the checkout and the remote | guard, fetch, observe, plan, lock, re-guard, commit, classify, fast-forward or merge, unlock, push, record | every git command is a step others can act between; it looks, waits for a lock, and writes | a success means synced; no commit is lost; a person's rebase or merge is left alone; it converges |
| Guard (`internal/statemachine/precheck.go`) | none (reads `.git`) | `PreCheck` before the fetch and again under the lock | true when checked, not when used | nothing written into an open operation |
| Save lock (`savelock.go`, `cmd/gitloop/lock.go`) | a `flock` | bounded retries, give up, release, deferred release | panics, early returns, crashes, a writer that holds it | held exactly around the writes |
| Status file (`status.go`) | one entry per repository | `update`, `applyCycleResult` | other programs act on `phase` | `syncing` covers every write and nothing else |
| Conflict resolution (`conflict.go`, `gitcmd/ops.go`, `gitcmd/status.go`) | index stages, working tree, backup files | list, claude per file, backup per file, commit, abort | any command may fail in the middle; the fallback starts from what claude left | both sides survive; upstream is accepted; no leftovers but what cannot be removed; it is settled |
| Watch loop (`watch.go` `runRepoLoop`) | settle and max-wait timers, ticker, watcher channel | the `select` and its cases | timers race events; cycles take long; events get lost | a settled tree, a bounded wait, no forgotten change |
| Mailbox (`trigger.go`) | pending reason, one-slot channel | `fire` (two steps), `take` | callers, each other and the loop interleave | no lost wake-up, a person outranks the environment |
| Supervisor (`daemon.go`) | one loop per repository, backoff | start, restart after a failure or a panic, shutdown | what a failed cycle left behind; goroutines that must all stop | the next cycle copes; a shutdown ends |
| Status recorder (`status.go`) | the file in memory, `status.json`, a temporary file | update, save, rename, load | several goroutines, crashes, failing saves, a second process | whole, current, written by one daemon |
| Environment watcher (`environment.go`, `netwatch_darwin.go`) | one-slot channel, pending reason, settle timer, last round | probe the clock, read kernel messages, broadcast to every mailbox | dropped events, cooldown, messages the daemon causes itself | a round is delayed, not dropped; rounds are rationed; no echo |
| Remote runner (`gitcmd/gitcmd.go`) | a process group | run, cancel, TERM, KILL, wait | cancellation races exit; helpers keep the pipe | a success stays one, no orphan survives, it returns |
| Control socket (`control.go`), process lock (`processlock.go`) | a socket file, a `flock` | bind, accept, dispatch, unlink | stale sockets, several daemons | all or nothing; one daemon |
| launchd and reload (`cmd/gitloop/reload.go`, `launchagent.go`, `run.go`) | the agent process | keep alive, validate, `kickstart -k` | the agent may be anywhere in its life | the checked configuration is the one that runs |
| Configuration, commit messages, command line | - | parsing, formatting, I/O | - | - |

Timers, watcher events and mailbox requests start cycles, one at a time per
repository and in the loop's own goroutine. The environment watcher and the control
socket post requests into the mailboxes of all repositories. A cycle shares the checkout with
people, who know nothing of its lock; with programs that take the save lock
(`gitloop lock hold`) or read `phase`; and the remote with other clones. All
daemons of a user share one state directory, in which the process lock, the
status file and the socket live.

## Modules

- **RelativeState** - the pure decisions: `Classify` and `PlanCycle`. A branch is
  the set of commits reachable from its tip, so the two counts of `git rev-list
  --left-right --count` become two set differences, of which only the emptiness
  is used by the code; `ClassifyCounts` is the code's own function of the counts, and
  RelativeStateProofs shows that the two agree.
- **SyncCycle** - one repository's cycle, one action per git command, lock
  operation or status write, in the code's order, for the three workflows.
  `cycle` holds the locals and the `cycleResult`; `pc` the place in the code;
  `op`/`mergeHead` what `.git` says is open (`loopMerge` is gitloop's own
  merge); `dirty`, `staged`, `saved`, `published` where each edit is. Around it
  run people (edit, commit, pause and finish a rebase or merge), a writer that
  uses the save lock, another clone, and the daemon's failures: a panic or
  watcher failure (`LoopFails`), a crash, a shutdown, and restarts.
  `BranchConfigured` says whether the configuration names a branch. If it does not (the
  default), `checkedOutBranch` takes whatever is checked out, in a rebase the name
  `HEAD`: the detached HEAD then compares with `<remote>/HEAD` in any way or not at
  all (`Compared`), and `cycle.detached` remembers it.
- **ConflictResolution** - `resolveConflicts` file by file with the index stages,
  the resolved content, the working tree and the backup files, for both
  policies; five shapes of conflict (text, opaque, deleted by either side,
  renamed by both). An aborted attempt leaves the branch diverged, and the next
  cycle meets the same conflict. `backups` are the files the code has on its list
  (`written`); `strays` are those it has lost track of: what is left of a write that
  failed, and what `os.Remove` failed to remove, which is only logged.
- **WatchLoop** - `runRepoLoop`'s select in discrete time with the watcher, both
  timers, the ticker and the mailbox; `fire` is two steps, as in the code.
- **CommitTransport** - the abstract specification of what everyone around a
  repository may do together: edits are pending, committed, delivered; branches
  only grow; a push replaces nothing. `SyncCycle!Transport` is the refinement
  mapping: `dirty`, `saved`, `local`, `remote` and `published` play the abstract
  variables, and each of the cycle's many steps is one abstract step or none.
- **EnvironmentBroadcast** - `runEnvironmentWatcher`: the wake probe on the
  monotonic clock, the reader of routing messages and its permanent failure,
  the channel of one event, and the `select` of the broadcast with settle and
  cooldown, in discrete time; each `fire` of a round is a step.
- **RemoteCommand** - `runRemote` as goroutines: the caller in `Cmd.Run`, os/exec's
  watcher of the context with `cmd.Cancel` and `WaitDelay`, and
  `killProcessGroupAfter`; around them git, a transport in its group that may
  ignore TERM, another without the pipe, and a helper that left the group and
  keeps it. os/exec is external, modelled from how `runRemote` configures it.
- **Daemon** - processes over one state directory. `stage` is the place in `Run`;
  `memory` and `saving` are the recorder and the `Save` under its mutex (open the
  temporary file, write it, rename it); `loop` is each repository's loop under
  `superviseRepo`, reduced to what it does to the status file; `serving`, `path`
  and `client` are the listener, the socket file and `gitloop sync`; `config` and
  `wanted` are the configuration file and what `reload` checked.
- **ConflictSettlement** - what the branch sees of a conflict, whatever commands,
  failures and retries lie behind it: nothing but litter (`strays`), or one step that settles every
  file, by an assistant, by upstream's version with the local one beside it, or by a
  person. `ConflictResolution!Settlement` maps to it: while a merge is under way the
  tree shown is the branch's own and no backup is shown.
- **StatusDisplay** - what readers of `status.json` may rely on: one author at a time,
  who takes up what was on display, learns, and shows what it knows in one
  piece. In `Daemon!Display` the author is the holder of the process lock, `Known` its
  memory once it has loaded the file, and the display is the file.
- **RepositoryLoop** - a repository's loop as other programs see it: none, idle,
  writing or in backoff, with the phase on record. It is where the two large models
  meet: `SyncCycle!Loop` maps a cycle with everything it does to it, `Daemon!Loop(r)`
  every repository of the daemon in charge.
- **RelativeStateProofs, SyncCycleProofs, ConflictResolutionProofs, WatchLoopProofs,
  EnvironmentBroadcastProofs, RemoteCommandProofs, DaemonProofs** - theorems about
  the seven.
- **MC...** - symmetry sets and notes on bounds for TLC.

The modules meet at few points: SyncCycle's `StartCycle` is the end of a `select` of
WatchLoop; its fetch and push outcomes are RemoteCommand's verdicts (a success, a
failure, a failure after the effect); its `resolve` step has the outcomes of
ConflictResolution; the requests in WatchLoop's mailbox come from
EnvironmentBroadcast's `AskRepository` and from Daemon's `Fire`; its loop, failing and
restarting, is the `loop` of Daemon. The last of these meetings is more than a remark:
what Daemon says of a loop and what SyncCycle does in one both implement
RepositoryLoop, so that Daemon leaves nothing out that could be seen from outside.

Definitions marked as mutants are what a plausible slip in the code would make of
the definition that follows them; each property a run checks is known to fail
when one of them replaces it.

### Abstractions and their reasons

- Git commands take effect atomically. What lies between two commands does not.
- `ConflictResolution` is part of a cycle, but `SyncCycle` only knows its outcomes
  (merged with backups, merged by claude, aborted). In `ConflictResolution` nobody
  edits meanwhile; in `SyncCycle` people may, between any two of a cycle's steps. An
  edit of a conflicting file that `checkout --theirs` overwrites is in neither. An
  edit that `backupAndAcceptTheirs` stages with its final `AddAll` and that `merge
  --abort` throws away because the commit after it failed is in `SyncCycle`
  (`ResolveAborts`, the failure `"resolution"`): the code really loses it, although
  `README.md:320` promises that nothing is lost, and every statement that no edit is
  lost says so (`EditsSurvive`, the assumption of `SyncIsTransport`). The run `cycle` has
  edits at any moment but not this failure, `cycle_live` the failure but no edits
  after the guard.
- People only add to history (no amend, no reset), do not push or pull, and a
  rebase they finish lands nothing new. They begin an operation on any working tree
  on which git lets them: nothing staged, edits elsewhere allowed. Giving it up
  gives up what has been staged in it. A writer that takes the save lock saves
  one edit before it returns it.
- A temporary status file that a failed save or a crash has left behind counts as no
  file: nobody reads it, and the next save truncates it.
- In `SyncCycle` `git merge --abort` succeeds; in `ConflictResolution` it may fail, and
  then the merge stays open until a person ends it.
- A repository without a mode is resolved at every start of its loop, from remotes
  that may have come, gone or be unreadable; that the branch's own remote
  disappears during a cycle is only a failing fetch.
- The AI outcome fields, timestamps, texts and counts of the status file are left
  out. `SyncCycle`'s writes of the status file succeed; `Daemon`'s may fail.
- `Daemon`: `kickstart -k` ends the agent with a signal it handles or with one it does
  not, or finds it stopped; a SIGTERM during the startup takes effect once the
  loops run; accepting a connection, decoding and checking the request are one
  step, firing each trigger another; a deadline ends the exchange for the client,
  after which nobody hears what the handler still does. One client runs at a
  time. The heartbeat is a save without its time stamp.
- `RemoteCommand`: a group id is not reused while `runRemote` runs; processes that
  left the group are never signalled. TERM arrives in the step that sends it, and is heeded
  or not; a KILL takes effect when the kernel lets go of the process (`doomed`),
  which is how `WaitDelay` can end before git does.
- In `WatchLoop` a directory that is not watched yet, an overflowing queue and a
  watcher that is down are one thing: a change without an event. An action
  happens at most once per caller, editor and ticker in a unit of time; the
  timers are relative to each other, so the unit does not matter. Working-tree edits
  restart the timers in every workflow; in committed-sync what a cycle has to look at
  are commits, which the watcher does not see (`Heard`).
- A loop keeps its save lock, timers and ticker to itself and the mailbox survives
  it, as in `superviseRepo`.

## Runs

| Run | Bounds | What it shows |
|---|---|---|
| `cycle` | every workflow, a mode left out, no configured branch, claude policy, 2 edits, 1 commit of a person and 1 of another clone, 2 of gitloop's, 2 disturbances, every failure but that of a resolution's commit | types (the lock attempts included), the lock's scope, no merge left behind, `syncing` on display around every write and only then, hands off people's operations, committed-sync only transports, a success that means synced (but for the remote, if a rebase begun between guard and observation detached HEAD), and the refinements of CommitTransport (nothing is lost) and of RepositoryLoop |
| `cycle_live` | 1 edit, 1 commit each, 2 of gitloop's, 1 disturbance, a configured branch, failing network and resolutions; no edits after the guard | every edit is committed even if the network stays down; with a network that works now and then everything converges |
| `conflict_policies` | 3 files, each of any shape, one that looks as if it held markers; claude available or not at each attempt; failing git, aborts and claude, and backups that cannot be read, written or removed | local sides are rescued, claude only settles what it could see, the refinement of ConflictSettlement (upstream is accepted for what claude had not added, an aborted attempt leaves no changed file and no backup but those that could not be removed or were cut off while written, no marker is committed), and the conflict is settled unless accidents never cease |
| `watch_debounce` | 1 person, 1 environment source, settle 2, max-wait 3, lost events, 1 failure of a cycle or loop | no lost request or event, a settled tree, a bounded wait; requests are answered without the ticker, changes are seen with it |
| `environment_rounds` | 2 repositories, probe 2, gap 2, settle 1, cooldown 4, endless sleeps and network changes, a failing reader | every wake and reconnect reaches every repository, within the probe interval and the longer delay, but for messages unread when the reader fails; rounds a cooldown apart; no echo of the daemon's own fetches |
| `remote_command` | grace 3, pipe wait 2, three other processes, a context that ends at any moment | git's exit decides, no survivors, the cause is named, the grace is given, the command returns, and in time unless a killed git is slow to die |
| `daemon_processes` | launchd's process and one by hand, a configuration of one repository or of two, requests for none and for both, 2 faults of any kind (an unreadable status file included) | one daemon, its socket stays, the status file is current and, as the refinement of StatusDisplay, whole and never anyone else's; a request for two repositories asks both or, if one is unknown, none; shutdowns end, `syncing` clears, reloads apply |

Five runs end in a violation, each a disagreement of the code with what it says:

| Run | Property | Disagreement |
|---|---|---|
| `cycle_guard` | `HandsOff` | "gitloop never touches a repository that a human ... is in the middle of operating on" (`docs/design.md:174`); the guard under the lock is not atomic with the writes after it |
| `cycle_worktree` | `NoMergeLeftBehind` | "On failure it always leaves the repository in a clean, non-merging state" (`internal/daemon/conflict.go:35`); in a linked worktree `hasMergeInProgress` looks in the wrong place and the merge stays open |
| `cycle_conflict` | `ConflictReported` | the phase is "`conflict` if the cycle just committed a backup-and-accept-theirs merge" (`docs/design.md:382`); a failing push makes it `idle`, as `docs/design.md:459` says |
| `conflict_partial` | `UpstreamAccepted` | accepting upstream deletes a file only "when upstream deleted the file" (`internal/daemon/conflict.go:195`); after a partial claude attempt it deletes a file both sides have, or never gets past it |
| `conflict_quoted` | `ConflictsSettle` | "Both settle the conflict" (`internal/daemon/conflict.go:196`); a path that git prints in quotes names nothing, and every attempt aborts |

**Why the bounds are enough.** Two edits, one commit of each other party and two
of gitloop's allow an edit between any two commands, a rejected push, a
second divergence during the retry, and a conflict resolution followed by
further work; the pool of gitloop's commits limits how many cycles commit,
so a cycle that would need another simply does not take place. Two
disturbances allow a crash during the recovery from another. Three
files are the least at which one has been treated, one fails and one is
still to do. `SaveLockRetries` is the code's 3. The timers of `WatchLoop` keep the
code's order (settle below max-wait) with room for a restart of settle in
between; those of `EnvironmentBroadcast` keep settle below the cooldown and a probe
interval between them, so that events fall before, in and after a cooldown;
in `RemoteCommand` both delays are longer than one unit of time. Two processes
suffice for every race over the lock, the file and the socket, since at most
one of the others can matter to each; a configuration of two repositories lets
their loops and the heartbeat contend for the recorder and lets a request be
fired in part when the daemon dies, and one of a single repository makes the other
one unknown to a request for both; two faults allow a failing save
before a crash, or an edit before a reload. A configuration `Load` refuses is not
among the run's contents (`reload` refuses it as well); the theorems hold for it. TLC's state graphs are exhaustive
within these bounds.

**Fairness.** `SyncCycle!Fairness`: a loop keeps running (a fetch interval always
starts another cycle), its backoff ends, launchd restarts a dead daemon
(`KeepAlive`), writers return the lock and people finish what they paused; the
select does not ignore a cancelled context for ever, and not every attempt at
the lock collides with a writer (strong fairness: the lock comes and goes).
`RemoteFairness` - a network that works now and then, and merges that do not
abort every time - is a hypothesis of `Converges` alone. `ConflictsSettle` assumes
that cycles keep coming and excuses endless accidents. `WatchLoop!LiveSpec`:
goroutines run, cycles end and sometimes succeed, time passes. The ticker is
fair in `ChangesSeen`'s hypothesis only. `EnvironmentBroadcast!LiveSpec`: goroutines
run and time passes. `RemoteCommand!LiveSpec`: the same, and the context ends (every
remote command has a deadline, `watch.go` `remoteCommandContext`); no process is assumed
ever to end but one that was killed. `Daemon!ProcessFairness`: a process goes on starting, saving and
stopping; `sync.Mutex`, which does not starve anyone, the fetch interval and the
end of the backoff are the strong fairness of each loop's steps; launchd keeps
its agent alive. The client and people owe nothing.

`remote_command` does not check for deadlock: it stops when the command has
returned and every process has ended. The other runs never stop.

## Proofs

Proved for every value of the constants, from the assumptions on them that the
modules state:

- `SyncCycleProofs`: `TypeCorrect`; `LockScopeHolds`; `SyncingIsWriting`;
  `WritesAreAnnounced`; `HumanOperationsUntouched` (assuming people start no
  operation between the guard under the lock and the last write, the assumption
  `cycle_guard` shows to be needed); `MergesEnd` (assuming no linked worktree, see
  `cycle_worktree`); `HistoriesOnlyGrow`; `CommittedSyncTransports`; `SuccessIsSync` (the
  same assumption as `HumanOperationsUntouched`; of the remote only for cycles that did
  not meet a detached HEAD) and `ConfiguredSuccessIsSync` (with a configured branch there
  are no others); `EditsAlwaysSurvive`, which needs no assumption about people but names
  three exceptions; and `CyclesEnd`.
- `SyncCycleProofs` also: `SyncIsTransport`, that SyncCycle implements CommitTransport
  (the same assumption, and no edits during a cycle whose resolution may fail to
  commit), and from it `NothingIsLost`; and `SyncIsRepositoryLoop`, that it implements
  RepositoryLoop.
- `RelativeStateProofs`: `CountsSuffice`, that the counts of two finite histories classify
  them as the histories do; `PlanIsRight`, the plan as a statement about those.
- `ConflictResolutionProofs`: `TypeCorrect`; `AbortsLeaveNoBackups` (unless a backup
  cannot be removed or is cut off while it is written); `OursIsRescued`;
  `UpstreamIsAccepted` (for files claude had not added); `BackupPolicyAcceptsUpstream`
  (for every file, if the policy is `backup`: the finding of `conflict_partial` takes
  claude); `ClaudeSeesBothSides`; `ResolutionIsSettlement`, that ConflictResolution
  implements ConflictSettlement, in which those two failures appear as litter, and from it `MarkersAreNotCommitted`; `AttemptsEnd`.
- `WatchLoopProofs`: `TypeCorrect`; `RequestsAreKept`; `RequestsDoNotWait`; `EnvironmentIsKept`;
  `ChangesAreNoticed`; `SettlingIsQuiet`; `WaitsAreBounded`.
- `EnvironmentBroadcastProofs`: `TypeCorrect`; `EventsAreKept`; `RoundsArePrompt`;
  `RoundsAreRationed`; `RoundsAreUsedUp`.
- `RemoteCommandProofs`: `TypeCorrect`; `GitAlwaysDecides`; `NothingSurvives`;
  `CausesAreNamed`; `ReturnsInTime`; `GraceAlwaysGiven`.
- `DaemonProofs`: `TypeCorrect`; `DaemonIsOne`; `FileStaysWhole`; `FileStaysCurrent`;
  `SocketIsKept`; `RequestsAreWhole`; `StatusIsDisplay`, that Daemon implements
  StatusDisplay; `DaemonRunsLoops`, that it implements RepositoryLoop for every
  repository, and from it `WritersAreKnown` - all for any number of processes,
  repositories and faults.

**Arguments.** Each module's proof is one induction: the invariant holds in `Init`
and every group of actions of `Next` preserves it. Where the property itself is not
inductive, the strengthening says what each place in the code has come to know.

- `SuccessMeansSynced` compares the end of a cycle with the world at its
  beginning, so its `SyncInv` follows what the cycle has come to know, phase by
  phase: histories have only grown since `start`; the edits of `start` are still
  dirty, staged or saved; once the status was read clean, or the commit made,
  they are saved; once the fetch succeeded `tracking` holds what the remote held;
  after the integration the branch holds `tracking`; after the push the remote
  holds the branch. What it knows of the remote it knows only if `cycle.detached` is
  not set: a detached HEAD that compares as equal ends a cycle successfully without
  a look at the branch. Only together do they pass through every early return.
  `ConfiguredSuccessIsSync` adds `BranchFound`: a configured branch is refused in a rebase.
- `SyncIsTransport` maps every step to a step of CommitTransport or to none. It
  rests on the types, on `FromRemote` (the tracking ref and an open merge hold only
  what the remote holds), and on `GuardKept` (no paused operation of a person in the
  interval between the guard under the lock and the last write), for which it
  assumes, like `HandsOff`, that `"operation"` is not among the `Intrusions`; and on the
  tree being clean when a resolution that may fail to commit is aborted. The
  actions that act on a paused rebase are otherwise steps CommitTransport does not
  have. `NothingIsLost` then reasons in CommitTransport alone.
- `SyncIsRepositoryLoop` needs the types alone: the phase changes in the very steps that
  begin and end the writing, and a loop that fails leaves it as it was.
  `EditsAlwaysSurvive` goes without `GuardKept`: it excepts a commit on somebody's
  detached HEAD, a resolution aborted over edits it has staged, and a person who gives
  up an operation with what is staged in it.
- `ResolutionIsSettlement` needs most of all that is known of a resolution at once.
  `SettleInv` joins the invariants below with `Places` (where the index is merged and
  where the tree is the branch's own), `Added` (what claude has left behind: its files
  have no stages, and in a backup that follows those already done are gone) and `Kept`
  (a backup is of a side that exists, of a file claude had not added). What lies around
  unlisted is a copy of such a side (`NoneStray` where nothing can). A commit is
  then the one step that is seen; everything between, `merge --abort` included, maps
  to a stutter.
- `StatusIsDisplay` and `DaemonRunsLoops` use the invariant of Daemon below: the author is
  alone because a process that saves holds the lock, what a failed save did not show
  is gone with its author, and a loop that runs belongs to that author.
- `CycleEnds`, `AttemptEnds` and `RoundsUsedUp` are the safety halves of liveness
  properties: a measure that the system's own steps lower and nobody else raises. They
  bound a cycle by 19 operations, an attempt by two passes over the files, and the
  rounds after the last event by five. Fairness then only has to let the steps happen.
- `OursRescued` and `FallbackAccepts` share `BackupInv`: the files still to do that
  claude has not added have the stages the conflict gave them, and each of the
  others has its upstream version and, if it had a local one, its backup. For a file
  that claude did add the stages are gone; that is what `conflict_partial` exploits.
- `ClaudeSawBothSides` needs `ClaudeInv`: a file still to do holds what the conflict
  wrote, and a file that was done had been shown to claude with its markers.
- `RequestPrompt` follows from `RequestKept`: while the signal of a request is on its way
  somebody has a step to take, so that no timer moves.
- `SettleMeansQuiet` and `BoundedWait` rest on `QuietInv` and `WaitInv`: the time
  left on a timer and the time since the event that started it add up.
- `RoundsRationed` rests on `TimerRespectsCooldown` (what is left of the timer and
  what has passed since the last round are a cooldown together), `PromptRound` on
  `AllCarried`: at each station of its way - the probe, the socket, the one-slot
  channel, the timer, the round - an event has waited no longer than the stations
  before allow.
- `RemoteCommand` has one invariant for all of its properties: `Phases` (what each place
  in the caller knows of git), `Causes` (only a context that is done has git
  signalled), `Clocks` (each timer with the time it has used) and `Verdicts`.
- `Daemon` has one as well: `Holding` (the process lock is held from before the first
  save until after the last, and a listener accepts only within) and `Files` (the
  one process that saves finds its own bytes in the temporary file, and outside a
  save the file is what the recorder knows). `RequestsWhole` adds `Unasked`: a client
  that has not got past the check of its paths has fired nothing.

**Only model-checked.** The liveness properties: `Converges`, `EditsGetCommitted`,
`ConflictsSettle`, `RequestsAnswered`, `ChangesSeen`, `NotItsOwnTrigger`, `Returns`,
`ShutdownEnds`, `SyncingClears`, `ReloadApplied`. The prover has no rules for
fairness and `ENABLED` that would carry arguments of this length.

**Only proved.** The type invariants of every module but `SyncCycle`;
`HistoryOnlyGrows` and `NothingLost`, which `TransportsCommits` implies in the runs;
`EventKept`, which `PromptRound` implies; `NoLeftoverBackups` (about the failures it
excludes, which the run has) and `FallbackAccepts`, parts of
`SettlesAtOnce`; `FileWhole`, part of `FileIsDisplay`; `EditsSurvive`, `CycleEnds`, `AttemptEnds`,
`RoundsUsedUp`, `RequestPrompt`, `AreRepositoryLoops` and the backup policy on its own, which hold on the
same instances; and a repository without a save lock, which no run instantiates. No
module declares a recursive operator.

## Not modelled

- Configuration beyond what the daemon does with it: parsing, defaults and the
  checks of combinations of fields are a sequential function of one file, with
  unit tests, and share no state with anything.
- Commit messages, the command line, the plist and its installation: formatting and
  calls of `launchctl`.
- The length of the backoff: it doubles, never shrinks, and a loop that ran for days
  waits the maximum after its next failure. The models only know that it ends.
- Edits of a conflicting file made during its resolution (see the abstractions above):
  the code does not guard against them.
- A rebase a person concludes rewrites commits that have not been pushed: histories
  only grow in the models, so a rebase can be paused and given up, not concluded
  with new commits. Branches other than the one being synced, which a person may
  switch to, are left out too; of a detached HEAD only a rebase is modelled.
- A change whose cycle failed before it looked waits for the next event, request or
  tick; `BoundedWait` does not count it, `ChangesSeen` does.
- The status file after a power failure: `Save` writes and renames without a sync,
  so nothing is promised; `Daemon` covers crashes of the process. Time stamps and the
  AI outcome fields are left out.
- Git children that outlive a daemon killed with SIGKILL: remote commands have a
  process group of their own and run on next to the daemon launchd restarts.
- An environment event that a loop has taken and deferred to a settle window when
  the loop fails is forgotten with the timers; only the ticker helps. The mailbox
  itself survives (`EnvironmentKept`).
- After a panic the phase on display is stale until a later cycle writes one
  (`superviseRepo` writes only the error): `SyncingMeansWriting` speaks of the time
  before the first failure, `SyncingClears` says that the stale phase goes away.
- A process that gave up accepting closes its listener in a goroutine `Run` does not
  wait for, so the socket file it removes may already be its successor's:
  `SocketStays` excepts it. What a handler still fires after its client's deadline
  is not followed.
- A marker-less conflict in a file whose own text holds a row of equals signs is
  offered to claude (`readConflictMarkers` takes any one of three strings);
  `ClaudeSawBothSides` excepts such files.

## Plan

Every part of the first plan that has state of its own is modelled. What is left:

1. **People's edits of the files of a conflict during its resolution**, and a statement
   of what they may lose. The resolution as a whole is the step of ConflictSettlement
   already, and SyncCycle has the edits its final commit may lose.
2. **EnvironmentBroadcast and Daemon composed with WatchLoop**: `AskRepository` and
   `Fire` as the two steps of `fire` on the mailbox, so that a wake is followed
   through to a fetch in one model. They meet at the mailbox now, whose promises
   (`RequestKept`, `EnvironmentKept`) the others rely on.
3. **RemoteCommand's verdicts as SyncCycle's outcomes** of fetch and push, the
   push that took effect without an answer included.
4. **The backoff as a function of the failures**, with the reset the code does not
   have as the question.
5. **The resolution of a configuration** as pure operators against a reference table.
