------------------------------- MODULE Daemon -------------------------------
(***************************************************************************)
(* Daemon processes that share one state directory: the process lock, the  *)
(* status file, the control socket, one supervised loop per repository,    *)
(* and around them launchd, the configuration file and a client that runs  *)
(* `gitloop sync`.  One process is launchd's, others are started by hand.  *)
(* What a loop does to its repository is SyncCycle, when it runs a cycle   *)
(* WatchLoop; here a loop is what it does to the status file.              *)
(***************************************************************************)
EXTENDS Naturals

CONSTANTS
    Agent,      \* the process launchd keeps alive
    Manual,     \* processes people start
    Repos,      \* repositories that may be configured
    Contents,   \* what the configuration file may say: sets of
                \* repositories, or {} for a file that Load refuses
    Failures,   \* what may fail: "crash", "load", "save", "loop", "bind", "accept"
    Requests,   \* what `gitloop sync` may name: sets of repositories, {} for
                \* no name at all
    MaxDisturbances,  \* bound on failures, signals, reloads and edits
    None,       \* no process, no file
    Partial     \* a file written in part

Processes == Manual \union {Agent}

(* A status: which process wrote its pid, and the phase of every repository *)
(* (a repository without an entry counts as idle).                          *)
Statuses == [pid : Processes \union {None}, phase : [Repos -> {"idle", "syncing"}]]

ASSUME ProcessAssumption == Agent \notin Manual /\ None \notin Processes
ASSUME FileAssumption == None \notin Statuses /\ Partial \notin Statuses /\ None # Partial
ASSUME ConfigAssumption == Contents \subseteq SUBSET Repos /\ Requests \subseteq SUBSET Repos
ASSUME FaultAssumption ==
    /\ Failures \subseteq {"crash", "load", "save", "loop", "bind", "accept"}
    /\ MaxDisturbances \in Nat

VARIABLES
    config,      \* what the configuration file says
    wanted,      \* what it said when `gitloop reload` last restarted the
                 \* agent; {} once it has been edited
    lock,        \* who holds the process lock
    file, tmp,   \* the status file, and the file that is renamed over it
    path,        \* whose socket the socket file is
    disturbances,  \* failures, signals, reloads and edits so far
    stage,       \* of each process: where Run is
    configured,  \* of each process: the repositories it loaded
    memory,      \* of each process: the statusRecorder's file
    saving,      \* of each process: where the Save under its mutex is
    serving,     \* of each process: what has become of its listener
    loop,        \* of each process: the loop of each repository
    client,      \* the `gitloop sync` that runs or ran last
    lagging      \* history variable: processes whose last Save failed

outside == <<config, wanted>>
disk == <<file, tmp>>
process == <<stage, configured>>
recorder == <<memory, saving, lagging>>
socket == <<path, serving>>
vars == <<outside, disturbances, lock, disk, process, recorder, socket, loop, client>>

FirstStatus == [pid |-> None, phase |-> [r \in Repos |-> "idle"]]

Answered(outcome) == [to |-> None, at |-> outcome, targets |-> {}, fired |-> {}]

TypeOK ==
    /\ config \in SUBSET Repos /\ wanted \in SUBSET Repos
    /\ lock \in Processes \union {None}
    /\ path \in Processes \union {None}
    /\ file \in Statuses \union {Partial}
    /\ tmp \in Statuses \union {Partial, None}
    /\ disturbances \in 0 .. MaxDisturbances
    /\ stage \in [Processes -> {"off", "loaded", "locked", "recalled", "stamped",
                                "cleared", "running", "stopping", "released"}]
    /\ configured \in [Processes -> SUBSET Repos]
    /\ memory \in [Processes -> Statuses]
    /\ saving \in [Processes -> {"no", "open", "written"}]
    /\ serving \in [Processes -> {"no", "accepting", "gaveUp", "closed"}]
    /\ loop \in [Processes ->
                   [Repos -> {"none", "idle", "writing", "backoff", "stopped"}]]
    /\ client \in [to : Processes \union {None},
                   at : {"connected", "firing", "triggered", "refused", "failed"},
                   targets : SUBSET Repos, fired : SUBSET Repos]
    /\ lagging \subseteq Processes

Init ==
    /\ config \in Contents /\ wanted = {}
    /\ lock = None /\ path = None
    /\ file = FirstStatus /\ tmp = None
    /\ disturbances = 0
    /\ stage = [p \in Processes |-> "off"]
    /\ configured = [p \in Processes |-> {}]
    /\ memory = [p \in Processes |-> FirstStatus]
    /\ saving = [p \in Processes |-> "no"]
    /\ serving = [p \in Processes |-> "no"]
    /\ loop = [p \in Processes |-> [r \in Repos |-> "none"]]
    /\ client = Answered("failed")
    /\ lagging = {}

Goes(p, from, to) == stage[p] = from /\ stage' = [stage EXCEPT ![p] = to]

Disturbs == disturbances < MaxDisturbances /\ disturbances' = disturbances + 1
Fault(kind) == kind \in Failures /\ Disturbs

-----------------------------------------------------------------------------
(* The status recorder.  A goroutine that updates the file holds the mutex *)
(* until its Save is over; Save writes a temporary file and renames it.    *)

Unlocked(p) == saving[p] = "no"

SaveInPlace(p, status) ==  \* mutant: no temporary file
    /\ Unlocked(p)
    /\ memory' = [memory EXCEPT ![p] = status]
    /\ saving' = [saving EXCEPT ![p] = "open"]
    /\ file' = Partial /\ tmp' = Partial
    /\ UNCHANGED lagging
Update(p, status) ==
    /\ Unlocked(p)
    /\ memory' = [memory EXCEPT ![p] = status]
    /\ saving' = [saving EXCEPT ![p] = "open"]
    /\ tmp' = Partial
    /\ UNCHANGED <<file, lagging>>

WriteTemporary(p) ==
    /\ saving[p] = "open"
    /\ saving' = [saving EXCEPT ![p] = "written"]
    /\ tmp' = memory[p]
    /\ UNCHANGED <<outside, disturbances, lock, file, process, memory,
                   lagging, socket, loop, client>>

Rename(p) ==
    /\ saving[p] = "written"
    /\ saving' = [saving EXCEPT ![p] = "no"]
    /\ file' = tmp /\ tmp' = None
    /\ lagging' = lagging \ {p}
    /\ UNCHANGED <<outside, disturbances, lock, process, memory, socket, loop,
                   client>>

(* The error is returned and logged; nobody retries.  What is left of the  *)
(* temporary file counts as no file: nobody reads it, and the next Save    *)
(* truncates it.                                                           *)
SaveFails(p) ==
    /\ ~Unlocked(p) /\ Fault("save")
    /\ saving' = [saving EXCEPT ![p] = "no"]
    /\ lagging' = lagging \union {p} /\ tmp' = None
    /\ UNCHANGED <<outside, lock, file, process, memory, socket, loop,
                   client>>

SaveStep(p) == WriteTemporary(p) \/ Rename(p)

-----------------------------------------------------------------------------
(* Starting.                                                               *)

(* config.Load; a refused file ends the process.                           *)
Launch(p) ==
    /\ config # {}
    /\ Goes(p, "off", "loaded")
    /\ configured' = [configured EXCEPT ![p] = config]
    /\ UNCHANGED <<outside, disturbances, lock, disk, recorder, socket, loop,
                   client>>

AcquireUnchecked(p) ==  \* mutant: a lock that is taken is no error
    /\ stage[p] = "loaded"
    /\ lock' = p /\ Goes(p, "loaded", "locked")
    /\ UNCHANGED <<outside, disturbances, disk, configured, recorder, socket,
                   loop, client>>
AcquireProcessLock(p) ==
    /\ stage[p] = "loaded"
    /\ IF lock = None
       THEN lock' = p /\ Goes(p, "loaded", "locked") /\ UNCHANGED configured
       ELSE /\ Goes(p, "loaded", "off") /\ UNCHANGED lock
            /\ configured' = [configured EXCEPT ![p] = {}]
    /\ UNCHANGED <<outside, disturbances, disk, recorder, socket, loop, client>>

(* newStatusRecorder: a restarted daemon starts from what was displayed.   *)
LoadStatus(p) ==
    /\ Goes(p, "locked", "recalled")
    /\ memory' = [memory EXCEPT ![p] = file]
    /\ UNCHANGED <<outside, disturbances, lock, disk, configured, saving,
                   lagging, socket, loop, client>>

(* The file cannot be read: Run fails, its deferred release runs.          *)
LoadFails(p) ==
    /\ Fault("load")
    /\ Goes(p, "locked", "released")
    /\ lock' = None
    /\ UNCHANGED <<outside, disk, configured, recorder, socket, loop, client>>

SetPid(p) ==
    /\ Goes(p, "recalled", "stamped")
    /\ Update(p, [memory[p] EXCEPT !.pid = p])
    /\ UNCHANGED <<outside, disturbances, lock, configured, socket, loop,
                   client>>

(* listenControl: whatever is at the path goes; then the socket is bound.  *)
RemoveStaleSocket(p) ==
    /\ Unlocked(p)
    /\ Goes(p, "stamped", "cleared")
    /\ path' = None
    /\ UNCHANGED <<outside, disturbances, lock, disk, configured, recorder,
                   serving, loop, client>>

BindAndRun(p) ==
    /\ path = None
    /\ Goes(p, "cleared", "running")
    /\ path' = p
    /\ serving' = [serving EXCEPT ![p] = "accepting"]
    /\ loop' = [loop EXCEPT ![p] =
                   [r \in Repos |-> IF r \in configured[p] THEN "idle" ELSE "none"]]
    /\ UNCHANGED <<outside, disturbances, lock, disk, configured, recorder,
                   client>>

(* The socket cannot be bound: Run fails likewise.                         *)
BindFails(p) ==
    /\ Fault("bind")
    /\ Goes(p, "cleared", "released")
    /\ lock' = None
    /\ UNCHANGED <<outside, disk, configured, recorder, socket, loop, client>>

Startup(p) ==
    \/ AcquireProcessLock(p) \/ LoadStatus(p) \/ SetPid(p)
    \/ RemoveStaleSocket(p) \/ BindAndRun(p)

-----------------------------------------------------------------------------
(* Running: the heartbeat and the supervised loops.                        *)

(* runHeartbeat; its time stamp is not modelled, that it saves is.         *)
Heartbeat(p) ==
    /\ stage[p] = "running"
    /\ Update(p, memory[p])
    /\ UNCHANGED <<outside, disturbances, lock, process, socket, loop,
                   client>>

Becomes(p, r, state) == loop' = [loop EXCEPT ![p][r] = state]
Shows(p, r, phase) == Update(p, [memory[p] EXCEPT !.phase[r] = phase])

(* The local write phase of a cycle begins; a cycle that was under way     *)
(* when the daemon was told to stop may still get there.                   *)
MarkSyncing(p, r) ==
    /\ loop[p][r] = "idle"
    /\ Becomes(p, r, "writing")
    /\ Shows(p, r, "syncing")
    /\ UNCHANGED <<outside, disturbances, lock, process, socket, client>>

(* It is over, or a cycle that wrote nothing is; then the loop's select    *)
(* sees whether the context is cancelled.                                  *)
AfterCycle(p) == IF stage[p] = "running" THEN "idle" ELSE "stopped"

FinishUnrecorded(p, r) ==  \* mutant: the end of a cycle is not saved
    /\ loop[p][r] \in {"idle", "writing"}
    /\ Unlocked(p)
    /\ Becomes(p, r, AfterCycle(p))
    /\ memory' = [memory EXCEPT ![p].phase[r] = "idle"]
    /\ UNCHANGED <<outside, disturbances, lock, disk, process, saving,
                   lagging, socket, client>>
FinishCycle(p, r) ==
    /\ loop[p][r] \in {"idle", "writing"}
    /\ Becomes(p, r, AfterCycle(p))
    /\ Shows(p, r, "idle")
    /\ UNCHANGED <<outside, disturbances, lock, process, socket, client>>

(* An error or a panic ends the loop; superviseRepo records it, the phase  *)
(* staying what it was, and waits - unless the daemon is shutting down.    *)
LoopAbandoned(p, r) ==  \* mutant: no retry
    /\ loop[p][r] \in {"idle", "writing"} /\ Fault("loop")
    /\ Becomes(p, r, "stopped")
    /\ Update(p, memory[p])
    /\ UNCHANGED <<outside, lock, process, socket, client>>
LoopFails(p, r) ==
    /\ loop[p][r] \in {"idle", "writing"} /\ Fault("loop")
    /\ IF stage[p] = "running"
       THEN Becomes(p, r, "backoff") /\ Update(p, memory[p])
       ELSE Unlocked(p) /\ Becomes(p, r, "stopped") /\ UNCHANGED <<disk, recorder>>
    /\ UNCHANGED <<outside, lock, process, socket, client>>

Retry(p, r) ==
    /\ stage[p] = "running" /\ loop[p][r] = "backoff" /\ Unlocked(p)
    /\ Becomes(p, r, "idle")
    /\ UNCHANGED <<outside, disturbances, lock, disk, process, recorder,
                   socket, client>>

StopLoop(p, r) ==
    /\ stage[p] = "stopping" /\ loop[p][r] \in {"idle", "backoff"} /\ Unlocked(p)
    /\ Becomes(p, r, "stopped")
    /\ UNCHANGED <<outside, disturbances, lock, disk, process, recorder,
                   socket, client>>

LoopStep(p, r) == FinishCycle(p, r) \/ Retry(p, r) \/ StopLoop(p, r)

-----------------------------------------------------------------------------
(* Stopping.                                                               *)

(* SIGTERM or SIGINT cancels the context.                                  *)
Terminate(p) ==
    /\ Disturbs
    /\ Goes(p, "running", "stopping")
    /\ UNCHANGED <<outside, lock, disk, configured, recorder, socket, loop,
                   client>>

(* The goroutine serve has started: Close unlinks the path, then closes.   *)
CloseNever(p) == FALSE  \* mutant: nobody closes the listener
CloseListener(p) ==
    /\ stage[p] \in {"stopping", "released"} /\ serving[p] \in {"accepting", "gaveUp"}
    /\ path' = None
    /\ serving' = [serving EXCEPT ![p] = "closed"]
    /\ UNCHANGED <<outside, disturbances, lock, disk, process, recorder, loop,
                   client>>

(* wg.Wait is over: every loop has stopped, serve has returned, and the    *)
(* deferred release runs.                                                  *)
Quiet(p) == Unlocked(p) /\ \A r \in Repos : loop[p][r] \in {"none", "stopped"}
ReleaseServing(p) ==  \* mutant: the control server is not waited for
    /\ Quiet(p)
    /\ Goes(p, "stopping", "released")
    /\ lock' = None
    /\ UNCHANGED <<outside, disturbances, disk, configured, recorder, socket,
                   loop, client>>
Release(p) ==
    /\ Quiet(p) /\ serving[p] \in {"gaveUp", "closed"}
    /\ Goes(p, "stopping", "released")
    /\ lock' = None
    /\ UNCHANGED <<outside, disturbances, disk, configured, recorder, socket,
                   loop, client>>

(* The end of a process, as the kernel sees it.                            *)
Ends(p) ==
    /\ stage' = [stage EXCEPT ![p] = "off"]
    /\ configured' = [configured EXCEPT ![p] = {}]
    /\ memory' = [memory EXCEPT ![p] = FirstStatus]
    /\ saving' = [saving EXCEPT ![p] = "no"]
    /\ lagging' = lagging \ {p}
    /\ serving' = [serving EXCEPT ![p] = "no"]
    /\ loop' = [loop EXCEPT ![p] = [r \in Repos |-> "none"]]
    /\ lock' = IF lock = p THEN None ELSE lock
    /\ client' = IF client.to = p THEN Answered("failed") ELSE client
    /\ tmp' = IF Unlocked(p) THEN tmp ELSE None
    /\ UNCHANGED <<file, path>>

Exit(p) == stage[p] = "released" /\ Ends(p) /\ UNCHANGED <<outside, disturbances>>

(* SIGKILL, a fatal error, or launchd's patience running out.              *)
Crash(p) == stage[p] # "off" /\ Fault("crash") /\ Ends(p) /\ UNCHANGED outside

Shutdown(p) == CloseListener(p) \/ Release(p) \/ Exit(p)

-----------------------------------------------------------------------------
(* The control socket and its client.                                      *)

Listening(p) == serving[p] \in {"accepting", "gaveUp"}

(* RequestSync; without a socket file, or with one nobody listens on, it   *)
(* reports ErrDaemonNotRunning.                                            *)
RequestSync(targets) ==
    /\ client.to = None
    /\ client' = IF path # None /\ Listening(path)
                 THEN [to |-> path, at |-> "connected", targets |-> targets, fired |-> {}]
                 ELSE Answered("failed")
    /\ UNCHANGED <<outside, disturbances, lock, disk, process, recorder,
                   socket, loop>>

(* serve gives up on a listener that fails for any other reason than its   *)
(* own closing; the listener stays open.                                   *)
AcceptFails(p) ==
    /\ serving[p] = "accepting" /\ Fault("accept")
    /\ serving' = [serving EXCEPT ![p] = "gaveUp"]
    /\ UNCHANGED <<outside, lock, disk, process, recorder, path, loop,
                   client>>

(* Accept, and what dispatch makes of the request: every path is checked   *)
(* before any trigger is fired; no path at all stands for every repository.*)
Dispatched(p) ==
    [client EXCEPT !.at = "firing", !.targets = IF @ = {} THEN configured[p] ELSE @]

AcceptInOrder(p) ==  \* mutant: unknown paths are found while firing
    /\ client.to = p /\ client.at = "connected" /\ serving[p] = "accepting"
    /\ IF client.targets \subseteq configured[p]
       THEN client' = Dispatched(p)
       ELSE \E asked \in SUBSET (client.targets \intersect configured[p]) :
               client' = [Answered("refused") EXCEPT !.fired = asked]
    /\ UNCHANGED <<outside, disturbances, lock, disk, process, recorder,
                   socket, loop>>
Accept(p) ==
    /\ client.to = p /\ client.at = "connected" /\ serving[p] = "accepting"
    /\ client' = IF client.targets \subseteq configured[p]
                 THEN Dispatched(p) ELSE Answered("refused")
    /\ UNCHANGED <<outside, disturbances, lock, disk, process, recorder,
                   socket, loop>>

Fire(p) ==
    /\ client.to = p /\ client.at = "firing"
    /\ \E r \in client.targets \ client.fired :
            client' = [client EXCEPT !.fired = @ \union {r}]
    /\ UNCHANGED <<outside, disturbances, lock, disk, process, recorder,
                   socket, loop>>

Reply(p) ==
    /\ client.to = p /\ client.at = "firing" /\ client.fired = client.targets
    /\ client' = Answered("triggered")
    /\ UNCHANGED <<outside, disturbances, lock, disk, process, recorder,
                   socket, loop>>

(* The deadline of the exchange is over for the client; that the handler   *)
(* may go on firing is left out, since nobody hears of it.                 *)
TimeOut ==
    /\ client.to # None
    /\ client' = Answered("failed")
    /\ UNCHANGED <<outside, disturbances, lock, disk, process, recorder,
                   socket, loop>>

ControlStep(p) == Accept(p) \/ Fire(p) \/ Reply(p)

-----------------------------------------------------------------------------
(* The configuration file and `gitloop reload`.                            *)

EditConfig ==
    /\ Disturbs
    /\ config' \in Contents \ {config}
    /\ wanted' = {}
    /\ UNCHANGED <<lock, disk, process, recorder, socket, loop, client>>

(* reload: a file Load accepts, then launchctl kickstart -k, which ends    *)
(* the agent with a signal it handles or with one it does not.             *)
StartsIfDown ==  \* mutant: kickstart without -k
    UNCHANGED <<lock, disk, path, stage, configured, recorder, serving, loop, client>>
Restarts ==
    \/ /\ stage[Agent] # "off" /\ Ends(Agent)
    \/ /\ \/ stage[Agent] = "running" /\ stage' = [stage EXCEPT ![Agent] = "stopping"]
          \/ stage[Agent] \in {"off", "stopping", "released"} /\ UNCHANGED stage
       /\ UNCHANGED <<lock, disk, configured, recorder, socket, loop, client>>

Reload ==
    /\ Disturbs
    /\ config # {}
    /\ wanted' = config /\ UNCHANGED config
    /\ Restarts

-----------------------------------------------------------------------------
ProcessStep(p) ==
    \/ Launch(p) \/ Startup(p) \/ Shutdown(p) \/ SaveStep(p) \/ Heartbeat(p) \/ Terminate(p)
    \/ ControlStep(p)
    \/ \E r \in Repos : MarkSyncing(p, r) \/ LoopStep(p, r)

FaultStep(p) ==
    \/ Crash(p) \/ LoadFails(p) \/ SaveFails(p) \/ BindFails(p) \/ AcceptFails(p)
    \/ \E r \in Repos : LoopFails(p, r)

Next ==
    \/ \E p \in Processes : ProcessStep(p) \/ FaultStep(p)
    \/ \E targets \in Requests : RequestSync(targets)
    \/ TimeOut \/ EditConfig \/ Reload

Spec == Init /\ [][Next]_vars

(* Goroutines run; sync.Mutex lets everyone in in the end; the fetch       *)
(* interval brings a cycle, the backoff ends; launchd keeps its agent      *)
(* alive (KeepAlive).                                                      *)
ProcessFairness(p) ==
    /\ WF_vars(Startup(p) \/ SaveStep(p) \/ Shutdown(p))
    /\ \A r \in Repos : SF_vars(LoopStep(p, r))

LiveSpec ==
    /\ Spec
    /\ \A p \in Processes : ProcessFairness(p)
    /\ WF_vars(Launch(Agent))

-----------------------------------------------------------------------------
(* Properties.                                                             *)

(* One daemon at a time drives the loops and writes the status file, from  *)
(* before its first write to after its last, whoever is starting, stopping *)
(* or crashing next to it (processLock's comment).                         *)
Working(p) == ~Unlocked(p) \/ \E r \in Repos : loop[p][r] \in {"idle", "writing", "backoff"}
OneDaemon == \A p \in Processes : Working(p) => lock = p

(* A running daemon can be reached: no process that starts, stops or dies  *)
(* next to it takes its socket file away (listenControl's comment) - but   *)
(* for one that had given up accepting: its Run does not wait for the      *)
(* goroutine that closes the listener.                                     *)
SocketStays == [][\A p \in Processes :
    stage[p] = "running" /\ path = p /\ path' # p =>
        \E q \in Processes \ {p} : serving[q] = "gaveUp"]_vars

(* The status file is always whole, also after a crash halfway through a   *)
(* Save, and with two processes (Save's comment).                          *)
FileWhole == file # Partial

(* What is displayed is what the daemon knows, but for the Save that is    *)
(* running and one that failed with none after it.                         *)
FileCurrent == \A p \in Processes :
    stage[p] = "running" /\ Unlocked(p) /\ p \notin lagging => file = memory[p]

(* To its readers the status file is a display with one author at a time:  *)
(* it changes in one piece, to what the daemon in charge knows at that     *)
(* moment, and a daemon that takes over goes on from what is on display -  *)
(* however many processes save, crash and start (Save, newStatusRecorder). *)
Known == IF lock = None THEN file ELSE IF stage[lock] = "locked" THEN file ELSE memory[lock]
Display == INSTANCE StatusDisplay WITH author <- lock, known <- Known, shown <- file
FileIsDisplay == Display!Spec

(* Each repository's loop under the daemon in charge is the loop of        *)
(* RepositoryLoop, which SyncCycle implements with all that a cycle does.  *)
LoopOf(r) ==
    IF lock = None THEN "none" ELSE IF loop[lock][r] = "stopped" THEN "none" ELSE loop[lock][r]
Loop(r) == INSTANCE RepositoryLoop WITH loop <- LoopOf(r), phase <- Known.phase[r]
AreRepositoryLoops ==
    /\ \A r \in Repos : Loop(r)!Init
    /\ [][\A r \in Repos : [Loop(r)!Next]_(Loop(r)!vars)]_vars

(* A request is carried out whole or not at all, as far as its answer      *)
(* says: "syncing" means every repository was asked, a refusal means none  *)
(* (ControlResponse's comment).                                            *)
RequestsWhole == [][
    /\ client.at # "triggered" /\ client'.at = "triggered" => client.fired = client.targets
    /\ client'.at = "refused" =>
          client'.fired = {} /\ (client.at = "refused" \/ client.fired = {})]_vars

(* A daemon that is told to stop stops: none is shutting down for ever.    *)
ShutdownEnds == \A p \in Processes : []<>(stage[p] \notin {"stopping", "released"})

(* The phase `syncing` does not stay for ever, whatever failed while it    *)
(* was displayed, unless the daemon in charge was not given the repository *)
(* or the configuration is refused.                                        *)
Neglected(r) ==
    \/ r \notin config
    \/ \E p \in Processes : lock = p /\ stage[p] = "running" /\ r \notin configured[p]
SyncingClears == \A r \in Repos : []<>(file.phase[r] = "idle" \/ Neglected(r))

(* After `gitloop reload` a daemon runs in the end that has loaded the     *)
(* configuration reload has checked, unless it is edited again or a daemon *)
(* started by hand holds the lock.                                         *)
ReloadApplied == []<>
    \/ wanted = {} \/ lock \in Manual
    \/ stage[Agent] = "running" /\ configured[Agent] = wanted
=============================================================================
