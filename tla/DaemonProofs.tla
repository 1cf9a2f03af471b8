---------------------------- MODULE DaemonProofs ----------------------------
(***************************************************************************)
(* The safety of the shared state directory, proved for every set of       *)
(* processes and repositories and every bound on the disturbances.         *)
(* Liveness (ShutdownEnds, SyncingClears, ReloadApplied) is left to TLC.   *)
(***************************************************************************)
EXTENDS Daemon, TLAPS

USE DEF outside, disk, process, recorder, socket

Holders == {"locked", "recalled", "stamped", "cleared", "running", "stopping"}

(* The lock is held from before the first Save to after the last, and by   *)
(* the process whose loops run and whose listener has not been abandoned.  *)
Holding == \A p \in Processes :
    /\ lock = p <=> stage[p] \in Holders
    /\ ~Unlocked(p) => stage[p] \in {"stamped", "running", "stopping"}
    /\ \A r \in Repos : loop[p][r] \in {"idle", "writing", "backoff"} =>
          stage[p] \in {"running", "stopping"}
    /\ serving[p] # "no" => stage[p] \in {"running", "stopping", "released"}
    /\ stage[p] = "released" => serving[p] # "accepting"

(* The one process that saves finds its own bytes in the temporary file,   *)
(* and the file holds what it knows when no Save is running.               *)
Files ==
    /\ FileWhole
    /\ \A p \in Processes :
          /\ saving[p] = "written" => tmp = memory[p]
          /\ stage[p] \in Holders \ {"locked"} /\ Unlocked(p) /\ p \notin lagging =>
                file = memory[p]

Inv == TypeOK /\ Holding /\ Files

-----------------------------------------------------------------------------
(* What the helpers of the actions yield.                                  *)

LEMMA Counted == ASSUME TypeOK, Disturbs PROVE disturbances' \in 0 .. MaxDisturbances
  BY FaultAssumption DEF TypeOK, Disturbs

LEMMA StatusTypes ==
    /\ FirstStatus \in Statuses
    /\ \A status \in Statuses, p \in Processes : [status EXCEPT !.pid = p] \in Statuses
    /\ \A status \in Statuses, r \in Repos, phase \in {"idle", "syncing"} :
          [status EXCEPT !.phase[r] = phase] \in Statuses
  BY DEF Statuses, FirstStatus

Clients == [to : Processes \union {None},
            at : {"connected", "firing", "triggered", "refused", "failed"},
            targets : SUBSET Repos, fired : SUBSET Repos]

LEMMA Answers ==
    \A outcome \in {"triggered", "refused", "failed"} : Answered(outcome) \in Clients
  BY DEF Clients, Answered

LEMMA UpdateTypes ==
    ASSUME TypeOK, NEW p \in Processes, NEW status \in Statuses, Update(p, status)
    PROVE  /\ memory' \in [Processes -> Statuses]
           /\ saving' \in [Processes -> {"no", "open", "written"}]
           /\ file' = file /\ tmp' \in Statuses \union {Partial, None}
           /\ lagging' = lagging
  BY DEF TypeOK, Update

LEMMA EndTypes ==
    ASSUME TypeOK, NEW p \in Processes, Ends(p)
    PROVE  /\ lock' \in Processes \union {None} /\ UNCHANGED <<file, path>>
           /\ tmp' \in Statuses \union {Partial, None}
           /\ stage' \in [Processes -> {"off", "loaded", "locked", "recalled", "stamped",
                                        "cleared", "running", "stopping", "released"}]
           /\ configured' \in [Processes -> SUBSET Repos]
           /\ memory' \in [Processes -> Statuses]
           /\ saving' \in [Processes -> {"no", "open", "written"}]
           /\ serving' \in [Processes -> {"no", "accepting", "gaveUp", "closed"}]
           /\ loop' \in [Processes ->
                           [Repos -> {"none", "idle", "writing", "backoff", "stopped"}]]
           /\ client' \in Clients /\ lagging' \subseteq Processes
  BY StatusTypes, Answers DEF TypeOK, Ends, Clients

LEMMA TypeStep ==
    ASSUME TypeOK, Files, Next
    PROVE  TypeOK'
<1> USE DEF TypeOK
<1>1. ASSUME NEW p \in Processes, WriteTemporary(p) PROVE TypeOK'
  BY <1>1 DEF WriteTemporary
<1>2. ASSUME NEW p \in Processes, Rename(p) PROVE TypeOK'
  BY <1>2 DEF Rename, Files, FileWhole
<1>3. ASSUME NEW p \in Processes, SaveFails(p) PROVE TypeOK'
  BY <1>3, Counted DEF SaveFails, Fault
<1>4. ASSUME NEW p \in Processes, Launch(p) PROVE TypeOK'
  BY <1>4 DEF Launch, Goes
<1>5. ASSUME NEW p \in Processes, AcquireProcessLock(p) PROVE TypeOK'
  BY <1>5 DEF AcquireProcessLock, Goes
<1>6. ASSUME NEW p \in Processes, LoadStatus(p) PROVE TypeOK'
  BY <1>6 DEF LoadStatus, Goes, Files, FileWhole
<1>7. ASSUME NEW p \in Processes, SetPid(p) PROVE TypeOK'
  BY <1>7, StatusTypes, UpdateTypes DEF SetPid, Goes
<1>8. ASSUME NEW p \in Processes, RemoveStaleSocket(p) PROVE TypeOK'
  BY <1>8 DEF RemoveStaleSocket, Goes
<1>9. ASSUME NEW p \in Processes, BindAndRun(p) PROVE TypeOK'
  BY <1>9 DEF BindAndRun, Goes
<1>10. ASSUME NEW p \in Processes, BindFails(p) PROVE TypeOK'
  BY <1>10, Counted DEF BindFails, Goes, Fault
<1>11. ASSUME NEW p \in Processes, Heartbeat(p) PROVE TypeOK'
  BY <1>11, UpdateTypes DEF Heartbeat
<1>12. ASSUME NEW p \in Processes, Terminate(p) PROVE TypeOK'
  BY <1>12, Counted DEF Terminate, Goes
<1>13. ASSUME NEW p \in Processes, CloseListener(p) PROVE TypeOK'
  BY <1>13 DEF CloseListener
<1>14. ASSUME NEW p \in Processes, Release(p) PROVE TypeOK'
  BY <1>14 DEF Release, Goes, Quiet
<1>15. ASSUME NEW p \in Processes, Exit(p) PROVE TypeOK'
  BY <1>15, EndTypes DEF Exit, Clients
<1>16. ASSUME NEW p \in Processes, Crash(p) PROVE TypeOK'
  BY <1>16, EndTypes, Counted DEF Crash, Fault, Clients
<1>17. ASSUME NEW p \in Processes, AcceptFails(p) PROVE TypeOK'
  BY <1>17, Counted DEF AcceptFails, Fault
<1>18. ASSUME NEW p \in Processes, Accept(p) PROVE TypeOK'
  BY <1>18, Answers DEF Accept, Dispatched, Clients
<1>19. ASSUME NEW p \in Processes, Fire(p) PROVE TypeOK'
  BY <1>19 DEF Fire
<1>20. ASSUME NEW p \in Processes, Reply(p) PROVE TypeOK'
  BY <1>20, Answers DEF Reply, Clients
<1>21. ASSUME NEW p \in Processes, NEW r \in Repos, MarkSyncing(p, r) PROVE TypeOK'
  BY <1>21, StatusTypes, UpdateTypes DEF MarkSyncing, Shows, Becomes
<1>22. ASSUME NEW p \in Processes, NEW r \in Repos, FinishCycle(p, r) PROVE TypeOK'
  BY <1>22, StatusTypes, UpdateTypes DEF FinishCycle, Shows, Becomes,
  AfterCycle
<1>23. ASSUME NEW p \in Processes, NEW r \in Repos, LoopFails(p, r) PROVE TypeOK'
  <2>1. disturbances' \in 0 .. MaxDisturbances
    BY <1>23, Counted DEF LoopFails, Fault
  <2>2. /\ \/ Becomes(p, r, "backoff") /\ Update(p, memory[p])
           \/ Becomes(p, r, "stopped") /\ UNCHANGED <<disk, recorder>>
        /\ UNCHANGED <<outside, lock, process, socket, client>>
    BY <1>23 DEF LoopFails
  <2>3. /\ memory' \in [Processes -> Statuses]
        /\ saving' \in [Processes -> {"no", "open", "written"}]
        /\ file' = file /\ tmp' \in Statuses \union {Partial, None} /\ lagging' = lagging
    BY <2>2, UpdateTypes
  <2>4. loop' \in [Processes ->
                  [Repos -> {"none", "idle", "writing", "backoff", "stopped"}]]
    <3>1. CASE Becomes(p, r, "backoff")
      BY <3>1 DEF Becomes
    <3>2. CASE Becomes(p, r, "stopped")
      BY <3>2 DEF Becomes
    <3> QED
      BY <2>2, <3>1, <3>2
  <2> QED
    BY <2>1, <2>2, <2>3, <2>4
<1>24. ASSUME NEW p \in Processes, NEW r \in Repos, Retry(p, r) PROVE TypeOK'
  BY <1>24 DEF Retry, Becomes
<1>25. ASSUME NEW p \in Processes, NEW r \in Repos, StopLoop(p, r) PROVE TypeOK'
  BY <1>25 DEF StopLoop, Becomes
<1>26. ASSUME NEW targets \in Requests, RequestSync(targets) PROVE TypeOK'
  BY <1>26, Answers, ConfigAssumption DEF RequestSync, Clients
<1>27. CASE TimeOut
  BY <1>27, Answers DEF TimeOut, Clients
<1>28. CASE EditConfig
  BY <1>28, Counted, ConfigAssumption DEF EditConfig
<1>29. CASE Reload
  BY <1>29, Counted, EndTypes DEF Reload, Restarts, Clients, Processes
<1>30. ASSUME NEW p \in Processes, LoadFails(p) PROVE TypeOK'
  BY <1>30, Counted DEF LoadFails, Goes, Fault
<1> QED
  BY <1>1, <1>2, <1>3, <1>4, <1>5, <1>6, <1>7, <1>8, <1>9, <1>10, <1>11,
  <1>12, <1>13, <1>14, <1>15, <1>16, <1>17, <1>18, <1>19, <1>20, <1>21, <1>22,
  <1>23, <1>24, <1>25, <1>26, <1>27, <1>28, <1>29, <1>30 DEF Next, ProcessStep,
  FaultStep, Startup, SaveStep, Shutdown, ControlStep, LoopStep

LEMMA HoldingStep ==
    ASSUME TypeOK, Holding, Next
    PROVE  Holding'
<1> USE DEF TypeOK, Holding, Holders, Unlocked
<1>1. ASSUME NEW p \in Processes, WriteTemporary(p) PROVE Holding'
  BY <1>1 DEF WriteTemporary
<1>2. ASSUME NEW p \in Processes, Rename(p) PROVE Holding'
  BY <1>2 DEF Rename
<1>3. ASSUME NEW p \in Processes, SaveFails(p) PROVE Holding'
  BY <1>3 DEF SaveFails, Fault, Disturbs
<1>4. ASSUME NEW p \in Processes, Launch(p) PROVE Holding'
  BY <1>4 DEF Launch, Goes
<1>5. ASSUME NEW p \in Processes, AcquireProcessLock(p) PROVE Holding'
  BY <1>5, ProcessAssumption DEF AcquireProcessLock, Goes
<1>6. ASSUME NEW p \in Processes, LoadStatus(p) PROVE Holding'
  BY <1>6 DEF LoadStatus, Goes
<1>7. ASSUME NEW p \in Processes, SetPid(p) PROVE Holding'
  BY <1>7 DEF SetPid, Goes, Update
<1>8. ASSUME NEW p \in Processes, RemoveStaleSocket(p) PROVE Holding'
  BY <1>8 DEF RemoveStaleSocket, Goes
<1>9. ASSUME NEW p \in Processes, BindAndRun(p) PROVE Holding'
  BY <1>9 DEF BindAndRun, Goes
<1>10. ASSUME NEW p \in Processes, BindFails(p) PROVE Holding'
  BY <1>10, ProcessAssumption DEF BindFails, Goes
<1>11. ASSUME NEW p \in Processes, Heartbeat(p) PROVE Holding'
  BY <1>11 DEF Heartbeat, Update
<1>12. ASSUME NEW p \in Processes, Terminate(p) PROVE Holding'
  BY <1>12 DEF Terminate, Goes, Disturbs
<1>13. ASSUME NEW p \in Processes, CloseListener(p) PROVE Holding'
  BY <1>13 DEF CloseListener
<1>14. ASSUME NEW p \in Processes, Release(p) PROVE Holding'
  BY <1>14, ProcessAssumption DEF Release, Goes, Quiet
<1>15. ASSUME NEW p \in Processes, Exit(p) PROVE Holding'
  BY <1>15, ProcessAssumption DEF Exit, Ends
<1>16. ASSUME NEW p \in Processes, Crash(p) PROVE Holding'
  BY <1>16, ProcessAssumption DEF Crash, Ends
<1>17. ASSUME NEW p \in Processes, AcceptFails(p) PROVE Holding'
  BY <1>17 DEF AcceptFails, Fault, Disturbs
<1>18. ASSUME NEW p \in Processes, Accept(p) PROVE Holding'
  BY <1>18 DEF Accept, Answered, Dispatched
<1>19. ASSUME NEW p \in Processes, Fire(p) PROVE Holding'
  BY <1>19 DEF Fire
<1>20. ASSUME NEW p \in Processes, Reply(p) PROVE Holding'
  BY <1>20 DEF Reply, Answered
<1>21. ASSUME NEW p \in Processes, NEW r \in Repos, MarkSyncing(p, r) PROVE Holding'
  BY <1>21 DEF MarkSyncing, Update, Shows, Becomes
<1>22. ASSUME NEW p \in Processes, NEW r \in Repos, FinishCycle(p, r) PROVE Holding'
  BY <1>22 DEF FinishCycle, Update, Shows, Becomes, AfterCycle
<1>23. ASSUME NEW p \in Processes, NEW r \in Repos, LoopFails(p, r) PROVE Holding'
  BY <1>23 DEF LoopFails, Fault, Disturbs, Update, Becomes
<1>24. ASSUME NEW p \in Processes, NEW r \in Repos, Retry(p, r) PROVE Holding'
  BY <1>24 DEF Retry, Becomes
<1>25. ASSUME NEW p \in Processes, NEW r \in Repos, StopLoop(p, r) PROVE Holding'
  BY <1>25 DEF StopLoop, Becomes
<1>26. ASSUME NEW targets \in Requests, RequestSync(targets) PROVE Holding'
  BY <1>26 DEF RequestSync, Answered
<1>27. CASE TimeOut
  BY <1>27 DEF TimeOut, Answered
<1>28. CASE EditConfig
  BY <1>28 DEF EditConfig, Disturbs
<1>29. CASE Reload
  BY <1>29, ProcessAssumption DEF Reload, Restarts, Ends, Processes
<1>30. ASSUME NEW p \in Processes, LoadFails(p) PROVE Holding'
  BY <1>30, ProcessAssumption DEF LoadFails, Goes
<1> QED
  BY <1>1, <1>2, <1>3, <1>4, <1>5, <1>6, <1>7, <1>8, <1>9, <1>10, <1>11,
  <1>12, <1>13, <1>14, <1>15, <1>16, <1>17, <1>18, <1>19, <1>20, <1>21, <1>22,
  <1>23, <1>24, <1>25, <1>26, <1>27, <1>28, <1>29, <1>30 DEF Next, ProcessStep,
  FaultStep, Startup, SaveStep, Shutdown, ControlStep, LoopStep

LEMMA FilesStep ==
    ASSUME TypeOK, Holding, Files, Next
    PROVE  Files'
<1> USE DEF TypeOK, Holding, Holders, Files, FileWhole, Unlocked
<1>1. ASSUME NEW p \in Processes, WriteTemporary(p) PROVE Files'
  BY <1>1 DEF WriteTemporary
<1>2. ASSUME NEW p \in Processes, Rename(p) PROVE Files'
  BY <1>2, FileAssumption DEF Rename
<1>3. ASSUME NEW p \in Processes, SaveFails(p) PROVE Files'
  BY <1>3 DEF SaveFails, Fault, Disturbs
<1>4. ASSUME NEW p \in Processes, Launch(p) PROVE Files'
  BY <1>4 DEF Launch, Goes
<1>5. ASSUME NEW p \in Processes, AcquireProcessLock(p) PROVE Files'
  BY <1>5 DEF AcquireProcessLock, Goes
<1>6. ASSUME NEW p \in Processes, LoadStatus(p) PROVE Files'
  BY <1>6 DEF LoadStatus, Goes
<1>7. ASSUME NEW p \in Processes, SetPid(p) PROVE Files'
  BY <1>7 DEF SetPid, Goes, Update
<1>8. ASSUME NEW p \in Processes, RemoveStaleSocket(p) PROVE Files'
  BY <1>8 DEF RemoveStaleSocket, Goes
<1>9. ASSUME NEW p \in Processes, BindAndRun(p) PROVE Files'
  BY <1>9 DEF BindAndRun, Goes
<1>10. ASSUME NEW p \in Processes, BindFails(p) PROVE Files'
  BY <1>10 DEF BindFails, Goes, Fault, Disturbs
<1>11. ASSUME NEW p \in Processes, Heartbeat(p) PROVE Files'
  BY <1>11 DEF Heartbeat, Update
<1>12. ASSUME NEW p \in Processes, Terminate(p) PROVE Files'
  BY <1>12 DEF Terminate, Goes, Disturbs
<1>13. ASSUME NEW p \in Processes, CloseListener(p) PROVE Files'
  BY <1>13 DEF CloseListener
<1>14. ASSUME NEW p \in Processes, Release(p) PROVE Files'
  BY <1>14 DEF Release, Goes, Quiet
<1>15. ASSUME NEW p \in Processes, Exit(p) PROVE Files'
  BY <1>15 DEF Exit, Ends
<1>16. ASSUME NEW p \in Processes, Crash(p) PROVE Files'
  BY <1>16 DEF Crash, Ends
<1>17. ASSUME NEW p \in Processes, AcceptFails(p) PROVE Files'
  BY <1>17 DEF AcceptFails, Fault, Disturbs
<1>18. ASSUME NEW p \in Processes, Accept(p) PROVE Files'
  BY <1>18 DEF Accept, Answered, Dispatched
<1>19. ASSUME NEW p \in Processes, Fire(p) PROVE Files'
  BY <1>19 DEF Fire
<1>20. ASSUME NEW p \in Processes, Reply(p) PROVE Files'
  BY <1>20 DEF Reply, Answered
<1>21. ASSUME NEW p \in Processes, NEW r \in Repos, MarkSyncing(p, r) PROVE Files'
  BY <1>21 DEF MarkSyncing, Update, Shows, Becomes
<1>22. ASSUME NEW p \in Processes, NEW r \in Repos, FinishCycle(p, r) PROVE Files'
  BY <1>22 DEF FinishCycle, Update, Shows, Becomes, AfterCycle
<1>23. ASSUME NEW p \in Processes, NEW r \in Repos, LoopFails(p, r) PROVE Files'
  BY <1>23 DEF LoopFails, Fault, Disturbs, Update, Becomes
<1>24. ASSUME NEW p \in Processes, NEW r \in Repos, Retry(p, r) PROVE Files'
  BY <1>24 DEF Retry, Becomes
<1>25. ASSUME NEW p \in Processes, NEW r \in Repos, StopLoop(p, r) PROVE Files'
  BY <1>25 DEF StopLoop, Becomes
<1>26. ASSUME NEW targets \in Requests, RequestSync(targets) PROVE Files'
  BY <1>26 DEF RequestSync, Answered
<1>27. CASE TimeOut
  BY <1>27 DEF TimeOut, Answered
<1>28. CASE EditConfig
  BY <1>28 DEF EditConfig, Disturbs
<1>29. CASE Reload
  BY <1>29 DEF Reload, Restarts, Ends, Processes
<1>30. ASSUME NEW p \in Processes, LoadFails(p) PROVE Files'
  BY <1>30 DEF LoadFails, Goes, Fault, Disturbs
<1> QED
  BY <1>1, <1>2, <1>3, <1>4, <1>5, <1>6, <1>7, <1>8, <1>9, <1>10, <1>11,
  <1>12, <1>13, <1>14, <1>15, <1>16, <1>17, <1>18, <1>19, <1>20, <1>21, <1>22,
  <1>23, <1>24, <1>25, <1>26, <1>27, <1>28, <1>29, <1>30 DEF Next, ProcessStep,
  FaultStep, Startup, SaveStep, Shutdown, ControlStep, LoopStep

LEMMA Invariance == Spec => []Inv
<1>1. Init => Inv
  BY StatusTypes, Answers, ConfigAssumption, FileAssumption, FaultAssumption, ProcessAssumption
     DEF Init, Inv, TypeOK, Holding, Files, FileWhole, Holders, Unlocked, Clients
<1>2. Inv /\ [Next]_vars => Inv'
  <2>1. ASSUME Inv, Next PROVE Inv'
    BY <2>1, TypeStep, HoldingStep, FilesStep DEF Inv
  <2>2. ASSUME Inv, UNCHANGED vars PROVE Inv'
    BY <2>2 DEF vars, Inv, TypeOK, Holding, Files, FileWhole, Unlocked
  <2> QED
    BY <2>1, <2>2
<1> QED
  BY <1>1, <1>2, PTL DEF Spec

(* Every variable keeps its type.                                          *)
THEOREM TypeCorrect == Spec => []TypeOK
<1>1. Inv => TypeOK
  BY DEF Inv
<1> QED
  BY <1>1, Invariance, PTL

(* Only the process that holds the lock drives loops and saves.            *)
THEOREM DaemonIsOne == Spec => []OneDaemon
<1>1. Inv => OneDaemon
  BY DEF Inv, Holding, Holders, OneDaemon, Working
<1> QED
  BY <1>1, Invariance, PTL

(* The status file is whole at every moment, crashes included.             *)
THEOREM FileStaysWhole == Spec => []FileWhole
<1>1. Inv => FileWhole
  BY DEF Inv, Files
<1> QED
  BY <1>1, Invariance, PTL

(* The status file shows what the running daemon knows.                    *)
THEOREM FileStaysCurrent == Spec => []FileCurrent
<1>1. Inv => FileCurrent
  BY DEF Inv, Files, Holders, FileCurrent
<1> QED
  BY <1>1, Invariance, PTL

(* Nobody but a process that gave up accepting takes a running daemon's    *)
(* socket away.                                                            *)
THEOREM SocketIsKept == Spec => SocketStays
<1> DEFINE Kept(p) == stage[p] = "running" /\ path = p /\ path' # p =>
                         \E q \in Processes \ {p} : serving[q] = "gaveUp"
<1>1. Inv /\ [Next]_vars => [\A p \in Processes : Kept(p)]_vars
  <2> SUFFICES ASSUME Inv, Next, NEW p \in Processes,
                      stage[p] = "running", path = p, path' # p
               PROVE  \E q \in Processes \ {p} : serving[q] = "gaveUp"
    OBVIOUS
  <2>1. PICK q \in Processes : RemoveStaleSocket(q) \/ BindAndRun(q) \/ CloseListener(q)
    BY DEF Next, ProcessStep, FaultStep, Startup, SaveStep, Shutdown, ControlStep, LoopStep,
           WriteTemporary, Rename, SaveFails, Launch, AcquireProcessLock, LoadStatus, SetPid,
           LoadFails, BindFails, Heartbeat, Terminate, Release, Exit, Crash, Ends, AcceptFails, Accept,
           Fire, Reply, MarkSyncing, FinishCycle, LoopFails, Retry, StopLoop, RequestSync,
           TimeOut, EditConfig, Reload, Restarts
  <2>2. lock = p /\ (q # p => stage[q] \notin Holders)
    BY DEF Inv, Holding, Holders
  <2>3. stage[q] # "stamped" /\ stage[q] # "cleared" /\ stage[q] # "stopping"
    BY <2>2 DEF Holders
  <2>4. CloseListener(q)
    BY <2>1, <2>3 DEF RemoveStaleSocket, BindAndRun, Goes
  <2>5. q # p /\ serving[q] = "gaveUp"
    BY <2>3, <2>4 DEF CloseListener, Inv, Holding
  <2> QED
    BY <2>5
<1>2. Inv /\ [Next]_vars => [\A p \in Processes : stage[p] = "running" /\ path = p /\ path' # p =>
                                \E q \in Processes \ {p} : serving[q] = "gaveUp"]_vars
  BY <1>1
<1> QED
  BY <1>2, Invariance, PTL DEF Spec, SocketStays

(* Before and after a refusal nobody has been asked anything.              *)
Unasked == client.at \in {"connected", "refused"} => client.fired = {}

LEMMA RequestStep ==
    ASSUME TypeOK, Unasked, Next
    PROVE  /\ Unasked'
           /\ client.at # "triggered" /\ client'.at = "triggered" =>
                 client.fired = client.targets
           /\ client'.at = "refused" =>
                 client'.fired = {} /\ (client.at = "refused" \/ client.fired = {})
<1> USE DEF TypeOK, Unasked
<1>1. CASE \E p \in Processes : Accept(p) \/ Fire(p) \/ Reply(p)
  <2>1. PICK p \in Processes : Accept(p) \/ Fire(p) \/ Reply(p)
    BY <1>1
  <2>2. CASE Accept(p)
    <3>1. client' = Dispatched(p) \/ client' = Answered("refused")
      BY <2>2 DEF Accept
    <3>2. client.at = "connected"
      BY <2>2 DEF Accept
    <3>3. CASE client' = Dispatched(p)
      BY <3>2, <3>3 DEF Dispatched
    <3>4. CASE client' = Answered("refused")
      BY <3>2, <3>4 DEF Answered
    <3> QED
      BY <3>1, <3>3, <3>4
  <2>3. CASE Fire(p)
    BY <2>3 DEF Fire
  <2>4. CASE Reply(p)
    BY <2>4 DEF Reply, Answered
  <2> QED
    BY <2>1, <2>2, <2>3, <2>4
<1>2. CASE TimeOut \/ \E targets \in Requests : RequestSync(targets)
  BY <1>2 DEF TimeOut, RequestSync, Answered
<1>3. CASE Reload \/ \E p \in Processes : Exit(p) \/ Crash(p)
  BY <1>3 DEF Reload, Restarts, Exit, Crash, Ends, Answered
<1>4. CASE UNCHANGED client
  BY <1>4
<1> QED
  BY <1>1, <1>2, <1>3, <1>4 DEF Next, ProcessStep, FaultStep, Startup, SaveStep,
  Shutdown, ControlStep, LoopStep, WriteTemporary, Rename, SaveFails, Launch,
  AcquireProcessLock, LoadStatus, LoadFails, SetPid, RemoveStaleSocket, BindAndRun, BindFails,
  Heartbeat, Terminate, CloseListener, Release, AcceptFails, MarkSyncing, FinishCycle,
  LoopFails, Retry, StopLoop, EditConfig

(* A request is carried out whole, or it is refused and nothing is asked.  *)
THEOREM RequestsAreWhole == Spec => RequestsWhole
<1> DEFINE Whole == /\ client.at # "triggered" /\ client'.at = "triggered" =>
                          client.fired = client.targets
                    /\ client'.at = "refused" =>
                          client'.fired = {} /\ (client.at = "refused" \/ client.fired = {})
<1>1. Init => Unasked
  BY DEF Init, Unasked, Answered
<1>2. TypeOK /\ Unasked /\ [Next]_vars => Unasked'
  BY RequestStep DEF Unasked, vars
<1>3. TypeOK /\ Unasked /\ [Next]_vars => [Whole]_vars
  BY RequestStep
<1> QED
  BY <1>1, <1>2, <1>3, TypeCorrect, PTL DEF Spec, RequestsWhole

-----------------------------------------------------------------------------
(* The refinement of StatusDisplay.  The mutex and the lock make every     *)
(* Save show what its process knows, and a process that has not recalled   *)
(* the file yet knows what is on display.                                  *)
Hidden == UNCHANGED <<lock, Known, file>>

LEMMA SavesAreShown ==
    ASSUME Inv, NEW p \in Processes, Rename(p)
    PROVE  lock = p /\ file' = Known /\ Known' = Known /\ lock' = lock
<1>1. lock = p /\ stage[p] # "locked" /\ tmp = memory[p]
  BY DEF Rename, Inv, Holding, Files, Unlocked, Holders
<1> QED
  BY <1>1, ProcessAssumption DEF Rename, Known

(* An update of what the author knows, with nothing else that is mapped.   *)
LEMMA UpdatesAreLearnt ==
    ASSUME Inv, NEW p \in Processes, NEW status,
           stage[p] \in Holders \ {"locked"}, stage'[p] # "locked", lock' = lock,
           Update(p, status)
    PROVE  lock = p /\ Known = memory[p] /\ Known' = status /\ file' = file
<1>1. lock = p /\ lock # None
  BY ProcessAssumption DEF Inv, Holding
<1> QED
  BY <1>1 DEF Update, Known, Inv, TypeOK, Holders

LEMMA LearnStep ==
    ASSUME Inv, NEW p \in Processes,
           SetPid(p) \/ \E r \in Repos : MarkSyncing(p, r) \/ FinishCycle(p, r)
    PROVE  Display!Learn
<1> USE ProcessAssumption DEF Holders
<1>1. CASE SetPid(p)
  <2>1. /\ stage[p] = "recalled" /\ stage'[p] = "stamped" /\ lock' = lock
        /\ Update(p, [memory[p] EXCEPT !.pid = p])
    BY <1>1 DEF SetPid, Goes, Inv, TypeOK
  <2>2. lock = p /\ Known' = [Known EXCEPT !.pid = p] /\ file' = file
    BY <2>1, UpdatesAreLearnt
  <2> QED
    BY <2>1, <2>2 DEF Display!Learn, Known
<1>2. ASSUME NEW r \in Repos, MarkSyncing(p, r) \/ FinishCycle(p, r) PROVE Display!Learn
  <2>1. stage[p] \in {"running", "stopping"} /\ stage' = stage /\ lock' = lock
    BY <1>2 DEF MarkSyncing, FinishCycle, Inv, Holding
  <2>2. PICK phase \in {"idle", "syncing"} : Update(p, [memory[p] EXCEPT !.phase[r] = phase])
    BY <1>2 DEF MarkSyncing, FinishCycle, Shows
  <2>3. lock = p /\ Known' = [Known EXCEPT !.phase[r] = phase] /\ file' = file
    BY <2>1, <2>2, UpdatesAreLearnt
  <2> QED
    BY <2>1, <2>3 DEF Display!Learn, Known
<1> QED
  BY <1>1, <1>2

(* The author is gone when its lock is: it has released it, or it has died.*)
LEMMA LeaveStep ==
    ASSUME Inv, NEW p \in Processes,
           LoadFails(p) \/ BindFails(p) \/ Release(p) \/ Exit(p) \/ Crash(p)
             \/ (p = Agent /\ Reload /\ Ends(p))
    PROVE  [Display!Next]_(Display!vars)
<1> USE ProcessAssumption DEF Holders, Display!vars
<1>1. CASE LoadFails(p) \/ BindFails(p) \/ Release(p)
  <2>1. lock = p /\ lock' = None /\ file' = file
    BY <1>1 DEF LoadFails, BindFails, Release, Goes, Inv, Holding
  <2> QED
    BY <2>1 DEF Display!Next, Display!Leave, Known
<1>2. CASE Ends(p)
  <2>1. file' = file /\ lock' = IF lock = p THEN None ELSE lock
    BY <1>2 DEF Ends
  <2>2. CASE lock = p
    BY <2>1, <2>2 DEF Display!Next, Display!Leave, Known
  <2>3. CASE lock # p
    BY <1>2, <2>1, <2>3 DEF Ends, Inv, TypeOK, Known
  <2> QED
    BY <2>2, <2>3
<1> QED
  BY <1>1, <1>2 DEF Exit, Crash

(* Everything else shows its readers nothing.                              *)
LEMMA HiddenStep ==
    ASSUME Inv, NEW p \in Processes,
           \/ WriteTemporary(p) \/ SaveFails(p) \/ Launch(p) \/ LoadStatus(p)
           \/ RemoveStaleSocket(p) \/ BindAndRun(p) \/ Heartbeat(p) \/ Terminate(p)
           \/ CloseListener(p) \/ AcceptFails(p) \/ ControlStep(p)
           \/ \E r \in Repos : LoopFails(p, r) \/ Retry(p, r) \/ StopLoop(p, r)
    PROVE  Hidden
<1> USE ProcessAssumption DEF Hidden, Holders, Inv, TypeOK
<1>1. CASE WriteTemporary(p) \/ SaveFails(p)
  BY <1>1 DEF WriteTemporary, SaveFails, Known
<1>2. CASE Launch(p) \/ LoadStatus(p) \/ RemoveStaleSocket(p) \/ BindAndRun(p) \/ Terminate(p)
  BY <1>2 DEF Launch, LoadStatus, RemoveStaleSocket, BindAndRun, Terminate, Goes, Holding, Known
<1>3. CASE Heartbeat(p)
  BY <1>3, UpdatesAreLearnt DEF Heartbeat
<1>4. CASE CloseListener(p) \/ AcceptFails(p) \/ ControlStep(p)
  BY <1>4 DEF CloseListener, AcceptFails, ControlStep, Accept, Fire, Reply, Known
<1>5. ASSUME NEW r \in Repos, LoopFails(p, r) PROVE Hidden
  <2>1. stage[p] \in {"running", "stopping"} /\ stage' = stage /\ lock' = lock
    BY <1>5 DEF LoopFails, Holding
  <2>2. Update(p, memory[p]) \/ UNCHANGED <<disk, recorder>>
    BY <1>5 DEF LoopFails
  <2>3. CASE Update(p, memory[p])
    BY <2>1, <2>3, UpdatesAreLearnt
  <2>4. CASE UNCHANGED <<disk, recorder>>
    BY <2>1, <2>4 DEF Known
  <2> QED
    BY <2>2, <2>3, <2>4
<1>6. ASSUME NEW r \in Repos, Retry(p, r) \/ StopLoop(p, r) PROVE Hidden
  BY <1>6 DEF Retry, StopLoop, Known
<1> QED
  BY <1>1, <1>2, <1>3, <1>4, <1>5, <1>6

LEMMA DisplayStep ==
    ASSUME Inv, [Next]_vars PROVE [Display!Next]_(Display!vars)
<1>a. Hidden => UNCHANGED Display!vars
  BY DEF Hidden, Known, Display!vars
<1>1. ASSUME NEW p \in Processes, AcquireProcessLock(p) PROVE [Display!Next]_(Display!vars)
  BY <1>1, ProcessAssumption DEF AcquireProcessLock, Goes, Inv, TypeOK, Holding, Known,
     Display!Next, Display!TakeUp, Display!vars
<1>2. ASSUME NEW p \in Processes, Rename(p) PROVE [Display!Next]_(Display!vars)
  BY <1>2, SavesAreShown, ProcessAssumption DEF Known, Display!Next, Display!Show
<1>3. ASSUME NEW p \in Processes,
             SetPid(p) \/ \E r \in Repos : MarkSyncing(p, r) \/ FinishCycle(p, r)
      PROVE  [Display!Next]_(Display!vars)
  BY <1>3, LearnStep DEF Display!Next
<1>4. CASE TimeOut \/ EditConfig \/ \E targets \in Requests : RequestSync(targets)
  BY <1>4, <1>a DEF TimeOut, EditConfig, RequestSync, Hidden, Known
<1>5. CASE Reload
  <2>1. CASE Ends(Agent)
    BY <1>5, <2>1, LeaveStep DEF Processes
  <2>2. CASE ~Ends(Agent)
    BY <1>5, <2>2, <1>a DEF Reload, Restarts, Hidden, Known, Inv, TypeOK, Processes
  <2> QED
    BY <2>1, <2>2
<1>6. CASE UNCHANGED vars
  BY <1>6, <1>a DEF vars, Hidden, Known
<1> QED
  BY <1>1, <1>2, <1>3, <1>4, <1>5, <1>6, <1>a, LeaveStep, HiddenStep DEF Next, ProcessStep,
     FaultStep, Startup, SaveStep, Shutdown, LoopStep

(* The readers of the status file see a display that one author at a time  *)
(* changes in one piece: Daemon implements StatusDisplay (Save, Run).      *)
THEOREM StatusIsDisplay == Spec => FileIsDisplay
<1>1. Init => Display!Init
  BY DEF Init, Display!Init, Known
<1> QED
  BY <1>1, DisplayStep, Invariance, PTL DEF Spec, FileIsDisplay, Display!Spec

-----------------------------------------------------------------------------
(* The refinement of RepositoryLoop, for each repository.  Loops run only  *)
(* under the process that holds the lock, so that what happens to one is   *)
(* seen, and what the others' memory holds is not.                         *)
Same(r) == LoopOf(r)' = LoopOf(r) /\ Known'.phase[r] = Known.phase[r]

Seen(r) == [Loop(r)!Next]_(Loop(r)!vars)

LEMMA SameIsSeen == ASSUME NEW r \in Repos, Same(r) PROVE Seen(r)
  BY DEF Same, Seen, Loop!vars

LEMMA KnownStatus == ASSUME Inv PROVE Known \in Statuses
  BY DEF Inv, TypeOK, Files, FileWhole, Known

LEMMA InCharge ==
    ASSUME Inv, NEW p \in Processes, stage[p] \in Holders
    PROVE  /\ lock = p /\ lock # None
           /\ \A r \in Repos : LoopOf(r) = IF loop[p][r] = "stopped" THEN "none" ELSE loop[p][r]
  BY ProcessAssumption DEF Inv, Holding, LoopOf

(* An author that leaves takes its loops with it.                          *)
LEMMA LeavingIsSeen ==
    ASSUME Inv, Inv', lock' = None, NEW r \in Repos PROVE Seen(r)
<1>1. LoopOf(r)' = "none"
  BY DEF LoopOf
<1>2. Known'.phase[r] \in {"idle", "syncing"}
  BY KnownStatus DEF Inv, TypeOK, Files, FileWhole, Known, Statuses
<1> QED
  BY <1>1, <1>2 DEF Seen, Loop!Next, Loop!Die

(* A loop's own step, its repository's or another's.                       *)
LEMMA LoopIsSeen ==
    ASSUME Inv, NEW p \in Processes, NEW q \in Repos, NEW r \in Repos,
           MarkSyncing(p, q) \/ FinishCycle(p, q) \/ LoopFails(p, q) \/ Retry(p, q)
             \/ StopLoop(p, q)
    PROVE  Seen(r)
<1> USE DEF Holders
<1>1. /\ stage[p] \in {"running", "stopping"} /\ stage' = stage
      /\ lock = p /\ lock # None /\ lock' = lock
  BY InCharge DEF MarkSyncing, FinishCycle, LoopFails, Retry, StopLoop, Inv, Holding
<1>2. /\ Known = memory[p] /\ Known' = memory'[p]
      /\ LoopOf(r) = IF loop[p][r] = "stopped" THEN "none" ELSE loop[p][r]
      /\ LoopOf(r)' = IF loop'[p][r] = "stopped" THEN "none" ELSE loop'[p][r]
  BY <1>1 DEF Known, LoopOf
<1> USE DEF Seen, Loop!vars, Loop!Next, Inv, TypeOK, Becomes
<1>3. memory[p] \in Statuses
  OBVIOUS
<1>4. CASE MarkSyncing(p, q)
  <2>1. memory'[p] = [memory[p] EXCEPT !.phase[q] = "syncing"]
    BY <1>4 DEF MarkSyncing, Shows, Update
  <2> QED
    BY <1>2, <1>3, <1>4, <2>1 DEF MarkSyncing, Statuses, Loop!BeginWriting
<1>5. CASE FinishCycle(p, q)
  <2>1. memory'[p] = [memory[p] EXCEPT !.phase[q] = "idle"]
    BY <1>5 DEF FinishCycle, Shows, Update
  <2> QED
    BY <1>2, <1>3, <1>5, <2>1 DEF FinishCycle, AfterCycle, Statuses, Loop!Finish
<1>6. CASE LoopFails(p, q)
  <2>1. memory'[p] = memory[p]
    BY <1>6 DEF LoopFails, Update
  <2> QED
    BY <1>2, <1>6, <2>1 DEF LoopFails, Loop!Fail
<1>7. CASE Retry(p, q)
  BY <1>2, <1>7 DEF Retry, Loop!Retry
<1>8. CASE StopLoop(p, q)
  BY <1>2, <1>8 DEF StopLoop, Loop!Stop
<1> QED
  BY <1>4, <1>5, <1>6, <1>7, <1>8

LEMMA LoopsStep ==
    ASSUME Inv, Inv', [Next]_vars, NEW r \in Repos PROVE Seen(r)
<1>1. ASSUME NEW p \in Processes, LoadFails(p) \/ BindFails(p) \/ Release(p) PROVE Seen(r)
  BY <1>1, LeavingIsSeen DEF LoadFails, BindFails, Release
<1>2. ASSUME NEW p \in Processes, Ends(p) PROVE Seen(r)
  <2>1. CASE lock = p
    BY <1>2, <2>1, LeavingIsSeen DEF Ends
  <2>2. CASE lock # p
    BY <1>2, <2>2, SameIsSeen DEF Ends, Same, Known, LoopOf, Inv, TypeOK
  <2> QED
    BY <2>1, <2>2
<1>3. CASE Reload
  <2>1. CASE Ends(Agent)
    BY <1>2, <2>1 DEF Processes
  <2>2. CASE ~Ends(Agent)
    <3>1. UNCHANGED <<lock, loop, memory, file>> /\ Agent \in Processes
      BY <1>3, <2>2 DEF Reload, Restarts, Processes
    <3>2. \A p \in Processes : stage'[p] = "locked" <=> stage[p] = "locked"
      BY <1>3, <2>2 DEF Reload, Restarts, Inv, TypeOK
    <3>3. Known' = Known /\ LoopOf(r)' = LoopOf(r)
      BY <3>1, <3>2 DEF Known, LoopOf, Inv, TypeOK
    <3> QED
      BY <3>3, SameIsSeen DEF Same
  <2> QED
    BY <2>1, <2>2
<1>4. ASSUME NEW p \in Processes, BindAndRun(p) PROVE Seen(r)
  <2>1. /\ lock = p /\ lock' = lock /\ lock # None /\ stage[p] = "cleared"
        /\ stage'[p] = "running" /\ UNCHANGED <<memory, file>>
        /\ loop'[p][r] \in {"none", "idle"}
    BY <1>4, InCharge DEF BindAndRun, Goes, Holders, Inv, TypeOK
  <2>2. loop[p][r] \in {"none", "stopped"}
    <3>1. loop[p][r] \in {"none", "idle", "writing", "backoff", "stopped"}
      BY DEF Inv, TypeOK
    <3>2. loop[p][r] \notin {"idle", "writing", "backoff"}
      BY <2>1 DEF Inv, Holding
    <3> QED
      BY <3>1, <3>2
  <2> QED
    BY <2>1, <2>2 DEF Known, LoopOf, Seen, Loop!vars, Loop!Next, Loop!Start
<1>5. ASSUME NEW p \in Processes, SetPid(p) PROVE Seen(r)
  <2>1. /\ lock = p /\ lock' = lock /\ lock # None /\ stage[p] = "recalled"
        /\ stage'[p] = "stamped" /\ loop' = loop
        /\ memory'[p] = [memory[p] EXCEPT !.pid = p]
    BY <1>5, InCharge DEF SetPid, Goes, Update, Holders, Inv, TypeOK
  <2>2. memory'[p].phase = memory[p].phase
    BY <2>1 DEF Inv, TypeOK, Statuses
  <2> QED
    BY <2>1, <2>2, SameIsSeen DEF Same, Known, LoopOf
<1>6. ASSUME NEW p \in Processes, AcquireProcessLock(p) PROVE Seen(r)
  <2>1. CASE lock = None
    <3>1. /\ lock' = p /\ stage'[p] = "locked" /\ loop' = loop /\ file' = file
          /\ loop[p][r] \in {"none", "stopped"}
      BY <1>6, <2>1 DEF AcquireProcessLock, Goes, Inv, TypeOK, Holding
    <3>2. p # None
      BY ProcessAssumption
    <3>3. Known = file /\ Known' = file
      BY <2>1, <3>1, <3>2 DEF Known
    <3>4. LoopOf(r) = "none" /\ LoopOf(r)' = "none"
      BY <2>1, <3>1, <3>2 DEF LoopOf
    <3> QED
      BY <3>3, <3>4, SameIsSeen DEF Same
  <2>2. CASE lock # None
    <3>1. UNCHANGED <<lock, loop, memory, file>> /\ stage' = [stage EXCEPT ![p] = "off"]
      BY <1>6, <2>2 DEF AcquireProcessLock, Goes
    <3>2. stage[p] = "loaded" /\ lock # p
      BY <1>6 DEF AcquireProcessLock, Goes, Inv, Holding, Holders
    <3>3. Known' = Known /\ LoopOf(r)' = LoopOf(r)
      BY <3>1, <3>2 DEF Known, LoopOf, Inv, TypeOK
    <3> QED
      BY <3>3, SameIsSeen DEF Same
  <2> QED
    BY <2>1, <2>2
<1>7. ASSUME NEW p \in Processes, Rename(p) PROVE Seen(r)
  BY <1>7, SavesAreShown, SameIsSeen DEF Rename, Same, LoopOf
<1>8. ASSUME NEW p \in Processes,
             \/ WriteTemporary(p) \/ SaveFails(p) \/ Launch(p) \/ LoadStatus(p)
             \/ RemoveStaleSocket(p) \/ Heartbeat(p) \/ Terminate(p)
             \/ CloseListener(p) \/ AcceptFails(p) \/ ControlStep(p)
      PROVE  Seen(r)
  <2>1. lock' = lock /\ Known' = Known
    BY <1>8, HiddenStep DEF Hidden
  <2>2. loop' = loop
    BY <1>8 DEF WriteTemporary, SaveFails, Launch, LoadStatus, RemoveStaleSocket, Heartbeat,
       Terminate, CloseListener, AcceptFails, ControlStep, Accept, Fire, Reply
  <2> QED
    BY <2>1, <2>2, SameIsSeen DEF Same, LoopOf
<1>9. CASE TimeOut \/ EditConfig \/ \E targets \in Requests : RequestSync(targets)
  BY <1>9, SameIsSeen DEF TimeOut, EditConfig, RequestSync, Same, Known, LoopOf
<1>10. CASE UNCHANGED vars
  BY <1>10, SameIsSeen DEF vars, Same, Known, LoopOf
<1> QED
  BY <1>1, <1>2, <1>3, <1>4, <1>5, <1>6, <1>7, <1>8, <1>9, <1>10, LoopIsSeen
     DEF Next, ProcessStep, FaultStep, Startup, SaveStep, Shutdown, Exit, Crash, LoopStep

(* The daemon in charge runs, for every repository, the loop SyncCycle     *)
(* implements: what Daemon leaves out of a cycle is not seen from outside. *)
THEOREM DaemonRunsLoops == Spec => AreRepositoryLoops
<1>1. Init => \A r \in Repos : Loop(r)!Init
  BY DEF Init, Loop!Init, LoopOf, Known, FirstStatus
<1>2. Inv /\ Inv' /\ [Next]_vars => [\A r \in Repos : [Loop(r)!Next]_(Loop(r)!vars)]_vars
  BY LoopsStep DEF Seen
<1> QED
  BY <1>1, <1>2, Invariance, PTL DEF Spec, AreRepositoryLoops

(* The daemon in charge never has a loop on record as idle that is in its  *)
(* writing phases, in any repository, whatever else fails (markSyncing,    *)
(* superviseRepo); when the record reaches its readers is FileCurrent's.   *)
THEOREM WritersAreKnown == Spec => [](\A r \in Repos : Loop(r)!WritingShows)
<1>1. Init => \A r \in Repos : Loop(r)!WritingShows
  BY DEF Init, Loop!WritingShows, LoopOf
<1>2. ASSUME NEW r \in Repos, Loop(r)!WritingShows, Seen(r) PROVE Loop(r)!WritingShows'
  BY <1>2 DEF Seen, Loop!WritingShows, Loop!vars, Loop!Next, Loop!Start, Loop!BeginWriting,
     Loop!Finish, Loop!Fail, Loop!Retry, Loop!Stop, Loop!Die
<1>3. /\ Inv /\ Inv' /\ [Next]_vars /\ (\A r \in Repos : Loop(r)!WritingShows)
      => (\A r \in Repos : Loop(r)!WritingShows)'
  BY <1>2, LoopsStep
<1> QED
  BY <1>1, <1>3, Invariance, PTL DEF Spec
=============================================================================
