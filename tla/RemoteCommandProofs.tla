------------------------- MODULE RemoteCommandProofs -------------------------
(***************************************************************************)
(* The promises of a remote command, proved for every grace period and     *)
(* every wait for the pipe.  Liveness (Returns) is left to TLC.            *)
(***************************************************************************)
EXTENDS RemoteCommand, TLAPS

LEMMA Delays ==
    /\ Grace \in Int /\ WaitDelay \in Int
    /\ Grace >= 1 /\ WaitDelay >= Grace + 1
BY DelayAssumption DEF WaitDelay

USE Delays DEF Off, Group, Holders, processes, outcome, timers, history

(* What each place in the caller knows of git.                             *)
Phases ==
    /\ "git" \in alive => caller = "waiting" /\ exit = "none"
    /\ caller = "starting" => alive = {} /\ exit = "none" /\ error = "none"
    /\ caller = "waiting" => (exit = "none" => "git" \in alive)
    /\ caller \in {"collecting", "draining"} => exit # "none"
    /\ exit = "none" /\ caller \in {"cleaning", "returned"} =>
          error \in {"start", "context"} /\ ~cancelled /\ alive = {}
    /\ caller \in {"waiting", "collecting", "draining"} => error # "start"
    /\ caller = "collecting" => (exit = "success" => error = "none")
    /\ caller \in {"collecting", "draining", "cleaning"} /\ exit \notin {"none", "success"} =>
          error # "none"
    /\ caller \in {"draining", "cleaning"} /\ exit = "success" =>
          error \in {"none", "pipes"} \/ cancelled
    /\ caller = "starting" => watcher = "off"
    /\ caller \in {"waiting", "collecting"} => watcher \in {"waiting", "timing", "handing"}
    /\ caller \in {"cleaning", "returned"} => watcher \in {"off", "gone"}
    /\ caller = "draining" => watcher = "gone"

(* Only Cancel has git signalled, and only when the context is done.       *)
Causes ==
    /\ cancelled => context = "done"
    /\ watcher \in {"off", "waiting"} => ~cancelled
    /\ watcher \in {"timing", "handing"} => cancelled
    /\ killer # Off \/ doomed # {} \/ termed \/ exit \in {"terminated", "killed"} => cancelled
    /\ told = "none" \/ cancelled

(* The timers and the clocks: how much of its time each has used.          *)
Clocks ==
    /\ ~cancelled => age = Off
    /\ exit = "none" => rest = Off
    /\ caller \in {"waiting", "collecting"} /\ exit # "none" => rest = 0
    /\ killer # Off => age + killer = Grace
    /\ watcher = "timing" => delay # Off /\ age + delay = WaitDelay
    /\ watcher \in {"off", "waiting", "handing"} => delay = Off
    /\ watcher = "handing" => exit # "none" \/ "git" \in doomed
    /\ watcher = "handing" => ~piped \/ Holders = {}
    /\ "git" \in doomed => age >= Grace
    /\ caller = "draining" /\ delay = Off =>
          rest = 0 /\ (age = Off \/ ~piped \/ Holders = {})
    /\ caller = "draining" /\ delay # Off => rest + delay <= WaitDelay
    /\ caller = "draining" /\ delay # Off /\ age # Off => age + delay <= WaitDelay
    /\ caller = "cleaning" => rest <= WaitDelay /\ (age <= WaitDelay \/ rest = 0)

Verdicts == caller = "returned" =>
    /\ error = "none" <=> exit = "success"
    /\ cancelled => alive \intersect Group \subseteq doomed
    /\ exit \in {"terminated", "killed"} => named
    /\ exit = "success" => ~named

Inv == TypeOK /\ Phases /\ Causes /\ Clocks /\ Verdicts

-----------------------------------------------------------------------------
LEMMA InvInit == Init => Inv
<1> SUFFICES ASSUME Init PROVE Inv
  OBVIOUS
<1>1. TypeOK
  <2>1. /\ killer \in Off .. Grace /\ delay \in Off .. WaitDelay
        /\ age \in Int /\ age >= Off /\ rest \in Int /\ rest >= Off
    BY DEF Init
  <2>2. /\ reaped \in BOOLEAN /\ termed \in BOOLEAN /\ named \in BOOLEAN
        /\ cancelled \in BOOLEAN /\ piped \in BOOLEAN
    BY DEF Init
  <2> QED
    BY <2>1, <2>2 DEF Init, TypeOK
<1>2. Phases /\ Causes /\ Verdicts
  BY DEF Init, Phases, Causes, Verdicts
<1>3. Clocks
  BY DEF Init, Clocks
<1> QED
  BY <1>1, <1>2, <1>3 DEF Inv

LEMMA WorldKeepsInv == ASSUME Inv, WorldStep PROVE Inv'
<1> USE DEF Inv
<1>1. CASE ContextEnds
  BY <1>1 DEF ContextEnds, TypeOK, Phases, Causes, Clocks, Verdicts
<1>2. ASSUME NEW p \in {"transport", "quiet", "helper"}, StartProcess(p) PROVE Inv'
  BY <1>2 DEF StartProcess, TypeOK, Phases, Causes, Clocks, Verdicts
<1>3. ASSUME NEW p \in {"transport", "quiet", "helper"}, OtherEnds(p) PROVE Inv'
  BY <1>3 DEF OtherEnds, TypeOK, Phases, Causes, Clocks, Verdicts
<1>4. ASSUME NEW how \in {"success", "failure", "terminated", "killed"}, GitEnds(how) PROVE Inv'
  BY <1>4 DEF GitEnds, TypeOK, Phases, Causes, Clocks, Verdicts
<1> QED
  BY <1>1, <1>2, <1>3, <1>4 DEF WorldStep

LEMMA WatcherKeepsInv ==
    ASSUME Inv, Cancel \/ KillGroup \/ Disarm \/ GiveUp PROVE Inv'
<1> USE DEF Inv
<1>1. CASE Cancel
  BY <1>1 DEF Cancel, Interrupt, Interrupted, TypeOK, Phases, Causes, Clocks, Verdicts
<1>2. CASE KillGroup
  BY <1>2 DEF KillGroup, Kill, TypeOK, Phases, Causes, Clocks, Verdicts
<1>3. CASE Disarm
  BY <1>3 DEF Disarm, TypeOK, Phases, Causes, Clocks, Verdicts
<1>4. CASE GiveUp
  <2>1. TypeOK'
    BY <1>4 DEF GiveUp, Kill, TypeOK, Phases, Causes, Clocks, Verdicts
  <2>2. Phases'
    BY <1>4 DEF GiveUp, Kill, TypeOK, Phases, Causes, Clocks, Verdicts
  <2>3. Causes'
    BY <1>4 DEF GiveUp, Kill, TypeOK, Phases, Causes, Clocks, Verdicts
  <2>4. Clocks'
    <3>1. /\ caller \in {"waiting", "collecting"} /\ caller' = caller
          /\ cancelled /\ cancelled' /\ watcher' = "handing"
          /\ delay' = Off /\ age' = age /\ rest' = rest /\ killer' = killer
          /\ exit' = exit /\ age = WaitDelay
      BY <1>4 DEF GiveUp, Kill, TypeOK, Phases, Causes, Clocks
    <3>2. /\ exit' # "none" \/ "git" \in doomed'
          /\ age >= Grace
      BY <1>4, <3>1 DEF GiveUp, Kill, TypeOK, Phases
    <3>3. ~piped' \/ Holders' = {}
      BY <1>4 DEF GiveUp, Kill
    <3> QED
      BY <3>1, <3>2, <3>3 DEF Clocks
  <2>5. Verdicts'
    BY <1>4 DEF GiveUp, Kill, TypeOK, Phases, Causes, Clocks, Verdicts
  <2> QED
    BY <2>1, <2>2, <2>3, <2>4, <2>5
<1> QED
  BY <1>1, <1>2, <1>3, <1>4

LEMMA CallerKeepsInv ==
    ASSUME Inv, Start \/ Reap \/ Collect \/ Drain \/ Finish PROVE Inv'
<1> USE DEF Inv
<1>1. CASE Start
  <2>1. TypeOK'
    BY <1>1 DEF Start, TypeOK, Phases, Causes, Clocks, Verdicts
  <2>2. Phases'
    BY <1>1 DEF Start, TypeOK, Phases, Causes, Clocks, Verdicts
  <2>3. Causes'
    BY <1>1 DEF Start, TypeOK, Phases, Causes, Clocks, Verdicts
  <2>4. Clocks'
    BY <1>1 DEF Start, TypeOK, Phases, Causes, Clocks, Verdicts
  <2>5. Verdicts'
    BY <1>1 DEF Start, TypeOK, Phases, Causes, Clocks, Verdicts
  <2> QED
    BY <2>1, <2>2, <2>3, <2>4, <2>5
<1>2. CASE Reap
  BY <1>2 DEF Reap, TypeOK, Phases, Causes, Clocks, Verdicts
<1>3. CASE Collect
  <2>1. TypeOK'
    BY <1>3 DEF Collect, TypeOK, Phases, Causes, Clocks, Verdicts
  <2>2. Phases'
    BY <1>3 DEF Collect, TypeOK, Phases, Causes, Clocks, Verdicts
  <2>3. Causes'
    BY <1>3 DEF Collect, TypeOK, Phases, Causes, Clocks, Verdicts
  <2>4. Clocks'
    BY <1>3 DEF Collect, TypeOK, Phases, Causes, Clocks, Verdicts
  <2>5. Verdicts'
    BY <1>3 DEF Collect, TypeOK, Phases, Causes, Clocks, Verdicts
  <2> QED
    BY <2>1, <2>2, <2>3, <2>4, <2>5
<1>4. CASE Drain
  <2>1. TypeOK'
    <3>1. delay' \in Off .. WaitDelay
      BY <1>4 DEF Drain
    <3>2. /\ caller' \in {"draining", "cleaning"} /\ piped' \in BOOLEAN
          /\ error' \in {error, "pipes"}
      BY <1>4 DEF Drain, TypeOK
    <3> QED
      BY <1>4, <3>1, <3>2 DEF Drain, TypeOK
  <2>2. Phases'
    BY <1>4 DEF Drain, TypeOK, Phases, Causes, Clocks, Verdicts
  <2>3. Causes'
    BY <1>4 DEF Drain, TypeOK, Phases, Causes, Clocks, Verdicts
  <2>4. Clocks'
    BY <1>4 DEF Drain, TypeOK, Phases, Causes, Clocks, Verdicts
  <2>5. Verdicts'
    BY <1>4 DEF Drain, TypeOK, Phases, Causes, Clocks, Verdicts
  <2> QED
    BY <2>1, <2>2, <2>3, <2>4, <2>5
<1>5. CASE Finish
  <2>1. TypeOK'
    BY <1>5 DEF Finish, Verdict, Kill, TypeOK, Phases, Causes, Clocks, Verdicts
  <2>2. Phases'
    BY <1>5 DEF Finish, Verdict, Kill, TypeOK, Phases, Causes, Clocks, Verdicts
  <2>3. Causes'
    BY <1>5 DEF Finish, Verdict, Kill, TypeOK, Phases, Causes, Clocks, Verdicts
  <2>4. Clocks'
    BY <1>5 DEF Finish, Verdict, Kill, TypeOK, Phases, Causes, Clocks, Verdicts
  <2>5. Verdicts'
    BY <1>5 DEF Finish, Verdict, Kill, TypeOK, Phases, Causes, Clocks, Verdicts
  <2> QED
    BY <2>1, <2>2, <2>3, <2>4, <2>5
<1> QED
  BY <1>1, <1>2, <1>3, <1>4, <1>5

LEMMA ElapseKeepsInv == ASSUME Inv, Elapse PROVE Inv'
BY DEF Inv, Elapse, Busy, Tick, Grow, TypeOK, Phases, Causes, Clocks, Verdicts

LEMMA InvStep == ASSUME Inv, [Next]_vars PROVE Inv'
<1>1. CASE UNCHANGED vars
  BY <1>1 DEF vars, Inv, TypeOK, Phases, Causes, Clocks, Verdicts
<1> QED
  BY <1>1, WorldKeepsInv, WatcherKeepsInv, CallerKeepsInv, ElapseKeepsInv DEF Next, GoStep

LEMMA InvAlways == Spec => []Inv
BY InvInit, InvStep, PTL DEF Spec

-----------------------------------------------------------------------------
(* Every variable keeps its type, the timers their ranges.                 *)
THEOREM TypeCorrect == Spec => []TypeOK
<1>1. Inv => TypeOK
  BY DEF Inv
<1> QED
  BY <1>1, InvAlways, PTL

(* The result of a command is the exit of git.                             *)
THEOREM GitAlwaysDecides == Spec => []GitDecides
<1>1. Inv => GitDecides
  BY DEF Inv, Verdicts, GitDecides
<1> QED
  BY <1>1, InvAlways, PTL

(* A cancelled command leaves nothing of its group behind that is not dying. *)
THEOREM NothingSurvives == Spec => []NoSurvivors
<1>1. Inv => NoSurvivors
  BY DEF Inv, Verdicts, NoSurvivors
<1> QED
  BY <1>1, InvAlways, PTL

(* The error of a command a signal ended names the context's end.          *)
THEOREM CausesAreNamed == Spec => []CauseNamed
<1>1. Inv => CauseNamed
  BY DEF Inv, Verdicts, CauseNamed
<1> QED
  BY <1>1, InvAlways, PTL

(* The caller is back within WaitDelay of the cancellation and of git's end, *)
(* or with a git that is slow to die.                                        *)
THEOREM ReturnsInTime == Spec => []ReturnBounded
<1>1. Inv => ReturnBounded
  BY DEF Inv, TypeOK, Phases, Causes, Clocks, ReturnBounded
<1> QED
  BY <1>1, InvAlways, PTL

(* Nothing kills git within its grace period.                              *)
THEOREM GraceAlwaysGiven == Spec => GraceGiven
<1>1. Inv /\ [Next]_vars => [exit # "killed" /\ exit' = "killed" => age >= Grace]_vars
  <2> SUFFICES ASSUME Inv, Next, exit # "killed", exit' = "killed"
               PROVE  age >= Grace
    OBVIOUS
  <2>1. "git" \in doomed
    BY DEF Next, GoStep, WorldStep, Start, Reap, Collect, Drain, Finish, Kill, KillGroup,
           GiveUp, Cancel, Disarm, ContextEnds, StartProcess, OtherEnds, GitEnds, Elapse
  <2> QED
    BY <2>1 DEF Inv, Clocks
<1> QED
  BY <1>1, InvAlways, PTL DEF Spec, GraceGiven
=============================================================================
