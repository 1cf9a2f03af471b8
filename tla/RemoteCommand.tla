---------------------------- MODULE RemoteCommand ----------------------------
(***************************************************************************)
(* One fetch or push (runRemote): the git process, what it starts in its   *)
(* process group (a transport, and one whose output goes elsewhere), a     *)
(* helper that left the group and keeps the output pipe, and the           *)
(* goroutines around them: the caller in Cmd.Wait, the watcher of the      *)
(* context that os/exec runs, and the delayed killer of the group.         *)
(* os/exec is modelled as far as runRemote configures it.  Timers count    *)
(* down; the goroutines themselves take no time.                           *)
(***************************************************************************)
EXTENDS Integers

CONSTANTS
    Grace,    \* from TERM to the KILL of the group
    PipeWait  \* from there to giving up on the output pipe

ASSUME DelayAssumption == Grace \in Nat \ {0} /\ PipeWait \in Nat \ {0}

VARIABLES
    context,    \* of the command: "live", or "done" (timeout or shutdown)
    alive,      \* the living processes
    doomed,     \* those that a KILL has reached and that are still dying
    exit,       \* how git ended
    reaped,     \* has the caller waited for git?
    termed,     \* has git received TERM?
    caller,     \* where Cmd.Run and runRemote are
    watcher,    \* where os/exec's watcher of the context is
    told,       \* the error the watcher has for the caller
    error,      \* the error of the command so far
    named,      \* does that error name the context's?
    cancelled,  \* cancellationStarted
    killer,     \* time left to killProcessGroupAfter
    delay,      \* time left on the timer of WaitDelay
    piped,      \* does the caller still read the pipe?
    age, rest   \* history variables: time since Cancel, since git's end

processes == <<alive, doomed, exit, termed>>
outcome == <<told, error, named>>
timers == <<killer, delay>>
history == <<age, rest>>
vars == <<context, processes, reaped, caller, watcher, outcome, cancelled, timers,
          piped, history>>

Off == -1
WaitDelay == Grace + PipeWait
Group == {"git", "transport", "quiet"}  \* Setpgid; the helper has left it
Holders == alive \intersect {"git", "transport", "helper"}  \* of the output pipe

TypeOK ==
    /\ context \in {"live", "done"}
    /\ alive \subseteq Group \union {"helper"} /\ doomed \subseteq alive \intersect Group
    /\ exit \in {"none", "success", "failure", "terminated", "killed"}
    /\ reaped \in BOOLEAN /\ termed \in BOOLEAN
    /\ caller \in {"starting", "waiting", "collecting", "draining", "cleaning", "returned"}
    /\ watcher \in {"off", "waiting", "timing", "handing", "gone"}
    /\ told \in {"none", "context", "refused"}
    /\ error \in {"none", "start", "exit", "context", "refused", "pipes"}
    /\ named \in BOOLEAN /\ cancelled \in BOOLEAN /\ piped \in BOOLEAN
    /\ killer \in Off .. Grace /\ delay \in Off .. WaitDelay
    /\ age \in Int /\ age >= Off /\ rest \in Int /\ rest >= Off

Init ==
    /\ context = "live" /\ alive = {} /\ doomed = {} /\ exit = "none"
    /\ reaped = FALSE /\ termed = FALSE
    /\ caller = "starting" /\ watcher = "off"
    /\ told = "none" /\ error = "none" /\ named = FALSE
    /\ cancelled = FALSE /\ killer = Off /\ delay = Off /\ piped = TRUE
    /\ age = Off /\ rest = Off

-----------------------------------------------------------------------------
(* The world: the context ends, processes start others and end.            *)

ContextEnds ==
    /\ context = "live"
    /\ context' = "done"
    /\ UNCHANGED <<processes, reaped, caller, watcher, outcome, cancelled, timers, piped, history>>

StartProcess(p) ==
    /\ (alive \ doomed) \intersect {"git", "transport"} # {}
    /\ p \notin alive /\ p # "git"
    /\ alive' = alive \union {p}
    /\ UNCHANGED <<context, doomed, exit, termed, reaped, caller, watcher, outcome, cancelled, timers,
                   piped, history>>

(* Git's own exit; after TERM it may also die of it, or ignore it.  A KILL  *)
(* leaves no choice but the moment: a process the kernel is busy for dies  *)
(* when the kernel is done.                                                *)
GitEnds(how) ==
    /\ "git" \in alive
    /\ IF "git" \in doomed
       THEN how = "killed"
       ELSE how \in {"success", "failure"} \/ (how = "terminated" /\ termed)
    /\ alive' = alive \ {"git"} /\ doomed' = doomed \ {"git"}
    /\ exit' = how /\ rest' = 0
    /\ UNCHANGED <<context, termed, reaped, caller, watcher, outcome, cancelled, timers,
                   piped, age>>

OtherEnds(p) ==
    /\ p \in alive \ {"git"}
    /\ alive' = alive \ {p} /\ doomed' = doomed \ {p}
    /\ UNCHANGED <<context, exit, termed, reaped, caller, watcher, outcome, cancelled, timers,
                   piped, history>>

(* What a KILL sent to these processes does at once.                       *)
Kill(targets) ==
    /\ doomed' = doomed \union (alive \intersect targets)
    /\ UNCHANGED <<alive, exit, termed>>

-----------------------------------------------------------------------------
(* The watcher of the context and the killer.                              *)

(* cmd.Cancel: TERM to the group.  When all of it has been waited for      *)
(* there is nothing to signal (ESRCH); when only git is left, ended but    *)
(* not waited for, the signal is delivered to nobody or refused (EPERM).   *)
(* The timer of WaitDelay starts in every case.                            *)
Interrupted == told' = "context" /\ killer' = Grace
Interrupt ==
    \/ alive \intersect Group # {} /\ Interrupted
    \/ alive \intersect Group = {} /\ ~reaped /\ Interrupted
    \/ alive \intersect Group = {} /\ ~reaped /\ told' = "refused" /\ UNCHANGED killer
    \/ alive \intersect Group = {} /\ reaped /\ UNCHANGED <<told, killer>>

CancelAtOnce ==  \* mutant: KILL without the grace period
    /\ watcher = "waiting" /\ context = "done"
    /\ watcher' = "timing" /\ cancelled' = TRUE
    /\ termed' = ("git" \in alive)
    /\ told' = "context" /\ killer' = 0
    /\ delay' = WaitDelay /\ age' = 0
    /\ UNCHANGED <<context, alive, doomed, exit, reaped, caller, error, named, piped, rest>>
CancelUndelayed ==  \* mutant: WaitDelay is not armed
    /\ watcher = "waiting" /\ context = "done"
    /\ watcher' = "timing" /\ cancelled' = TRUE
    /\ termed' = ("git" \in alive)
    /\ Interrupt
    /\ delay' = Off /\ age' = 0
    /\ UNCHANGED <<context, alive, doomed, exit, reaped, caller, error, named, piped, rest>>
Cancel ==
    /\ watcher = "waiting" /\ context = "done"
    /\ watcher' = "timing" /\ cancelled' = TRUE
    /\ termed' = ("git" \in alive)
    /\ Interrupt
    /\ delay' = WaitDelay /\ age' = 0
    /\ UNCHANGED <<context, alive, doomed, exit, reaped, caller, error, named, piped, rest>>

(* killProcessGroupAfter; a finished command disarms it.                   *)
KillGroup ==
    /\ killer = 0
    /\ killer' = Off
    /\ Kill(Group)
    /\ UNCHANGED <<context, reaped, caller, watcher, outcome, cancelled, delay, piped, history>>

Disarm ==
    /\ caller = "returned" /\ killer # Off
    /\ killer' = Off
    /\ UNCHANGED <<context, processes, reaped, caller, watcher, outcome, cancelled, delay,
                   piped, history>>

(* WaitDelay is over before git is: git is killed, the pipe given up.      *)
GiveUp ==
    /\ watcher = "timing" /\ delay = 0
    /\ watcher' = "handing" /\ delay' = Off
    /\ Kill({"git"})
    /\ piped' = (Holders = {})
    /\ UNCHANGED <<context, reaped, caller, outcome, cancelled, killer, history>>

-----------------------------------------------------------------------------
(* The caller: Cmd.Run, then the rest of runRemote.                        *)

Start ==
    /\ caller = "starting"
    /\ IF context = "done"
       THEN /\ error' = "context" /\ caller' = "cleaning"
            /\ UNCHANGED <<alive, watcher>>
       ELSE \/ /\ alive' = {"git"} /\ caller' = "waiting" /\ watcher' = "waiting"
               /\ UNCHANGED error
            \/ /\ error' = "start" /\ caller' = "cleaning"
               /\ UNCHANGED <<alive, watcher>>
    /\ UNCHANGED <<context, doomed, exit, termed, reaped, told, named, cancelled, timers, piped,
                   history>>

Reap ==
    /\ caller = "waiting" /\ exit # "none"
    /\ caller' = "collecting" /\ reaped' = TRUE
    /\ error' = IF exit = "success" THEN "none" ELSE "exit"
    /\ UNCHANGED <<context, processes, watcher, told, named, cancelled, timers, piped, history>>

(* The watcher hands over its error and its timer, if it has them; git's   *)
(* own failure wins.                                                       *)
Collect ==
    /\ caller = "collecting"
    /\ caller' = "draining" /\ watcher' = "gone"
    /\ error' = IF error = "none" THEN told ELSE error
    /\ UNCHANGED <<context, processes, reaped, told, named, cancelled, timers, piped, history>>

DrainForever ==  \* mutant: no WaitDelay for a command that was not cancelled
    /\ caller = "draining"
    /\ ~piped \/ Holders = {}
    /\ caller' = "cleaning" /\ delay' = Off
    /\ UNCHANGED <<error, piped>>
    /\ UNCHANGED <<context, processes, reaped, watcher, told, named, cancelled, killer, history>>
Drain ==
    /\ caller = "draining"
    /\ \/ /\ ~piped \/ Holders = {}
          /\ caller' = "cleaning" /\ delay' = Off
          /\ UNCHANGED <<error, piped>>
       \/ /\ piped /\ Holders # {} /\ delay = Off
          /\ delay' = WaitDelay
          /\ UNCHANGED <<caller, error, piped>>
       \/ /\ delay = 0
          /\ caller' = "cleaning" /\ delay' = Off
          /\ piped' = FALSE
          /\ error' = IF error = "none" THEN "pipes" ELSE error
    /\ UNCHANGED <<context, processes, reaped, watcher, told, named, cancelled, killer, history>>

(* A successful exit outweighs a given-up pipe and a cancellation.         *)
Unforgiving == error  \* mutant: the error of Cmd.Run is returned as it is
Verdict ==
    IF exit = "success" /\ (error = "pipes" \/ cancelled) THEN "none" ELSE error

FinishUnnamed ==  \* mutant: the context's error is not added
    /\ caller = "cleaning"
    /\ caller' = "returned"
    /\ error' = Verdict
    /\ named' = (error' = "context")
    /\ IF cancelled THEN Kill(Group) ELSE UNCHANGED processes
    /\ UNCHANGED <<context, reaped, watcher, told, cancelled, timers, piped, history>>
FinishWithSurvivors ==  \* mutant: the group is not killed once more
    /\ caller = "cleaning"
    /\ caller' = "returned"
    /\ error' = Verdict
    /\ named' = (error' = "context" \/ (cancelled /\ error' # "none"))
    /\ UNCHANGED processes
    /\ UNCHANGED <<context, reaped, watcher, told, cancelled, timers, piped, history>>
Finish ==
    /\ caller = "cleaning"
    /\ caller' = "returned"
    /\ error' = Verdict
    /\ named' = (error' = "context" \/ (cancelled /\ context = "done" /\ error' # "none"))
    /\ IF cancelled THEN Kill(Group) ELSE UNCHANGED processes
    /\ UNCHANGED <<context, reaped, watcher, told, cancelled, timers, piped, history>>

-----------------------------------------------------------------------------
(* A step of a goroutine is due.                                           *)
Busy ==
    \/ caller \in {"starting", "collecting", "cleaning"}
    \/ caller = "waiting" /\ exit # "none"
    \/ caller = "draining" /\ (~piped \/ Holders = {} \/ delay \in {Off, 0})
    \/ watcher = "waiting" /\ context = "done"
    \/ watcher = "timing" /\ delay = 0
    \/ killer = 0

Tick(timer) == IF timer = Off THEN Off ELSE timer - 1
Grow(clock) == IF clock \in 0 .. WaitDelay THEN clock + 1 ELSE clock

Elapse ==
    /\ ~Busy /\ caller # "returned"
    /\ killer' = Tick(killer) /\ delay' = Tick(delay)
    /\ age' = Grow(age) /\ rest' = Grow(rest)
    /\ UNCHANGED <<context, processes, reaped, caller, watcher, outcome, cancelled, piped>>

GoStep ==
    \/ Start \/ Reap \/ Collect \/ Drain \/ Finish
    \/ Cancel \/ KillGroup \/ Disarm \/ GiveUp

WorldStep ==
    \/ ContextEnds
    \/ \E p \in {"transport", "quiet", "helper"} : StartProcess(p) \/ OtherEnds(p)
    \/ \E how \in {"success", "failure", "terminated", "killed"} : GitEnds(how)

Next == GoStep \/ WorldStep \/ Elapse

Spec == Init /\ [][Next]_vars

(* The goroutines run, time passes, and the context has a deadline.  No    *)
(* process is assumed ever to end by itself; a killed one does, some day.  *)
KilledEnds == GitEnds("killed") \/ \E p \in doomed : OtherEnds(p)

LiveSpec == Spec /\ WF_vars(GoStep) /\ WF_vars(Elapse) /\ WF_vars(ContextEnds)
                 /\ WF_vars(KilledEnds)

-----------------------------------------------------------------------------
(* Properties.                                                             *)

(* Git's exit decides, whatever cancellation, timers and a helper that     *)
(* keeps the pipe do meanwhile: a success is never reported as a failure   *)
(* and never the other way round (the comment in runRemote).               *)
GitDecides == caller = "returned" => (error = "none" <=> exit = "success")

(* A cancelled command leaves no transport behind that is not dying, not   *)
(* even one that ignores TERM and outlives git.                            *)
NoSurvivors == caller = "returned" /\ cancelled => alive \intersect Group \subseteq doomed

(* When a signal ended git, the error names the timeout or the shutdown    *)
(* that caused it; when git succeeded, it never does.                      *)
CauseNamed == caller = "returned" =>
    /\ exit \in {"terminated", "killed"} => named
    /\ exit = "success" => ~named

(* Neither a cancelled nor an ended git holds the repository's loop for    *)
(* longer than the grace period and the wait for the pipe, unless git is   *)
(* slow to die of its KILL; then the command returns with it.              *)
ReturnBounded == caller # "returned" =>
    /\ rest <= WaitDelay
    /\ age <= WaitDelay \/ "git" \in doomed \/ rest = 0

(* Git has the whole grace period to end in good order before it is killed. *)
GraceGiven == [][exit # "killed" /\ exit' = "killed" => age >= Grace]_vars

(* A hung remote does not hang the loop: the command returns.              *)
Returns == <>(caller = "returned")
=============================================================================
