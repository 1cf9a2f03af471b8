------------------------------ MODULE WatchLoop ------------------------------
(***************************************************************************)
(* When a repository's cycles run: runRepoLoop's select over the file      *)
(* watcher, the settle and max-wait timers of the debounce, the fetch      *)
(* ticker and the mailbox (repoTrigger) in which `gitloop sync` and the    *)
(* environment watcher leave their requests.  Time is discrete; the loop   *)
(* itself takes none, its cycles any.  What a cycle does is SyncCycle.     *)
(***************************************************************************)
EXTENDS Integers

CONSTANTS
    People,         \* control connections asking for a cycle
    Surroundings,   \* sources of wake and network events
    Settle,         \* the debounce window
    MaxWait,        \* and its limit
    CommittedSync,  \* a workflow whose work is commits, which the watcher misses
    Failures,       \* "events" lost by the watcher, a "cycle", the "loop"
    MaxFailures     \* bound on loop failures

ASSUME TimerAssumption == Settle \in Nat \ {0} /\ MaxWait \in Nat \ {0}
ASSUME CallerAssumption == People \intersect Surroundings = {}
ASSUME WatchAssumption ==
    CommittedSync \in BOOLEAN /\ Failures \subseteq {"events", "cycle", "loop"} /\ MaxFailures \in Nat

Callers == People \union Surroundings

VARIABLES
    pc,        \* where the loop is
    unread,    \* does the watcher hold an event?
    settle,    \* time left on the settle timer
    maxWait,   \* time left on the max-wait timer
    tick,      \* has the fetch ticker fired?
    pending,   \* the request in the mailbox
    signal,    \* is there a signal in its channel?
    caller,    \* callers halfway through fire
    unseen,    \* changes no cycle has looked at, "heard" of or "missed"
    lately,    \* who has acted since time last advanced
    failures,  \* loop failures so far
    owed,      \* history variable: callers with no cycle since their request
    quiet,     \* history variable: time since the last event the loop read
    age        \* history variable: time since the first no cycle has followed

timers == <<settle, maxWait, tick>>
mailbox == <<pending, signal, caller>>
history == <<owed, quiet, age>>
vars == <<pc, unread, timers, mailbox, unseen, lately, failures, history>>

Off == -1
Alive == {"select", "take", "cycle", "looked"}

ControlOK ==
    /\ pc \in Alive \union {"starting", "backoff"}
    /\ unread \in BOOLEAN /\ tick \in BOOLEAN /\ signal \in BOOLEAN
    /\ pending \in {"none", "manual", "environment"}
    /\ caller \in [Callers -> {"quiet", "firing"}]
    /\ unseen \subseteq {"heard", "missed"}
    /\ lately \subseteq Callers \union {"editor", "ticker"}
    /\ owed \subseteq Callers

ClockOK ==
    /\ settle \in Off .. Settle /\ maxWait \in Off .. MaxWait
    /\ failures \in 0 .. MaxFailures
    /\ quiet \in 0 .. Settle /\ age \in Off .. MaxWait

TypeOK == ControlOK /\ ClockOK

Init ==
    /\ pc = "starting"
    /\ unread = FALSE /\ settle = Off /\ maxWait = Off /\ tick = FALSE
    /\ pending = "none" /\ signal = FALSE /\ caller = [c \in Callers |-> "quiet"]
    /\ unseen \in {{}, {"missed"}}
    /\ lately = {} /\ failures = 0
    /\ owed = {} /\ quiet = 0 /\ age = Off

-----------------------------------------------------------------------------
(* The loop.  Any cycle answers every request made before it.              *)

BeginCycle ==
    /\ pc' = "cycle"
    /\ owed' = {} /\ age' = Off
    /\ UNCHANGED quiet

Disarm == settle' = Off /\ maxWait' = Off

StartLoop ==
    /\ pc = "starting"
    /\ IF CommittedSync THEN BeginCycle ELSE pc' = "select" /\ UNCHANGED history
    /\ UNCHANGED <<unread, timers, mailbox, unseen, lately, failures>>

SettleUnlessArmed == IF settle = Off THEN Settle ELSE settle  \* mutant: never reset
RestartedSettle == Settle

RestartedMaxWait == MaxWait  \* mutant: every event postpones it
ArmedMaxWait == IF maxWait = Off THEN MaxWait ELSE maxWait

(* An event restarts the settle timer and starts the max-wait timer.       *)
ReadEvent ==
    /\ pc = "select" /\ unread
    /\ unread' = FALSE
    /\ settle' = RestartedSettle /\ maxWait' = ArmedMaxWait
    /\ quiet' = 0 /\ age' = IF age = Off THEN 0 ELSE age
    /\ UNCHANGED <<pc, tick, mailbox, unseen, lately, failures, owed>>

OnSettle ==
    /\ pc = "select" /\ settle = 0
    /\ Disarm /\ BeginCycle
    /\ UNCHANGED <<unread, tick, mailbox, unseen, lately, failures>>

OnMaxWait ==
    /\ pc = "select" /\ maxWait = 0
    /\ Disarm /\ BeginCycle
    /\ UNCHANGED <<unread, tick, mailbox, unseen, lately, failures>>

OnTickToFetch ==  \* mutant: a tick is for repositories nobody watches
    /\ pc = "select" /\ tick
    /\ tick' = FALSE
    /\ IF CommittedSync THEN BeginCycle ELSE UNCHANGED <<pc, history>>
    /\ UNCHANGED <<unread, settle, maxWait, mailbox, unseen, lately, failures>>

OnTick ==
    /\ pc = "select" /\ tick
    /\ tick' = FALSE /\ BeginCycle
    /\ UNCHANGED <<unread, settle, maxWait, mailbox, unseen, lately, failures>>

ReceiveSignal ==
    /\ pc = "select" /\ signal
    /\ signal' = FALSE /\ pc' = "take"
    /\ UNCHANGED <<unread, timers, pending, caller, unseen, lately, failures, history>>

DefersAlways == pending = "environment"  \* mutant: no debounce need be running
Defers == pending = "environment" /\ settle # Off

(* take, and what the loop makes of the request: an earlier pass may have  *)
(* taken it, and an environment event defers to a debounce in progress.    *)
TakeRequest ==
    /\ pc = "take"
    /\ pending' = "none"
    /\ IF pending = "none" \/ Defers THEN pc' = "select" /\ UNCHANGED history ELSE BeginCycle
    /\ UNCHANGED <<unread, timers, signal, caller, unseen, lately, failures>>

(* The cycle stages every change there is...                               *)
Look ==
    /\ pc = "cycle"
    /\ unseen' = {}
    /\ pc' = "looked"
    /\ UNCHANGED <<unread, timers, mailbox, lately, failures, history>>

(* ...or ends before it does: nobody will look at the change again unless  *)
(* something else starts a cycle.                                          *)
CycleFails ==
    /\ pc = "cycle" /\ "cycle" \in Failures
    /\ unseen' = IF unseen = {} THEN {} ELSE {"missed"}
    /\ pc' = "select"
    /\ UNCHANGED <<unread, timers, mailbox, lately, failures, history>>

EndCycleDraining ==  \* mutant: the events of a cycle are taken for its own
    /\ pc = "looked"
    /\ pc' = "select"
    /\ unread' = FALSE
    /\ UNCHANGED <<timers, mailbox, unseen, lately, failures, history>>

EndCycle ==
    /\ pc = "looked"
    /\ pc' = "select"
    /\ UNCHANGED <<unread, timers, mailbox, unseen, lately, failures, history>>

(* A watcher failure or a panic: watcher, ticker and timers are gone, the  *)
(* mailbox is the daemon's and stays.                                      *)
LoopFails ==
    /\ pc \in {"starting", "select", "cycle", "looked"}
    /\ "loop" \in Failures /\ failures < MaxFailures
    /\ failures' = failures + 1
    /\ pc' = "backoff"
    /\ unread' = FALSE /\ Disarm /\ tick' = FALSE
    /\ unseen' = IF unseen = {} THEN {} ELSE {"missed"}
    /\ age' = Off
    /\ UNCHANGED <<mailbox, lately, owed, quiet>>

RetryLoop ==
    /\ pc = "backoff"
    /\ pc' = "starting"
    /\ UNCHANGED <<unread, timers, mailbox, unseen, lately, failures, history>>

-----------------------------------------------------------------------------
(* fire, in its two steps: the request under the mutex, then the signal.   *)

Reason(c) == IF c \in People THEN "manual" ELSE "environment"

FirstStands(c) == IF pending = "none" THEN Reason(c) ELSE pending  \* mutant: no upgrade
Merged(c) == IF pending = "none" \/ pending = "environment" THEN Reason(c) ELSE pending

Post(c) ==
    /\ caller[c] = "quiet" /\ c \notin lately
    /\ pending' = Merged(c)
    /\ caller' = [caller EXCEPT ![c] = "firing"]
    /\ owed' = owed \union {c}
    /\ lately' = lately \union {c}
    /\ UNCHANGED <<pc, unread, timers, signal, unseen, failures, quiet, age>>

Signal(c) ==
    /\ caller[c] = "firing"
    /\ signal' = TRUE
    /\ caller' = [caller EXCEPT ![c] = "quiet"]
    /\ UNCHANGED <<pc, unread, timers, pending, unseen, lately, failures, history>>

-----------------------------------------------------------------------------
(* Changes, the ticker and time.                                           *)

(* The watcher sees working-tree edits, and they drive the timers in every *)
(* workflow; what a committed-sync cycle has to look at are commits, which *)
(* it does not see.                                                        *)
Heard == IF CommittedSync THEN {} ELSE {"heard"}

Change ==
    /\ "editor" \notin lately
    /\ lately' = lately \union {"editor"}
    /\ \/ /\ pc \in Alive
          /\ unread' = TRUE /\ unseen' = unseen \union Heard
       \/ /\ pc \notin Alive \/ CommittedSync \/ "events" \in Failures
          /\ unseen' = unseen \union {"missed"} /\ UNCHANGED unread
    /\ UNCHANGED <<pc, timers, mailbox, failures, history>>

TickerRuns == pc \in Alive

TickerFires ==
    /\ TickerRuns /\ "ticker" \notin lately
    /\ tick' = TRUE
    /\ lately' = lately \union {"ticker"}
    /\ UNCHANGED <<pc, unread, settle, maxWait, mailbox, unseen, failures, history>>

Ready == unread \/ settle = 0 \/ maxWait = 0 \/ tick \/ signal

Busy == pc \in {"starting", "take"} \/ (pc = "select" /\ Ready) \/ \E c \in Callers : caller[c] = "firing"

Less(timer) == IF timer > 0 THEN timer - 1 ELSE timer

Elapse ==
    /\ ~Busy
    /\ settle' = Less(settle) /\ maxWait' = Less(maxWait)
    /\ quiet' = IF quiet < Settle THEN quiet + 1 ELSE quiet
    /\ age' = IF age \in 0 .. MaxWait - 1 THEN age + 1 ELSE age
    /\ lately' = {}
    /\ UNCHANGED <<pc, unread, tick, mailbox, unseen, failures, owed>>

-----------------------------------------------------------------------------
LoopStep ==
    \/ StartLoop \/ ReadEvent \/ OnSettle \/ OnMaxWait \/ OnTick
    \/ ReceiveSignal \/ TakeRequest
    \/ Look \/ CycleFails \/ EndCycle

Next ==
    \/ LoopStep \/ LoopFails \/ RetryLoop
    \/ \E c \in Callers : Post(c) \/ Signal(c)
    \/ Change \/ TickerFires \/ Elapse

Spec == Init /\ [][Next]_vars

(* Goroutines run, cycles end and now and then look, backoffs expire and   *)
(* time passes; the editor, the callers and the ticker do as they please,  *)
(* once per unit of time.                                                  *)
LiveSpec ==
    /\ Spec
    /\ WF_vars(LoopStep) /\ WF_vars(RetryLoop) /\ WF_vars(Elapse) /\ SF_vars(Look)
    /\ \A c \in Callers : WF_vars(Signal(c))

-----------------------------------------------------------------------------
(* Properties.                                                             *)

Signalled == signal \/ pc = "take" \/ \E c \in Callers : caller[c] = "firing"

(* A person's request is in the mailbox, as a person's request and with a  *)
(* signal on its way, until a cycle begins: neither the race of fire with  *)
(* take, nor an environment event before it, nor a debounce, nor a failing *)
(* loop loses or postpones it (repoTrigger).                               *)
RequestKept == owed \intersect People # {} => pending = "manual" /\ Signalled

(* ... and it waits for nothing but a cycle that is running or a backoff:  *)
(* until its own cycle begins no time passes otherwise, so that neither    *)
(* the settle window nor the ticker comes first (runRepoLoop's select).    *)
RequestPrompt ==
    owed \intersect People # {} /\ pc \notin {"cycle", "looked", "backoff"} => Busy

(* An environment event not yet followed by a cycle is in the mailbox, or  *)
(* was deferred to a settle window that is still open; only a loop that    *)
(* fails forgets it (runRepoLoop's deferral).                              *)
EnvironmentKept ==
    failures = 0 /\ owed # {} => (pending # "none" /\ Signalled) \/ settle # Off

(* A change the watcher has heard of is never forgotten: its event waits,  *)
(* or the debounce runs, or a cycle is about to look at it.                *)
ChangeNoticed == "heard" \in unseen => unread \/ settle # Off \/ pc = "cycle"

(* The settle timer goes off only when no event has been read for the      *)
(* whole window.                                                           *)
SettleMeansQuiet == settle = 0 => quiet >= Settle

(* A loop with nothing to do has read no event of max_wait ago or earlier  *)
(* that no cycle has followed, however often new events restart the settle *)
(* timer.  A change counts no longer once a cycle has begun, failed or not *)
(* (ChangesSeen is about those).                                           *)
BoundedWait == pc = "select" /\ ~Ready => age < MaxWait

(* Every request is answered by a cycle, also without the fetch ticker:    *)
(* a person's always, an environment event's unless a loop failed, which   *)
(* may have been the one it was deferred in.                               *)
RequestsAnswered ==
    \A c \in Callers :
        c \in owed ~> c \notin owed \/ (c \in Surroundings /\ failures > 0)

(* As long as the fetch ticker ticks, every change is looked at in the     *)
(* end, though events are lost and loops and cycles fail.                  *)
ChangesSeen == <>[][~TickerFires]_vars \/ (unseen # {} ~> unseen = {})
=============================================================================
