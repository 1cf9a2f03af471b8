--------------------------- MODULE WatchLoopProofs ---------------------------
(***************************************************************************)
(* What the mailbox and the debounce promise, proved of WatchLoop for any  *)
(* number of callers, any timer lengths and any failures.                  *)
(***************************************************************************)
EXTENDS WatchLoop, TLAPS

USE TimerAssumption, CallerAssumption, WatchAssumption
    DEF Off, timers, mailbox, history, Callers

LEMMA InitTypes == Init => TypeOK
<1>1. Init => ControlOK
  BY DEF Init, ControlOK
<1>2. Init => ClockOK
  BY DEF Init, ClockOK
<1> QED
  BY <1>1, <1>2 DEF TypeOK

LEMMA ControlTypes == ASSUME ControlOK, [Next]_vars PROVE ControlOK'
<1> USE DEF ControlOK, Alive
<1>1. CASE StartLoop \/ TakeRequest
  BY <1>1 DEF StartLoop, TakeRequest, BeginCycle, Defers
<1>2. CASE ReadEvent
  BY <1>2 DEF ReadEvent, RestartedSettle, ArmedMaxWait
<1>3. CASE OnSettle \/ OnMaxWait \/ OnTick
  BY <1>3 DEF OnSettle, OnMaxWait, OnTick, Disarm, BeginCycle
<1>4. CASE ReceiveSignal
  BY <1>4 DEF ReceiveSignal
<1>5. CASE Look \/ CycleFails \/ EndCycle
  BY <1>5 DEF Look, CycleFails, EndCycle
<1>6. CASE LoopFails \/ RetryLoop
  BY <1>6 DEF LoopFails, RetryLoop, Disarm
<1>7. ASSUME NEW c \in Callers, Post(c) PROVE ControlOK'
  BY <1>7 DEF Post, Merged, Reason
<1>8. ASSUME NEW c \in Callers, Signal(c) PROVE ControlOK'
  BY <1>8 DEF Signal
<1>9. CASE Change \/ TickerFires
  BY <1>9 DEF Change, Heard, TickerFires, TickerRuns, Alive
<1>10. CASE Elapse
  BY <1>10 DEF Elapse, Less
<1>11. CASE UNCHANGED vars
  BY <1>11 DEF vars
<1> QED
  BY <1>1, <1>2, <1>3, <1>4, <1>5, <1>6, <1>7, <1>8, <1>9, <1>10, <1>11
     DEF Next, LoopStep

LEMMA ClockTypes == ASSUME ClockOK, [Next]_vars PROVE ClockOK'
<1> USE DEF ClockOK
<1>1. CASE StartLoop \/ TakeRequest
  BY <1>1 DEF StartLoop, TakeRequest, BeginCycle, Defers
<1>2. CASE ReadEvent
  BY <1>2 DEF ReadEvent, RestartedSettle, ArmedMaxWait
<1>3. CASE OnSettle \/ OnMaxWait \/ OnTick
  BY <1>3 DEF OnSettle, OnMaxWait, OnTick, Disarm, BeginCycle
<1>4. CASE ReceiveSignal
  BY <1>4 DEF ReceiveSignal
<1>5. CASE Look \/ CycleFails \/ EndCycle
  BY <1>5 DEF Look, CycleFails, EndCycle
<1>6. CASE LoopFails \/ RetryLoop
  BY <1>6 DEF LoopFails, RetryLoop, Disarm
<1>7. ASSUME NEW c \in Callers, Post(c) PROVE ClockOK'
  BY <1>7 DEF Post, Merged, Reason
<1>8. ASSUME NEW c \in Callers, Signal(c) PROVE ClockOK'
  BY <1>8 DEF Signal
<1>9. CASE Change \/ TickerFires
  BY <1>9 DEF Change, Heard, TickerFires, TickerRuns, Alive
<1>10. CASE Elapse
  BY <1>10 DEF Elapse, Less
<1>11. CASE UNCHANGED vars
  BY <1>11 DEF vars
<1> QED
  BY <1>1, <1>2, <1>3, <1>4, <1>5, <1>6, <1>7, <1>8, <1>9, <1>10, <1>11
     DEF Next, LoopStep

(* Every variable keeps its type, the timers their range included.         *)
THEOREM TypeCorrect == Spec => []TypeOK
<1>1. TypeOK /\ [Next]_vars => TypeOK'
  BY ControlTypes, ClockTypes DEF TypeOK
<1> QED
  BY InitTypes, <1>1, PTL DEF Spec


-----------------------------------------------------------------------------
(* A person's request stays in the mailbox, with a signal on its way, until *)
(* a cycle begins: fire and take may interleave in any way, any number of   *)
(* callers may compete and the loop may fail at any point.                  *)
THEOREM RequestsAreKept == Spec => []RequestKept
<1>1. Init => RequestKept
  BY DEF Init, TypeOK, ControlOK, RequestKept, Signalled
<1>2. TypeOK /\ RequestKept /\ [Next]_vars => RequestKept'
  <2> SUFFICES ASSUME TypeOK, RequestKept, [Next]_vars PROVE RequestKept'
    OBVIOUS
  <2> USE DEF TypeOK, ControlOK, RequestKept, Signalled
  <2>1. CASE StartLoop \/ TakeRequest
    BY <2>1 DEF StartLoop, TakeRequest, BeginCycle, Defers
  <2>2. CASE ReadEvent
    BY <2>2 DEF ReadEvent, RestartedSettle, ArmedMaxWait
  <2>3. CASE OnSettle \/ OnMaxWait \/ OnTick
    BY <2>3 DEF OnSettle, OnMaxWait, OnTick, Disarm, BeginCycle
  <2>4. CASE ReceiveSignal
    BY <2>4 DEF ReceiveSignal
  <2>5. CASE Look \/ CycleFails \/ EndCycle
    BY <2>5 DEF Look, CycleFails, EndCycle
  <2>6. CASE LoopFails \/ RetryLoop
    BY <2>6 DEF LoopFails, RetryLoop, Disarm
  <2>7. ASSUME NEW c \in Callers, Post(c) PROVE RequestKept'
    BY <2>7 DEF Post, Merged, Reason
  <2>8. ASSUME NEW c \in Callers, Signal(c) PROVE RequestKept'
    BY <2>8 DEF Signal
  <2>9. CASE Change \/ TickerFires
    BY <2>9 DEF Change, Heard, TickerFires, TickerRuns, Alive
  <2>10. CASE Elapse
    BY <2>10 DEF Elapse, Less
  <2>11. CASE UNCHANGED vars
    BY <2>11 DEF vars
  <2> QED
    BY <2>1, <2>2, <2>3, <2>4, <2>5, <2>6, <2>7, <2>8, <2>9, <2>10, <2>11
       DEF Next, LoopStep
<1> QED
  BY <1>1, <1>2, TypeCorrect, PTL DEF Spec

(* A person's request is delayed by nothing but a cycle that is running or *)
(* a backoff.                                                              *)
THEOREM RequestsDoNotWait == Spec => []RequestPrompt
<1>1. TypeOK /\ RequestKept => RequestPrompt
  BY DEF TypeOK, ControlOK, Alive, RequestKept, Signalled, RequestPrompt, Busy, Ready
<1> QED
  BY <1>1, RequestsAreKept, TypeCorrect, PTL

-----------------------------------------------------------------------------
(* An environment event is followed by a cycle, unless the loop fails: it  *)
(* is never dropped by its deferral, only handed over to an open window.   *)
THEOREM EnvironmentIsKept == Spec => []EnvironmentKept
<1>1. Init => EnvironmentKept
  BY DEF Init, TypeOK, ControlOK, ClockOK, EnvironmentKept, Signalled
<1>2. TypeOK /\ EnvironmentKept /\ [Next]_vars => EnvironmentKept'
  <2> SUFFICES ASSUME TypeOK, EnvironmentKept, [Next]_vars PROVE EnvironmentKept'
    OBVIOUS
  <2> USE DEF TypeOK, ControlOK, ClockOK, EnvironmentKept, Signalled
  <2>1. CASE StartLoop \/ TakeRequest
    BY <2>1 DEF StartLoop, TakeRequest, BeginCycle, Defers
  <2>2. CASE ReadEvent
    BY <2>2 DEF ReadEvent, RestartedSettle, ArmedMaxWait
  <2>3. CASE OnSettle \/ OnMaxWait \/ OnTick
    BY <2>3 DEF OnSettle, OnMaxWait, OnTick, Disarm, BeginCycle
  <2>4. CASE ReceiveSignal
    BY <2>4 DEF ReceiveSignal
  <2>5. CASE Look \/ CycleFails \/ EndCycle
    BY <2>5 DEF Look, CycleFails, EndCycle
  <2>6. CASE LoopFails \/ RetryLoop
    BY <2>6 DEF LoopFails, RetryLoop, Disarm
  <2>7. ASSUME NEW c \in Callers, Post(c) PROVE EnvironmentKept'
    BY <2>7 DEF Post, Merged, Reason
  <2>8. ASSUME NEW c \in Callers, Signal(c) PROVE EnvironmentKept'
    BY <2>8 DEF Signal
  <2>9. CASE Change \/ TickerFires
    BY <2>9 DEF Change, Heard, TickerFires, TickerRuns, Alive
  <2>10. CASE Elapse
    BY <2>10 DEF Elapse, Less
  <2>11. CASE UNCHANGED vars
    BY <2>11 DEF vars
  <2> QED
    BY <2>1, <2>2, <2>3, <2>4, <2>5, <2>6, <2>7, <2>8, <2>9, <2>10, <2>11
       DEF Next, LoopStep
<1> QED
  BY <1>1, <1>2, TypeCorrect, PTL DEF Spec

-----------------------------------------------------------------------------
(* A change the watcher has heard of always has an event to read, a        *)
(* debounce running or a cycle about to look.                              *)
THEOREM ChangesAreNoticed == Spec => []ChangeNoticed
<1>1. Init => ChangeNoticed
  BY DEF Init, TypeOK, ControlOK, ChangeNoticed
<1>2. TypeOK /\ ChangeNoticed /\ [Next]_vars => ChangeNoticed'
  <2> SUFFICES ASSUME TypeOK, ChangeNoticed, [Next]_vars PROVE ChangeNoticed'
    OBVIOUS
  <2> USE DEF TypeOK, ControlOK, ChangeNoticed
  <2>1. CASE StartLoop \/ TakeRequest
    BY <2>1 DEF StartLoop, TakeRequest, BeginCycle, Defers
  <2>2. CASE ReadEvent
    BY <2>2 DEF ReadEvent, RestartedSettle, ArmedMaxWait
  <2>3. CASE OnSettle \/ OnMaxWait \/ OnTick
    BY <2>3 DEF OnSettle, OnMaxWait, OnTick, Disarm, BeginCycle
  <2>4. CASE ReceiveSignal
    BY <2>4 DEF ReceiveSignal
  <2>5. CASE Look \/ CycleFails \/ EndCycle
    BY <2>5 DEF Look, CycleFails, EndCycle
  <2>6. CASE LoopFails \/ RetryLoop
    BY <2>6 DEF LoopFails, RetryLoop, Disarm
  <2>7. ASSUME NEW c \in Callers, Post(c) PROVE ChangeNoticed'
    BY <2>7 DEF Post, Merged, Reason
  <2>8. ASSUME NEW c \in Callers, Signal(c) PROVE ChangeNoticed'
    BY <2>8 DEF Signal
  <2>9. CASE Change \/ TickerFires
    BY <2>9 DEF Change, Heard, TickerFires, TickerRuns, Alive
  <2>10. CASE Elapse
    BY <2>10 DEF Elapse, Less
  <2>11. CASE UNCHANGED vars
    BY <2>11 DEF vars
  <2> QED
    BY <2>1, <2>2, <2>3, <2>4, <2>5, <2>6, <2>7, <2>8, <2>9, <2>10, <2>11
       DEF Next, LoopStep
<1> QED
  BY <1>1, <1>2, TypeCorrect, PTL DEF Spec

-----------------------------------------------------------------------------
(* What has run off the settle timer has passed since the last event.      *)
QuietInv == settle # Off => quiet + settle >= Settle

(* The settle timer goes off only after a whole window without an event.   *)
THEOREM SettlingIsQuiet == Spec => []SettleMeansQuiet
<1>1. Init => QuietInv
  BY DEF Init, TypeOK, ClockOK, QuietInv
<1>2. TypeOK /\ QuietInv /\ [Next]_vars => QuietInv'
  <2> SUFFICES ASSUME TypeOK, QuietInv, [Next]_vars PROVE QuietInv'
    OBVIOUS
  <2> USE DEF TypeOK, ClockOK, QuietInv
  <2>1. CASE StartLoop \/ TakeRequest
    BY <2>1 DEF StartLoop, TakeRequest, BeginCycle, Defers
  <2>2. CASE ReadEvent
    BY <2>2 DEF ReadEvent, RestartedSettle, ArmedMaxWait
  <2>3. CASE OnSettle \/ OnMaxWait \/ OnTick
    BY <2>3 DEF OnSettle, OnMaxWait, OnTick, Disarm, BeginCycle
  <2>4. CASE ReceiveSignal
    BY <2>4 DEF ReceiveSignal
  <2>5. CASE Look \/ CycleFails \/ EndCycle
    BY <2>5 DEF Look, CycleFails, EndCycle
  <2>6. CASE LoopFails \/ RetryLoop
    BY <2>6 DEF LoopFails, RetryLoop, Disarm
  <2>7. ASSUME NEW c \in Callers, Post(c) PROVE QuietInv'
    BY <2>7 DEF Post, Merged, Reason
  <2>8. ASSUME NEW c \in Callers, Signal(c) PROVE QuietInv'
    BY <2>8 DEF Signal
  <2>9. CASE Change \/ TickerFires
    BY <2>9 DEF Change, Heard, TickerFires, TickerRuns, Alive
  <2>10. CASE Elapse
    BY <2>10 DEF Elapse, Less
  <2>11. CASE UNCHANGED vars
    BY <2>11 DEF vars
  <2> QED
    BY <2>1, <2>2, <2>3, <2>4, <2>5, <2>6, <2>7, <2>8, <2>9, <2>10, <2>11
       DEF Next, LoopStep
<1>3. TypeOK /\ QuietInv => SettleMeansQuiet
  BY DEF TypeOK, ClockOK, QuietInv, SettleMeansQuiet
<1> QED
  BY <1>1, <1>2, <1>3, TypeCorrect, PTL DEF Spec

-----------------------------------------------------------------------------
(* While an event waits for a cycle, max_wait is running, and what is left *)
(* of it covers the rest of the wait.                                      *)
WaitInv == age # Off => maxWait # Off /\ age + maxWait <= MaxWait

(* Endless editing postpones a cycle by at most max_wait.                  *)
THEOREM WaitsAreBounded == Spec => []BoundedWait
<1>1. Init => WaitInv
  BY DEF Init, TypeOK, ClockOK, WaitInv
<1>2. TypeOK /\ WaitInv /\ [Next]_vars => WaitInv'
  <2> SUFFICES ASSUME TypeOK, WaitInv, [Next]_vars PROVE WaitInv'
    OBVIOUS
  <2> USE DEF TypeOK, ClockOK, WaitInv
  <2>1. CASE StartLoop \/ TakeRequest
    BY <2>1 DEF StartLoop, TakeRequest, BeginCycle, Defers
  <2>2. CASE ReadEvent
    BY <2>2 DEF ReadEvent, RestartedSettle, ArmedMaxWait
  <2>3. CASE OnSettle \/ OnMaxWait \/ OnTick
    BY <2>3 DEF OnSettle, OnMaxWait, OnTick, Disarm, BeginCycle
  <2>4. CASE ReceiveSignal
    BY <2>4 DEF ReceiveSignal
  <2>5. CASE Look \/ CycleFails \/ EndCycle
    BY <2>5 DEF Look, CycleFails, EndCycle
  <2>6. CASE LoopFails \/ RetryLoop
    BY <2>6 DEF LoopFails, RetryLoop, Disarm
  <2>7. ASSUME NEW c \in Callers, Post(c) PROVE WaitInv'
    BY <2>7 DEF Post, Merged, Reason
  <2>8. ASSUME NEW c \in Callers, Signal(c) PROVE WaitInv'
    BY <2>8 DEF Signal
  <2>9. CASE Change \/ TickerFires
    BY <2>9 DEF Change, Heard, TickerFires, TickerRuns, Alive
  <2>10. CASE Elapse
    BY <2>10 DEF Elapse, Less
  <2>11. CASE UNCHANGED vars
    BY <2>11 DEF vars
  <2> QED
    BY <2>1, <2>2, <2>3, <2>4, <2>5, <2>6, <2>7, <2>8, <2>9, <2>10, <2>11
       DEF Next, LoopStep
<1>3. TypeOK /\ WaitInv => BoundedWait
  BY DEF TypeOK, ClockOK, WaitInv, BoundedWait, Ready
<1> QED
  BY <1>1, <1>2, <1>3, TypeCorrect, PTL DEF Spec
=============================================================================
