---------------------- MODULE EnvironmentBroadcastProofs ---------------------
(***************************************************************************)
(* The broadcast's promises, proved for any repositories and any lengths   *)
(* of the probe, the threshold, settle and cooldown.                       *)
(***************************************************************************)
EXTENDS EnvironmentBroadcast, TLAPS

USE ClockAssumption DEF Off, sensors, broadcast

LEMMA LongestIsBoth == Longest \in Nat \ {0} /\ Settle <= Longest /\ Cooldown <= Longest
BY DEF Longest

(* The timer is armed within the longer of settle and cooldown, and not    *)
(* before the cooldown is over.                                            *)
LEMMA DelayBounds ==
    ASSUME since \in 0 .. Cooldown
    PROVE  Delay \in 1 .. Longest /\ Delay + since >= Cooldown
BY DEF Delay, Longest

LEMMA TypeStep == ASSUME TypeOK, [Next]_vars PROVE TypeOK'
<1> USE LongestIsBoth DEF TypeOK, Attachment, Messages, Reasons
<1>1. CASE Sleep
  <2>1. CASE gap' > Gap
    BY <1>1, <2>1 DEF Sleep, StartWaiting
  <2>2. CASE ~(gap' > Gap)
    BY <1>1, <2>2 DEF Sleep
  <2> QED
    BY <2>1, <2>2
<1>2. CASE NetworkChanges
  BY <1>2 DEF NetworkChanges, StartWaiting
<1>3. ASSUME NEW r \in Repos, RunCycle(r) PROVE TypeOK'
  BY <1>3 DEF RunCycle
<1>4. CASE ProbeClock
  BY <1>4 DEF ProbeClock, Notify
<1>5. CASE ReadMessage
  BY <1>5 DEF ReadMessage, Notify
<1>6. CASE NetworkWatcherFails
  <2>1. \A r \in Repos : age'[r] = age[r] \/ age'[r] = Off
    BY <1>6 DEF NetworkWatcherFails
  <2>2. age' \in [Repos -> Int]
    BY <1>6 DEF NetworkWatcherFails
  <2>3. \A r \in Repos : age'[r] >= Off
    BY <2>1
  <2> QED
    BY <1>6, <2>2, <2>3 DEF NetworkWatcherFails
<1>7. CASE CollectEvent
  BY <1>7, DelayBounds DEF CollectEvent
<1>8. CASE BeginRound
  BY <1>8 DEF BeginRound
<1>9. ASSUME NEW r \in Repos, AskRepository(r) PROVE TypeOK'
  BY <1>9 DEF AskRepository
<1>10. CASE Elapse
  BY <1>10 DEF Elapse, Busy
<1>11. CASE UNCHANGED vars
  BY <1>11 DEF vars
<1> QED
  BY <1>1, <1>2, <1>3, <1>4, <1>5, <1>6, <1>7, <1>8, <1>9, <1>10, <1>11
     DEF Next, WatcherStep, WorldStep

(* Every variable keeps its type, the timer its range included.            *)
THEOREM TypeCorrect == Spec => []TypeOK
<1>1. Init => TypeOK
  BY LongestIsBoth DEF Init, TypeOK
<1> QED
  BY <1>1, TypeStep, PTL DEF Spec

-----------------------------------------------------------------------------
(* The cooldown.  A running timer never ends before the cooldown does.     *)
TimerRespectsCooldown == timer # Off => timer + since >= Cooldown

LEMMA CooldownStep ==
    ASSUME TypeOK, TimerRespectsCooldown, [Next]_vars
    PROVE  TimerRespectsCooldown'
<1> USE DEF TypeOK, TimerRespectsCooldown
<1>1. CASE CollectEvent
  BY <1>1, DelayBounds DEF CollectEvent
<1>2. CASE BeginRound
  BY <1>2 DEF BeginRound
<1>3. CASE Elapse
  BY <1>3 DEF Elapse, Busy
<1>4. CASE Sleep \/ NetworkChanges \/ ProbeClock \/ ReadMessage \/ NetworkWatcherFails
  BY <1>4 DEF Sleep, NetworkChanges, ProbeClock, ReadMessage, NetworkWatcherFails
<1>5. ASSUME NEW r \in Repos, RunCycle(r) \/ AskRepository(r)
      PROVE  TimerRespectsCooldown'
  BY <1>5 DEF RunCycle, AskRepository
<1>6. CASE UNCHANGED vars
  BY <1>6 DEF vars
<1> QED
  BY <1>1, <1>2, <1>3, <1>4, <1>5, <1>6 DEF Next, WatcherStep, WorldStep

(* Two rounds are never closer than the cooldown.                          *)
THEOREM RoundsAreRationed == Spec => RoundsRationed
<1>1. Init => TimerRespectsCooldown
  BY DEF Init, TimerRespectsCooldown
<1>2. TypeOK /\ TimerRespectsCooldown /\ [Next]_vars
      => [telling = {} /\ telling' # {} => since >= Cooldown]_vars
  <2> SUFFICES ASSUME TypeOK, TimerRespectsCooldown, Next, telling = {}, telling' # {}
               PROVE  since >= Cooldown
    OBVIOUS
  <2>1. BeginRound
    BY DEF Next, WatcherStep, WorldStep, Sleep, NetworkChanges, ProbeClock, ReadMessage,
           NetworkWatcherFails, RunCycle, CollectEvent, AskRepository, Elapse
  <2> QED
    BY <2>1 DEF BeginRound, TypeOK, TimerRespectsCooldown
<1> QED
  BY <1>1, <1>2, CooldownStep, TypeCorrect, PTL DEF Spec, RoundsRationed

-----------------------------------------------------------------------------
(* The way of an event.  At each station it has waited no longer than the  *)
(* stations before allow, so that the one timer bounds the whole wait.     *)
Carried(r) ==
    \/ age[r] = Off
    \/ IsWake /\ age[r] <= probe
    \/ watching /\ routing \intersect Attachment # {} /\ age[r] = 0
    \/ events # "none" /\ age[r] <= Probe
    \/ timer # Off /\ age[r] + timer <= Probe + Longest
    \/ r \in telling /\ age[r] <= Probe + Longest

AllCarried == \A r \in Repos : Carried(r)

LEMMA CarriedStep == ASSUME TypeOK, AllCarried, [Next]_vars PROVE AllCarried'
<1> SUFFICES ASSUME NEW q \in Repos PROVE Carried(q)'
  BY DEF AllCarried
<1>0. Carried(q)
  BY DEF AllCarried
<1> USE <1>0, LongestIsBoth DEF TypeOK, Carried, IsWake
<1>1. CASE Sleep
  <2>1. CASE gap' > Gap
    BY <1>1, <2>1 DEF Sleep, StartWaiting
  <2>2. CASE ~(gap' > Gap)
    BY <1>1, <2>2 DEF Sleep
  <2> QED
    BY <2>1, <2>2
<1>2. CASE NetworkChanges
  BY <1>2 DEF NetworkChanges, StartWaiting, Attachment
<1>3. ASSUME NEW r \in Repos, RunCycle(r) PROVE Carried(q)'
  BY <1>3 DEF RunCycle, Attachment
<1>4. CASE ProbeClock
  BY <1>4 DEF ProbeClock, Notify, Reasons
<1>5. CASE ReadMessage
  BY <1>5 DEF ReadMessage, Notify, Reasons, IsNetworkChange
<1>6. CASE NetworkWatcherFails
  BY <1>6 DEF NetworkWatcherFails, Heard
<1>7. CASE CollectEvent
  BY <1>7, DelayBounds DEF CollectEvent
<1>8. CASE BeginRound
  BY <1>8 DEF BeginRound
<1>9. ASSUME NEW r \in Repos, AskRepository(r) PROVE Carried(q)'
  BY <1>9 DEF AskRepository
<1>10. CASE Elapse
  <2>1. /\ probe' = probe + 1 /\ events = "none" /\ telling = {}
        /\ watching => routing = {}
        /\ UNCHANGED <<gap, watching, routing, events, telling>>
        /\ timer' = IF timer = Off THEN Off ELSE timer - 1
        /\ timer # 0
    BY <1>10 DEF Elapse, Busy
  <2>2. /\ age[q] \in Int /\ age[q] >= Off
        /\ age'[q] = IF age[q] \in 0 .. Probe + Longest THEN age[q] + 1 ELSE age[q]
    BY <1>10 DEF Elapse
  <2> QED
    BY <2>1, <2>2
<1>11. CASE UNCHANGED vars
  BY <1>11 DEF vars
<1> QED
  BY <1>1, <1>2, <1>3, <1>4, <1>5, <1>6, <1>7, <1>8, <1>9, <1>10, <1>11
     DEF Next, WatcherStep, WorldStep

LEMMA CarriedAlways == Spec => []AllCarried
<1>1. Init => AllCarried
  BY DEF Init, AllCarried, Carried
<1> QED
  BY <1>1, CarriedStep, TypeCorrect, PTL DEF Spec

(* As long as a repository has not been asked about an event, something on *)
(* its way will ask: neither the full channel nor the cooldown loses it,   *)
(* only a reader that fails loses what it has not read.                    *)
THEOREM EventsAreKept == Spec => []EventKept
<1>1. AllCarried => EventKept
  BY DEF AllCarried, Carried, EventKept, OnItsWay, Heard
<1> QED
  BY <1>1, CarriedAlways, PTL

(* ... and it has been asked at most Probe + Longest later.                *)
THEOREM RoundsArePrompt == Spec => []PromptRound
<1>1. ASSUME TypeOK, AllCarried PROVE PromptRound
  <2> SUFFICES ASSUME NEW r \in Repos PROVE age[r] <= Probe + Longest
    BY DEF PromptRound
  <2>1. /\ age[r] \in Int /\ probe \in Int /\ probe <= Probe
        /\ timer \in Int /\ timer >= Off /\ Longest \in Nat /\ Probe \in Nat
    BY <1>1, LongestIsBoth DEF TypeOK
  <2>2. \/ age[r] = Off
        \/ age[r] <= probe
        \/ age[r] = 0
        \/ age[r] <= Probe
        \/ timer # Off /\ age[r] + timer <= Probe + Longest
        \/ age[r] <= Probe + Longest
    <3>1. Carried(r)
      BY <1>1 DEF AllCarried
    <3> QED
      BY <3>1 DEF Carried
  <2> QED
    BY <2>1, <2>2
<1> QED
  BY <1>1, CarriedAlways, TypeCorrect, PTL

-----------------------------------------------------------------------------
(* What is on its way to become a round is handed on, merged or dropped,   *)
(* but never multiplied.                                                   *)
LEMMA RoundsStep ==
    ASSUME TypeOK, [Next]_vars, ~WorldStep
    PROVE  /\ RoundsToCome' <= RoundsToCome
           /\ BeginRound => RoundsToCome' < RoundsToCome
<1> USE LongestIsBoth DEF TypeOK, RoundsToCome
<1>1. ASSUME NEW r \in Repos, RunCycle(r) \/ AskRepository(r)
      PROVE  RoundsToCome' = RoundsToCome /\ timer' = timer
  BY <1>1 DEF RunCycle, AskRepository, IsWake
<1>2. CASE ProbeClock
  BY <1>2 DEF ProbeClock, Notify, IsWake, BeginRound
<1>3. CASE ReadMessage
  <2>1. PICK message \in routing :
          /\ routing' = routing \ {message}
          /\ IF message \in Attachment THEN Notify("network") ELSE events' = events
    BY <1>3 DEF ReadMessage, IsNetworkChange
  <2>2. UNCHANGED <<gap, timer>>
    BY <1>3 DEF ReadMessage
  <2>3. CASE message \in Attachment
    <3>1. \/ events' = events
          \/ events = "none" /\ events' = "network"
      BY <2>1, <2>3 DEF Notify
    <3>2. message \in {"address", "interface"} /\ message \in routing
      BY <2>3 DEF Attachment
    <3> QED
      BY <2>1, <2>2, <3>1, <3>2 DEF IsWake, BeginRound
  <2>4. CASE message \notin Attachment
    BY <2>1, <2>2, <2>4 DEF IsWake, BeginRound, Attachment
  <2> QED
    BY <2>3, <2>4
<1>4. CASE NetworkWatcherFails
  <2>1. UNCHANGED <<gap, events, timer>> /\ routing' = {}
    BY <1>4 DEF NetworkWatcherFails
  <2> QED
    BY <2>1 DEF IsWake, BeginRound
<1>5. CASE CollectEvent
  BY <1>5, DelayBounds DEF CollectEvent, IsWake, BeginRound
<1>6. CASE BeginRound
  BY <1>6 DEF BeginRound, IsWake
<1>7. CASE Elapse
  BY <1>7 DEF Elapse, Busy, IsWake, BeginRound
<1>8. CASE UNCHANGED vars
  BY <1>8 DEF vars, IsWake, BeginRound
<1>9. ASSUME timer' = timer PROVE ~BeginRound
  BY <1>9 DEF BeginRound
<1> QED
  BY <1>1, <1>2, <1>3, <1>4, <1>5, <1>6, <1>7, <1>8, <1>9 DEF Next, WatcherStep

(* The daemon is not its own trigger: once the world is quiet, every round *)
(* uses up one of at most five that may come, whatever the fetches of the  *)
(* rounds before it make the kernel say (isNetworkChange).                 *)
THEOREM RoundsAreUsedUp == Spec => RoundsUsedUp
<1>1. TypeOK /\ [Next]_vars =>
        [~WorldStep => /\ RoundsToCome' <= RoundsToCome
                       /\ BeginRound => RoundsToCome' < RoundsToCome]_vars
  BY RoundsStep
<1> QED
  BY <1>1, TypeCorrect, PTL DEF Spec, RoundsUsedUp
=============================================================================
