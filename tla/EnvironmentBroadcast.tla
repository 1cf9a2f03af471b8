------------------------ MODULE EnvironmentBroadcast ------------------------
(***************************************************************************)
(* How waking from sleep and changes of the network become requests to     *)
(* every repository (runEnvironmentWatcher): the wake probe, which         *)
(* compares the wall clock with a timer that stops during a sleep, the     *)
(* reader of the kernel's routing messages, the channel of one event they  *)
(* share, and the broadcast that collects events into rounds and rations   *)
(* the rounds.  Time is the monotonic clock; the goroutines take none.     *)
(***************************************************************************)
EXTENDS Integers

CONSTANTS
    Repos,     \* the configured repositories
    Probe,     \* interval of the wake probe
    Gap,       \* wall-clock time that must be missing for a wake
    Settle,    \* how long events are collected into one round
    Cooldown,  \* least time between two rounds
    Failures   \* "netwatch": reading the routing socket may fail

ASSUME ClockAssumption ==
    /\ Probe \in Nat \ {0} /\ Gap \in Nat \ {0}
    /\ Settle \in Nat \ {0} /\ Cooldown \in Nat \ {0}

VARIABLES
    probe,     \* time since the last probe
    gap,       \* wall-clock time that passed in sleeps since then
    watching,  \* is the reader of routing messages running?
    routing,   \* routing messages not yet read
    events,    \* the event in the channel
    pending,   \* the reason of the round being collected
    timer,     \* time left on the timer of the round
    since,     \* time since the last round
    telling,   \* repositories the current round has yet to ask
    asked,     \* repositories with a request in their mailbox
    age        \* history variable: for each repository, time since the
               \* first event, not lost unread, it has not been asked about

sensors == <<probe, gap, watching, routing>>
broadcast == <<pending, timer, since, telling>>
vars == <<sensors, events, broadcast, asked, age>>

Off == -1
Reasons == {"wake", "network"}
Longest == IF Settle > Cooldown THEN Settle ELSE Cooldown

(* Kernel messages: an address or an interface changed, or a route was     *)
(* cloned for an ordinary connection.                                      *)
Attachment == {"address", "interface"}
Messages == Attachment \union {"route"}
AnyMessage(message) == TRUE  \* mutant: every routing message counts
IsNetworkChange(message) == message \in Attachment

TypeOK ==
    /\ probe \in 0 .. Probe /\ gap \in 0 .. Gap + 1
    /\ watching \in BOOLEAN /\ routing \subseteq Messages
    /\ events \in Reasons \union {"none"} /\ pending \in Reasons \union {"none"}
    /\ timer \in Off .. Longest /\ since \in 0 .. Cooldown
    /\ telling \subseteq Repos /\ asked \subseteq Repos
    /\ age \in [Repos -> Int] /\ \A r \in Repos : age[r] >= Off

(* The daemon starts; no round has been held, the cooldown is over.        *)
Init ==
    /\ probe = 0 /\ gap = 0 /\ watching = TRUE /\ routing = {}
    /\ events = "none" /\ pending = "none"
    /\ timer = Off /\ since = Cooldown
    /\ telling = {} /\ asked = {}
    /\ age = [r \in Repos |-> Off]

-----------------------------------------------------------------------------
(* The world.                                                              *)

StartWaiting == age' = [r \in Repos |-> IF age[r] = Off THEN 0 ELSE age[r]]

(* The machine sleeps for a while (or its clock is set forward): only the  *)
(* wall clock moves, beyond the threshold or not.                          *)
Sleep ==
    /\ gap <= Gap
    /\ gap' \in gap + 1 .. Gap + 1
    /\ IF gap' > Gap THEN StartWaiting ELSE UNCHANGED age
    /\ UNCHANGED <<probe, watching, routing, events, broadcast, asked>>

(* A network is joined, left or replaced: one message or two.              *)
NetworkChanges ==
    /\ watching
    /\ \E burst \in (SUBSET Attachment) \ {{}} : routing' = routing \union burst
    /\ StartWaiting
    /\ UNCHANGED <<probe, gap, watching, events, broadcast, asked>>

(* The loop of a repository takes its request and fetches, which makes     *)
(* the kernel clone a route.                                               *)
RunCycle(r) ==
    /\ r \in asked
    /\ asked' = asked \ {r}
    /\ routing' = IF watching THEN routing \union {"route"} ELSE routing
    /\ UNCHANGED <<probe, gap, watching, events, broadcast, age>>

-----------------------------------------------------------------------------
(* The two sensors and the channel.                                        *)

(* notify: an event that finds the channel full is dropped.                *)
Notify(reason) == events' = IF events = "none" THEN reason ELSE events

IsWake == gap > Gap

ProbeClock ==
    /\ probe = Probe
    /\ probe' = 0 /\ gap' = 0
    /\ IF IsWake THEN Notify("wake") ELSE UNCHANGED events
    /\ UNCHANGED <<watching, routing, broadcast, asked, age>>

ReadMessage ==
    /\ watching
    /\ \E message \in routing :
          /\ routing' = routing \ {message}
          /\ IF IsNetworkChange(message) THEN Notify("network") ELSE UNCHANGED events
    /\ UNCHANGED <<probe, gap, watching, broadcast, asked, age>>

(* What will ask repository r without another message: a sleep the probe   *)
(* has yet to notice, an event, the timer, or the round in progress.       *)
Heard(r) == IsWake \/ events # "none" \/ timer # Off \/ r \in telling

(* The socket or the kqueue fails: reported, and not retried.  The unread  *)
(* messages are lost, and with them the events that only they tell of.     *)
NetworkWatcherFails ==
    /\ watching /\ "netwatch" \in Failures
    /\ watching' = FALSE /\ routing' = {}
    /\ age' = [r \in Repos |-> IF Heard(r) THEN age[r] ELSE Off]
    /\ UNCHANGED <<probe, gap, events, broadcast, asked>>

-----------------------------------------------------------------------------
(* broadcastEnvironmentEvents: the three cases of its select.              *)

SettleOnly == Settle  \* mutant: no cooldown
Delay == IF Settle > Cooldown - since THEN Settle ELSE Cooldown - since

RestartTimer ==  \* mutant: every event postpones the round
    /\ telling = {} /\ events # "none"
    /\ events' = "none"
    /\ pending' = events
    /\ timer' = Delay
    /\ UNCHANGED <<sensors, since, telling, asked, age>>

(* The latest reason the channel yields wins; the first one arms the timer. *)
CollectEvent ==
    /\ telling = {} /\ events # "none"
    /\ events' = "none"
    /\ pending' = events
    /\ timer' = IF timer = Off THEN Delay ELSE timer
    /\ UNCHANGED <<sensors, since, telling, asked, age>>

BeginRound ==
    /\ telling = {} /\ timer = 0
    /\ timer' = Off /\ since' = 0
    /\ telling' = Repos
    /\ UNCHANGED <<sensors, events, pending, asked, age>>

(* fire: a request already in the mailbox answers for this one too.        *)
AskRepository(r) ==
    /\ r \in telling
    /\ telling' = telling \ {r}
    /\ asked' = asked \union {r}
    /\ age' = [age EXCEPT ![r] = Off]
    /\ UNCHANGED <<sensors, events, pending, timer, since>>

-----------------------------------------------------------------------------
Busy ==
    \/ probe = Probe \/ (watching /\ routing # {})
    \/ events # "none" \/ timer = 0 \/ telling # {}

Elapse ==
    /\ ~Busy
    /\ probe' = probe + 1
    /\ timer' = IF timer = Off THEN Off ELSE timer - 1
    /\ since' = IF since < Cooldown THEN since + 1 ELSE since
    /\ age' = [r \in Repos |-> IF age[r] \in 0 .. Probe + Longest THEN age[r] + 1 ELSE age[r]]
    /\ UNCHANGED <<gap, watching, routing, events, pending, telling, asked>>

WatcherStep ==
    \/ ProbeClock \/ ReadMessage \/ CollectEvent \/ BeginRound
    \/ \E r \in Repos : AskRepository(r)

WorldStep == Sleep \/ NetworkChanges

Next ==
    \/ WatcherStep \/ NetworkWatcherFails \/ Elapse
    \/ WorldStep \/ \E r \in Repos : RunCycle(r)

Spec == Init /\ [][Next]_vars

(* The goroutines run and time passes.                                     *)
LiveSpec == Spec /\ WF_vars(WatcherStep) /\ WF_vars(Elapse)

-----------------------------------------------------------------------------
(* Properties.                                                             *)

(* No wake and no reconnect goes unheard: as long as a repository has not  *)
(* been asked after it, something on its way will ask - a message that a   *)
(* living reader will read included - whatever the channel drops and the   *)
(* cooldown delays (the comment on broadcastEnvironmentEvents).            *)
OnItsWay(r) == Heard(r) \/ (watching /\ routing \intersect Attachment # {})
EventKept == \A r \in Repos : age[r] # Off => OnItsWay(r)

(* ... and soon: at most a probe interval and the longer of settle and     *)
(* cooldown later, however many events follow the first, and although the  *)
(* reader of routing messages may have failed.                             *)
PromptRound == \A r \in Repos : age[r] <= Probe + Longest

(* Two rounds are never closer than the cooldown, whatever the order of    *)
(* events, expiries and rounds.                                            *)
RoundsRationed == [][telling = {} /\ telling' # {} => since >= Cooldown]_vars

(* The daemon is not its own trigger: the fetches a round causes do not    *)
(* cause another, so that rounds end when the world is quiet               *)
(* (isNetworkChange's comment).                                            *)
NotItsOwnTrigger == <>[][~WorldStep]_vars => <>[][~BeginRound]_vars

(* Its reason: while the world is quiet nothing the daemon does adds to    *)
(* the rounds that may still come, and every round uses one of them up, so *)
(* that at most five follow the last event.                                *)
RoundsToCome ==
    LET One(coming) == IF coming THEN 1 ELSE 0
    IN  One("address" \in routing) + One("interface" \in routing) + One(IsWake)
          + One(events # "none") + One(timer # Off)
RoundsUsedUp == [][~WorldStep =>
    /\ RoundsToCome' <= RoundsToCome
    /\ BeginRound => RoundsToCome' < RoundsToCome]_vars
=============================================================================
