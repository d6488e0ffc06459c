----------------------------- MODULE RenaultPoll -----------------------------
(***************************************************************************)
(* When the car is polled (internal/vehicle/renault.go: Trigger,           *)
(* SchedulePlugPoll, loop and pollOnce).  The loop waits for the earliest  *)
(* of a scheduled poll and a poll owed to a socket transition; a trigger   *)
(* polls at once; every poll resets both.  Time is a Tick of one unit that *)
(* counts the timers down; a poll takes no time, but the plug may move and *)
(* transitions may be reported between its steps.  The login is module     *)
(* RenaultAuth, the slow tier module SocTarget; here both succeed or fail. *)
(* The readings of one battery status are stored together: the plug status *)
(* stands for all of them.                                                 *)
(***************************************************************************)
EXTENDS Integers

CONSTANTS Delay,       \* plugPollDelay
          Fast, Slow,  \* poll_interval and poll_interval_unplugged
          Tier,        \* soc_level_interval
          Day, Retry,  \* age of vehicle details: refresh, after a failure
          MaxMove,     \* how often the plug moves
          MaxMiss, MaxStop

ASSUME PeriodAssumption == /\ Delay \in Nat /\ Fast \in Nat /\ Slow \in Nat
                           /\ Tier \in Nat /\ Day \in Nat /\ Retry \in Nat
                           /\ Retry <= Day

VARIABLES
  car, api, stored,              \* plugged in? the car, Kamereon, the settings
  configured,                    \* user, password and VIN are set
  trigger, plugEvent,            \* triggerCh and plugCh, one element each
  nextLeft, plugLeft, tierLeft,  \* time to nextPollDue, plugPollAt, slow tier
  detailsLeft,                   \* time until shouldRefreshDetails
  lastPlugged, at, tier, second, \* the loop, pollOnce and their variables
  moves, misses, stops,        \* what the bounds count
  stale, owed                    \* history, for the properties

plugs   == <<car, api>>
chans   == <<trigger, plugEvent>>
timers  == <<nextLeft, plugLeft, tierLeft, detailsLeft>>
loopVars == <<lastPlugged, at, tier, second>>
pollBudgets == <<moves, misses, stops>>
pollVars == <<plugs, stored, configured, chans, timers, loopVars, pollBudgets,
              stale, owed>>

Longest == IF Fast <= Slow THEN Slow ELSE Fast    \* the user may choose either

None == -1     \* plugPollAt is zero; no transition is waiting for its poll

PollTypeOK ==
  /\ car \in BOOLEAN /\ api \in BOOLEAN /\ stored \in BOOLEAN
  /\ configured \in BOOLEAN /\ trigger \in BOOLEAN /\ plugEvent \in BOOLEAN
  /\ nextLeft \in 0 .. Longest /\ plugLeft \in {None} \union 0 .. Delay
  /\ tierLeft \in 0 .. Tier /\ detailsLeft \in 0 .. Day
  /\ lastPlugged \in BOOLEAN /\ tier \in BOOLEAN /\ second \in BOOLEAN
  /\ at \in {"wait", "auth", "battery", "details", "tier"}
  /\ moves \in Nat /\ misses \in Nat /\ stops \in Nat
  /\ stale \in Nat /\ owed \in {None} \union Nat

PollInit ==
  /\ car \in BOOLEAN /\ api = car /\ stored = FALSE
  /\ configured \in BOOLEAN /\ trigger = FALSE /\ plugEvent = FALSE
  /\ nextLeft = 0 /\ plugLeft = None /\ tierLeft = 0 /\ detailsLeft = 0
  /\ lastPlugged = FALSE /\ at = "wait" /\ tier = FALSE /\ second = FALSE
  /\ moves = 0 /\ misses = 0 /\ stops = 0
  /\ stale = 0 /\ owed = None

Miss == misses < MaxMiss /\ misses' = misses + 1 /\ UNCHANGED <<moves, stops>>

-----------------------------------------------------------------------------
(* The outside world.                                                       *)

\* The socket reports a transition: SchedulePlugPoll.
Move ==
  /\ moves < MaxMove /\ moves' = moves + 1
  /\ car' = ~car /\ plugEvent' = TRUE
  /\ owed' = IF configured THEN 0 ELSE owed
  /\ UNCHANGED <<api, stored, configured, trigger, timers, loopVars, misses,
                 stops, stale>>

\* Kamereon shows the new plug state some time later.
ApiSettles ==
  /\ api # car /\ api' = car /\ stale' = 0
  /\ UNCHANGED <<car, stored, configured, chans, timers, loopVars, pollBudgets,
                 owed>>

\* TFA completed: Trigger.
Trigger ==
  /\ ~trigger /\ trigger' = TRUE
  /\ UNCHANGED <<plugs, stored, configured, plugEvent, timers, loopVars,
                 pollBudgets, stale, owed>>

Configure ==
  /\ ~configured /\ configured' = TRUE
  /\ stale' = 0
  /\ UNCHANGED <<plugs, stored, chans, timers, loopVars, pollBudgets, owed>>

Down(n) == IF n > 0 THEN n - 1 ELSE n

\* Time passes only while the loop has nothing to do at once.
Tick ==
  /\ at = "wait"
  /\ configured => ~trigger /\ ~plugEvent /\ nextLeft > 0 /\ plugLeft # 0
  /\ nextLeft' = Down(nextLeft) /\ plugLeft' = Down(plugLeft)
  /\ tierLeft' = Down(tierLeft) /\ detailsLeft' = Down(detailsLeft)
  /\ stale' = IF configured /\ api # stored THEN stale + 1 ELSE 0
  /\ owed' = IF owed = None THEN None ELSE owed + 1
  /\ UNCHANGED <<plugs, stored, configured, chans, loopVars, pollBudgets>>

-----------------------------------------------------------------------------
(* The loop.                                                                *)

\* Without credentials it wakes up now and then and forgets what was queued.
Unconfigured ==
  /\ at = "wait" /\ ~configured /\ (trigger \/ plugEvent)
  /\ \/ trigger' = FALSE /\ plugEvent' = plugEvent
     \/ plugEvent' = FALSE /\ trigger' = trigger
  /\ UNCHANGED <<plugs, stored, configured, timers, loopVars, pollBudgets,
                 stale, owed>>

StartPoll(force) ==
  /\ at' = "auth" /\ second' = FALSE
  /\ tier' = (force \/ tierLeft = 0)
  /\ UNCHANGED <<plugs, stored, configured, plugEvent, timers, lastPlugged,
                 pollBudgets, stale, owed>>

TakeTrigger ==
  /\ at = "wait" /\ configured /\ trigger
  /\ trigger' = FALSE /\ StartPoll(TRUE)

\* A mutant: the transition is taken from the channel, and no timer is set.
TakePlugEventOnly ==
  /\ at = "wait" /\ configured /\ plugEvent
  /\ plugEvent' = FALSE
  /\ UNCHANGED <<plugs, stored, configured, trigger, timers, loopVars,
                 pollBudgets, stale, owed>>

\* The poll is put off; a burst of transitions puts it off each time.
TakePlugEvent ==
  /\ at = "wait" /\ configured /\ plugEvent
  /\ plugEvent' = FALSE /\ plugLeft' = Delay
  /\ UNCHANGED <<plugs, stored, configured, trigger, nextLeft, tierLeft,
                 detailsLeft, loopVars, pollBudgets, stale, owed>>

TimerFires ==
  /\ at = "wait" /\ configured /\ (plugLeft = 0 \/ nextLeft = 0)
  /\ trigger' = trigger /\ StartPoll(FALSE)

Interval(plugged) == IF plugged THEN Fast ELSE Slow

\* pollOnce returned: both timers start again, at the cadence of the plug state
\* seen by the last poll that succeeded.
EndPoll(ok, plugged) ==
  /\ at' = "wait" /\ second' = FALSE /\ tier' = FALSE
  /\ lastPlugged' = IF ok THEN plugged ELSE lastPlugged
  /\ tierLeft' = IF ok /\ tier THEN Tier ELSE tierLeft
  /\ plugLeft' = None
  /\ nextLeft' = Interval(IF ok THEN plugged ELSE lastPlugged)
  /\ owed' = IF plugEvent THEN owed ELSE None

AuthDone ==
  /\ at = "auth" /\ at' = "battery"
  /\ UNCHANGED <<plugs, stored, configured, chans, timers, lastPlugged, tier,
                 second, pollBudgets, stale, owed>>

\* recordPollFailure leaves the stored readings as they are.
FailPoll ==
  /\ EndPoll(FALSE, FALSE)
  /\ UNCHANGED <<plugs, stored, configured, chans, detailsLeft, stale>>

AuthFails == at = "auth" /\ Miss /\ FailPoll

\* The battery status is read and stored.
BatteryRead ==
  /\ at = "battery" /\ at' = "details"
  /\ stored' = api /\ stale' = 0
  /\ UNCHANGED <<plugs, configured, chans, timers, lastPlugged, tier, second,
                 pollBudgets, owed>>

\* The first failure leads to a new login and a second try.
BatteryFails ==
  /\ at = "battery" /\ Miss
  /\ IF second
       THEN FailPoll
       ELSE /\ at' = "auth" /\ second' = TRUE
            /\ UNCHANGED <<plugs, stored, configured, chans, timers,
                           lastPlugged, tier, stale, owed>>

\* fetchVehicleDetails, when they are older than a day; what fails is tried
\* again sooner.  The poll goes on either way.
Details ==
  /\ at = "details" /\ at' = "tier"
  /\ \/ detailsLeft > 0 /\ detailsLeft' = detailsLeft
     \/ detailsLeft = 0 /\ detailsLeft' \in {Day, Retry}
  /\ UNCHANGED <<plugs, stored, configured, chans, nextLeft, plugLeft, tierLeft,
                 lastPlugged, tier, second, pollBudgets, stale, owed>>

\* pollTierB is best effort; the plug state returned is the one that was read.
PollDone ==
  /\ at = "tier" /\ EndPoll(TRUE, stored)
  /\ UNCHANGED <<plugs, stored, configured, chans, detailsLeft, pollBudgets,
                 stale>>

\* A mutant: a restart waits an interval first.
PollRestartWaits ==
  /\ stops < MaxStop /\ stops' = stops + 1
  /\ trigger' = FALSE /\ plugEvent' = FALSE
  /\ nextLeft' = Interval(stored) /\ plugLeft' = None /\ tierLeft' = 0
  /\ lastPlugged' = stored /\ at' = "wait" /\ tier' = FALSE /\ second' = FALSE
  /\ owed' = IF owed = None THEN None ELSE 0
  /\ UNCHANGED <<plugs, stored, configured, detailsLeft, moves, misses, stale>>

\* A restart polls at once, and in full.
PollRestart ==
  /\ stops < MaxStop /\ stops' = stops + 1
  /\ trigger' = FALSE /\ plugEvent' = FALSE
  /\ nextLeft' = 0 /\ plugLeft' = None /\ tierLeft' = 0
  /\ lastPlugged' = stored /\ at' = "wait" /\ tier' = FALSE /\ second' = FALSE
  /\ owed' = IF owed = None THEN None ELSE 0
  /\ UNCHANGED <<plugs, stored, configured, detailsLeft, moves, misses, stale>>

PollNext ==
  \/ Move \/ ApiSettles \/ Trigger \/ Configure \/ Tick
  \/ Unconfigured \/ TakeTrigger \/ TakePlugEvent \/ TimerFires
  \/ AuthDone \/ AuthFails \/ BatteryRead \/ BatteryFails \/ Details \/ PollDone
  \/ PollRestart

PollSpec == PollInit /\ [][PollNext]_pollVars

-----------------------------------------------------------------------------
(* What the cadence promises.                                               *)

\* Once Kamereon shows a plug state, the settings show it at the latest one
\* interval later, the longer of the two, and every failed attempt costs at most
\* another such interval: no order of events, bursts of transitions included, postpones the
\* scheduled poll, and no failure slows it down.
PlugStateFollows == stale <= Longest * (misses + 1)

\* A socket transition is followed by a poll within plugPollDelay, whatever
\* else happens to the timers; a later transition may put it off once more.
TransitionPolled == owed <= Delay
=============================================================================
