--------------------------- MODULE PeriodicProofs ---------------------------
(***************************************************************************)
(* Proofs about the three goroutines that wake up by themselves: the       *)
(* refresh of the Pstryk rates (RateRefresh), the poller of the vehicle    *)
(* (RenaultPoll) and the checker of stale connectors (StatusCheck).        *)
(***************************************************************************)
EXTENDS RateRefresh, RenaultPoll, StatusCheck, WellFoundedInduction, TLAPS

-----------------------------------------------------------------------------
(* RateRefresh, for every pace of the ticker and length of the day and any   *)
(* number of failed fetches and restarts: the variables keep their types,    *)
(* and published prices are fetched in time.                                 *)

LEMMA PaceFacts ==
  /\ Quick \in Nat /\ Quarter \in Nat /\ Hourly \in Nat
  /\ Quick <= Hourly /\ Quarter <= Hourly
  BY PaceAssumption DEF PaceAssumption

Paces == {Quick, Quarter, Hourly}
Known == [today : Price, tomorrow : Price]

LEMMA PaceBound == ASSUME NEW p \in Paces PROVE p \in Nat /\ p <= Hourly /\ p \in 0 .. p
  BY PaceFacts DEF Paces

LEMMA AnswerFacts ==
  ASSUME RateTypeOK PROVE Answer \in Known /\ ~Behind(final, Answer)
<1>1. final.today \in BOOLEAN /\ final.tomorrow \in BOOLEAN
  BY DEF RateTypeOK
<1>2. Answer \in Known
  BY DEF Answer, Known, Price
<1> QED
  BY <1>1, <1>2 DEF Answer, Behind

LEMMA NothingType == Nothing \in Known
  BY DEF Nothing, Known, Price

-----------------------------------------------------------------------------
(* Types.                                                                   *)

\* A fetch that succeeds ends the wait for published prices.
LEMMA FetchFacts ==
  ASSUME RateTypeOK, fetchAndStore
  PROVE  /\ rates' \in Known /\ table' \in Known
         /\ \/ late' = 0 /\ missed' = missed
            \/ late' = late /\ missed' = missed /\ ~token
            \/ late' = late /\ missed' = missed + 1
<1>1. rates \in Known /\ table \in Known
  BY DEF RateTypeOK, Known
<1>2. CASE FetchOk
  <2>1. rates' = Answer /\ late' = (IF Behind(final, rates') THEN late ELSE 0)
    BY <1>2 DEF FetchOk
  <2>2. late' = 0
    BY <2>1, AnswerFacts
  <2> QED
    BY <1>1, <1>2, <2>1, <2>2, AnswerFacts DEF FetchOk
<1>3. CASE FetchFails
  BY <1>1, <1>3 DEF FetchFails
<1> QED
  BY <1>2, <1>3 DEF fetchAndStore

LEMMA RefreshFacts ==
  ASSUME RateTypeOK, Refresh
  PROVE  left' \in 0 .. period' /\ period' \in Paces /\ settled' \in BOOLEAN
<1>1. period \in Paces /\ Quarter \in Paces /\ Hourly \in Paces /\ settled \in BOOLEAN
  BY DEF RateTypeOK, Paces
<1>2. left' = period' /\ period' \in Paces
  BY <1>1 DEF Refresh
<1>3. settled' \in BOOLEAN
  BY <1>1 DEF Refresh, HasRates
<1> QED
  BY <1>2, <1>3, PaceBound

LEMMA RateTypeStep ==
  ASSUME RateTypeOK, [RateNext]_rateVars PROVE RateTypeOK'
<1>0. /\ rates \in Known /\ table \in Known /\ period \in Paces /\ left \in 0 .. period
      /\ time \in Nat /\ missed \in Nat /\ late \in Nat /\ starts \in Nat
      /\ final \in [today : BOOLEAN, tomorrow : BOOLEAN]
  BY DEF RateTypeOK, Known, Paces
<1>1. CASE Publish
  <2>1. final' \in [today : BOOLEAN, tomorrow : BOOLEAN]
    BY <1>0, <1>1 DEF Publish
  <2> QED
    BY <1>1, <2>1 DEF Publish, RateTypeOK
<1>2. CASE SetToken
  BY <1>2 DEF SetToken, RateTypeOK
<1>3. CASE RatePasses
  <2>1. left' \in 0 .. period' /\ period' = period
    <3>1. period \in Nat /\ left > 0 /\ left' = left - 1 /\ period' = period
      BY <1>0, <1>3, PaceBound DEF RatePasses
    <3> QED
      BY <1>0, <3>1
  <2>2. time' \in Nat /\ late' \in Nat
    <3>1. time' \in {0, time + 1} /\ late' \in {0, late + 1}
      BY <1>3 DEF RatePasses
    <3> QED
      BY <1>0, <3>1
  <2>3. /\ final' \in {final, [today |-> final.tomorrow, tomorrow |-> FALSE]}
        /\ rates' \in {rates, [today |-> rates.tomorrow, tomorrow |-> "none"],
                       [today |-> "past", tomorrow |-> "none"]}
        /\ table' \in {table, [today |-> table.tomorrow, tomorrow |-> "none"]}
    BY <1>3 DEF RatePasses, Shift, Outdated
  <2>4. final' \in [today : BOOLEAN, tomorrow : BOOLEAN]
    <3>1. CASE final' = final
      BY <1>0, <3>1
    <3>2. CASE final' = [today |-> final.tomorrow, tomorrow |-> FALSE]
      <4>1. final.tomorrow \in BOOLEAN
        BY <1>0
      <4> QED
        BY <3>2, <4>1
    <3> QED
      BY <2>3, <3>1, <3>2
  <2>5. rates' \in Known /\ table' \in Known
    BY <1>0, <2>3 DEF Known, Price
  <2>6. UNCHANGED <<token, settled, missed, starts>>
    BY <1>3 DEF RatePasses
  <2> QED
    BY <1>0, <2>1, <2>2, <2>4, <2>5, <2>6 DEF RateTypeOK, Known, Paces
<1>4. CASE Refresh
  <2>1. fetchAndStore
    BY <1>4 DEF Refresh
  <2>2. rates' \in Known /\ table' \in Known /\ late' \in Nat /\ missed' \in Nat
    BY <1>0, <2>1, FetchFacts
  <2>3. UNCHANGED <<time, final, token, starts>>
    BY <1>4 DEF Refresh
  <2> QED
    BY <1>4, <2>2, <2>3, RefreshFacts DEF RateTypeOK, Known, Paces
<1>5. CASE RateRestart
  <2>1. rates' \in Known /\ table' \in Known
    BY <1>0, <1>5, FetchFacts DEF RateRestart, fetchAndStore
  <2>2. late' \in Nat /\ missed' \in Nat
    BY <1>0, <1>5, FetchFacts DEF RateRestart, fetchAndStore
  <2>3. left' \in 0 .. period' /\ period' \in Paces
    BY <1>5, PaceBound DEF RateRestart, Paces
  <2>4. starts' \in Nat
    BY <1>0, <1>5 DEF RateRestart
  <2>5. settled' \in BOOLEAN /\ UNCHANGED <<time, final, token>>
    BY <1>5 DEF RateRestart
  <2>6. token \in BOOLEAN
    BY DEF RateTypeOK
  <2> QED
    BY <1>0, <2>1, <2>2, <2>3, <2>4, <2>5, <2>6 DEF RateTypeOK, Known, Paces
<1>6. CASE UNCHANGED rateVars
  BY <1>6 DEF rateVars, RateTypeOK
<1> QED
  BY <1>1, <1>2, <1>3, <1>4, <1>5, <1>6 DEF RateNext

LEMMA RateInitTypes == RateInit => RateTypeOK
<1> SUFFICES ASSUME RateInit PROVE RateTypeOK
  OBVIOUS
<1>1. final \in [today : BOOLEAN, tomorrow : BOOLEAN]
  BY DEF RateInit
<1>2. Answer \in Known
  BY DEF Answer, Known, Price
<1>3. rates \in Known
  BY <1>2, NothingType DEF RateInit
<1>4. table \in Known
  BY <1>3, NothingType DEF RateInit
<1>5. left \in 0 .. period /\ period \in Paces
  BY PaceBound DEF RateInit, Paces
<1> QED
  BY <1>1, <1>3, <1>4, <1>5 DEF RateInit, RateTypeOK, Known, Paces

\* The ticker never waits longer than its period, and prices are none, past, a
\* forecast or real (refreshLoop, filterPlaceholders).
THEOREM RateTypeCorrect == RateSpec => []RateTypeOK
<1>1. RateTypeOK /\ [RateNext]_rateVars => RateTypeOK'
  BY RateTypeStep
<1> QED
  BY <1>1, RateInitTypes, PTL DEF RateSpec

-----------------------------------------------------------------------------
(* How late the prices may be.                                              *)

Granted(n) == Hourly * (n + 1)

LEMMA GrantedFacts ==
  ASSUME NEW n \in Nat
  PROVE  /\ Granted(n) \in Nat /\ Hourly <= Granted(n)
         /\ Granted(n + 1) = Granted(n) + Hourly
<1>1. Hourly * n \in Nat /\ Hourly * (n + 1) = Hourly * n + Hourly
  BY PaceFacts
<1>2. Hourly * ((n + 1) + 1) = Hourly * (n + 1) + Hourly
  BY PaceFacts
<1> QED
  BY <1>1, <1>2, PaceFacts DEF Granted

\* What the ticker still waits is part of what is granted; without a token
\* nothing is late.
OnTime == late + left <= Granted(missed) /\ (~token => late = 0)

LEMMA OnTimeStep ==
  ASSUME RateTypeOK, OnTime, [RateNext]_rateVars PROVE OnTime'
<1>0. /\ late \in Nat /\ missed \in Nat /\ period \in Paces /\ left \in 0 .. period
      /\ token \in BOOLEAN
  BY DEF RateTypeOK, Paces
<1>a. left \in Nat /\ left <= Hourly /\ Hourly \in Nat
  BY <1>0, PaceBound, PaceFacts
<1>b. /\ Granted(missed) \in Nat /\ Hourly <= Granted(missed)
      /\ Granted(missed + 1) = Granted(missed) + Hourly
  BY <1>0, GrantedFacts
\* A fetch, and a ticker that starts again at a pace of at most an hour.
<1>1. ASSUME NEW p \in Paces, left' = p, token' = token,
             \/ late' = 0 /\ missed' = missed
             \/ late' = late /\ missed' = missed /\ ~token
             \/ late' = late /\ missed' = missed + 1
      PROVE  OnTime'
  <2>1. p \in Nat /\ p <= Hourly
    BY PaceBound
  <2>2. late <= Granted(missed)
    BY <1>0, <1>a, <1>b DEF OnTime
  <2>3. CASE late' = 0 /\ missed' = missed
    <3>1. Granted(missed') = Granted(missed)
      BY <2>3
    <3> QED
      BY <1>1, <1>a, <1>b, <2>1, <2>3, <3>1 DEF OnTime
  <2>4. CASE late' = late /\ missed' = missed /\ ~token
    <3>1. Granted(missed') = Granted(missed) /\ late = 0
      BY <2>4 DEF OnTime
    <3> QED
      BY <1>1, <1>a, <1>b, <2>1, <2>4, <3>1 DEF OnTime
  <2>5. CASE late' = late /\ missed' = missed + 1
    <3>1. Granted(missed') = Granted(missed) + Hourly
      BY <1>b, <2>5
    <3>2. late' + left' <= Granted(missed')
      BY <1>0, <1>1, <1>a, <1>b, <2>1, <2>2, <2>5, <3>1
    <3> QED
      BY <1>1, <2>5, <3>2 DEF OnTime
  <2> QED
    BY <1>1, <2>3, <2>4, <2>5
<1>2. CASE Publish \/ UNCHANGED rateVars
  <2>1. UNCHANGED <<late, left, missed, token>>
    BY <1>2 DEF Publish, rateVars
  <2> QED
    BY <2>1 DEF OnTime, Granted
<1>3. CASE SetToken
  <2>1. late' = 0 /\ token' = TRUE /\ UNCHANGED <<left, missed>>
    BY <1>3 DEF SetToken
  <2>2. Granted(missed') = Granted(missed)
    BY <2>1
  <2> QED
    BY <1>a, <1>b, <2>1, <2>2 DEF OnTime
<1>4. CASE RatePasses
  <2>1. /\ left > 0 /\ left' = left - 1 /\ UNCHANGED <<missed, token>>
        /\ late' = IF token /\ Behind(final, rates) THEN late + 1 ELSE 0
    BY <1>4 DEF RatePasses
  <2>2. Granted(missed') = Granted(missed)
    BY <2>1
  <2> QED
    BY <1>0, <1>a, <1>b, <2>1, <2>2 DEF OnTime
<1>5. CASE Refresh
  <2>1. fetchAndStore /\ left' = period' /\ token' = token
    BY <1>5 DEF Refresh
  <2> QED
    BY <1>1, <1>5, <2>1, FetchFacts, RefreshFacts
<1>6. CASE RateRestart
  <2>1. left' = Quick /\ Quick \in Paces /\ token' = token
    BY <1>6 DEF RateRestart, Paces
  <2>2. \/ late' = 0 /\ missed' = missed
        \/ late' = late /\ missed' = missed /\ ~token
        \/ late' = late /\ missed' = missed + 1
    BY <1>6, FetchFacts DEF RateRestart, fetchAndStore
  <2> QED
    BY <1>1, <2>1, <2>2
<1> QED
  BY <1>2, <1>3, <1>4, <1>5, <1>6 DEF RateNext

\* Whenever prices are published, whatever the ticker's pace, the day or a
\* restart do then, the program has them within an hour, or one more for every
\* failed fetch (refreshLoop).
THEOREM PricesAreFollowed == RateSpec => []PricesFollow
<1>1. RateInit => OnTime
  <2> SUFFICES ASSUME RateInit PROVE OnTime
    OBVIOUS
  <2>1. late = 0 /\ left = Quick /\ missed = 0
    BY DEF RateInit
  <2>2. Granted(0) \in Nat /\ Hourly <= Granted(0)
    BY GrantedFacts
  <2> QED
    BY <2>1, <2>2, PaceFacts DEF OnTime
<1>2. RateTypeOK /\ OnTime => PricesFollow
  <2> SUFFICES ASSUME RateTypeOK, OnTime PROVE PricesFollow
    OBVIOUS
  <2>1. late \in Nat /\ missed \in Nat /\ period \in Paces /\ left \in 0 .. period
    BY DEF RateTypeOK, Paces
  <2>2. left \in Nat /\ Granted(missed) \in Nat
    BY <2>1, PaceBound, GrantedFacts
  <2>3. late <= Granted(missed)
    BY <2>1, <2>2 DEF OnTime
  <2> QED
    BY <2>3 DEF PricesFollow, Granted
<1>3. RateTypeOK /\ OnTime /\ [RateNext]_rateVars => OnTime'
  BY OnTimeStep
<1> QED
  BY <1>1, <1>2, <1>3, RateTypeCorrect, PTL DEF RateSpec

-----------------------------------------------------------------------------
(* RenaultPoll, for every length of the intervals and every number of plug   *)
(* movements, failures and restarts: the variables keep their types, the     *)
(* stored plug state follows Kamereon's within the longer interval, and a    *)
(* socket transition is polled within plugPollDelay.                         *)

LEMMA PeriodFacts ==
  /\ Delay \in Nat /\ Fast \in Nat /\ Slow \in Nat /\ Tier \in Nat
  /\ Day \in Nat /\ Retry \in Nat /\ Retry <= Day
  /\ Longest \in Nat /\ Fast <= Longest /\ Slow <= Longest
  BY PeriodAssumption DEF PeriodAssumption, Longest

LEMMA IntervalType == \A b \in BOOLEAN : Interval(b) \in 0 .. Longest
  BY PeriodFacts DEF Interval

-----------------------------------------------------------------------------
(* Types.                                                                   *)

LEMMA WorldTypes ==
  ASSUME PollTypeOK, Move \/ ApiSettles \/ Trigger \/ Configure \/ Unconfigured
  PROVE  PollTypeOK'
<1> USE DEF plugs, chans, timers, loopVars, pollBudgets, PollTypeOK
<1>1. CASE Move
  BY <1>1 DEF Move
<1>2. CASE ApiSettles
  BY <1>2 DEF ApiSettles
<1>3. CASE Trigger
  BY <1>3 DEF Trigger
<1>4. CASE Configure
  BY <1>4 DEF Configure
<1>5. CASE Unconfigured
  BY <1>5 DEF Unconfigured
<1> QED
  BY <1>1, <1>2, <1>3, <1>4, <1>5

LEMMA TickTypes == ASSUME PollTypeOK, Tick PROVE PollTypeOK'
<1>1. /\ nextLeft \in 0 .. Longest /\ plugLeft \in {None} \union 0 .. Delay
      /\ tierLeft \in 0 .. Tier /\ detailsLeft \in 0 .. Day
      /\ stale \in Nat /\ owed \in {None} \union Nat
  BY DEF PollTypeOK
<1>2. nextLeft' \in 0 .. Longest /\ tierLeft' \in 0 .. Tier /\ detailsLeft' \in 0 .. Day
  BY <1>1, PeriodFacts DEF Tick, Down
<1>3. plugLeft' \in {None} \union 0 .. Delay
  BY <1>1, PeriodFacts DEF Tick, Down, None
<1>4. stale' \in Nat /\ owed' \in {None} \union Nat
  BY <1>1 DEF Tick, None
<1> QED
  BY <1>2, <1>3, <1>4 DEF Tick, PollTypeOK, plugs, chans, loopVars, pollBudgets

LEMMA WakeTypes ==
  ASSUME PollTypeOK, TakeTrigger \/ TakePlugEvent \/ TimerFires PROVE PollTypeOK'
<1> USE DEF plugs, timers, loopVars, pollBudgets, PollTypeOK
<1>1. CASE TakeTrigger
  BY <1>1 DEF TakeTrigger, StartPoll
<1>2. CASE TakePlugEvent
  <2>1. Delay \in 0 .. Delay
    BY PeriodFacts
  <2>2. plugLeft' \in {None} \union 0 .. Delay
    BY <1>2, <2>1 DEF TakePlugEvent
  <2> QED
    BY <1>2, <2>2 DEF TakePlugEvent
<1>3. CASE TimerFires
  BY <1>3 DEF TimerFires, StartPoll
<1> QED
  BY <1>1, <1>2, <1>3

\* What the end of a poll leaves in the timers and in the loop's variables.
LEMMA EndPollFacts ==
  ASSUME PollTypeOK, NEW ok \in BOOLEAN, NEW plugged \in BOOLEAN, EndPoll(ok, plugged)
  PROVE  /\ at' = "wait" /\ second' = FALSE /\ tier' = FALSE
         /\ lastPlugged' \in BOOLEAN /\ tierLeft' \in 0 .. Tier /\ plugLeft' = None
         /\ nextLeft' \in 0 .. Longest
         /\ owed' = IF plugEvent THEN owed ELSE None
<1>1. lastPlugged \in BOOLEAN /\ tierLeft \in 0 .. Tier
  BY DEF PollTypeOK
<1>2. Tier \in 0 .. Tier
  BY PeriodFacts
<1>3. nextLeft' \in 0 .. Longest
  BY <1>1, IntervalType DEF EndPoll
<1> QED
  BY <1>1, <1>2, <1>3 DEF EndPoll

LEMMA PollTypes ==
  ASSUME PollTypeOK, AuthDone \/ AuthFails \/ BatteryRead \/ BatteryFails \/ Details \/ PollDone
  PROVE  PollTypeOK'
<1> USE DEF plugs, chans, pollBudgets
<1>1. CASE AuthDone
  BY <1>1 DEF AuthDone, PollTypeOK, timers
<1>2. CASE BatteryRead
  BY <1>2 DEF BatteryRead, PollTypeOK, timers
<1>3. CASE AuthFails \/ (BatteryFails /\ second)
  <2>1. FailPoll /\ Miss
    BY <1>3 DEF AuthFails, BatteryFails
  <2>2. EndPoll(FALSE, FALSE)
    BY <2>1 DEF FailPoll
  <2>3. owed' \in {None} \union Nat
    BY <2>2, EndPollFacts DEF PollTypeOK
  <2>4. misses' \in Nat /\ UNCHANGED <<moves, stops>>
    BY <2>1 DEF Miss, PollTypeOK
  <2> QED
    BY <2>1, <2>2, <2>3, <2>4, EndPollFacts DEF FailPoll, PollTypeOK
<1>4. CASE BatteryFails /\ ~second
  BY <1>4 DEF BatteryFails, Miss, PollTypeOK, timers
<1>5. CASE Details
  <2>1. detailsLeft' \in 0 .. Day
    BY <1>5, PeriodFacts DEF Details, PollTypeOK
  <2> QED
    BY <1>5, <2>1 DEF Details, PollTypeOK
<1>6. CASE PollDone
  <2>1. EndPoll(TRUE, stored) /\ stored \in BOOLEAN
    BY <1>6 DEF PollDone, PollTypeOK
  <2>2. owed' \in {None} \union Nat
    BY <2>1, EndPollFacts DEF PollTypeOK
  <2> QED
    BY <1>6, <2>1, <2>2, EndPollFacts DEF PollDone, PollTypeOK
<1> QED
  BY <1>1, <1>2, <1>3, <1>4, <1>5, <1>6

LEMMA PollRestartTypes == ASSUME PollTypeOK, PollRestart PROVE PollTypeOK'
<1>1. 0 \in 0 .. Longest /\ 0 \in 0 .. Tier
  BY PeriodFacts
<1>2. owed' \in {None} \union Nat /\ stops' \in Nat
  BY DEF PollRestart, PollTypeOK
<1> QED
  BY <1>1, <1>2 DEF PollRestart, PollTypeOK, plugs

LEMMA PollTypeStep == PollTypeOK /\ [PollNext]_pollVars => PollTypeOK'
<1> SUFFICES ASSUME PollTypeOK, [PollNext]_pollVars PROVE PollTypeOK'
  OBVIOUS
<1>1. CASE UNCHANGED pollVars
  BY <1>1 DEF pollVars, plugs, chans, timers, loopVars, pollBudgets, PollTypeOK
<1> QED
  BY <1>1, WorldTypes, TickTypes, WakeTypes, PollTypes, PollRestartTypes DEF PollNext

LEMMA PollInitTypes == PollInit => PollTypeOK
<1> SUFFICES ASSUME PollInit PROVE PollTypeOK
  OBVIOUS
<1>1. 0 \in 0 .. Longest /\ 0 \in 0 .. Tier /\ 0 \in 0 .. Day
  BY PeriodFacts
<1> QED
  BY <1>1 DEF PollInit, PollTypeOK

\* Every timer stays within its interval (the loop's timers and pollOnce).
THEOREM PollTypeCorrect == PollSpec => []PollTypeOK
  BY PollInitTypes, PollTypeStep, PTL DEF PollSpec

-----------------------------------------------------------------------------
(* How old the stored plug state may be.                                    *)

Allowed(n) == Longest * (n + 1)

LEMMA AllowedFacts ==
  ASSUME NEW n \in Nat
  PROVE  /\ Allowed(n) \in Nat /\ Longest <= Allowed(n)
         /\ Allowed(n + 1) = Allowed(n) + Longest
<1>1. Longest * n \in Nat /\ Longest * (n + 1) = Longest * n + Longest
  BY PeriodFacts
<1>2. Longest * ((n + 1) + 1) = Longest * (n + 1) + Longest
  BY PeriodFacts
<1> QED
  BY <1>1, <1>2, PeriodFacts DEF Allowed

\* While the status is unread, the time to the next poll is part of what is
\* allowed; nothing is unread after a battery status.
Due == /\ stale + nextLeft <= Allowed(misses)
       /\ at \in {"details", "tier"} => stale = 0

LEMMA DueStep ==
  ASSUME PollTypeOK, Due, [PollNext]_pollVars PROVE Due'
<1> USE DEF plugs, chans, timers, loopVars, pollBudgets
<1>0. /\ stale \in Nat /\ nextLeft \in Nat /\ nextLeft <= Longest /\ misses \in Nat
      /\ Longest \in Nat
  BY PeriodFacts DEF PollTypeOK
<1>a. /\ Allowed(misses) \in Nat /\ Longest <= Allowed(misses)
      /\ Allowed(misses + 1) = Allowed(misses) + Longest
  BY <1>0, AllowedFacts
<1>1. ASSUME stale' = 0, nextLeft' = nextLeft, misses' = misses PROVE Due'
  BY <1>0, <1>a, <1>1 DEF Due
<1>2. ASSUME UNCHANGED <<stale, nextLeft, misses, at>> PROVE Due'
  BY <1>2 DEF Due, Allowed
<1>3. CASE Move \/ Trigger \/ Unconfigured \/ TakePlugEvent \/ UNCHANGED pollVars
  BY <1>2, <1>3 DEF Move, Trigger, Unconfigured, TakePlugEvent, pollVars
<1>4. CASE ApiSettles \/ Configure \/ BatteryRead
  BY <1>1, <1>4 DEF ApiSettles, Configure, BatteryRead
<1>5. CASE Tick
  <2>1. CASE configured
    <3>1. nextLeft > 0 /\ at = "wait"
      BY <1>5, <2>1 DEF Tick
    <3>2. nextLeft' = nextLeft - 1 /\ stale' \in {0, stale + 1} /\ UNCHANGED <<misses, at>>
      BY <1>5, <3>1 DEF Tick, Down
    <3>3. Allowed(misses') = Allowed(misses)
      BY <3>2
    <3> QED
      BY <1>0, <1>a, <3>1, <3>2, <3>3 DEF Due
  <2>2. CASE ~configured
    <3>1. stale' = 0 /\ nextLeft' <= nextLeft /\ UNCHANGED <<misses, at>>
      BY <1>0, <1>5, <2>2 DEF Tick, Down
    <3>2. Allowed(misses') = Allowed(misses) /\ nextLeft' \in Nat
      BY <1>0, <1>5, <3>1 DEF Tick, Down
    <3> QED
      BY <1>0, <1>a, <3>1, <3>2 DEF Due
  <2> QED
    BY <2>1, <2>2 DEF PollTypeOK
<1>6. CASE TakeTrigger \/ TimerFires
  <2>1. at' = "auth" /\ UNCHANGED <<stale, nextLeft, misses>>
    BY <1>6 DEF TakeTrigger, TimerFires, StartPoll
  <2>2. Allowed(misses') = Allowed(misses)
    BY <2>1
  <2> QED
    BY <2>1, <2>2 DEF Due
<1>7. CASE AuthDone \/ Details
  <2>1. UNCHANGED <<stale, nextLeft, misses>>
    BY <1>7 DEF AuthDone, Details
  <2>2. at' \in {"details", "tier"} => stale = 0
    BY <1>7 DEF AuthDone, Details, Due
  <2>3. Allowed(misses') = Allowed(misses)
    BY <2>1
  <2> QED
    BY <2>1, <2>2, <2>3 DEF Due
<1>8. CASE AuthFails \/ (BatteryFails /\ second)
  <2>1. FailPoll /\ misses' = misses + 1
    BY <1>8 DEF AuthFails, BatteryFails, Miss
  <2>2. EndPoll(FALSE, FALSE) /\ stale' = stale
    BY <2>1 DEF FailPoll
  <2>3. at' = "wait" /\ nextLeft' \in 0 .. Longest
    BY <2>2, EndPollFacts
  <2>4. Allowed(misses') = Allowed(misses) + Longest
    BY <1>a, <2>1
  <2> QED
    BY <1>0, <1>a, <2>2, <2>3, <2>4 DEF Due
<1>9. CASE BatteryFails /\ ~second
  <2>1. at' = "auth" /\ misses' = misses + 1 /\ UNCHANGED <<stale, nextLeft>>
    BY <1>9 DEF BatteryFails, Miss
  <2>2. Allowed(misses') = Allowed(misses) + Longest
    BY <1>a, <2>1
  <2> QED
    BY <1>0, <1>a, <2>1, <2>2 DEF Due
<1>10. CASE PollDone
  <2>1. EndPoll(TRUE, stored) /\ stored \in BOOLEAN /\ stale = 0 /\ UNCHANGED <<stale, misses>>
    BY <1>10 DEF PollDone, PollTypeOK, Due
  <2>2. at' = "wait" /\ nextLeft' \in 0 .. Longest
    BY <2>1, EndPollFacts
  <2>3. Allowed(misses') = Allowed(misses)
    BY <2>1
  <2> QED
    BY <1>0, <1>a, <2>1, <2>2, <2>3 DEF Due
<1>11. CASE PollRestart
  <2>1. nextLeft' = 0 /\ at' = "wait" /\ UNCHANGED <<stale, misses>>
    BY <1>11 DEF PollRestart
  <2>2. Allowed(misses') = Allowed(misses)
    BY <2>1
  <2> QED
    BY <1>0, <1>a, <2>1, <2>2 DEF Due
<1> QED
  BY <1>3, <1>4, <1>5, <1>6, <1>7, <1>8, <1>9, <1>10, <1>11 DEF PollNext, PollTypeOK

\* Whatever transitions, triggers, failures and restarts do to the timers, the
\* settings show a plug state one interval after Kamereon does, the longer of the
\* two that the user has chosen, or one more for every failed call (loop:
\* nextPollDue).
THEOREM PlugStateIsFollowed == PollSpec => []PlugStateFollows
<1>1. PollInit => Due
  <2> SUFFICES ASSUME PollInit PROVE Due
    OBVIOUS
  <2>1. stale = 0 /\ nextLeft = 0 /\ misses = 0 /\ at = "wait"
    BY DEF PollInit
  <2>2. Allowed(0) \in Nat
    BY AllowedFacts
  <2> QED
    BY <2>1, <2>2 DEF Due
<1>2. PollTypeOK /\ Due => PlugStateFollows
  <2> SUFFICES ASSUME PollTypeOK, Due PROVE PlugStateFollows
    OBVIOUS
  <2>1. stale \in Nat /\ nextLeft \in Nat /\ misses \in Nat
    BY PeriodFacts DEF PollTypeOK
  <2>2. Allowed(misses) \in Nat
    BY <2>1, AllowedFacts
  <2>3. stale <= Allowed(misses)
    BY <2>1, <2>2 DEF Due
  <2> QED
    BY <2>3 DEF PlugStateFollows, Allowed
<1>3. PollTypeOK /\ Due /\ [PollNext]_pollVars => Due'
  BY DueStep
<1> QED
  BY <1>1, <1>2, <1>3, PollTypeCorrect, PTL DEF PollSpec

-----------------------------------------------------------------------------
(* When a transition is polled.                                             *)

\* A transition that waits for its poll is still in the channel, or a poll is
\* due or under way, or plugPollAt is set and near enough.
Waiting ==
  owed # None =>
    /\ configured
    /\ plugEvent => owed = 0
    /\ \/ owed = 0 /\ (plugEvent \/ nextLeft = 0 \/ at # "wait")
       \/ plugLeft >= 0 /\ owed + plugLeft <= Delay

LEMMA WaitingStep ==
  ASSUME PollTypeOK, Waiting, [PollNext]_pollVars PROVE Waiting'
<1> USE DEF plugs, chans, timers, loopVars, pollBudgets
<1>0. /\ owed \in {-1} \union Nat /\ plugLeft \in {-1} \union Nat /\ nextLeft \in Nat
      /\ Delay \in Nat /\ configured \in BOOLEAN /\ plugEvent \in BOOLEAN
  BY PeriodFacts DEF PollTypeOK, None
<1>1. CASE Move
  BY <1>0, <1>1 DEF Move, Waiting, None
<1>2. CASE ApiSettles \/ Trigger \/ Configure \/ UNCHANGED pollVars
  BY <1>2 DEF ApiSettles, Trigger, Configure, pollVars, Waiting
<1>3. CASE Unconfigured
  BY <1>3 DEF Unconfigured, Waiting
<1>4. CASE Tick
  <2>1. CASE owed = None
    BY <1>4, <2>1 DEF Tick, Waiting
  <2>2. CASE owed # None
    <3>1. configured /\ ~plugEvent /\ nextLeft > 0 /\ plugLeft # 0 /\ at = "wait"
      BY <1>4, <2>2 DEF Tick, Waiting
    <3>2. plugLeft > 0 /\ owed + plugLeft <= Delay
      BY <1>0, <2>2, <3>1 DEF Waiting
    <3>3. plugLeft' = plugLeft - 1 /\ owed' = owed + 1 /\ UNCHANGED <<configured, plugEvent>>
      BY <1>4, <2>2, <3>2 DEF Tick, Down
    <3> QED
      BY <1>0, <2>2, <3>1, <3>2, <3>3 DEF Waiting, None
  <2> QED
    BY <2>1, <2>2
<1>5. CASE TakeTrigger \/ TimerFires
  BY <1>0, <1>5 DEF TakeTrigger, TimerFires, StartPoll, Waiting
<1>6. CASE TakePlugEvent
  BY <1>0, <1>6 DEF TakePlugEvent, Waiting
<1>7. CASE AuthDone \/ BatteryRead \/ Details
  BY <1>7 DEF AuthDone, BatteryRead, Details, Waiting
<1>8. CASE BatteryFails /\ ~second
  BY <1>8 DEF BatteryFails, Waiting
<1>9. CASE AuthFails \/ (BatteryFails /\ second) \/ PollDone
  <2>1. /\ owed' = IF plugEvent THEN owed ELSE None
        /\ UNCHANGED <<configured, plugEvent>>
    BY <1>9 DEF AuthFails, BatteryFails, FailPoll, PollDone, EndPoll
  <2> QED
    BY <2>1 DEF Waiting
<1>10. CASE PollRestart
  BY <1>10 DEF PollRestart, Waiting
<1> QED
  BY <1>1, <1>2, <1>3, <1>4, <1>5, <1>6, <1>7, <1>8, <1>9, <1>10 DEF PollNext, PollTypeOK

\* No poll, trigger or restart in between lets a socket transition wait longer
\* than plugPollDelay for its poll (loop: plugPollAt).
THEOREM TransitionIsPolled == PollSpec => []TransitionPolled
<1>1. PollInit => Waiting
  BY DEF PollInit, Waiting
<1>2. PollTypeOK /\ Waiting => TransitionPolled
  <2> SUFFICES ASSUME PollTypeOK, Waiting PROVE TransitionPolled
    OBVIOUS
  <2>1. owed \in {-1} \union Nat /\ plugLeft \in {-1} \union Nat /\ Delay \in Nat
    BY PeriodFacts DEF PollTypeOK, None
  <2> QED
    BY <2>1 DEF Waiting, TransitionPolled, None
<1>3. PollTypeOK /\ Waiting /\ [PollNext]_pollVars => Waiting'
  BY WaitingStep
<1> QED
  BY <1>1, <1>2, <1>3, PollTypeCorrect, PTL DEF PollSpec

-----------------------------------------------------------------------------
(* StatusCheck, for every threshold, number of connectors and order of       *)
(* notifications, connections and changes of the setting.                    *)

LEMMA StatusFacts ==
  /\ Thresholds \subseteq Nat /\ IdleInterval \in Nat /\ Old \in Nat
  /\ \A t \in Thresholds : t < Old
  BY StatusAssumption DEF StatusAssumption

\* < on the natural numbers as a relation.
Less == {ss \in Nat \X Nat : ss[1] < ss[2]}

\* A bounded set of natural numbers has a greatest element, because < is well
\* founded on what is left to the bound; Max returns it.
LEMMA MaxOfBounded ==
  ASSUME NEW S, S \subseteq Nat, S # {}, NEW bound \in Nat, \A x \in S : x <= bound
  PROVE  Max(S) \in S /\ \A x \in S : x <= Max(S)
<1> DEFINE Left == {bound - x : x \in S}
<1>1. Left \subseteq Nat /\ Left # {}
  <2>1. ASSUME NEW x \in S PROVE bound - x \in Nat
    <3>1. x \in Nat /\ x <= bound
      OBVIOUS
    <3> QED
      BY <3>1
  <2> QED
    BY <2>1
<1>2. \E m \in Left : \A y \in Left : ~(<<y, m>> \in Less)
  <2>1. OpToRel(<, Nat) = Less
    BY DEF OpToRel, Less
  <2> HIDE DEF Left
  <2> QED
    BY <1>1, <2>1, NatLessThanWellFounded, WFMin
<1>3. PICK m \in Left : \A y \in Left : ~(<<y, m>> \in Less)
  BY <1>2
<1>4. PICK g \in S : m = bound - g
  BY <1>3
<1>5. ASSUME NEW x \in S PROVE g >= x
  <2>1. bound - x \in Left /\ bound - x \in Nat /\ m \in Nat
    BY <1>1, <1>3
  <2>2. ~(bound - x < m)
    BY <1>3, <2>1 DEF Less
  <2>3. x \in Nat /\ g \in Nat
    OBVIOUS
  <2> QED
    BY <1>4, <2>1, <2>2, <2>3
<1>6. Max(S) \in S /\ \A x \in S : Max(S) >= x
  BY <1>5 DEF Max
<1> QED
  BY <1>6

\* Min of two numbers.
LEMMA MinOfPair ==
  ASSUME NEW a \in Int, NEW b \in Int
  PROVE  Min({a, b}) = IF a <= b THEN a ELSE b
<1>1. \E x \in {a, b} : \A y \in {a, b} : x <= y
  OBVIOUS
<1> DEFINE m == Min({a, b})
<1>2. m \in {a, b} /\ \A y \in {a, b} : m <= y
  BY <1>1 DEF Min
<1> HIDE DEF m
<1>3. m = IF a <= b THEN a ELSE b
  BY <1>2
<1> QED
  BY <1>3 DEF m

\* The longest that the loop sleeps.
LongestSleep == Max({IdleInterval} \cup Thresholds)

\* No sleep is longer.
LEMMA LongestFacts ==
  /\ LongestSleep \in Nat /\ IdleInterval <= LongestSleep
  /\ \A t \in Thresholds : t <= LongestSleep /\ Sleep(t) \in Nat /\ Sleep(t) <= LongestSleep
<1> DEFINE S == {IdleInterval} \cup Thresholds
<1>1. \A x \in S : x <= IdleInterval + Old
  BY StatusFacts
<1>2. Max(S) \in S /\ \A x \in S : x <= Max(S)
  <2>1. S \subseteq Nat /\ S # {} /\ IdleInterval + Old \in Nat
    BY StatusFacts
  <2> HIDE DEF S
  <2> QED
    BY <1>1, <2>1, MaxOfBounded
<1> QED
  BY <1>2, StatusFacts DEF LongestSleep, Sleep

\* Ages and times stay in range.
StatusTypes ==
  /\ threshold \in Thresholds
  /\ asleep \in Nat
  /\ up \in BOOLEAN
  /\ silent \in [DOMAIN silent -> 0 .. Old]
  /\ lastFire \in 0 .. Old
  /\ unasked \in Nat

\* The wait for a trigger.  Either it began within the sleep under way, or the
\* loop has come round since with this threshold, and then it found the
\* cooldown running, or every connector fresh.
Awaited ==
  \/ unasked + asleep <= LongestSleep
  \/ /\ asleep <= threshold
     /\ lastFire + asleep >= threshold
     /\ \/ unasked + asleep <= LongestSleep + threshold
        \/ DOMAIN silent # {} /\ \A c \in DOMAIN silent : silent[c] + asleep <= 2 * threshold

StatusInv ==
  /\ StatusTypes
  /\ asleep <= LongestSleep
  /\ threshold > 0 /\ up => Awaited

\* An age grows by a minute or is Old.
LEMMA OlderFacts ==
  ASSUME NEW age \in 0 .. Old
  PROVE  Older(age) \in 0 .. Old /\ Older(age) <= age + 1 /\ (Older(age) = age + 1 \/ Older(age) = Old)
<1>1. Old \in Int /\ age + 1 \in Int /\ 0 <= age /\ age <= Old
  BY StatusFacts
<1>2. Min({Old, age + 1}) = IF Old <= age + 1 THEN Old ELSE age + 1
  <2> DEFINE b == age + 1
  <2>1. b \in Int
    BY <1>1
  <2> HIDE DEF b
  <2>2. Min({Old, b}) = IF Old <= b THEN Old ELSE b
    BY <1>1, <2>1, MinOfPair
  <2> QED
    BY <2>2 DEF b
<1> QED
  BY <1>1, <1>2 DEF Older

\* tick keeps the invariant: a trigger ends the wait, a cooldown that held it back
\* ends within the next sleep, and no stale connector means none was silent long.
LEMMA CheckStep == ASSUME StatusInv, Check PROVE StatusInv'
<1>0. /\ threshold \in Thresholds /\ threshold \in Nat /\ lastFire \in Int /\ unasked \in Nat
      /\ LongestSleep \in Nat /\ threshold <= LongestSleep
      /\ asleep = 0 /\ asleep' = Sleep(threshold) /\ Sleep(threshold) \in Nat /\ Sleep(threshold) <= LongestSleep
      /\ threshold > 0 => Sleep(threshold) = threshold
  BY StatusFacts, LongestFacts DEF StatusInv, StatusTypes, Check, Sleep
<1>1. UNCHANGED <<threshold, up, silent>>
  BY DEF Check
<1>2. PICK unread \in SUBSET DOMAIN silent :
        IF threshold > 0 /\ up /\ Stale(unread) /\ allowFire
        THEN lastFire' = 0 /\ unasked' = 0
        ELSE UNCHANGED <<lastFire, unasked>>
  BY DEF Check
<1>3. StatusTypes'
  BY <1>0, <1>1, <1>2, StatusFacts DEF StatusInv, StatusTypes
<1>4. ASSUME threshold > 0, up PROVE Awaited'
  <2>1. CASE Stale(unread) /\ allowFire
    BY <1>0, <1>1, <1>2, <1>4, <2>1 DEF Awaited
  <2>2. CASE ~allowFire
    <3>1. lastFire < threshold /\ lastFire' = lastFire /\ unasked' = unasked
      BY <1>0, <1>2, <2>2 DEF allowFire
    <3>2. unasked <= LongestSleep
      BY <1>0, <1>4, <3>1 DEF StatusInv, Awaited
    <3> QED
      BY <1>0, <1>1, <1>4, <3>1, <3>2 DEF Awaited, StatusInv, StatusTypes
  <2>3. CASE ~Stale(unread) /\ allowFire
    <3>1. lastFire' = lastFire /\ unasked' = unasked /\ lastFire >= 0
      BY <1>2, <2>3 DEF StatusInv, StatusTypes
    <3>2. DOMAIN silent # {} /\ \A c \in DOMAIN silent : ~(silent[c] > threshold)
      BY <2>3 DEF Stale
    <3>3. \A c \in DOMAIN silent : silent[c] \in Int
      BY DEF StatusInv, StatusTypes
    <3>4. \A c \in DOMAIN silent : silent[c] + threshold <= 2 * threshold
      BY <1>0, <3>2, <3>3
    <3> QED
      BY <1>0, <1>1, <1>4, <3>1, <3>2, <3>4 DEF Awaited
  <2> QED
    BY <2>1, <2>2, <2>3
<1> QED
  BY <1>0, <1>1, <1>3, <1>4 DEF StatusInv

\* A time that grows by at most a minute, and the sleep that loses one.
LEMMA SleepShift ==
  \A sleep, wait, later, most \in Int :
    later <= wait + 1 /\ wait + sleep <= most => later + (sleep - 1) <= most
  OBVIOUS

LEMMA CooldownShift ==
  \A sleep, age, older, least \in Int :
    (older = age + 1 \/ older > least) /\ sleep > 0 /\ age + sleep >= least => older + (sleep - 1) >= least
  OBVIOUS

\* What a minute adds to a wait it takes from the sleep.
LEMMA MinuteStep == ASSUME StatusInv, MinutePasses PROVE StatusInv'
<1>0. /\ threshold \in Nat /\ threshold < Old /\ lastFire \in 0 .. Old /\ unasked \in Nat /\ asleep \in Nat
      /\ LongestSleep \in Nat /\ Old \in Nat
      /\ asleep > 0 /\ asleep' = asleep - 1
  BY StatusFacts, LongestFacts DEF StatusInv, StatusTypes, MinutePasses
<1>8. \A c \in DOMAIN silent : silent[c] \in 0 .. Old
  BY DEF StatusInv, StatusTypes
<1>1. UNCHANGED <<threshold, up>>
  BY DEF MinutePasses
<1>2. /\ lastFire' \in 0 .. Old
      /\ lastFire' = lastFire + 1 \/ lastFire' = Old
  BY <1>0, OlderFacts DEF MinutePasses
<1>3. /\ DOMAIN silent' = DOMAIN silent /\ silent' \in [DOMAIN silent' -> 0 .. Old]
      /\ \A c \in DOMAIN silent : silent'[c] \in Int /\ silent'[c] <= silent[c] + 1
  <2>1. silent' = [c \in DOMAIN silent |-> Older(silent[c])]
    BY DEF MinutePasses
  <2>2. \A c \in DOMAIN silent : Older(silent[c]) \in 0 .. Old /\ Older(silent[c]) <= silent[c] + 1
    BY <1>8, OlderFacts
  <2> QED
    BY <1>8, <2>1, <2>2
<1>4. unasked' \in Nat /\ unasked' <= unasked + 1
  <2> DEFINE a == 2 * Old
             b == unasked + 1
  <2>1. a \in Nat /\ b \in Nat
    BY <1>0
  <2>2. unasked' = (IF threshold > 0 /\ up THEN Min({a, b}) ELSE 0)
    BY DEF MinutePasses
  <2> HIDE DEF a, b
  <2>3. Min({a, b}) = IF a <= b THEN a ELSE b
    BY <2>1, MinOfPair
  <2>4. unasked' \in Nat /\ unasked' <= b
    BY <2>1, <2>2, <2>3
  <2> QED
    BY <2>4 DEF b
<1>5. StatusTypes'
  BY <1>0, <1>1, <1>2, <1>3, <1>4 DEF StatusInv, StatusTypes
<1>9. /\ asleep \in Int /\ unasked \in Int /\ lastFire \in Int /\ threshold \in Int /\ LongestSleep \in Int
      /\ asleep' = asleep - 1 /\ unasked' \in Int /\ lastFire' \in Int
  BY <1>0, <1>2, <1>4
<1>6. ASSUME threshold > 0, up PROVE Awaited'
  <2>1. CASE unasked + asleep <= LongestSleep
    <3>1. unasked' + asleep' <= LongestSleep
      BY <1>4, <1>9, <2>1, SleepShift
    <3> QED
      BY <3>1 DEF Awaited
  <2>2. CASE asleep <= threshold /\ lastFire + asleep >= threshold
    <3>1. asleep' <= threshold /\ lastFire' + asleep' >= threshold
      <4>1. lastFire' = lastFire + 1 \/ (lastFire' = Old /\ Old \in Int /\ threshold < Old)
        BY <1>0, <1>2
      <4>2. asleep > 0
        BY <1>0
      <4>3. lastFire' = lastFire + 1 \/ lastFire' > threshold
        BY <1>9, <4>1
      <4>4. lastFire' + (asleep - 1) >= threshold
        BY <1>9, <2>2, <4>2, <4>3, CooldownShift
      <4>5. asleep' <= threshold
        BY <1>9, <2>2
      <4> QED
        BY <1>9, <4>4, <4>5
    <3>2. CASE unasked + asleep <= LongestSleep + threshold
      <4>1. unasked' + asleep' <= LongestSleep + threshold
        <5> DEFINE most == LongestSleep + threshold
        <5>1. most \in Int /\ unasked + asleep <= most
          BY <1>9, <3>2
        <5> HIDE DEF most
        <5>2. unasked' + (asleep - 1) <= most
          BY <1>4, <1>9, <5>1, SleepShift
        <5> QED
          BY <1>9, <5>2 DEF most
      <4> QED
        BY <1>1, <3>1, <4>1 DEF Awaited
    <3>3. CASE DOMAIN silent # {} /\ \A c \in DOMAIN silent : silent[c] + asleep <= 2 * threshold
      <4>1. \A c \in DOMAIN silent : silent'[c] + asleep' <= 2 * threshold
        <5> SUFFICES ASSUME NEW c \in DOMAIN silent PROVE silent'[c] + asleep' <= 2 * threshold
          OBVIOUS
        <5>1. /\ silent[c] \in Int /\ silent'[c] \in Int /\ silent'[c] <= silent[c] + 1
              /\ silent[c] + asleep <= 2 * threshold
          BY <1>3, <1>8, <3>3
        <5> QED
          BY <1>0, <5>1
      <4> QED
        BY <1>1, <1>3, <3>1, <3>3, <4>1 DEF Awaited
    <3>4. CASE ~(unasked + asleep <= LongestSleep + threshold)
               /\ ~(DOMAIN silent # {} /\ \A c \in DOMAIN silent : silent[c] + asleep <= 2 * threshold)
      BY <1>0, <1>4, <1>6, <3>4 DEF StatusInv, Awaited
    <3> QED
      BY <3>2, <3>3, <3>4
  <2> QED
    BY <1>6, <2>1, <2>2 DEF StatusInv, Awaited
<1>7. asleep' <= LongestSleep
  BY <1>0 DEF StatusInv
<1> QED
  BY <1>1, <1>5, <1>6, <1>7 DEF StatusInv

\* A notification only makes a connector younger.
LEMMA NotifiedStep == ASSUME StatusInv, Notified PROVE StatusInv'
<1>0. /\ threshold \in Nat /\ asleep \in Nat /\ Old \in Nat
      /\ \A d \in DOMAIN silent : silent[d] \in 0 .. Old
  BY StatusFacts DEF StatusInv, StatusTypes
<1>1. UNCHANGED <<threshold, asleep, up, lastFire, unasked>>
  BY DEF Notified
<1>2. PICK c \in Connectors : silent' = [d \in DOMAIN silent \cup {c} |-> IF d = c THEN 0 ELSE silent[d]]
  BY DEF Notified
<1>3. /\ DOMAIN silent' = DOMAIN silent \cup {c}
      /\ \A d \in DOMAIN silent' : silent'[d] = 0 \/ (d \in DOMAIN silent /\ silent'[d] = silent[d])
  BY <1>2
<1>4. \A d \in DOMAIN silent' : silent'[d] \in 0 .. Old
  BY <1>0, <1>3
<1>5. silent' \in [DOMAIN silent' -> 0 .. Old]
  <2>1. silent' = [d \in DOMAIN silent' |-> silent'[d]]
    BY <1>2
  <2> QED
    BY <1>4, <2>1
<1>6. ASSUME threshold > 0, up PROVE Awaited'
  <2>1. CASE /\ asleep <= threshold
             /\ DOMAIN silent # {} /\ \A d \in DOMAIN silent : silent[d] + asleep <= 2 * threshold
    <3>1. \A d \in DOMAIN silent' : silent'[d] + asleep <= 2 * threshold
      <4> SUFFICES ASSUME NEW d \in DOMAIN silent' PROVE silent'[d] + asleep <= 2 * threshold
        OBVIOUS
      <4>1. CASE silent'[d] = 0
        BY <1>0, <2>1, <4>1
      <4>2. CASE d \in DOMAIN silent /\ silent'[d] = silent[d]
        BY <2>1, <4>2
      <4> QED
        BY <1>3, <4>1, <4>2
    <3>2. DOMAIN silent' # {}
      BY <1>3
    <3> QED
      BY <1>1, <1>6, <3>1, <3>2 DEF StatusInv, Awaited
  <2> QED
    BY <1>1, <1>6, <2>1 DEF StatusInv, Awaited
<1> QED
  BY <1>1, <1>5, <1>6 DEF StatusInv, StatusTypes

\* A connection, a loss of it and a new setting begin the wait anew.
LEMMA SettingStep == ASSUME StatusInv, Connection \/ SetThreshold PROVE StatusInv'
<1>1. /\ UNCHANGED <<asleep, silent, lastFire>> /\ unasked' = 0
      /\ threshold' \in Thresholds /\ up' \in BOOLEAN
  BY DEF Connection, SetThreshold, StatusInv, StatusTypes
<1>2. Awaited'
  BY <1>1 DEF Awaited, StatusInv, StatusTypes
<1> QED
  BY <1>1, <1>2 DEF StatusInv, StatusTypes

\* The greatest age is one of the ages.
LEMMA MaxSilent ==
  ASSUME StatusTypes, DOMAIN silent # {}
  PROVE  Max(Range(silent)) \in Nat /\ \E c \in DOMAIN silent : Max(Range(silent)) = silent[c]
<1>1. Range(silent) \subseteq 0 .. Old /\ Range(silent) # {} /\ Old \in Nat
  BY StatusFacts DEF StatusTypes, Range
<1>2. Range(silent) \subseteq Nat /\ \A x \in Range(silent) : x <= Old
  BY <1>1
<1>3. Max(Range(silent)) \in Range(silent)
  BY <1>1, <1>2, MaxOfBounded
<1> DEFINE m == Max(Range(silent))
<1> HIDE DEF m
<1>4. m \in Nat /\ \E c \in DOMAIN silent : m = silent[c]
  BY <1>2, <1>3 DEF Range, m
<1> QED
  BY <1>4 DEF m

\* A charger that falls silent, or of which nothing is known, is asked for its
\* status: at the latest within the longest sleep that any setting gives and the
\* threshold in force.  tick compares the silence with the very interval it
\* sleeps and cools down for, and still no interleaving of notifications,
\* reconnects and changes of the setting defers the question further.
THEOREM SilenceAsked == StatusSpec => []SilenceIsAsked
<1>1. StatusInit => StatusInv
  <2> SUFFICES ASSUME StatusInit PROVE StatusInv
    OBVIOUS
  <2>1. threshold \in Thresholds /\ asleep = Sleep(threshold) /\ lastFire = Old /\ unasked = 0 /\ up \in BOOLEAN
    BY DEF StatusInit
  <2>2. silent \in [DOMAIN silent -> 0 .. Old]
    BY StatusFacts DEF StatusInit
  <2> QED
    BY <2>1, <2>2, StatusFacts, LongestFacts DEF StatusInv, StatusTypes, Awaited
<1>2. StatusInv /\ [StatusNext]_statusVars => StatusInv'
  <2> SUFFICES ASSUME StatusInv, [StatusNext]_statusVars PROVE StatusInv'
    OBVIOUS
  <2>1. CASE UNCHANGED statusVars
    BY <2>1 DEF statusVars, StatusInv, StatusTypes, Awaited
  <2> QED
    BY <2>1, CheckStep, MinuteStep, NotifiedStep, SettingStep DEF StatusNext
<1>3. StatusInv => SilenceIsAsked
  <2> SUFFICES ASSUME StatusInv, threshold > 0, up PROVE Unanswered <= LongestSleep + threshold
    BY DEF SilenceIsAsked, LongestSleep
  <2>1. /\ threshold \in Nat /\ LongestSleep \in Nat /\ threshold <= LongestSleep /\ asleep \in Nat /\ unasked \in Nat
        /\ Awaited
    BY StatusFacts, LongestFacts DEF StatusInv, StatusTypes
  <2>2. CASE DOMAIN silent = {}
    <3>1. Unanswered = Min({unasked, unasked})
      BY <2>2 DEF Unanswered
    <3>2. Unanswered = unasked
      BY <2>1, <3>1, MinOfPair
    <3> QED
      BY <2>1, <2>2, <3>2 DEF Awaited
  <2>3. CASE DOMAIN silent # {}
    <3> DEFINE m == Max(Range(silent))
    <3>1. PICK c \in DOMAIN silent : m \in Nat /\ m = silent[c]
      BY <2>3, MaxSilent DEF StatusInv
    <3>2. Unanswered = Min({unasked, m})
      <4>1. {unasked} \cup {m} = {unasked, m}
        OBVIOUS
      <4> QED
        BY <2>3, <4>1 DEF Unanswered
    <3> HIDE DEF m
    <3>3. Unanswered = IF unasked <= m THEN unasked ELSE m
      BY <2>1, <3>1, <3>2, MinOfPair
    <3> QED
      BY <2>1, <3>1, <3>3 DEF Awaited
  <2> QED
    BY <2>2, <2>3
<1> QED
  BY <1>1, <1>2, <1>3, PTL DEF StatusSpec
=============================================================================
