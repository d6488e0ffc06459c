----------------------------- MODULE RateRefresh -----------------------------
(***************************************************************************)
(* How the prices reach the scheduler (the pricing half of                 *)
(* internal/tariff/pstryk.go, with internal/store/rates.go).  refreshLoop  *)
(* fetches today and tomorrow at a pace it keeps changing: fast until it   *)
(* has prices, then hourly, and faster in the afternoon, when tomorrow's   *)
(* are published.  Until then Pstryk answers with a forecast, which        *)
(* filterPlaceholders drops for tomorrow, and only for tomorrow.  What was *)
(* fetched is stored and loaded again on a restart.  Prices are kept per   *)
(* day: none, a forecast, or the real ones; a fetch takes no time.  (The   *)
(* afternoon is local time, the day UTC: where in the day the afternoon    *)
(* lies is a constant.)                                                    *)
(***************************************************************************)
EXTENDS Naturals

CONSTANTS Quick, Quarter, Hourly,        \* the three periods of the ticker
          DayEnd, Afternoon, Evening,    \* length of a day; 14:00 and 16:00
          MaxFetchMiss, MaxStart              \* fetches that fail; restarts

ASSUME PaceAssumption ==
  /\ Quick \in Nat /\ Quarter \in Nat /\ Hourly \in Nat
  /\ Quick <= Hourly /\ Quarter <= Hourly

VARIABLES
  time,                \* of the day
  final,               \* whose prices are published: [today, tomorrow]
  token,               \* tariff.pstryk_token is set
  rates, table,        \* Pstryk.rates and tariff_rates
  left, period, settled, \* the ticker and refreshLoop's flag
  missed, starts,      \* what the bounds count
  late                 \* history: how long published prices are unknown

rateVars == <<time, final, token, rates, table, left, period, settled, missed,
              starts, late>>

\* Prices of a day that is over are still in memory.
Price == {"none", "past", "forecast", "real"}

RateTypeOK ==
  /\ time \in Nat /\ final \in [today : BOOLEAN, tomorrow : BOOLEAN]
  /\ token \in BOOLEAN
  /\ rates \in [today : Price, tomorrow : Price]
  /\ table \in [today : Price, tomorrow : Price]
  /\ period \in {Quick, Quarter, Hourly} /\ left \in 0 .. period
  /\ settled \in BOOLEAN /\ missed \in Nat /\ starts \in Nat /\ late \in Nat

Nothing == [today |-> "none", tomorrow |-> "none"]

HasRates(r) == r # Nothing

\* Are published prices missing?
Behind(f, r) == (f.today /\ r.today # "real") \/ (f.tomorrow /\ r.tomorrow # "real")

\* A mutant: whatever tomorrow's prices are, they are dropped.
AnswerToday == [today |-> IF final.today THEN "real" ELSE "forecast",
                tomorrow |-> "none"]

\* fetch and filterPlaceholders: what is not published yet is a forecast, which
\* is dropped for tomorrow.
Answer == [today    |-> IF final.today THEN "real" ELSE "forecast",
           tomorrow |-> IF final.tomorrow THEN "real" ELSE "none"]

\* fetchAndStore.  A failed fetch leaves everything as it is; the cache may
\* fail on its own.
FetchOk ==
  /\ token /\ rates' = Answer /\ table' \in {Answer, table}
  /\ late' = (IF Behind(final, rates') THEN late ELSE 0) /\ missed' = missed

FetchFails ==
  /\ \/ ~token /\ missed' = missed
     \/ token /\ missed < MaxFetchMiss /\ missed' = missed + 1
  /\ UNCHANGED <<rates, table, late>>

fetchAndStore == FetchOk \/ FetchFails

\* refreshLoop has fetched once, or tried to.
RateInit ==
  /\ time = 0 /\ final \in [today : BOOLEAN, tomorrow : {FALSE}]
  /\ token \in BOOLEAN
  /\ rates \in {Nothing} \union (IF token THEN {Answer} ELSE {})
  /\ table \in {Nothing, rates}
  /\ left = Quick /\ period = Quick /\ settled = FALSE
  /\ missed = 0 /\ starts = 0 /\ late = 0

-----------------------------------------------------------------------------

Publish ==
  /\ \E d \in {"today", "tomorrow"} : ~final[d] /\ final' = [final EXCEPT ![d] = TRUE]
  /\ final'.tomorrow => final'.today
  /\ UNCHANGED <<time, token, rates, table, left, period, settled, missed, starts,
                 late>>

SetToken ==
  /\ ~token /\ token' = TRUE /\ late' = 0
  /\ UNCHANGED <<time, final, rates, table, left, period, settled, missed, starts>>

Shift(r, blank) == [today |-> r.tomorrow, tomorrow |-> blank]

\* At midnight the memory keeps what it has; LoadRates would leave it out.
Outdated(r) ==
  IF HasRates(r) /\ ~HasRates(Shift(r, "none"))
    THEN [today |-> "past", tomorrow |-> "none"] ELSE Shift(r, "none")

RatePasses ==
  /\ left > 0 /\ left' = left - 1
  /\ IF time + 1 < DayEnd
       THEN time' = time + 1 /\ UNCHANGED <<final, rates, table>>
       ELSE /\ time' = 0 /\ final' = Shift(final, FALSE)
            /\ rates' = Outdated(rates) /\ table' = Shift(table, "none")
  /\ late' = IF token /\ Behind(final, rates) THEN late + 1 ELSE 0
  /\ UNCHANGED <<token, period, settled, missed, starts>>

InWindow == Afternoon <= time /\ time < Evening

\* A tick of refreshLoop: fetch, settle on the hourly pace once there are
\* prices, and leave it again in the afternoon.
Refresh ==
  /\ left = 0 /\ fetchAndStore
  /\ LET calm == settled \/ HasRates(rates')
         pace == IF HasRates(rates') /\ ~settled THEN Hourly ELSE period
     IN IF calm /\ InWindow
          THEN period' = Quarter /\ left' = Quarter /\ settled' = FALSE
          ELSE period' = pace /\ left' = pace /\ settled' = calm
  /\ UNCHANGED <<time, final, token, starts>>

\* NewPstrykWithURL loads the prices that have not ended, and refreshLoop
\* fetches before it starts its ticker.
RateRestart ==
  /\ starts < MaxStart /\ starts' = starts + 1
  /\ \/ FetchOk
     \/ rates' = table /\ UNCHANGED <<table, late>>
        /\ \/ ~token /\ missed' = missed
           \/ token /\ missed < MaxFetchMiss /\ missed' = missed + 1
  /\ period' = Quick /\ left' = Quick /\ settled' = FALSE
  /\ UNCHANGED <<time, final, token>>

RateNext == Publish \/ SetToken \/ RatePasses \/ Refresh \/ RateRestart

RateSpec == RateInit /\ [][RateNext]_rateVars

-----------------------------------------------------------------------------
(* What the pace promises.                                                  *)

\* Once prices are published the program has them at the latest an hour later,
\* plus an hour for every failed fetch, whatever the ticker's pace was when
\* the afternoon began, the day changed, or the process came back.
PricesFollow == late <= Hourly * (missed + 1)
=============================================================================
