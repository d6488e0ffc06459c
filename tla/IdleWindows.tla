----------------------------- MODULE IdleWindows -----------------------------
(***************************************************************************)
(* What a day cost while no car was charging (internal/store/idle.go and   *)
(* what it calls in pstryk_consumption.go, rates.go and sessions.go).  The *)
(* day is cut at the charging sessions, which may overlap, may have begun  *)
(* the day before and may still be open, and the hourly consumption that   *)
(* falls into the gaps is summed and priced.                               *)
(*                                                                         *)
(* A unit of time is half an hour, so that a gap can begin and end within  *)
(* an hour; a row of consumption is what each half of its hour consumed.   *)
(* The day has rows and prices for its hours and the hour before it.       *)
(***************************************************************************)
EXTENDS Ordering, SequencesExt

CONSTANTS
  DayBegins, DayEnds,   \* the day, in half hours; both full hours
  Uses, Tariffs,       \* what half an hour may consume, what a unit may cost
  MaxSession,          \* sessions that are ever opened
  Scale                \* a multiple of every length of a gap

\* Prices may be negative.
ASSUME IdleAssumption ==
  /\ DayBegins \in Nat /\ DayEnds \in Nat /\ DayEnds % 2 = 0
  /\ Uses \subseteq Nat
  /\ Tariffs \subseteq Int /\ IsFiniteSet(Tariffs)
  /\ Scale \in Nat /\ \A length \in 1 .. DayEnds - DayBegins : Scale % length = 0

VARIABLES
  halfHour,            \* now
  booked,              \* the charging sessions: [from, to], to = Open
  consumed, priced,        \* pstryk_consumption and tariff_rates, by hour
  idleRow              \* the day's row of daily_idle, {} or one record

idleVars == <<halfHour, booked, consumed, priced, idleRow>>

Open == DayEnds + 2
Missing == -1
HourOf(t) == t \div 2
HoursKept == 0 .. HourOf(DayEnds) - 1

IdleInit ==
  /\ halfHour = 0
  /\ booked = {}
  /\ consumed \in [HoursKept -> Uses \cup {Missing}]
  /\ priced \in [HoursKept -> Tariffs]
  /\ idleRow = {}

-----------------------------------------------------------------------------
(* nonChargingWindows.                                                     *)

\* The query, the clipping to the day, and the order by start.
SessionWindows(end) ==
  LET clipped == {[from |-> Max({s.from, DayBegins}), to |-> Min({s.to, end})] :
                    s \in {x \in booked : x.from < end /\ x.to > DayBegins}}
  IN  Ordered({w \in clipped : w.to > w.from},
              LAMBDA v, w : v.from < w.from \/ (v.from = w.from /\ v.to < w.to))

\* A mutant: a window within the last one shortens it.
MergedShorter(ws) ==
  FoldLeft(LAMBDA out, w :
             IF out # <<>> /\ w.from <= Last(out).to
             THEN Append(Front(out), [Last(out) EXCEPT !.to = w.to])
             ELSE Append(out, w),
           <<>>, ws)

\* A window that begins within the last one extends it.
WithWindow(out, w) ==
  IF out # <<>> /\ w.from <= Last(out).to
  THEN Append(Front(out), [Last(out) EXCEPT !.to = Max({@, w.to})])
  ELSE Append(out, w)

mergeWindows(ws) == FoldLeft(WithWindow, <<>>, ws)

\* What the windows leave uncovered, empty gaps dropped.
invertWindows(end, ws) ==
  LET cursor(i) == IF i = 0 THEN DayBegins ELSE ws[i].to
      next(i)   == IF i = Len(ws) THEN end ELSE ws[i + 1].from
  IN  {w \in {[from |-> cursor(i), to |-> next(i)] : i \in 0 .. Len(ws)} : w.to > w.from}

nonChargingWindows(end) == invertWindows(end, mergeWindows(SessionWindows(end)))

-----------------------------------------------------------------------------
(* PstrykEnergyKWh and CalculateSessionCost.                               *)

Overlap(h, w) == Max({0, Min({2 * h + 2, w.to}) - Max({2 * h, w.from})})

\* A row counts in proportion to the part of its hour that lies in the window.
EnergyIn(w) ==
  MapThenSumSet(LAMBDA h : consumed[h] * Overlap(h, w), {h \in HoursKept : consumed[h] # Missing})

\* Energy spread evenly over the window, each part at the price of its hour.
CostOf(w, energy) ==
  MapThenSumSet(LAMBDA h : ((Scale * energy) \div (w.to - w.from)) * Overlap(h, w) * priced[h],
                HoursKept)

-----------------------------------------------------------------------------
DayEndNow == Min({DayEnds, halfHour})

RowsOfDay == {h \in HoursKept : DayBegins <= 2 * h /\ 2 * h < DayEndNow /\ consumed[h] # Missing}

\* RebuildDailyIdle: a day without rows keeps what was written before.
RebuildDailyIdle ==
  /\ DayEndNow > DayBegins
  /\ RowsOfDay # {}
  /\ LET gaps == {w \in nonChargingWindows(DayEndNow) : EnergyIn(w) > 0}
     IN  idleRow' = {[energy |-> MapThenSumSet(EnergyIn, gaps),
                      cost   |-> MapThenSumSet(LAMBDA w : CostOf(w, EnergyIn(w)), gaps)]}
  /\ UNCHANGED <<halfHour, booked, consumed, priced>>

\* Sessions of several connectors overlap; one is never closed if its stop is lost.
SessionOpens ==
  /\ Cardinality(booked) < MaxSession
  /\ halfHour < DayEnds + 1
  /\ booked' = booked \cup {[from |-> halfHour, to |-> Open]}
  /\ UNCHANGED <<halfHour, consumed, priced, idleRow>>

\* The stop may be reported late, for a time in the past.
SessionCloses ==
  /\ \E s \in booked, t \in 1 .. halfHour :
       /\ s.to = Open /\ s.from < t
       /\ booked' = (booked \ {s}) \cup {[s EXCEPT !.to = t]}
  /\ UNCHANGED <<halfHour, consumed, priced, idleRow>>

HalfHourPasses ==
  /\ halfHour < DayEnds + 1
  /\ halfHour' = halfHour + 1
  /\ UNCHANGED <<booked, consumed, priced, idleRow>>

IdleNext == RebuildDailyIdle \/ SessionOpens \/ SessionCloses \/ HalfHourPasses

IdleSpec == IdleInit /\ [][IdleNext]_idleVars

-----------------------------------------------------------------------------
(* Properties.                                                             *)

\* The half hours of the day, so far, in which no session was open.
Uncovered ==
  {t \in DayBegins .. DayEndNow - 1 : ~\E s \in booked : s.from <= t /\ t < s.to}

\* "Idle is the meter delta over time windows where no charging session is
\* active": a rebuilt row has the consumption of every half hour without a
\* session, and of no other, whatever overlaps or straddles the day; and it is
\* priced within the prices of the day.
IdleIsUncovered ==
  [][RebuildDailyIdle =>
       \A r \in idleRow' :
         /\ r.energy = MapThenSumSet(LAMBDA t : consumed[HourOf(t)],
                                     {t \in Uncovered : consumed[HourOf(t)] # Missing})
         /\ r.cost >= Scale * r.energy * Min(Tariffs)
         /\ r.cost <= Scale * r.energy * Max(Tariffs)]_idleVars
=============================================================================
