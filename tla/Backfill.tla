------------------------------ MODULE Backfill ------------------------------
(***************************************************************************)
(* How the hourly consumption reaches the database (the consumption half   *)
(* of internal/tariff/pstryk.go, with internal/store/pstryk_consumption.go *)
(* and the idle rows of store/idle.go).  Two goroutines write the table    *)
(* pstryk_consumption: liveLoop, which fetches today every two minutes,    *)
(* and the backfill cycle, which looks at the newest row to decide how far *)
(* back to fetch, fetches chunk by chunk, and rebuilds the idle row of     *)
(* every day it touched.  Time is counted in hours; fetching takes time,   *)
(* so an hour may end between a request and the write of its answer.       *)
(* Pstryk publishes an hour once it is over, and may revise it later.      *)
(***************************************************************************)
EXTENDS Integers

CONSTANTS Start,       \* the hour the program is first started in
          LastHour,    \* the clock stops there
          DayLength,   \* hours of a day
          Bootstrap,   \* consumptionBootstrap, in hours
          CapHours,    \* consumptionCap
          Chunk,       \* consumptionChunk
          MaxMishap    \* revisions, failed calls and restarts, together

ASSUME HourAssumption ==
  /\ Start \in Nat /\ LastHour \in Nat /\ DayLength \in Nat \ {0}
  /\ Bootstrap \in Nat /\ CapHours \in Nat /\ Chunk \in Nat \ {0}
  /\ Start <= LastHour

VARIABLES
  clock,                  \* the current hour; the hours before it are over
  published,              \* Pstryk's value of every hour: its revision
  rows,                   \* pstryk_consumption
  idleRows,               \* daily_idle: the hours each row counts
  live, liveAnswer,       \* RefreshTodayConsumption
  cycle, fill,            \* fetchConsumptionAndStore, by goroutine
  booted,                 \* refreshLoop has started its first cycle
  mishaps                 \* what the bound counts

liveVars  == <<live, liveAnswer>>
cycleVars == <<cycle, fill, booted>>
fillVars == <<clock, published, rows, idleRows, liveVars, cycleVars, mishaps>>

Hours   == 0 .. LastHour - 1
DaysOf  == {h \div DayLength : h \in Hours}
NoRow   == -1

\* What is known of the hours: a row each, or none.
Rows     == [Hours -> Nat \union {NoRow}]
NoFrames == [h \in Hours |-> NoRow]

Day(h)      == h \div DayLength
DayStart(h) == Day(h) * DayLength
Stored      == {h \in Hours : rows[h] # NoRow}

\* The first cycle after a start runs in a goroutine of its own, the others
\* where the ticker is.
Cycles == {"boot", "tick"}

\* What a cycle keeps: where it began, how far it has come and will go, the
\* frames in hand, the days touched and the idle sum under way.
NoFill == [since |-> 0, from |-> 0, till |-> 0, frames |-> NoFrames,
           affected |-> {}, day |-> 0, counted |-> {}]

Fills == [since : Int, from : Int, till : Int, frames : Rows,
          affected : SUBSET DaysOf, day : DaysOf \union {0}, counted : SUBSET Hours]

FillTypeOK ==
  /\ clock \in 0 .. LastHour /\ published \in [Hours -> Nat]
  /\ rows \in Rows
  /\ idleRows \in [DaysOf -> SUBSET Hours]
  /\ live \in {"wait", "asked"} /\ liveAnswer \in Rows
  /\ cycle \in [Cycles -> {"wait", "fetch", "asked", "sum"}]
  /\ fill \in [Cycles -> Fills] /\ booted \in BOOLEAN
  /\ mishaps \in Nat

FillInit ==
  /\ clock = Start /\ published = [h \in Hours |-> 0]
  /\ rows = [h \in Hours |-> NoRow] /\ idleRows = [d \in DaysOf |-> {}]
  /\ live = "wait" /\ liveAnswer = NoFrames
  /\ cycle = [g \in Cycles |-> "wait"] /\ fill = [g \in Cycles |-> NoFill]
  /\ booted = FALSE
  /\ mishaps = 0

Mishap == mishaps < MaxMishap /\ mishaps' = mishaps + 1

\* A mutant: the first hour of the window is left out.
FramesAfter(a, b) ==
  [h \in Hours |-> IF a < h /\ h < b /\ h < clock THEN published[h] ELSE NoRow]

\* FetchConsumption: the frames of the hours in [a, b) that are over.
Frames(a, b) ==
  [h \in Hours |-> IF a <= h /\ h < b /\ h < clock THEN published[h] ELSE NoRow]

\* A mutant: a stored row is not updated.
InsertOnly(frames) ==
  rows' = [h \in Hours |-> IF rows[h] = NoRow THEN frames[h] ELSE rows[h]]

\* UpsertPstrykConsumption, in one transaction.
Upsert(frames) ==
  rows' = [h \in Hours |-> IF frames[h] # NoRow THEN frames[h] ELSE rows[h]]

-----------------------------------------------------------------------------
(* Pstryk and the clock.                                                    *)

HourEnds ==
  /\ clock < LastHour /\ clock' = clock + 1
  /\ UNCHANGED <<published, rows, idleRows, liveVars, cycleVars, mishaps>>

Revise ==
  /\ Mishap
  /\ \E h \in Hours : h < clock /\ published' = [published EXCEPT ![h] = @ + 1]
  /\ UNCHANGED <<clock, rows, idleRows, liveVars, cycleVars>>

-----------------------------------------------------------------------------
(* RefreshTodayConsumption: from the start of the local day to the end of   *)
(* the current hour.                                                        *)

AskToday ==
  /\ live = "wait" /\ live' = "asked"
  /\ liveAnswer' = Frames(DayStart(clock), clock + 1)
  /\ UNCHANGED <<clock, published, rows, idleRows, cycleVars, mishaps>>

TodayFails ==
  /\ live = "asked" /\ Mishap
  /\ live' = "wait" /\ liveAnswer' = NoFrames
  /\ UNCHANGED <<clock, published, rows, idleRows, cycleVars>>

WriteToday ==
  /\ live = "asked" /\ live' = "wait"
  /\ Upsert(liveAnswer) /\ liveAnswer' = NoFrames
  /\ UNCHANGED <<clock, published, idleRows, cycleVars, mishaps>>

-----------------------------------------------------------------------------
(* fetchConsumptionAndStore.                                                *)

Desired == clock - Bootstrap
Oldest  == CHOOSE h \in Stored : \A i \in Stored : h <= i
Newest  == CHOOSE h \in Stored : \A i \in Stored : i <= h

\* A mutant: the hour after the newest row is the first to be fetched.
AfterNewest == IF Stored # {} /\ Oldest <= Desired THEN Newest + 1 ELSE Desired

\* EarliestPstrykHour is read before LatestPstrykHour, but rows are never
\* deleted, so what it shows still holds then.
Gap == IF Stored # {} /\ Oldest <= Desired THEN Newest ELSE Desired

Since == IF Gap < clock - CapHours THEN clock - CapHours ELSE Gap

Goes(g, l)   == cycle' = [cycle EXCEPT ![g] = l]
EndCycle(g)  == Goes(g, "wait") /\ fill' = [fill EXCEPT ![g] = NoFill]

\* It begins when an hour is over that is not before the newest row; else there
\* is nothing to fetch.
BeginCycle(g) ==
  /\ cycle[g] = "wait" /\ Since < clock /\ Goes(g, "fetch")
  /\ g = "boot" => ~booted
  /\ booted' = (booted \/ g = "boot")
  /\ fill' = [fill EXCEPT ![g] = [NoFill EXCEPT !.since = Since, !.from = Since,
                                               !.till = clock]]
  /\ UNCHANGED <<clock, published, rows, idleRows, liveVars, mishaps>>

Touched(frames) == {h \in Hours : frames[h] # NoRow}

ChunkEnd(f) == IF f.from + Chunk > f.till THEN f.till ELSE f.from + Chunk

AskChunk(g) ==
  /\ cycle[g] = "fetch" /\ fill[g].from < fill[g].till /\ Goes(g, "asked")
  /\ fill' = [fill EXCEPT ![g].frames = Frames(fill[g].from, ChunkEnd(fill[g]))]
  /\ UNCHANGED <<clock, published, rows, idleRows, liveVars, booted, mishaps>>

\* It bails; the next tick starts over.
ChunkFails(g) ==
  /\ cycle[g] = "asked" /\ Mishap /\ EndCycle(g)
  /\ UNCHANGED <<clock, published, rows, idleRows, liveVars, booted>>

WriteChunk(g) ==
  /\ cycle[g] = "asked" /\ Goes(g, "fetch")
  /\ Upsert(fill[g].frames)
  /\ fill' = [fill EXCEPT ![g].frames = NoFrames, ![g].from = ChunkEnd(fill[g]),
                ![g].affected = @ \union {Day(h) : h \in Touched(fill[g].frames)}]
  /\ UNCHANGED <<clock, published, idleRows, liveVars, booted, mishaps>>

\* RebuildDailyIdle of a day that was touched: sum up the rows it has now ...
SumIdle(g) ==
  /\ cycle[g] = "fetch" /\ fill[g].from >= fill[g].till /\ Goes(g, "sum")
  /\ \E d \in fill[g].affected :
       fill' = [fill EXCEPT ![g].affected = @ \ {d}, ![g].day = d,
                            ![g].counted = {h \in Stored : Day(h) = d}]
  /\ UNCHANGED <<clock, published, rows, idleRows, liveVars, booted, mishaps>>

\* ... and upsert the sum.
WriteIdle(g) ==
  /\ cycle[g] = "sum" /\ Goes(g, "fetch")
  /\ idleRows' = [idleRows EXCEPT ![fill[g].day] = fill[g].counted]
  /\ fill' = [fill EXCEPT ![g].day = 0, ![g].counted = {}]
  /\ UNCHANGED <<clock, published, rows, liveVars, booted, mishaps>>

\* An error is logged; the day is not rebuilt.
RebuildFails(g) ==
  /\ cycle[g] = "sum" /\ Mishap /\ Goes(g, "fetch")
  /\ fill' = [fill EXCEPT ![g].day = 0, ![g].counted = {}]
  /\ UNCHANGED <<clock, published, rows, idleRows, liveVars, booted>>

CycleDone(g) ==
  /\ cycle[g] = "fetch" /\ fill[g].from >= fill[g].till /\ fill[g].affected = {}
  /\ EndCycle(g)
  /\ UNCHANGED <<clock, published, rows, idleRows, liveVars, booted, mishaps>>

FillRestart ==
  /\ Mishap
  /\ live' = "wait" /\ liveAnswer' = NoFrames
  /\ cycle' = [g \in Cycles |-> "wait"] /\ fill' = [g \in Cycles |-> NoFill]
  /\ booted' = FALSE
  /\ UNCHANGED <<clock, published, rows, idleRows>>

Live     == TodayFails \/ WriteToday
Cycle(g) == \/ AskChunk(g) \/ ChunkFails(g) \/ WriteChunk(g) \/ SumIdle(g)
            \/ WriteIdle(g) \/ RebuildFails(g) \/ CycleDone(g)

FillNext ==
  \/ HourEnds \/ Revise \/ AskToday \/ Live \/ FillRestart
  \/ \E g \in Cycles : BeginCycle(g) \/ Cycle(g)

FillSpec == FillInit /\ [][FillNext]_fillVars

\* Both tickers keep firing, and a request ends (the client's timeout is 30 s).
FillFairSpec ==
  /\ FillSpec /\ WF_fillVars(AskToday) /\ WF_fillVars(Live)
  /\ WF_fillVars(BeginCycle("tick")) /\ \A g \in Cycles : WF_fillVars(Cycle(g))

-----------------------------------------------------------------------------
(* What the two writers promise together.                                   *)

\* Behind a cycle every hour is stored from where it began to where it has
\* come, whatever chunks the span is cut into and whatever the live loop and
\* the other cycle write meanwhile.
CycleFillsSpan ==
  \A g \in Cycles, h \in Hours :
    fill[g].since <= h /\ h < fill[g].from => rows[h] # NoRow

\* The hours of today that are over keep coming to be stored with the value
\* Pstryk publishes now: a failed fetch, a revision, a restart or an older
\* answer of the other goroutine delays that and no more.
TodayFollows ==
  []<>(\A h \in Hours : Day(h) = Day(clock) /\ h < clock => rows[h] = published[h])

\* The idle row of the newest row's day keeps coming to count all rows of that
\* day, although the live loop adds rows without a rebuild, a rebuild may fail,
\* and of two overlapping ones the one with the older sum may write last.
IdleFollows ==
  []<>(\A h \in Stored : Day(h) = Day(Newest) => h \in idleRows[Day(h)])
=============================================================================
