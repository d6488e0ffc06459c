------------------------------ MODULE Metering ------------------------------
(***************************************************************************)
(* The poller of the energy meter (internal/meter/meter.go) with the meter *)
(* readings and the daily idle rows it keeps (internal/store/meter.go and  *)
(* idle.go: SnapshotDailyIdle).  A poll adjusts the raw register so that   *)
(* the series survives a counter that starts again at 0, stores a reading  *)
(* once a minute, snapshots the idle energy of yesterday when the day has  *)
(* changed and of today every hour, and purges old readings.  It is cut    *)
(* where the process may die between two writes to the database.  A minute *)
(* or an hour may pass between any two polls, so lastStore and             *)
(* lastSnapshotTime are choices.  Days without a charging session: the     *)
(* windows of idle time are module IdleWindows.                            *)
(***************************************************************************)
EXTENDS Integers, FiniteSets

CONSTANTS Threshold,     \* meterResetThresholdWh
          Registers,     \* what the register may show at first
          MaxUse,        \* how much energy is consumed
          MaxDay,        \* the last day
          MaxTrouble     \* counter resets, missing values, writes that fail,
                         \* and restarts, together

ASSUME ThresholdAssumption == Threshold \in Nat /\ MaxDay \in Nat
ASSUME RegistersAssumption == Registers \subseteq Nat

VARIABLES
  raw,                                 \* the meter's register
  day,                                 \* today
  offset, lastEffective, inited,       \* Poller.energyOffset and so on
  lastDate,                            \* lastSnapshotDate
  diskOffset, readings, idle,          \* the setting and the tables
  step, wh,                            \* poll: where it is, energyWh
  used, troubles,                      \* what the bounds count
  total, glitched, span, closed        \* history, for the properties

meterWorld   == <<raw, day>>
meterMemory  == <<offset, lastEffective, inited, lastDate>>
meterTables  == <<diskOffset, readings, idle>>
meterCounts  == <<used, troubles>>
meterHistory == <<total, glitched, span, closed>>
meterVars == <<meterWorld, meterMemory, meterTables, step, wh, meterCounts,
               meterHistory>>

Days   == 0 .. MaxDay
NoDay  == -1
NoIdle == -1
Empty  == [n |-> 0, lo |-> 0, hi |-> 0]

\* The readings of a day: how many (2 is two or more, which is all the code
\* asks), MIN(energy_wh) and MAX(energy_wh).
Spans == [n : 0 .. 2, lo : Nat, hi : Nat]

MeterTypeOK ==
  /\ raw \in Nat /\ day \in Days
  /\ offset \in Nat /\ lastEffective \in Nat /\ inited \in BOOLEAN
  /\ lastDate \in Days \union {NoDay}
  /\ diskOffset \in Nat /\ idle \in [Days -> Nat \union {NoIdle}]
  /\ readings \in [table : [Days -> Spans], latest : Nat]
  /\ step \in {"wait", "insert", "yesterday", "today", "purge"} /\ wh \in Nat
  /\ used \in Nat /\ troubles \in Nat /\ total \in Nat /\ glitched \in BOOLEAN
  /\ span \in [Days -> Spans] /\ closed \subseteq Days

MeterInit ==
  /\ raw \in Registers /\ day = 0
  /\ offset = 0 /\ lastEffective = 0 /\ inited = FALSE /\ lastDate = NoDay
  /\ diskOffset = 0 /\ idle = [d \in Days |-> NoIdle]
  /\ readings = [table |-> [d \in Days |-> Empty], latest |-> 0]
  /\ step = "wait" /\ wh = 0
  /\ used = 0 /\ troubles = 0
  /\ total = raw /\ glitched = FALSE /\ span = [d \in Days |-> Empty] /\ closed = {}

Trouble == troubles < MaxTrouble /\ troubles' = troubles + 1 /\ used' = used

-----------------------------------------------------------------------------
(* The meter and the clock.                                                 *)

\* A poll takes no time, so the meter moves between two of them.
Consume ==
  /\ step = "wait" /\ used < MaxUse /\ used' = used + 1
  /\ raw' = raw + 1 /\ total' = total + 1
  /\ UNCHANGED <<day, meterMemory, meterTables, step, wh, troubles, glitched,
                 span, closed>>

\* The register starts again at 0.
ResetRegister ==
  /\ step = "wait" /\ Trouble /\ raw' = 0
  /\ UNCHANGED <<day, meterMemory, meterTables, step, wh, meterHistory>>

Midnight ==
  /\ step = "wait" /\ day < MaxDay /\ day' = day + 1
  /\ UNCHANGED <<raw, meterMemory, meterTables, step, wh, meterCounts,
                 meterHistory>>

-----------------------------------------------------------------------------
(* A poll.                                                                  *)

\* initEnergyState: what adjustEnergy starts from.
Offset0 == IF inited THEN offset ELSE diskOffset
Last0   == IF inited THEN lastEffective ELSE readings.latest

IsReset(value)   == Last0 > 0 /\ value + Offset0 < Last0 - Threshold

\* A mutant: the last effective value, which includes the offset, is added to it.
AddedOffset(value) == IF IsReset(value) THEN Offset0 + Last0 ELSE Offset0

NewOffset(value) == IF IsReset(value) THEN Last0 - value ELSE Offset0
\* A mutant: a small step back is stored.
Unclamped(value) == value + NewOffset(value)

Effective(value) == IF value + NewOffset(value) < Last0 THEN Last0
                    ELSE value + NewOffset(value)

\* poll up to the decision to store (a minute has passed since the last time):
\* adjustEnergy, and the offset persisted on a reset; that write may fail, and
\* the poll goes on.
Adjust(value) ==
  /\ inited' = TRUE
  /\ offset' = NewOffset(value) /\ lastEffective' = Effective(value)
  /\ \/ step' = "insert" /\ wh' = Effective(value)
     \/ step' = "wait" /\ wh' = 0
  /\ UNCHANGED <<meterWorld, lastDate, readings, idle, total, span, closed>>

PersistOffset(value) ==
  diskOffset' = IF IsReset(value) THEN NewOffset(value) ELSE diskOffset

Poll == /\ step = "wait" /\ Adjust(raw) /\ PersistOffset(raw)
        /\ UNCHANGED <<meterCounts, glitched>>

PollOffsetFails == /\ step = "wait" /\ IsReset(raw) /\ Adjust(raw) /\ Trouble
                   /\ UNCHANGED <<diskOffset, glitched>>

\* The answer lacks the register: sensorVal returns 0 for it.
PollWithoutRegister ==
  /\ step = "wait" /\ Adjust(0) /\ PersistOffset(0) /\ Trouble
  /\ glitched' = TRUE

Low(a, b)  == IF a < b THEN a ELSE b
High(a, b) == IF a > b THEN a ELSE b

Add(s, e) == IF s.n = 0 THEN [n |-> 1, lo |-> e, hi |-> e]
             ELSE [n |-> 2, lo |-> Low(s.lo, e), hi |-> High(s.hi, e)]

\* InsertMeterReading; on an error the poll ends and is due again.
InsertReading ==
  /\ step = "insert"
  /\ readings' = [table |-> [readings.table EXCEPT ![day] = Add(@, wh)],
                  latest |-> wh]
  /\ span' = [span EXCEPT ![day] = Add(@, wh)]
  /\ wh' = 0
  /\ IF day # lastDate THEN step' = "yesterday" ELSE step' \in {"today", "purge"}
  /\ UNCHANGED <<meterWorld, meterMemory, diskOffset, idle, meterCounts,
                 total, glitched, closed>>

InsertFails ==
  /\ step = "insert" /\ Trouble
  /\ step' = "wait" /\ wh' = 0
  /\ UNCHANGED <<meterWorld, meterMemory, meterTables, meterHistory>>

\* computeDailyIdle on meter readings: with fewer than two the row stays.
Snapshot(d) ==
  idle' = IF d \in Days /\ readings.table[d].n >= 2
          THEN [idle EXCEPT ![d] = readings.table[d].hi - readings.table[d].lo]
          ELSE idle

\* A mutant: the day that has begun is snapshot in place of yesterday.
SnapshotNewDay ==
  /\ step = "yesterday" /\ Snapshot(day)
  /\ closed' = closed \union ({day - 1} \intersect Days)
  /\ step' = "today"
  /\ UNCHANGED <<meterWorld, meterMemory, diskOffset, readings, wh, meterCounts,
                 total, glitched, span>>

\* The day has changed (or this is the first store after a start): yesterday
\* is final.  closed remembers the days this has been done for.
SnapshotYesterday ==
  /\ step = "yesterday" /\ Snapshot(day - 1)
  /\ closed' = closed \union ({day - 1} \intersect Days)
  /\ step' = "today"
  /\ UNCHANGED <<meterWorld, meterMemory, diskOffset, readings, wh, meterCounts,
                 total, glitched, span>>

\* It may fail: a warning, and the day counts as done.
YesterdayFails ==
  /\ step = "yesterday" /\ Trouble
  /\ step' = "today"
  /\ UNCHANGED <<meterWorld, meterMemory, meterTables, wh, meterHistory>>

SnapshotToday ==
  /\ step = "today" /\ Snapshot(day)
  /\ lastDate' = day /\ step' = "purge"
  /\ UNCHANGED <<meterWorld, offset, lastEffective, inited, diskOffset, readings,
                 wh, meterCounts, meterHistory>>

\* Readings older than 48 hours: all of three days ago, those of the day before
\* yesterday up to some moment (here: none of them, or all).
PurgeMeterReadings ==
  /\ step = "purge" /\ step' = "wait"
  /\ \E old \in {2, 3} :
       readings' = [readings EXCEPT !.table =
         [d \in Days |-> IF d <= day - old THEN Empty ELSE @[d]]]
  /\ UNCHANGED <<meterWorld, meterMemory, diskOffset, idle, wh, meterCounts,
                 meterHistory>>

MeterRestart ==
  /\ Trouble
  /\ inited' = FALSE /\ offset' = 0 /\ lastEffective' = 0 /\ lastDate' = NoDay
  /\ step' = "wait" /\ wh' = 0
  /\ UNCHANGED <<meterWorld, meterTables, meterHistory>>

MeterNext ==
  \/ Consume \/ ResetRegister \/ Midnight
  \/ Poll \/ PollOffsetFails \/ PollWithoutRegister \/ InsertReading \/ InsertFails
  \/ SnapshotYesterday \/ YesterdayFails \/ SnapshotToday \/ PurgeMeterReadings
  \/ MeterRestart

MeterSpec == MeterInit /\ [][MeterNext]_meterVars

-----------------------------------------------------------------------------
(* What the series and the idle rows promise.                               *)

\* A stored reading is never below an earlier one, across counter resets,
\* answers without the register, restarts and failed writes of the offset: the
\* idle and session energies are differences of readings.
SeriesGrows == [][readings'.latest >= readings.latest]_readings

\* The series shows no energy that was not consumed: a reset, seen or found
\* after a restart, never adds to it.  (An answer without the register does:
\* its 0 passes for a reset, and the next full value is added on top.)
NoEnergyInvented == ~glitched => lastEffective <= total /\ readings.latest <= total

\* Once yesterday has been snapshot its idle row covers all its readings, and
\* neither later snapshots, purges nor restarts take any of it away.
ClosedDayIsWhole ==
  \A d \in closed : span[d].n >= 2 => idle[d] = span[d].hi - span[d].lo
=============================================================================
