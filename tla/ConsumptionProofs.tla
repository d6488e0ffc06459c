------------------------- MODULE ConsumptionProofs --------------------------
(***************************************************************************)
(* Proofs about what is consumed and what it costs: about Metering, for    *)
(* every threshold, consumption, number of days and number of troubles,    *)
(* that the series never falls, shows no energy that was not consumed, and *)
(* that a closed day keeps its idle energy; about Backfill, for any number *)
(* of hours, any length of the day, of the chunks and of the window, and   *)
(* any number of mishaps, that a cycle leaves no hole behind it; and about *)
(* IdleWindows, for any day, any sessions, consumption and tariffs, that a *)
(* day's row counts what the hours without a session consumed.             *)
(***************************************************************************)
EXTENDS Metering, Backfill, IdleWindows, DataProofs

-----------------------------------------------------------------------------
(* The meter (Metering).                                                   *)

LEMMA DayFacts == MaxDay \in Nat /\ 0 \in Days /\ Days \subseteq Nat
  BY ThresholdAssumption DEF ThresholdAssumption, Days

-----------------------------------------------------------------------------
(* Types.                                                                   *)

LEMMA AddType == ASSUME NEW s \in Spans, NEW e \in Nat PROVE Add(s, e) \in Spans
  BY DEF Add, Spans, Low, High

LEMMA EmptyType == Empty \in Spans
  BY DEF Empty, Spans

\* What adjustEnergy computes, from any value of the register.
LEMMA AdjustFacts ==
  ASSUME MeterTypeOK, NEW value \in Nat
  PROVE  /\ Offset0 \in Nat /\ Last0 \in Nat
         /\ NewOffset(value) \in Nat /\ Effective(value) \in Nat
         /\ Effective(value) >= Last0
         /\ NewOffset(value) >= Offset0
         /\ IsReset(value) => value + NewOffset(value) = Last0
<1>1. Offset0 \in Nat /\ Last0 \in Nat
  BY DEF MeterTypeOK, Offset0, Last0
<1>2. Threshold \in Nat
  BY ThresholdAssumption DEF ThresholdAssumption
<1>3. NewOffset(value) \in Nat /\ NewOffset(value) >= Offset0
  BY <1>1, <1>2 DEF NewOffset, IsReset
<1>4. Effective(value) \in Nat /\ Effective(value) >= Last0
  BY <1>1, <1>3 DEF Effective
<1>5. IsReset(value) => value + NewOffset(value) = Last0
  BY <1>1 DEF NewOffset
<1> QED
  BY <1>1, <1>3, <1>4, <1>5

LEMMA AdjustTypes ==
  ASSUME MeterTypeOK, NEW value \in Nat, Adjust(value),
         UNCHANGED diskOffset \/ PersistOffset(value),
         troubles' \in Nat, UNCHANGED used, glitched' \in BOOLEAN
  PROVE  MeterTypeOK'
<1>1. NewOffset(value) \in Nat /\ Effective(value) \in Nat
  BY AdjustFacts
<1>2. diskOffset' \in Nat
  BY <1>1 DEF PersistOffset, MeterTypeOK
<1> QED
  BY <1>1, <1>2 DEF Adjust, MeterTypeOK, meterWorld

\* computeDailyIdle keeps the type of the idle rows: MAX is at least MIN.
LowBelowHigh == \A d \in Days : readings.table[d].lo <= readings.table[d].hi

LEMMA SnapshotType ==
  ASSUME MeterTypeOK, LowBelowHigh, NEW d \in Int, Snapshot(d)
  PROVE  idle' \in [Days -> Nat \union {NoIdle}]
<1>1. ASSUME d \in Days PROVE readings.table[d].hi - readings.table[d].lo \in Nat
  BY <1>1 DEF MeterTypeOK, LowBelowHigh, Spans
<1> QED
  BY <1>1 DEF Snapshot, MeterTypeOK

LEMMA MeterTypeStep ==
  ASSUME MeterTypeOK, LowBelowHigh, [MeterNext]_meterVars
  PROVE  MeterTypeOK' /\ LowBelowHigh'
<1> USE DEF meterWorld, meterMemory, meterTables, meterCounts, meterHistory
<1>1. CASE Consume \/ ResetRegister \/ Midnight
  <2>1. CASE Consume
    BY <2>1 DEF Consume, MeterTypeOK, LowBelowHigh
  <2>2. CASE ResetRegister
    BY <2>2 DEF ResetRegister, Trouble, MeterTypeOK, LowBelowHigh
  <2>3. CASE Midnight
    <3>1. day' \in Days
      BY <2>3, DayFacts DEF Midnight, MeterTypeOK, Days
    <3> QED  BY <2>3, <3>1 DEF Midnight, MeterTypeOK, LowBelowHigh
  <2> QED
    BY <1>1, <2>1, <2>2, <2>3
<1>2. CASE Poll \/ PollOffsetFails \/ PollWithoutRegister
  <2>1. CASE Poll
    BY <1>2, <2>1, AdjustTypes DEF Poll, Adjust, MeterTypeOK, LowBelowHigh
  <2>2. CASE PollOffsetFails
    BY <1>2, <2>2, AdjustTypes DEF PollOffsetFails, Trouble, Adjust, MeterTypeOK, LowBelowHigh
  <2>3. CASE PollWithoutRegister
    BY <1>2, <2>3, AdjustTypes DEF PollWithoutRegister, Trouble, Adjust, MeterTypeOK, LowBelowHigh
  <2> QED
    BY <1>2, <2>1, <2>2, <2>3
<1>3. CASE InsertReading
  <2>1. Add(readings.table[day], wh) \in Spans /\ Add(span[day], wh) \in Spans
    BY AddType DEF MeterTypeOK
  <2>2. readings' \in [table : [Days -> Spans], latest : Nat] /\ span' \in [Days -> Spans]
    BY <1>3, <2>1 DEF InsertReading, MeterTypeOK
  <2>3. Add(readings.table[day], wh).lo <= Add(readings.table[day], wh).hi
    BY DEF Add, Low, High, MeterTypeOK, LowBelowHigh, Spans
  <2>4. LowBelowHigh'
    BY <1>3, <2>3 DEF InsertReading, MeterTypeOK, LowBelowHigh
  <2> QED
    BY <1>3, <2>2, <2>4 DEF InsertReading, MeterTypeOK
<1>4. CASE InsertFails \/ YesterdayFails
  BY <1>4 DEF InsertFails, YesterdayFails, Trouble, MeterTypeOK, LowBelowHigh
<1>5. CASE SnapshotYesterday \/ SnapshotToday
  <2>1. day \in Int /\ day - 1 \in Int
    BY DayFacts DEF MeterTypeOK
  <2>2. idle' \in [Days -> Nat \union {NoIdle}]
    BY <1>5, <2>1, SnapshotType DEF SnapshotYesterday, SnapshotToday
  <2> QED
    BY <1>5, <2>2 DEF SnapshotYesterday, SnapshotToday, MeterTypeOK, LowBelowHigh
<1>6. CASE PurgeMeterReadings
  <2>1. PICK old \in {2, 3} :
          readings' = [readings EXCEPT !.table =
            [d \in Days |-> IF d <= day - old THEN Empty ELSE @[d]]]
    BY <1>6 DEF PurgeMeterReadings
  <2>2. /\ readings' \in [table : [Days -> Spans], latest : Nat]
        /\ \A d \in Days : readings'.table[d] \in {Empty, readings.table[d]}
    BY <2>1, EmptyType DEF MeterTypeOK
  <2>3. LowBelowHigh'
    BY <2>2 DEF LowBelowHigh, Empty
  <2> QED
    BY <1>6, <2>2, <2>3 DEF PurgeMeterReadings, MeterTypeOK
<1>7. CASE MeterRestart
  <2>1. /\ troubles' \in Nat /\ UNCHANGED <<raw, day, diskOffset, readings, idle, used>>
        /\ UNCHANGED <<total, glitched, span, closed>>
    BY <1>7 DEF MeterRestart, Trouble, MeterTypeOK
  <2>2. /\ offset' = 0 /\ lastEffective' = 0 /\ inited' = FALSE /\ lastDate' = NoDay
        /\ step' = "wait" /\ wh' = 0
    BY <1>7 DEF MeterRestart
  <2> QED
    BY <2>1, <2>2 DEF MeterTypeOK, LowBelowHigh
<1>8. CASE UNCHANGED meterVars
  BY <1>8 DEF meterVars, MeterTypeOK, LowBelowHigh
<1> QED
  BY <1>1, <1>2, <1>3, <1>4, <1>5, <1>6, <1>7, <1>8 DEF MeterNext

LEMMA MeterInitTypes == MeterInit => MeterTypeOK /\ LowBelowHigh
<1> SUFFICES ASSUME MeterInit PROVE MeterTypeOK /\ LowBelowHigh
  OBVIOUS
<1>1. raw \in Nat /\ total \in Nat
  BY RegistersAssumption DEF RegistersAssumption, MeterInit
<1>2. /\ readings \in [table : [Days -> Spans], latest : Nat]
      /\ idle \in [Days -> Nat \union {NoIdle}] /\ span \in [Days -> Spans]
  BY EmptyType DEF MeterInit
<1>3. LowBelowHigh
  BY DEF MeterInit, LowBelowHigh, Empty
<1> QED
  BY <1>1, <1>2, <1>3, DayFacts DEF MeterInit, MeterTypeOK

\* Every variable keeps its range; an idle energy is never negative, because a
\* day's MAX is at least its MIN (adjustEnergy, SnapshotDailyIdle).
THEOREM MeterTypeCorrect == MeterSpec => []MeterTypeOK
<1>1. MeterTypeOK /\ LowBelowHigh /\ [MeterNext]_meterVars => (MeterTypeOK /\ LowBelowHigh)'
  BY MeterTypeStep
<1> QED
  BY <1>1, MeterInitTypes, PTL DEF MeterSpec

-----------------------------------------------------------------------------
(* The series.                                                              *)

\* What is stored is the last effective value, and that is no less than what
\* has been stored before.
Behind ==
  /\ inited => readings.latest <= lastEffective
  /\ step = "insert" => inited /\ wh = lastEffective

\* As far as no answer lacked the register, register and offset add up to no
\* more than what was consumed: the offset in memory and the one on disk, which
\* a restart falls back to.
Covered ==
  ~glitched =>
    /\ raw + diskOffset <= total
    /\ inited => raw + offset <= total
    /\ lastEffective <= total /\ readings.latest <= total

LEMMA SeriesStep ==
  ASSUME MeterTypeOK, Behind, [MeterNext]_meterVars
  PROVE  Behind' /\ readings'.latest >= readings.latest
<1> USE DEF meterWorld, meterMemory, meterTables, meterCounts, meterHistory
<1>0. readings.latest \in Nat /\ lastEffective \in Nat /\ raw \in Nat
  BY DEF MeterTypeOK
<1>1. ASSUME NEW value \in Nat, Adjust(value)
      PROVE  Behind' /\ readings' = readings
  <2>1. readings.latest <= Last0
    BY <1>0 DEF Behind, Last0
  <2>2. Effective(value) >= Last0 /\ Effective(value) \in Nat /\ Last0 \in Nat
    BY AdjustFacts
  <2>3. readings.latest <= Effective(value)
    BY <1>0, <2>1, <2>2
  <2> QED
    BY <1>1, <2>3 DEF Adjust, Behind
<1>2. CASE Poll \/ PollOffsetFails \/ PollWithoutRegister
  BY <1>0, <1>1, <1>2 DEF Poll, PollOffsetFails, PollWithoutRegister
<1>3. CASE InsertReading
  <2>1. readings'.latest = wh /\ step' # "insert"
    BY <1>3 DEF InsertReading
  <2>2. inited /\ wh = lastEffective
    BY <1>3 DEF InsertReading, Behind
  <2>3. UNCHANGED <<inited, lastEffective>>
    BY <1>3 DEF InsertReading
  <2> QED
    BY <1>0, <2>1, <2>2, <2>3 DEF Behind
<1>4. CASE PurgeMeterReadings
  <2>1. readings'.latest = readings.latest
    BY <1>4 DEF PurgeMeterReadings, MeterTypeOK
  <2> QED
    BY <1>0, <1>4, <2>1 DEF PurgeMeterReadings, Behind
<1>5. CASE Consume \/ ResetRegister \/ Midnight
  BY <1>0, <1>5 DEF Consume, ResetRegister, Midnight, Behind
<1>6. CASE InsertFails \/ SnapshotYesterday \/ YesterdayFails \/ SnapshotToday
  BY <1>0, <1>6 DEF InsertFails, SnapshotYesterday, YesterdayFails, SnapshotToday, Behind
<1>7. CASE MeterRestart
  BY <1>0, <1>7 DEF MeterRestart, Behind
<1>8. CASE UNCHANGED meterVars
  BY <1>0, <1>8 DEF meterVars, Behind
<1> QED
  BY <1>2, <1>3, <1>4, <1>5, <1>6, <1>7, <1>8 DEF MeterNext

LEMMA CoveredStep ==
  ASSUME MeterTypeOK, Behind, Covered, [MeterNext]_meterVars
  PROVE  Covered'
<1> USE DEF meterWorld, meterMemory, meterTables, meterCounts, meterHistory
<1>0. /\ readings.latest \in Nat /\ lastEffective \in Nat /\ raw \in Nat /\ total \in Nat
      /\ offset \in Nat /\ diskOffset \in Nat /\ glitched \in BOOLEAN
  BY DEF MeterTypeOK
<1>1. ASSUME Adjust(raw), UNCHANGED diskOffset \/ PersistOffset(raw), UNCHANGED glitched
      PROVE  Covered'
  <2> SUFFICES ASSUME ~glitched PROVE Covered'
    BY <1>1 DEF Covered
  <2>1. raw + Offset0 <= total /\ Last0 <= total
    BY <1>0 DEF Covered, Offset0, Last0
  <2>2. /\ NewOffset(raw) \in Nat /\ Last0 \in Nat /\ Offset0 \in Nat
        /\ IsReset(raw) => raw + NewOffset(raw) = Last0
    BY <1>0, AdjustFacts
  <2>3. raw + NewOffset(raw) <= total
    BY <1>0, <2>1, <2>2 DEF NewOffset
  <2>4. Effective(raw) <= total
    BY <2>1, <2>3 DEF Effective
  <2>5. raw + diskOffset' <= total
    BY <1>0, <1>1, <2>3 DEF PersistOffset, Covered
  <2>6. /\ UNCHANGED <<raw, total, readings>>
        /\ offset' = NewOffset(raw) /\ lastEffective' = Effective(raw)
    BY <1>1 DEF Adjust
  <2>7. readings.latest <= total
    BY DEF Covered
  <2> QED
    BY <2>3, <2>4, <2>5, <2>6, <2>7 DEF Covered
<1>2. CASE Poll \/ PollOffsetFails
  BY <1>1, <1>2 DEF Poll, PollOffsetFails
<1>3. CASE PollWithoutRegister
  BY <1>3 DEF PollWithoutRegister, Covered
<1>4. CASE InsertReading
  <2>1. readings'.latest = lastEffective
    BY <1>4 DEF InsertReading, Behind
  <2> QED
    BY <1>4, <2>1 DEF InsertReading, Covered
<1>5. CASE PurgeMeterReadings
  <2>1. readings'.latest = readings.latest
    BY <1>5 DEF PurgeMeterReadings, MeterTypeOK
  <2> QED
    BY <1>5, <2>1 DEF PurgeMeterReadings, Covered
<1>6. CASE Consume
  BY <1>0, <1>6 DEF Consume, Covered
<1>7. CASE ResetRegister
  BY <1>0, <1>7 DEF ResetRegister, Covered
<1>8. CASE Midnight \/ InsertFails \/ SnapshotYesterday \/ YesterdayFails \/ SnapshotToday
  BY <1>8 DEF Midnight, InsertFails, SnapshotYesterday, YesterdayFails, SnapshotToday, Covered
<1>9. CASE MeterRestart
  BY <1>0, <1>9 DEF MeterRestart, Covered
<1>10. CASE UNCHANGED meterVars
  BY <1>10 DEF meterVars, Covered
<1> QED
  BY <1>2, <1>3, <1>4, <1>5, <1>6, <1>7, <1>8, <1>9, <1>10 DEF MeterNext

LEMMA SeriesInit == MeterInit => Behind /\ Covered
  BY RegistersAssumption DEF RegistersAssumption, MeterInit, Behind, Covered

\* A stored reading is never below an earlier one, whatever the register does,
\* whichever writes fail and wherever the process dies (adjustEnergy).
THEOREM SeriesNeverFalls == MeterSpec => SeriesGrows
<1>1. MeterTypeOK /\ Behind /\ [MeterNext]_meterVars
        => Behind' /\ [readings'.latest >= readings.latest]_readings
  BY SeriesStep
<1> QED
  BY <1>1, MeterTypeCorrect, SeriesInit, PTL DEF MeterSpec, SeriesGrows

\* No reset, restart or failed write of the offset adds energy to the series.
THEOREM SeriesIsConsumed == MeterSpec => []NoEnergyInvented
<1>1. MeterTypeOK /\ Behind /\ Covered /\ [MeterNext]_meterVars => Behind' /\ Covered'
  BY SeriesStep, CoveredStep
<1>2. Covered => NoEnergyInvented
  BY DEF Covered, NoEnergyInvented
<1> QED
  BY <1>1, <1>2, MeterTypeCorrect, SeriesInit, PTL DEF MeterSpec

-----------------------------------------------------------------------------
(* The idle rows.                                                           *)

\* Closed days are over, and no purge has reached the readings of today and
\* yesterday, the only days that are still snapshot.
Recent ==
  /\ \A d \in closed : d < day
  /\ \A d \in Days : d >= day - 1 => readings.table[d] = span[d]

LEMMA RecentStep ==
  ASSUME MeterTypeOK, Recent, [MeterNext]_meterVars
  PROVE  Recent'
<1> USE DEF meterWorld, meterMemory, meterTables, meterCounts, meterHistory
<1>0. day \in Days /\ day \in Nat /\ closed \subseteq Days /\ Days \subseteq Nat
  BY DayFacts DEF MeterTypeOK
<1>1. CASE Midnight
  BY <1>0, <1>1 DEF Midnight, Recent
<1>2. CASE InsertReading
  <2>1. /\ readings'.table = [readings.table EXCEPT ![day] = Add(@, wh)]
        /\ span' = [span EXCEPT ![day] = Add(@, wh)]
        /\ readings.table \in [Days -> Spans] /\ span \in [Days -> Spans]
    BY <1>2 DEF InsertReading, MeterTypeOK
  <2>2. readings.table[day] = span[day]
    BY <1>0 DEF Recent
  <2>3. UNCHANGED <<day, closed>>
    BY <1>2 DEF InsertReading
  <2> QED
    BY <1>0, <2>1, <2>2, <2>3 DEF Recent
<1>3. CASE SnapshotYesterday
  <2>1. \A d \in closed' : d < day
    BY <1>0, <1>3 DEF SnapshotYesterday, Recent
  <2> QED
    BY <1>3, <2>1 DEF SnapshotYesterday, Recent
<1>4. CASE PurgeMeterReadings
  <2>1. PICK old \in {2, 3} :
          readings' = [readings EXCEPT !.table =
            [d \in Days |-> IF d <= day - old THEN Empty ELSE @[d]]]
    BY <1>4 DEF PurgeMeterReadings
  <2>2. \A d \in Days : d >= day - 1 => readings'.table[d] = readings.table[d]
    BY <1>0, <2>1 DEF MeterTypeOK
  <2> QED
    BY <1>4, <2>2 DEF PurgeMeterReadings, Recent
<1>5. CASE Consume \/ ResetRegister \/ Poll \/ PollOffsetFails \/ PollWithoutRegister
  BY <1>5 DEF Consume, ResetRegister, Poll, PollOffsetFails, PollWithoutRegister, Adjust, Recent
<1>6. CASE InsertFails \/ YesterdayFails \/ SnapshotToday \/ MeterRestart
  BY <1>6 DEF InsertFails, YesterdayFails, SnapshotToday, MeterRestart, Recent
<1>7. CASE UNCHANGED meterVars
  BY <1>7 DEF meterVars, Recent
<1> QED
  BY <1>1, <1>2, <1>3, <1>4, <1>5, <1>6, <1>7 DEF MeterNext

\* A snapshot of a recent day writes what the readings say of it and leaves the
\* other days alone.
LEMMA SnapshotFacts ==
  ASSUME MeterTypeOK, Recent, NEW e \in Int, e >= day - 1, Snapshot(e)
  PROVE  \A d \in Days : idle'[d] = IF d = e /\ span[d].n >= 2
                                    THEN span[d].hi - span[d].lo ELSE idle[d]
<1>1. ASSUME e \in Days PROVE readings.table[e] = span[e]
  BY <1>1 DEF Recent
<1>2. idle \in [Days -> Nat \union {NoIdle}]
  BY DEF MeterTypeOK
<1> QED
  BY <1>1, <1>2 DEF Snapshot

LEMMA ClosedStep ==
  ASSUME MeterTypeOK, Recent, ClosedDayIsWhole, [MeterNext]_meterVars
  PROVE  ClosedDayIsWhole'
<1> USE DEF meterWorld, meterMemory, meterTables, meterCounts, meterHistory
<1>0. day \in Nat /\ day \in Days /\ closed \subseteq Days
  BY DayFacts DEF MeterTypeOK
<1>1. CASE InsertReading
  <2>1. \A d \in closed : span'[d] = span[d]
    BY <1>0, <1>1 DEF InsertReading, Recent, MeterTypeOK
  <2> QED
    BY <1>1, <2>1 DEF InsertReading, ClosedDayIsWhole
<1>2. CASE SnapshotYesterday
  <2>1. \A d \in Days : idle'[d] = IF d = day - 1 /\ span[d].n >= 2
                                   THEN span[d].hi - span[d].lo ELSE idle[d]
    BY <1>0, <1>2, SnapshotFacts DEF SnapshotYesterday
  <2>2. closed' = closed \union ({day - 1} \intersect Days) /\ span' = span
    BY <1>2 DEF SnapshotYesterday
  <2> QED
    BY <1>0, <2>1, <2>2 DEF ClosedDayIsWhole
<1>3. CASE SnapshotToday
  <2>0. day \in Int /\ day >= day - 1 /\ Snapshot(day)
    BY <1>0, <1>3 DEF SnapshotToday
  <2>1. \A d \in Days : idle'[d] = IF d = day /\ span[d].n >= 2
                                   THEN span[d].hi - span[d].lo ELSE idle[d]
    BY <2>0, SnapshotFacts
  <2>2. UNCHANGED <<closed, span>>
    BY <1>3 DEF SnapshotToday
  <2> QED
    BY <1>0, <2>1, <2>2 DEF ClosedDayIsWhole
<1>4. CASE \/ Consume \/ ResetRegister \/ Midnight
           \/ Poll \/ PollOffsetFails \/ PollWithoutRegister
  BY <1>4 DEF Consume, ResetRegister, Midnight, Poll, PollOffsetFails, PollWithoutRegister,
     Adjust, ClosedDayIsWhole
<1>5. CASE InsertFails \/ YesterdayFails \/ PurgeMeterReadings \/ MeterRestart
  BY <1>5 DEF InsertFails, YesterdayFails, PurgeMeterReadings, MeterRestart, ClosedDayIsWhole
<1>6. CASE UNCHANGED meterVars
  BY <1>6 DEF meterVars, ClosedDayIsWhole
<1> QED
  BY <1>1, <1>2, <1>3, <1>4, <1>5, <1>6 DEF MeterNext

\* Once yesterday is closed its idle row covers all its readings for ever, for
\* any number of days, purges, failures and restarts (SnapshotDailyIdle).
THEOREM ClosedDaysStayWhole == MeterSpec => []ClosedDayIsWhole
<1>1. MeterInit => Recent /\ ClosedDayIsWhole
  BY DEF MeterInit, Recent, ClosedDayIsWhole
<1>2. MeterTypeOK /\ Recent /\ ClosedDayIsWhole /\ [MeterNext]_meterVars
        => Recent' /\ ClosedDayIsWhole'
  BY RecentStep, ClosedStep
<1> QED
  BY <1>1, <1>2, MeterTypeCorrect, PTL DEF MeterSpec

-----------------------------------------------------------------------------
(* The backfill (Backfill).                                                *)

LEMMA HourFacts ==
  /\ Start \in Nat /\ LastHour \in Nat /\ Bootstrap \in Nat /\ CapHours \in Nat
  /\ Chunk \in Nat /\ Chunk > 0 /\ Start <= LastHour
  BY HourAssumption DEF HourAssumption

LEMMA HoursAreInts == Hours \subseteq Int /\ \A h \in Hours : 0 <= h /\ h < LastHour
  BY HourFacts DEF Hours

-----------------------------------------------------------------------------
(* A set of hours that is not empty has a last one, because < is well       *)
(* founded on what is left until LastHour.                                  *)

Less == {ss \in Nat \X Nat : ss[1] < ss[2]}

LEMMA LessWellFounded == IsWellFoundedOn(Less, Nat)
<1>1. OpToRel(<, Nat) = Less
  BY DEF OpToRel, Less
<1> QED
  BY <1>1, NatLessThanWellFounded

LEMMA LastExists ==
  ASSUME NEW T, T \subseteq Hours, T # {}
  PROVE  \E m \in T : \A i \in T : i <= m
<1> DEFINE Left == {LastHour - h : h \in T}
<1>1. Left \subseteq Nat /\ Left # {}
  <2>1. ASSUME NEW h \in T PROVE LastHour - h \in Nat
    <3>1. h \in Int /\ h < LastHour /\ LastHour \in Int
      BY HoursAreInts, HourFacts
    <3> QED
      BY <3>1
  <2> QED
    BY <2>1
<1>2. \E x \in Left : \A y \in Left : ~(<<y, x>> \in Less)
  <2> HIDE DEF Left
  <2> QED
    BY <1>1, LessWellFounded, WFMin
<1>3. PICK x \in Left : \A y \in Left : ~(<<y, x>> \in Less)
  BY <1>2
<1>4. PICK m \in T : x = LastHour - m
  BY <1>3
<1>5. ASSUME NEW i \in T PROVE i <= m
  <2>1. LastHour - i \in Left /\ LastHour - i \in Nat /\ x \in Nat
    BY <1>1, <1>3
  <2>2. ~(LastHour - i < x)
    BY <1>3, <2>1 DEF Less
  <2>3. i \in Int /\ m \in Int /\ LastHour \in Int
    BY HoursAreInts, HourFacts
  <2> QED
    BY <1>4, <2>1, <2>2, <2>3
<1> QED
  BY <1>5

LEMMA SinceType == ASSUME FillTypeOK PROVE Since \in Int
<1>1. clock \in Int
  BY HourFacts DEF FillTypeOK
<1>2. ASSUME Stored # {} PROVE Newest \in Int
  <2>1. Stored \subseteq Hours
    BY DEF Stored
  <2>2. \E h \in Stored : \A i \in Stored : i <= h
    BY <1>2, <2>1, LastExists
  <2>3. Newest \in Stored
    BY <2>2 DEF Newest
  <2> QED
    BY <2>1, <2>3, HoursAreInts
<1>3. Gap \in Int
  BY <1>1, <1>2, HourFacts DEF Gap, Desired
<1> QED
  BY <1>1, <1>3, HourFacts DEF Since

-----------------------------------------------------------------------------
(* Types.                                                                   *)

LEMMA FrameTypes ==
  ASSUME FillTypeOK
  PROVE  /\ NoFrames \in Rows /\ NoFill \in Fills
         /\ \A a, b : Frames(a, b) \in Rows
<1>1. NoFrames \in Rows
  BY DEF NoFrames, Rows
<1>2. NoFill \in Fills
  BY <1>1 DEF NoFill, Fills
<1>3. \A a, b : Frames(a, b) \in Rows
  BY DEF Frames, Rows, FillTypeOK
<1> QED
  BY <1>1, <1>2, <1>3

LEMMA UpsertType ==
  ASSUME FillTypeOK, NEW frames \in Rows, Upsert(frames)
  PROVE  /\ rows' \in Rows
         /\ \A h \in Hours : rows[h] # NoRow \/ frames[h] # NoRow => rows'[h] # NoRow
<1>1. rows \in Rows
  BY DEF FillTypeOK
<1> QED
  BY <1>1 DEF Upsert, Rows

LEMMA ChunkEndFacts ==
  ASSUME NEW f \in Fills
  PROVE  /\ ChunkEnd(f) \in Int /\ ChunkEnd(f) <= f.till
         /\ f.from < f.till => f.from < ChunkEnd(f)
<1>1. f.from \in Int /\ f.till \in Int
  BY DEF Fills
<1> QED
  BY <1>1, HourFacts DEF ChunkEnd

\* How the cycles' records change, so that no step below has to look inside.
Set(g, f) == fill' = [fill EXCEPT ![g] = f]

LEMMA FillUpdate ==
  ASSUME FillTypeOK, NEW g \in Cycles, NEW f \in Fills, Set(g, f)
  PROVE  /\ fill' \in [Cycles -> Fills] /\ fill'[g] = f
         /\ \A k \in Cycles \ {g} : fill'[k] = fill[k]
  BY DEF Set, FillTypeOK

LEMMA GoesType ==
  ASSUME FillTypeOK, NEW g \in Cycles, NEW l \in {"wait", "fetch", "asked", "sum"}, Goes(g, l)
  PROVE  /\ cycle' \in [Cycles -> {"wait", "fetch", "asked", "sum"}]
         /\ cycle'[g] = l /\ \A k \in Cycles \ {g} : cycle'[k] = cycle[k]
  BY DEF Goes, FillTypeOK

Begun    == [NoFill EXCEPT !.since = Since, !.from = Since, !.till = clock]
Asked(f) == [f EXCEPT !.frames = Frames(f.from, ChunkEnd(f))]
Written(f) == [f EXCEPT !.frames = NoFrames, !.from = ChunkEnd(f),
                        !.affected = @ \union {Day(h) : h \in Touched(f.frames)}]
Summing(f, d) == [f EXCEPT !.affected = @ \ {d}, !.day = d,
                           !.counted = {h \in Stored : Day(h) = d}]
Summed(f) == [f EXCEPT !.day = 0, !.counted = {}]

LEMMA NextFills ==
  ASSUME FillTypeOK, NEW f \in Fills
  PROVE  /\ Begun \in Fills /\ Asked(f) \in Fills /\ Written(f) \in Fills
         /\ \A d \in f.affected : Summing(f, d) \in Fills
         /\ Summed(f) \in Fills
<1>0. NoFill \in Fills /\ NoFrames \in Rows /\ \A a, b : Frames(a, b) \in Rows
  BY FrameTypes
<1>1. Begun \in Fills
  <2>1. Since \in Int /\ clock \in Int
    BY SinceType, HourFacts DEF FillTypeOK
  <2> QED
    BY <1>0, <2>1 DEF Begun, Fills
<1>2. Asked(f) \in Fills
  BY <1>0 DEF Asked, Fills
<1>3. Written(f) \in Fills
  <2>1. ChunkEnd(f) \in Int
    BY ChunkEndFacts
  <2>2. {Day(h) : h \in Touched(f.frames)} \subseteq DaysOf
    BY DEF Touched, Day, DaysOf
  <2>3. f.affected \union {Day(h) : h \in Touched(f.frames)} \in SUBSET DaysOf
    BY <2>2 DEF Fills
  <2> QED
    BY <1>0, <2>1, <2>3 DEF Written, Fills
<1>4. ASSUME NEW d \in f.affected PROVE Summing(f, d) \in Fills
  <2>1. d \in DaysOf /\ f.affected \ {d} \in SUBSET DaysOf
    BY DEF Fills
  <2>2. {h \in Stored : Day(h) = d} \in SUBSET Hours
    BY DEF Stored
  <2> QED
    BY <2>1, <2>2 DEF Summing, Fills
<1>5. Summed(f) \in Fills
  BY DEF Summed, Fills
<1> QED
  BY <1>1, <1>2, <1>3, <1>4, <1>5

\* Every step of a cycle replaces its record by one of these.
LEMMA CycleSteps ==
  ASSUME FillTypeOK, NEW g \in Cycles
  PROVE  /\ BeginCycle(g) => Set(g, Begun)
         /\ AskChunk(g) => Set(g, Asked(fill[g]))
         /\ WriteChunk(g) => Set(g, Written(fill[g]))
         /\ SumIdle(g) => \E d \in fill[g].affected : Set(g, Summing(fill[g], d))
         /\ WriteIdle(g) \/ RebuildFails(g) => Set(g, Summed(fill[g]))
         /\ ChunkFails(g) \/ CycleDone(g) => Set(g, NoFill)
<1>0. fill \in [Cycles -> Fills]
  BY DEF FillTypeOK
<1>1. BeginCycle(g) => Set(g, Begun)
  BY DEF BeginCycle, Set, Begun
<1>2. AskChunk(g) => Set(g, Asked(fill[g]))
  BY <1>0 DEF AskChunk, Set, Asked
<1>3. WriteChunk(g) => Set(g, Written(fill[g]))
  BY <1>0 DEF WriteChunk, Set, Written
<1>4. SumIdle(g) => \E d \in fill[g].affected : Set(g, Summing(fill[g], d))
  BY <1>0 DEF SumIdle, Set, Summing
<1>5. WriteIdle(g) \/ RebuildFails(g) => Set(g, Summed(fill[g]))
  BY <1>0 DEF WriteIdle, RebuildFails, Set, Summed
<1>6. ChunkFails(g) \/ CycleDone(g) => Set(g, NoFill)
  BY DEF ChunkFails, CycleDone, EndCycle, Set
<1> QED
  BY <1>1, <1>2, <1>3, <1>4, <1>5, <1>6

LEMMA CycleTypes ==
  ASSUME FillTypeOK, NEW g \in Cycles, BeginCycle(g) \/ Cycle(g) PROVE FillTypeOK'
<1> USE DEF liveVars
<1>0. fill[g] \in Fills
  BY DEF FillTypeOK
<1>1. fill' \in [Cycles -> Fills]
  BY <1>0, CycleSteps, NextFills, FrameTypes, FillUpdate DEF Cycle
<1>2. cycle' \in [Cycles -> {"wait", "fetch", "asked", "sum"}]
  BY GoesType DEF Cycle, BeginCycle, AskChunk, ChunkFails, WriteChunk, SumIdle, WriteIdle,
     RebuildFails, CycleDone, EndCycle
<1>3. CASE BeginCycle(g) \/ AskChunk(g) \/ SumIdle(g) \/ CycleDone(g)
  BY <1>1, <1>2, <1>3 DEF BeginCycle, AskChunk, SumIdle, CycleDone, FillTypeOK
<1>4. CASE ChunkFails(g) \/ RebuildFails(g)
  BY <1>1, <1>2, <1>4 DEF ChunkFails, RebuildFails, Mishap, FillTypeOK
<1>5. CASE WriteChunk(g)
  <2>1. rows' \in Rows
    BY <1>0, <1>5, UpsertType DEF WriteChunk, Fills
  <2> QED
    BY <1>1, <1>2, <1>5, <2>1 DEF WriteChunk, FillTypeOK
<1>6. CASE WriteIdle(g)
  <2>1. fill[g].counted \in SUBSET Hours
    BY <1>0 DEF Fills
  <2>2. idleRows' \in [DaysOf -> SUBSET Hours]
    BY <1>6, <2>1 DEF WriteIdle, FillTypeOK
  <2> QED
    BY <1>1, <1>2, <1>6, <2>2 DEF WriteIdle, FillTypeOK
<1> QED
  BY <1>3, <1>4, <1>5, <1>6 DEF Cycle

LEMMA RestTypes ==
  ASSUME FillTypeOK, HourEnds \/ Revise \/ AskToday \/ Live \/ FillRestart
  PROVE  FillTypeOK'
<1> USE DEF liveVars, cycleVars
<1>1. CASE HourEnds
  <2>1. clock' \in 0 .. LastHour
    BY <1>1, HourFacts DEF HourEnds, FillTypeOK
  <2> QED
    BY <1>1, <2>1 DEF HourEnds, FillTypeOK
<1>2. CASE Revise
  BY <1>2 DEF Revise, Mishap, FillTypeOK
<1>3. CASE AskToday
  BY <1>3, FrameTypes DEF AskToday, FillTypeOK
<1>4. CASE TodayFails
  BY <1>4, FrameTypes DEF TodayFails, Mishap, FillTypeOK
<1>5. CASE WriteToday
  <2>1. rows' \in Rows
    BY <1>5, UpsertType DEF WriteToday, FillTypeOK
  <2> QED
    BY <1>5, <2>1, FrameTypes DEF WriteToday, FillTypeOK
<1>6. CASE FillRestart
  <2>1. cycle' \in [Cycles -> {"wait", "fetch", "asked", "sum"}]
    BY <1>6 DEF FillRestart
  <2>2. fill' \in [Cycles -> Fills]
    BY <1>6, FrameTypes DEF FillRestart
  <2>3. live' = "wait" /\ liveAnswer' \in Rows /\ booted' = FALSE /\ mishaps' \in Nat
    BY <1>6, FrameTypes DEF FillRestart, Mishap, FillTypeOK
  <2>4. UNCHANGED <<clock, published, rows, idleRows>>
    BY <1>6 DEF FillRestart
  <2> QED
    BY <2>1, <2>2, <2>3, <2>4 DEF FillTypeOK
<1> QED
  BY <1>1, <1>2, <1>3, <1>4, <1>5, <1>6 DEF Live

LEMMA FillTypeStep ==
  ASSUME FillTypeOK, [FillNext]_fillVars PROVE FillTypeOK'
<1>1. CASE UNCHANGED fillVars
  BY <1>1 DEF fillVars, liveVars, cycleVars, FillTypeOK
<1> QED
  BY <1>1, CycleTypes, RestTypes DEF FillNext

LEMMA FillInitTypes == FillInit => FillTypeOK
<1> SUFFICES ASSUME FillInit PROVE FillTypeOK
  OBVIOUS
<1>1. NoFrames \in Rows
  BY DEF NoFrames, Rows
<1>2. NoFill \in Fills
  BY <1>1 DEF NoFill, Fills
<1>3. clock \in 0 .. LastHour
  BY HourFacts DEF FillInit
<1> QED
  BY <1>1, <1>2, <1>3 DEF FillInit, FillTypeOK, NoFrames

\* Every variable keeps its range; in particular a cycle begins at an hour, for
\* the newest row exists when there is a row (fetchConsumptionAndStore: since).
THEOREM FillTypeCorrect == FillSpec => []FillTypeOK
<1>1. FillTypeOK /\ [FillNext]_fillVars => FillTypeOK'
  BY FillTypeStep
<1> QED
  BY <1>1, FillInitTypes, PTL DEF FillSpec

-----------------------------------------------------------------------------
(* No hole behind a cycle.                                                  *)

\* A cycle goes no further than the hours that were over when it began, so the
\* chunk in hand has a frame for each of its hours, and so has all it stored.
Ahead(g) ==
  /\ fill[g].till <= clock
  /\ cycle[g] = "asked" =>
       \A h \in Hours : fill[g].from <= h /\ h < ChunkEnd(fill[g])
                          => fill[g].frames[h] # NoRow

Filled(g) ==
  \A h \in Hours : fill[g].since <= h /\ h < fill[g].from => rows[h] # NoRow

Covering == \A g \in Cycles : Ahead(g) /\ Filled(g)

\* No step takes a row away, and time does not go back.
LEMMA RowsStay ==
  ASSUME FillTypeOK, [FillNext]_fillVars
  PROVE  /\ clock <= clock'
         /\ \A h \in Hours : rows[h] # NoRow => rows'[h] # NoRow
<1> USE DEF liveVars, cycleVars
<1>0. clock \in Int
  BY HourFacts DEF FillTypeOK
<1>1. CASE WriteToday
  BY <1>0, <1>1, UpsertType DEF WriteToday, FillTypeOK
<1>2. ASSUME NEW g \in Cycles, WriteChunk(g)
      PROVE  /\ clock <= clock'
             /\ \A h \in Hours : rows[h] # NoRow => rows'[h] # NoRow
  <2>1. fill[g].frames \in Rows
    BY DEF FillTypeOK, Fills
  <2> QED
    BY <1>0, <1>2, <2>1, UpsertType DEF WriteChunk
<1>3. CASE HourEnds
  BY <1>0, <1>3 DEF HourEnds
<1>4. CASE Revise \/ AskToday \/ TodayFails \/ FillRestart \/ UNCHANGED fillVars
  BY <1>0, <1>4 DEF Revise, AskToday, TodayFails, FillRestart, fillVars
<1>5. ASSUME NEW g \in Cycles, BeginCycle(g) \/ AskChunk(g) \/ ChunkFails(g) \/ SumIdle(g)
                                 \/ WriteIdle(g) \/ RebuildFails(g) \/ CycleDone(g)
      PROVE  UNCHANGED <<clock, rows>>
  BY <1>5 DEF BeginCycle, AskChunk, ChunkFails, SumIdle, WriteIdle, RebuildFails, CycleDone
<1> QED
  BY <1>0, <1>1, <1>2, <1>3, <1>4, <1>5 DEF FillNext, Live, Cycle

\* What a cycle that does not move keeps.
LEMMA OthersKeep ==
  ASSUME FillTypeOK, [FillNext]_fillVars, NEW k \in Cycles, Ahead(k), Filled(k),
         fill'[k] = fill[k], cycle'[k] = cycle[k]
  PROVE  Ahead(k)' /\ Filled(k)'
<1>1. fill[k].till \in Int /\ clock \in Int /\ clock' \in Int
  BY FillTypeStep, HourFacts DEF FillTypeOK, Fills
<1>2. /\ clock <= clock'
      /\ \A h \in Hours : rows[h] # NoRow => rows'[h] # NoRow
  BY RowsStay
<1>3. ChunkEnd(fill[k])' = ChunkEnd(fill[k])
  BY DEF ChunkEnd
<1>4. Ahead(k)'
  BY <1>1, <1>2, <1>3 DEF Ahead
<1> QED
  BY <1>2, <1>4 DEF Filled

\* The cycle that moves.
LEMMA MoverKeeps ==
  ASSUME FillTypeOK, FillTypeOK', [FillNext]_fillVars, NEW g \in Cycles, Ahead(g), Filled(g),
         BeginCycle(g) \/ Cycle(g)
  PROVE  Ahead(g)' /\ Filled(g)'
<1> DEFINE f == fill[g]
<1>0. /\ f \in Fills /\ clock \in Int /\ clock <= LastHour
      /\ f.since \in Int /\ f.from \in Int /\ f.till \in Int /\ f.till <= clock
      /\ ChunkEnd(f) \in Int /\ ChunkEnd(f) <= f.till
  <2>1. f \in Fills /\ clock \in Int /\ clock <= LastHour
    BY HourFacts DEF FillTypeOK
  <2>2. f.since \in Int /\ f.from \in Int /\ f.till \in Int
    BY <2>1 DEF Fills
  <2> QED
    BY <2>1, <2>2, ChunkEndFacts DEF Ahead
<1>r. \A h \in Hours : rows[h] # NoRow => rows'[h] # NoRow
  BY RowsStay
<1>n. Begun \in Fills /\ Asked(f) \in Fills /\ Written(f) \in Fills /\ NoFill \in Fills
      /\ Summed(f) \in Fills /\ \A d \in f.affected : Summing(f, d) \in Fills
  BY <1>0, NextFills, FrameTypes
<1>1. CASE BeginCycle(g)
  <2>1. fill'[g] = Begun /\ clock' = clock /\ cycle'[g] = "fetch"
    BY <1>1, <1>n, CycleSteps, FillUpdate, GoesType DEF BeginCycle
  <2>2. Begun.since = Since /\ Begun.from = Since /\ Begun.till = clock
    BY DEF Begun, NoFill
  <2>3. Since \in Int
    BY SinceType
  <2>4. \A h \in Hours : ~(Since <= h /\ h < Since)
    BY <2>3, HoursAreInts
  <2> QED
    BY <1>0, <2>1, <2>2, <2>4 DEF Ahead, Filled
<1>2. CASE AskChunk(g)
  <2>1. fill'[g] = Asked(f) /\ UNCHANGED <<clock, rows>> /\ f.from < f.till
    BY <1>2, <1>n, CycleSteps, FillUpdate DEF AskChunk
  <2>2. /\ Asked(f).since = f.since /\ Asked(f).from = f.from /\ Asked(f).till = f.till
        /\ Asked(f).frames = Frames(f.from, ChunkEnd(f))
    BY <1>0 DEF Asked, Fills
  <2>3. ChunkEnd(Asked(f)) = ChunkEnd(f)
    BY <2>2 DEF ChunkEnd
  <2>4. ASSUME NEW h \in Hours, f.from <= h, h < ChunkEnd(f)
        PROVE  Frames(f.from, ChunkEnd(f))[h] # NoRow
    <3>1. h < clock /\ published[h] \in Nat
      BY <1>0, <2>4, HoursAreInts DEF FillTypeOK
    <3> QED
      BY <2>4, <3>1 DEF Frames, NoRow
  <2>5. ChunkEnd(fill[g])' = ChunkEnd(f)
    BY <2>1, <2>2 DEF ChunkEnd
  <2>6. Ahead(g)'
    BY <1>0, <2>1, <2>2, <2>4, <2>5 DEF Ahead
  <2>7. Filled(g)'
    BY <2>1, <2>2 DEF Filled
  <2> QED
    BY <2>6, <2>7
<1>3. CASE WriteChunk(g)
  <2>1. fill'[g] = Written(f) /\ clock' = clock /\ cycle'[g] = "fetch" /\ cycle[g] = "asked"
    BY <1>3, <1>n, CycleSteps, FillUpdate, GoesType DEF WriteChunk
  <2>2. Written(f).since = f.since /\ Written(f).from = ChunkEnd(f) /\ Written(f).till = f.till
    BY <1>0 DEF Written, Fills
  <2>3. \A h \in Hours : f.frames[h] # NoRow => rows'[h] # NoRow
    BY <1>0, <1>3, UpsertType DEF WriteChunk, Fills
  <2>4. ASSUME NEW h \in Hours, f.since <= h, h < ChunkEnd(f) PROVE rows'[h] # NoRow
    <3>1. CASE h < f.from
      BY <1>r, <2>4, <3>1 DEF Filled
    <3>2. CASE f.from <= h
      BY <2>1, <2>3, <2>4, <3>2 DEF Ahead
    <3> QED
      BY <1>0, <3>1, <3>2, HoursAreInts
  <2> QED
    BY <1>0, <2>1, <2>2, <2>4 DEF Ahead, Filled
<1>4. CASE SumIdle(g)
  <2>1. PICK d \in f.affected : Set(g, Summing(f, d))
    BY <1>4, CycleSteps
  <2>2. fill'[g] = Summing(f, d)
    BY <1>n, <2>1, FillUpdate
  <2>3. UNCHANGED <<clock, rows>> /\ cycle'[g] = "sum"
    BY <1>4, GoesType DEF SumIdle
  <2>4. /\ Summing(f, d).since = f.since /\ Summing(f, d).from = f.from
        /\ Summing(f, d).till = f.till
    BY <1>0 DEF Summing, Fills
  <2> QED
    BY <1>0, <2>2, <2>3, <2>4 DEF Ahead, Filled
<1>5. CASE WriteIdle(g) \/ RebuildFails(g)
  <2>1. fill'[g] = Summed(f) /\ UNCHANGED <<clock, rows>> /\ cycle'[g] = "fetch"
    BY <1>5, <1>n, CycleSteps, FillUpdate, GoesType DEF WriteIdle, RebuildFails
  <2>2. Summed(f).since = f.since /\ Summed(f).from = f.from /\ Summed(f).till = f.till
    BY <1>0 DEF Summed, Fills
  <2> QED
    BY <1>0, <2>1, <2>2 DEF Ahead, Filled
<1>6. CASE ChunkFails(g) \/ CycleDone(g)
  <2>1. fill'[g] = NoFill /\ cycle'[g] = "wait" /\ clock' = clock
    BY <1>6, <1>n, CycleSteps, FillUpdate, GoesType DEF ChunkFails, CycleDone, EndCycle
  <2>2. NoFill.since = 0 /\ NoFill.from = 0 /\ NoFill.till = 0
    BY DEF NoFill
  <2>3. 0 <= clock
    BY HourFacts DEF FillTypeOK
  <2>4. \A h \in Hours : ~(0 <= h /\ h < 0)
    BY HoursAreInts
  <2>5. Filled(g)'
    BY <2>1, <2>2, <2>4 DEF Filled
  <2>6. Ahead(g)'
    BY <2>1, <2>2, <2>3 DEF Ahead
  <2> QED
    BY <2>5, <2>6
<1> QED
  BY <1>1, <1>2, <1>3, <1>4, <1>5, <1>6 DEF Cycle

LEMMA CoveringStep ==
  ASSUME FillTypeOK, Covering, [FillNext]_fillVars PROVE Covering'
<1>0. FillTypeOK'
  BY FillTypeStep
<1>1. ASSUME NEW g \in Cycles, BeginCycle(g) \/ Cycle(g), NEW k \in Cycles
      PROVE  Ahead(k)' /\ Filled(k)'
  <2>1. CASE k = g
    BY <1>0, <1>1, <2>1, MoverKeeps DEF Covering
  <2>2. CASE k # g
    <3>1. fill[g] \in Fills
      BY DEF FillTypeOK
    <3>2. fill'[k] = fill[k]
      BY <1>1, <2>2, <3>1, CycleSteps, NextFills, FrameTypes, FillUpdate DEF Cycle
    <3>3. cycle'[k] = cycle[k]
      BY <1>1, <2>2, GoesType DEF Cycle, BeginCycle, AskChunk, ChunkFails, WriteChunk, SumIdle,
         WriteIdle, RebuildFails, CycleDone, EndCycle
    <3> QED
      BY <3>2, <3>3, OthersKeep DEF Covering
  <2> QED
    BY <2>1, <2>2
<1>2. CASE HourEnds \/ Revise \/ AskToday \/ Live \/ UNCHANGED fillVars
  <2>1. UNCHANGED <<fill, cycle>>
    BY <1>2 DEF HourEnds, Revise, AskToday, Live, TodayFails, WriteToday, fillVars, cycleVars
  <2> QED
    BY <2>1, OthersKeep DEF Covering
<1>3. CASE FillRestart
  <2>1. \A k \in Cycles : fill'[k] = NoFill /\ cycle'[k] = "wait"
    BY <1>3 DEF FillRestart
  <2>2. NoFill.since = 0 /\ NoFill.from = 0 /\ NoFill.till = 0
    BY DEF NoFill
  <2>3. 0 <= clock'
    BY <1>0, HourFacts DEF FillTypeOK
  <2>4. \A h \in Hours : ~(0 <= h /\ h < 0)
    BY HoursAreInts
  <2>5. ASSUME NEW k \in Cycles PROVE Ahead(k)' /\ Filled(k)'
    <3>1. Filled(k)'
      BY <2>1, <2>2, <2>4 DEF Filled
    <3>2. Ahead(k)'
      BY <2>1, <2>2, <2>3 DEF Ahead
    <3> QED
      BY <3>1, <3>2
  <2> QED
    BY <2>5 DEF Covering
<1> QED
  BY <1>1, <1>2, <1>3 DEF FillNext, Covering

\* Every hour between where a cycle began and where it has come is stored, for
\* any chunk size and window, with a second cycle and the live loop at work and
\* whatever fails, is revised or restarts (fetchConsumptionAndStore).
THEOREM SpanIsFilled == FillSpec => []CycleFillsSpan
<1>1. FillInit => Covering
  <2> SUFFICES ASSUME FillInit PROVE Covering
    OBVIOUS
  <2>1. \A k \in Cycles : fill[k] = NoFill /\ cycle[k] = "wait"
    BY DEF FillInit
  <2>2. NoFill.since = 0 /\ NoFill.from = 0 /\ NoFill.till = 0
    BY DEF NoFill
  <2>3. 0 <= clock
    BY HourFacts DEF FillInit
  <2> QED
    BY <2>1, <2>2, <2>3, HoursAreInts DEF Covering, Ahead, Filled
<1>2. Covering => CycleFillsSpan
  BY DEF Covering, Filled, CycleFillsSpan
<1>3. FillTypeOK /\ Covering /\ [FillNext]_fillVars => Covering'
  BY CoveringStep
<1> QED
  BY <1>1, <1>2, <1>3, FillTypeCorrect, PTL DEF FillSpec

-----------------------------------------------------------------------------
(* The idle consumption (IdleWindows).                                     *)

Intervals == [from : Int, to : Int]

IdleTypes ==
  /\ halfHour \in Nat
  /\ booked \subseteq Intervals /\ IsFiniteSet(booked)
  /\ consumed \in [HoursKept -> Uses \cup {Missing}]
  /\ priced \in [HoursKept -> Tariffs]

LEMMA InitIdleTypes == IdleInit => IdleTypes
BY FS_EmptySet DEF IdleInit, IdleTypes

LEMMA IdleTypesInductive == IdleTypes /\ [IdleNext]_idleVars => IdleTypes'
<1> SUFFICES ASSUME IdleTypes, [IdleNext]_idleVars  PROVE IdleTypes'
  OBVIOUS
<1>0. UNCHANGED <<consumed, priced>>
  BY DEF IdleNext, RebuildDailyIdle, SessionOpens, SessionCloses, HalfHourPasses, idleVars
<1>1. CASE UNCHANGED <<halfHour, booked>>
  BY <1>0, <1>1 DEF IdleTypes
<1>2. CASE SessionOpens
  <2> DEFINE s == [from |-> halfHour, to |-> Open]
  <2>1. s \in Intervals
    BY IdleAssumption DEF IdleTypes, Intervals, Open
  <2>2. booked' = booked \cup {s} /\ UNCHANGED halfHour
    BY <1>2 DEF SessionOpens
  <2> HIDE DEF s
  <2>3. IsFiniteSet(booked')
    BY <2>2, FS_AddElement DEF IdleTypes
  <2> QED  BY <1>0, <2>1, <2>2, <2>3 DEF IdleTypes
<1>3. CASE SessionCloses
  <2>1. PICK s \in booked, t \in 1 .. halfHour :
          booked' = (booked \ {s}) \cup {[s EXCEPT !.to = t]}
    BY <1>3 DEF SessionCloses
  <2> DEFINE r == [s EXCEPT !.to = t]
  <2>2. r \in Intervals
    BY DEF IdleTypes, Intervals
  <2> HIDE DEF r
  <2>3. booked' = (booked \ {s}) \cup {r} /\ UNCHANGED halfHour
    BY <1>3, <2>1 DEF SessionCloses, r
  <2>4. IsFiniteSet(booked')
    BY <2>3, FS_RemoveElement, FS_AddElement DEF IdleTypes
  <2> QED  BY <1>0, <2>2, <2>3, <2>4 DEF IdleTypes
<1>4. CASE HalfHourPasses
  BY <1>0, <1>4 DEF HalfHourPasses, IdleTypes
<1> QED  BY <1>1, <1>2, <1>3, <1>4 DEF IdleNext, RebuildDailyIdle, idleVars

-----------------------------------------------------------------------------
(* nonChargingWindows.                                                     *)

Holds(w, t) == w.from <= t /\ t < w.to
Covers(ws, t) == \E i \in 1 .. Len(ws) : Holds(ws[i], t)

\* A window of the day until end.
Within(w, end) == DayBegins <= w.from /\ w.from < w.to /\ w.to <= end

\* SessionWindows: the sessions of the day, clipped to it, by their beginning.
LEMMA SessionsListed ==
  ASSUME IdleTypes, NEW end \in Int
  PROVE  LET ws == SessionWindows(end)
         IN  /\ ws \in Seq(Intervals)
             /\ \A i \in 1 .. Len(ws) : Within(ws[i], end)
             /\ \A i, j \in 1 .. Len(ws) : i < j => ws[i].from <= ws[j].from
             /\ \A t \in DayBegins .. end - 1 : Covers(ws, t) <=> \E s \in booked : Holds(s, t)
<1> DEFINE ws == SessionWindows(end)
           near == {x \in booked : x.from < end /\ x.to > DayBegins}
           clip == [s \in near |-> [from |-> Max({s.from, DayBegins}), to |-> Min({s.to, end})]]
           clipped == {[from |-> Max({s.from, DayBegins}), to |-> Min({s.to, end})] : s \in near}
           S == {w \in clipped : w.to > w.from}
           Before(v, w) == v.from < w.from \/ (v.from = w.from /\ v.to < w.to)
           R == {pair \in S \X S : Before(pair[1], pair[2])}
           n == Cardinality(S)
           r == Ranked(S, R)
<1>0. DayBegins \in Int /\ \A s \in booked : s.from \in Int /\ s.to \in Int
  BY IdleAssumption DEF IdleTypes, Intervals
<1>1. ASSUME NEW s \in near
      PROVE  /\ clip[s].from = IF s.from >= DayBegins THEN s.from ELSE DayBegins
             /\ clip[s].to = IF s.to <= end THEN s.to ELSE end
             /\ clip[s] \in Intervals
  <2>1. /\ Max({s.from, DayBegins}) = IF s.from >= DayBegins THEN s.from ELSE DayBegins
        /\ Min({s.to, end}) = IF s.to <= end THEN s.to ELSE end
    BY <1>0, MaxMinOfTwo
  <2> QED  BY <1>0, <2>1 DEF Intervals
<1>a. clipped = {clip[s] : s \in near}
  <2>1. \A s \in near : clip[s] = [from |-> Max({s.from, DayBegins}), to |-> Min({s.to, end})]
    OBVIOUS
  <2> HIDE DEF clip, near
  <2> QED  BY <2>1
<1>2. IsFiniteSet(S)
  <2>1. near \in SUBSET booked
    OBVIOUS
  <2>2. IsFiniteSet(near)
    BY <2>1, FS_Subset DEF IdleTypes
  <2>3. DOMAIN clip = near /\ S \in SUBSET clipped
    OBVIOUS
  <2> HIDE DEF near, clip, S
  <2>4. IsFiniteSet(clipped)
    <3> HIDE DEF clipped
    <3> QED  BY <1>a, <2>2, <2>3, ImageFinite
  <2> HIDE DEF clipped
  <2> QED  BY <2>3, <2>4, FS_Subset
<1>3. ASSUME NEW w \in S  PROVE w \in Intervals /\ Within(w, end)
  <2>1. PICK s \in near : w = clip[s]
    BY <1>a
  <2>2. w.from < w.to
    <3>1. w.from \in Int /\ w.to \in Int
      BY <1>1, <2>1 DEF Intervals
    <3> QED  BY <3>1
  <2> HIDE DEF clip, S
  <2>3. DayBegins <= w.from /\ w.to <= end
    BY <1>0, <1>1, <2>1
  <2> QED  BY <1>1, <2>1, <2>2, <2>3 DEF Within
<1>4. ASSUME NEW t \in DayBegins .. end - 1
      PROVE  (\E w \in S : Holds(w, t)) <=> \E s \in booked : Holds(s, t)
  <2>1. ASSUME NEW w \in S, Holds(w, t)  PROVE \E s \in booked : Holds(s, t)
    <3>1. PICK s \in near : w = clip[s]
      BY <1>a
    <3>2. Holds(s, t)
      <4> HIDE DEF clip
      <4>1. s \in booked
        OBVIOUS
      <4> QED  BY <1>0, <1>1, <2>1, <3>1, <4>1 DEF Holds
    <3> QED  BY <3>2
  <2>2. ASSUME NEW s \in booked, Holds(s, t)  PROVE \E w \in S : Holds(w, t)
    <3>1. s \in near
      BY <1>0, <2>2 DEF Holds
    <3>2. Holds(clip[s], t)
      <4> HIDE DEF clip
      <4> QED  BY <1>0, <1>1, <2>2, <3>1 DEF Holds
    <3>3. clip[s].to > clip[s].from
      <4> HIDE DEF clip
      <4> QED  BY <1>1, <3>1, <3>2 DEF Holds, Intervals
    <3>4. clip[s] \in S
      <4> HIDE DEF clip, near, clipped
      <4> QED  BY <1>a, <3>1, <3>3
    <3> QED  BY <3>2, <3>4
  <2> QED  BY <2>1, <2>2
<1>5. ws = r
  <2> DEFINE A(x) == Cardinality({y \in S : Before(y, x)})
             B(x) == Cardinality({y \in S : <<y, x>> \in R})
  <2>1. ws = [i \in 1 .. n |-> CHOOSE x \in S : A(x) = i - 1]
    BY DEF SessionWindows, Ordered
  <2>2. \A x \in S : A(x) = B(x)
    <3> HIDE DEF S, Before
    <3>1. ASSUME NEW x \in S  PROVE {y \in S : Before(y, x)} = {y \in S : <<y, x>> \in R}
      OBVIOUS
    <3> QED  BY <3>1
  <2>3. r = [i \in 1 .. n |-> CHOOSE x \in S : B(x) = i - 1]
    BY DEF Ranked
  <2> HIDE DEF A, B, n, r, S
  <2>4. \A i \in 1 .. n : (CHOOSE x \in S : A(x) = i - 1) = CHOOSE x \in S : B(x) = i - 1
    BY <2>2
  <2> QED  BY <2>1, <2>3, <2>4
<1> HIDE DEF S, ws
<1>6. \A x \in S : \A y \in S : <<x, y>> \in R <=> Before(x, y)
  OBVIOUS
<1>7. \A w \in S : w.from \in Int /\ w.to \in Int
  BY <1>3 DEF Intervals
<1>8. \A x \in S : \A y \in S : x.from = y.from /\ x.to = y.to => x = y
  BY <1>3 DEF Intervals
<1> HIDE DEF R
<1>9. StrictOrder(S, R)
  <2>1. \A x \in S : <<x, x>> \notin R
    BY <1>6, <1>7
  <2>2. \A x \in S : \A y \in S : x # y => <<x, y>> \in R \/ <<y, x>> \in R
    BY <1>6, <1>7, <1>8
  <2>3. \A x \in S : \A y \in S : \A z \in S : <<x, y>> \in R /\ <<y, z>> \in R => <<x, z>> \in R
    BY <1>6, <1>7
  <2> QED  BY <2>1, <2>2, <2>3 DEF StrictOrder
<1>10. r = Ranked(S, R) /\ n = Cardinality(S)
  OBVIOUS
<1> HIDE DEF r, n
<1>11. /\ n \in Nat /\ r \in [1 .. n -> S]
       /\ \A x \in S : \E i \in 1 .. n : r[i] = x
       /\ \A i \in 1 .. n : \A j \in 1 .. n : i < j => <<r[i], r[j]>> \in R
  BY <1>2, <1>9, <1>10, RankedInOrder
<1>12. r \in Seq(S) /\ Len(r) = n
  BY <1>11
<1>13. r \in Seq(Intervals) /\ \A i \in 1 .. n : Within(r[i], end)
  <2>1. S \subseteq Intervals
    BY <1>3
  <2> QED  BY <1>3, <1>11, <1>12, <2>1
<1>14. ASSUME NEW i \in 1 .. n, NEW j \in 1 .. n, i < j  PROVE r[i].from <= r[j].from
  <2>1. r[i] \in S /\ r[j] \in S /\ <<r[i], r[j]>> \in R
    BY <1>11, <1>14
  <2>2. Before(r[i], r[j])
    BY <1>6, <2>1
  <2> QED  BY <1>7, <2>1, <2>2
<1>15. \A t : Covers(r, t) <=> \E w \in S : Holds(w, t)
  BY <1>11, <1>12 DEF Covers
<1> QED  BY <1>4, <1>5, <1>12, <1>13, <1>14, <1>15 DEF ws

\* WithWindow puts the window at the end or makes the last one longer.
LEMMA WithWindowIs ==
  ASSUME NEW out \in Seq(Intervals), NEW w \in Intervals
  PROVE  LET next == WithWindow(out, w)
             n    == Len(out)
         IN  /\ next \in Seq(Intervals)
             /\ out = <<>> \/ w.from > out[n].to =>
                  /\ Len(next) = n + 1 /\ next[n + 1] = w
                  /\ \A i \in 1 .. n : next[i] = out[i]
             /\ out # <<>> /\ w.from <= out[n].to =>
                  /\ Len(next) = n /\ next[n].from = out[n].from
                  /\ next[n].to = IF out[n].to >= w.to THEN out[n].to ELSE w.to
                  /\ \A i \in 1 .. n - 1 : next[i] = out[i]
<1> DEFINE next == WithWindow(out, w)
           n == Len(out)
<1>0. n \in Nat /\ \A i \in 1 .. n : out[i] \in Intervals
  OBVIOUS
<1>1. CASE out # <<>> /\ w.from <= out[n].to
  <2> DEFINE l == out[n]
             longer == [l EXCEPT !.to = Max({@, w.to})]
             front == SubSeq(out, 1, n - 1)
  <2>1. n \in Nat \ {0} /\ l \in Intervals
    BY <1>0, <1>1
  <2>2. l.from \in Int /\ l.to \in Int /\ w.to \in Int
    BY <2>1 DEF Intervals
  <2>3. /\ longer = [l EXCEPT !.to = Max({l.to, w.to})]
        /\ Max({l.to, w.to}) = IF l.to >= w.to THEN l.to ELSE w.to
    BY <2>2, MaxMinOfTwo
  <2>4. /\ longer \in Intervals /\ longer.from = l.from
        /\ longer.to = IF l.to >= w.to THEN l.to ELSE w.to
    <3> HIDE DEF l
    <3> QED  BY <2>1, <2>2, <2>3 DEF Intervals
  <2>5. next = Append(front, longer)
    BY <1>1 DEF WithWindow, Last, Front
  <2>6. /\ front \in Seq(Intervals) /\ Len(front) = n - 1
        /\ \A i \in 1 .. n - 1 : front[i] = out[i]
    <3>1. \A m \in 1 .. n : SubSeq(out, 1, m - 1) = [i \in 1 .. m - 1 |-> out[i]]
      BY <1>0
    <3>2. n \in 1 .. n
      BY <2>1
    <3> HIDE DEF n
    <3>3. front = [i \in 1 .. n - 1 |-> out[i]]
      BY <3>1, <3>2
    <3>4. n - 1 \in Nat /\ \A i \in 1 .. n - 1 : out[i] \in Intervals
      BY <1>0, <3>2
    <3> HIDE DEF front
    <3> QED  BY <3>3, <3>4
  <2> HIDE DEF front, longer, next, n, l
  <2>7. /\ next \in Seq(Intervals) /\ Len(next) = (n - 1) + 1 /\ next[(n - 1) + 1] = longer
        /\ \A i \in 1 .. n - 1 : next[i] = front[i]
    BY <2>4, <2>5, <2>6
  <2>8. (n - 1) + 1 = n
    BY <2>1
  <2>9. /\ next \in Seq(Intervals) /\ Len(next) = n /\ next[n] = longer
        /\ \A i \in 1 .. n - 1 : next[i] = out[i]
    BY <2>6, <2>7, <2>8
  <2>10. /\ next[n].from = out[n].from
         /\ next[n].to = IF out[n].to >= w.to THEN out[n].to ELSE w.to
    BY <2>4, <2>9 DEF l
  <2>11. ~(out = <<>> \/ w.from > out[n].to)
    BY <1>1, <2>2 DEF l, Intervals
  <2> QED  BY <2>9, <2>10, <2>11 DEF next, n
<1>2. CASE out = <<>> \/ ~(w.from <= out[n].to)
  <2>1. next = Append(out, w)
    BY <1>2 DEF WithWindow, Last
  <2>2. /\ next \in Seq(Intervals) /\ Len(next) = n + 1 /\ next[n + 1] = w
        /\ \A i \in 1 .. n : next[i] = out[i]
    BY <1>0, <2>1
  <2>3. out # <<>> => ~(w.from <= out[n].to)
    BY <1>2
  <2> HIDE DEF next
  <2> QED  BY <2>2, <2>3 DEF next
<1>3. out # <<>> => (w.from > out[n].to <=> ~(w.from <= out[n].to))
  <2>1. out # <<>> => out[n] \in Intervals
    BY <1>0
  <2> QED  BY <2>1 DEF Intervals
<1> QED  BY <1>1, <1>2, <1>3

\* The merge goes through the windows one by one.
LEMMA MergeFold ==
  ASSUME NEW ws \in Seq(Intervals)
  PROVE  \E f \in [0 .. Len(ws) -> Seq(Intervals)] :
           /\ f[0] = <<>>
           /\ \A i \in 1 .. Len(ws) : f[i] = WithWindow(f[i - 1], ws[i])
           /\ mergeWindows(ws) = f[Len(ws)]
<1> DEFINE n == Len(ws)
           Of(g, T) == IF T = {} THEN <<>> ELSE WithWindow(g[T \ {Max(T)}], ws[Max(T)])
           Def(g) == [T \in SUBSET (1 .. n) |-> Of(g, T)]
           it == CHOOSE g : g = Def(g)
<1>1. n \in Nat /\ DOMAIN ws = 1 .. n /\ <<>> \in Seq(Intervals) /\ \A i \in 1 .. n : ws[i] \in Intervals
  OBVIOUS
<1>a. \A out \in Seq(Intervals) : \A w \in Intervals : WithWindow(out, w) \in Seq(Intervals)
  BY WithWindowIs
<1>2. mergeWindows(ws) = it[1 .. n]
  <2>1. mergeWindows(ws)
          = (CHOOSE g : g = [T \in SUBSET DOMAIN ws |->
               IF T = {} THEN <<>> ELSE WithWindow(g[T \ {Max(T)}], ws[Max(T)])])[DOMAIN ws]
    BY DEF mergeWindows, FoldLeft, MapThenFoldSet
  <2> QED  BY <1>1, <2>1
<1>3. \E g : g = Def(g)
  <2> DEFINE extend == [pair \in (1 .. n) \X Seq(Intervals) |-> WithWindow(pair[2], ws[pair[1]])]
  <2>1. \A i \in 1 .. n : \A out \in Seq(Intervals) : extend[<<i, out>>] = WithWindow(out, ws[i])
    OBVIOUS
  <2>2. \A i \in 1 .. n : \A out \in Seq(Intervals) : extend[<<i, out>>] \in Seq(Intervals)
    BY <1>1, <1>a, <2>1
  <2> HIDE DEF extend, n
  <2>3. PICK g \in [SUBSET (1 .. n) -> Seq(Intervals)] : IsFoldLeft(g, n, <<>>, extend)
    BY <1>1, <2>2, FoldLeftExists
  <2>4. ASSUME NEW T \in SUBSET (1 .. n)  PROVE g[T] = Of(g, T)
    <3>1. CASE T = {}
      BY <2>3, <3>1 DEF IsFoldLeft
    <3>2. CASE T # {}
      <4>1. Max(T) \in 1 .. n /\ T \ {Max(T)} \in SUBSET (1 .. n)
        BY <1>1, <3>2, MaxOf
      <4>2. g[T \ {Max(T)}] \in Seq(Intervals)
        BY <4>1
      <4> QED  BY <2>1, <2>3, <3>2, <4>1, <4>2 DEF IsFoldLeft
    <3> QED  BY <3>1, <3>2
  <2> HIDE DEF Of
  <2>5. g = Def(g)
    BY <2>4
  <2> QED  BY <2>5
<1>4. it = Def(it)
  <2> HIDE DEF Def
  <2> QED  BY <1>3
<1> DEFINE f == [i \in 0 .. n |-> it[1 .. i]]
<1> HIDE DEF it, n
<1>5. f[0] = <<>>
  <2>1. it[1 .. 0] = <<>>
    <3>1. {} \in SUBSET (1 .. n) /\ Of(it, {}) = <<>>
      OBVIOUS
    <3> HIDE DEF Of
    <3>2. it[{}] = <<>>
      BY <1>4, <3>1
    <3> QED  BY <3>2, Segments
  <2> QED  BY <1>1, <2>1
<1>6. ASSUME NEW i \in 1 .. n  PROVE f[i] = WithWindow(f[i - 1], ws[i])
  <2>1. /\ 1 .. i \in SUBSET (1 .. n) /\ 1 .. i # {}
        /\ Max(1 .. i) = i /\ (1 .. i) \ {i} = 1 .. (i - 1)
    <3>1. i \in Nat \ {0} /\ i \in 1 .. i
      BY <1>1
    <3> QED  BY <1>1, <3>1, Segments
  <2>2. Of(it, 1 .. i) = WithWindow(it[1 .. (i - 1)], ws[i])
    BY <2>1
  <2> HIDE DEF Of
  <2>3. it[1 .. i] = WithWindow(it[1 .. (i - 1)], ws[i])
    BY <1>4, <2>1, <2>2
  <2>4. i \in 0 .. n /\ i - 1 \in 0 .. n
    BY <1>1
  <2> QED  BY <2>3, <2>4
<1>7. DOMAIN f = 0 .. n /\ f[n] = it[1 .. n]
  BY <1>1
<1> HIDE DEF f, Def
<1>8. \A i \in 0 .. n : f[i] \in Seq(Intervals)
  <2> DEFINE Good == {i \in Nat : i \in 0 .. n => f[i] \in Seq(Intervals)}
  <2>1. 0 \in Good
    BY <1>1, <1>5
  <2>2. ASSUME NEW i \in Nat, i \in Good  PROVE i + 1 \in Good
    <3>1. CASE i + 1 \in 0 .. n
      <4>1. i \in 0 .. n /\ i + 1 \in 1 .. n /\ (i + 1) - 1 = i
        BY <1>1, <3>1
      <4>2. f[i] \in Seq(Intervals)
        BY <2>2, <4>1
      <4>3. f[i + 1] = WithWindow(f[i], ws[i + 1]) /\ ws[i + 1] \in Intervals
        BY <1>1, <1>6, <4>1
      <4>4. WithWindow(f[i], ws[i + 1]) \in Seq(Intervals)
        BY <1>a, <4>2, <4>3, Zenon
      <4> QED  BY <4>3, <4>4
    <3> QED  BY <3>1
  <2> HIDE DEF Good
  <2>3. Nat \subseteq Good
    BY <2>1, <2>2, NatInductive
  <2> QED  BY <1>1, <2>3 DEF Good
<1>9. f \in [0 .. n -> Seq(Intervals)]
  <2>1. f = [i \in 0 .. n |-> f[i]]
    BY DEF f
  <2> QED  BY <1>8, <2>1
<1> QED  BY <1>2, <1>5, <1>6, <1>7, <1>9 DEF n

\* Windows of the day that leave time between each and the next.
Parted(ws, end) ==
  /\ \A i \in 1 .. Len(ws) : Within(ws[i], end)
  /\ \A i, j \in 1 .. Len(ws) : i < j => ws[i].to < ws[j].from

\* One window more: what is covered grows by it, and the windows stay parted.
LEMMA WithWindowCovers ==
  ASSUME NEW end \in Int, NEW out \in Seq(Intervals), NEW w \in Intervals,
         Parted(out, end), Within(w, end),
         out # <<>> => out[Len(out)].from <= w.from
  PROVE  LET next == WithWindow(out, w)
         IN  /\ next \in Seq(Intervals) /\ Parted(next, end)
             /\ next # <<>> /\ next[Len(next)].from <= w.from
             /\ \A t \in Int : Covers(next, t) <=> Covers(out, t) \/ Holds(w, t)
<1> DEFINE next == WithWindow(out, w)
           n == Len(out)
<1>0. /\ n \in Nat /\ \A i \in 1 .. n : out[i] \in Intervals
      /\ \A i \in 1 .. n : out[i].from \in Int /\ out[i].to \in Int
      /\ w.from \in Int /\ w.to \in Int /\ DayBegins \in Int
  <2>1. n \in Nat /\ \A i \in 1 .. n : out[i] \in Intervals
    OBVIOUS
  <2>2. \A s \in Intervals : s.from \in Int /\ s.to \in Int
    BY DEF Intervals
  <2> QED  BY <2>1, <2>2, IdleAssumption
<1>1. /\ next \in Seq(Intervals)
      /\ out = <<>> \/ w.from > out[n].to =>
           /\ Len(next) = n + 1 /\ next[n + 1] = w
           /\ \A i \in 1 .. n : next[i] = out[i]
      /\ out # <<>> /\ w.from <= out[n].to =>
           /\ Len(next) = n /\ next[n].from = out[n].from
           /\ next[n].to = IF out[n].to >= w.to THEN out[n].to ELSE w.to
           /\ \A i \in 1 .. n - 1 : next[i] = out[i]
  BY WithWindowIs
<1>2. out # <<>> => n \in 1 .. n
  BY <1>0
<1>3. out = <<>> => n = 0
  OBVIOUS
<1> HIDE DEF next, n
<1>4. CASE out = <<>> \/ w.from > out[n].to
  <2>1. /\ Len(next) = n + 1 /\ next[n + 1] = w
        /\ \A i \in 1 .. n : next[i] = out[i]
    BY <1>1, <1>4
  <2>2. \A i \in 1 .. n + 1 : i \in 1 .. n \/ i = n + 1
    BY <1>0
  <2>3. \A i \in 1 .. n : i \in 1 .. n + 1
    BY <1>0
  <2>4. \A i \in 1 .. Len(next) : Within(next[i], end)
    BY <2>1, <2>2 DEF Parted, n
  <2>5. ASSUME NEW i \in 1 .. n  PROVE out[i].to < w.from
    <3>1. i = n \/ i < n
      BY <1>0
    <3>2. n \in 1 .. n /\ w.from > out[n].to
      BY <1>0, <1>2, <1>3, <1>4
    <3>3. CASE i < n
      <4>1. out[i].to < out[n].from
        BY <3>2, <3>3 DEF Parted, n
      <4>2. out[n].from < out[n].to
        BY <3>2 DEF Parted, Within, n
      <4> QED  BY <1>0, <3>2, <4>1, <4>2
    <3> QED  BY <1>0, <3>1, <3>2, <3>3
  <2>6. ASSUME NEW i \in 1 .. n + 1, NEW j \in 1 .. n + 1, i < j  PROVE next[i].to < next[j].from
    <3>1. i \in 1 .. n
      BY <1>0, <2>6
    <3>2. CASE j = n + 1
      BY <2>1, <2>5, <3>1, <3>2
    <3>3. CASE j \in 1 .. n
      BY <2>1, <2>6, <3>1, <3>3 DEF Parted, n
    <3> QED  BY <2>2, <3>2, <3>3
  <2>7. ASSUME NEW t \in Int  PROVE Covers(next, t) <=> Covers(out, t) \/ Holds(w, t)
    <3>1. n + 1 \in 1 .. n + 1
      BY <1>0
    <3>2. Covers(next, t) => Covers(out, t) \/ Holds(w, t)
      BY <2>1, <2>2 DEF Covers, n
    <3>3. Covers(out, t) => Covers(next, t)
      BY <2>1, <2>3 DEF Covers, n
    <3>4. Holds(w, t) => Covers(next, t)
      BY <2>1, <3>1 DEF Covers
    <3> QED  BY <3>2, <3>3, <3>4
  <2>8. next # <<>> /\ next[Len(next)].from <= w.from
    BY <1>0, <1>1, <2>1
  <2> QED  BY <1>1, <2>1, <2>4, <2>6, <2>7, <2>8 DEF Parted, next
<1>5. CASE out # <<>> /\ w.from <= out[n].to
  <2> DEFINE l == out[n]
             m == next[n]
  <2>1. /\ Len(next) = n /\ n \in 1 .. n /\ m.from = l.from
        /\ m.to = IF l.to >= w.to THEN l.to ELSE w.to
        /\ \A i \in 1 .. n - 1 : next[i] = out[i]
    BY <1>1, <1>2, <1>5
  <2>2. l.from <= w.from /\ l.from \in Int /\ l.to \in Int /\ w.from <= l.to
    BY <1>0, <1>5, <2>1 DEF n
  <2>3. Within(l, end)
    BY <2>1 DEF Parted, n
  <2> HIDE DEF l, m
  <2>4. Within(m, end)
    BY <1>0, <2>1, <2>2, <2>3 DEF Within
  <2>5. \A i \in 1 .. n : i \in 1 .. n - 1 \/ i = n
    BY <1>0
  <2>6. \A i \in 1 .. n - 1 : i \in 1 .. n /\ i < n
    BY <1>0
  <2>7. \A i \in 1 .. n : Within(next[i], end)
    <3>1. \A i \in 1 .. n - 1 : Within(next[i], end)
      BY <2>1, <2>6 DEF Parted, n
    <3> QED  BY <2>4, <2>5, <3>1 DEF m
  <2>8. ASSUME NEW i \in 1 .. n, NEW j \in 1 .. n, i < j  PROVE next[i].to < next[j].from
    <3>1. i \in 1 .. n - 1 /\ out[i].to < out[j].from /\ next[i] = out[i]
      BY <1>0, <2>1, <2>8 DEF Parted, n
    <3>2. CASE j = n
      BY <2>1, <3>1, <3>2 DEF l, m
    <3>3. CASE j \in 1 .. n - 1
      BY <2>1, <3>1, <3>3
    <3> QED  BY <2>5, <3>2, <3>3
  <2>9. ASSUME NEW t \in Int  PROVE Covers(next, t) <=> Covers(out, t) \/ Holds(w, t)
    <3>1. Holds(m, t) <=> Holds(l, t) \/ Holds(w, t)
      BY <1>0, <2>1, <2>2 DEF Holds
    <3>2. Covers(next, t) <=> Holds(m, t) \/ \E i \in 1 .. n - 1 : Holds(out[i], t)
      BY <2>1, <2>5, <2>6 DEF Covers, m
    <3>3. Covers(out, t) <=> Holds(l, t) \/ \E i \in 1 .. n - 1 : Holds(out[i], t)
      BY <2>1, <2>5, <2>6 DEF Covers, l, n
    <3> QED  BY <3>1, <3>2, <3>3
  <2>10. next # <<>> /\ next[Len(next)].from <= w.from
    BY <1>1, <2>1, <2>2 DEF m
  <2> QED  BY <1>1, <2>1, <2>7, <2>8, <2>9, <2>10 DEF Parted, next
<1>6. out # <<>> => (w.from > out[n].to \/ w.from <= out[n].to)
  BY <1>0, <1>2
<1> QED  BY <1>4, <1>5, <1>6

\* The windows in order of their beginning merge into parted ones that cover the same.
LEMMA MergedList ==
  ASSUME NEW end \in Int, NEW ws \in Seq(Intervals),
         \A i \in 1 .. Len(ws) : Within(ws[i], end),
         \A i, j \in 1 .. Len(ws) : i < j => ws[i].from <= ws[j].from
  PROVE  LET out == mergeWindows(ws)
         IN  /\ out \in Seq(Intervals) /\ Parted(out, end)
             /\ \A t \in Int : Covers(out, t) <=> Covers(ws, t)
<1> DEFINE n == Len(ws)
<1>0. n \in Nat /\ \A i \in 1 .. n : ws[i] \in Intervals /\ ws[i].from \in Int /\ ws[i].to \in Int
  <2>1. n \in Nat /\ \A i \in 1 .. n : ws[i] \in Intervals
    OBVIOUS
  <2> QED  BY <2>1 DEF Intervals
<1>1. PICK f \in [0 .. n -> Seq(Intervals)] :
        /\ f[0] = <<>>
        /\ \A i \in 1 .. n : f[i] = WithWindow(f[i - 1], ws[i])
        /\ mergeWindows(ws) = f[n]
  BY MergeFold
<1> DEFINE Fits(i) ==
             /\ f[i] \in Seq(Intervals) /\ Parted(f[i], end)
             /\ f[i] = <<>> <=> i = 0
             /\ i # 0 => f[i][Len(f[i])].from <= ws[i].from
             /\ \A t \in Int : Covers(f[i], t) <=> \E j \in 1 .. i : Holds(ws[j], t)
           Good == {i \in Nat : i \in 0 .. n => Fits(i)}
<1> HIDE DEF n
<1>2. 0 \in Good
  <2>1. f[0] = <<>> /\ Len(f[0]) = 0 /\ f[0] \in Seq(Intervals)
    BY <1>1
  <2>2. Parted(f[0], end)
    BY <2>1 DEF Parted
  <2>3. \A t \in Int : ~Covers(f[0], t) /\ ~\E j \in 1 .. 0 : Holds(ws[j], t)
    BY <2>1 DEF Covers
  <2> QED  BY <2>1, <2>2, <2>3
<1>3. ASSUME NEW i \in Nat, i \in Good  PROVE i + 1 \in Good
  <2> SUFFICES ASSUME i + 1 \in 0 .. n  PROVE Fits(i + 1)
    OBVIOUS
  <2>1. i \in 0 .. n /\ i + 1 \in 1 .. n /\ (i + 1) - 1 = i /\ i + 1 # 0
    BY <1>0
  <2>2. Fits(i)
    BY <1>3, <2>1
  <2> DEFINE out == f[i]
             w == ws[i + 1]
             longer == WithWindow(out, w)
  <2>3. f[i + 1] = longer
    BY <1>1, <2>1
  <2>4. w \in Intervals /\ Within(w, end)
    BY <1>0, <2>1 DEF n
  <2>5. out # <<>> => out[Len(out)].from <= w.from
    <3>1. CASE i = 0
      BY <2>2, <3>1
    <3>2. CASE i # 0
      <4>1. out[Len(out)].from <= ws[i].from
        BY <2>2, <3>2
      <4>2. i \in 1 .. n /\ i + 1 \in 1 .. n /\ i < i + 1
        BY <2>1, <3>2
      <4>3. ws[i].from <= w.from
        BY <4>2 DEF n
      <4>4. out # <<>> => out[Len(out)].from \in Int
        <5>1. out \in Seq(Intervals)
          BY <2>2
        <5> HIDE DEF out
        <5>2. out # <<>> => out[Len(out)] \in Intervals
          BY <5>1
        <5> QED  BY <5>2 DEF Intervals
      <4>5. ws[i].from \in Int /\ w.from \in Int
        BY <1>0, <4>2
      <4> HIDE DEF out, w
      <4> QED  BY <4>1, <4>3, <4>4, <4>5
    <3> QED  BY <3>1, <3>2
  <2>6. out \in Seq(Intervals) /\ Parted(out, end)
    BY <2>2
  <2>7. \A t \in Int : Covers(out, t) <=> \E j \in 1 .. i : Holds(ws[j], t)
    BY <2>2
  <2> HIDE DEF Fits, out, w
  <2>8. /\ longer \in Seq(Intervals) /\ Parted(longer, end)
        /\ longer # <<>> /\ longer[Len(longer)].from <= w.from
        /\ \A t \in Int : Covers(longer, t) <=> Covers(out, t) \/ Holds(w, t)
    BY <2>4, <2>5, <2>6, WithWindowCovers
  <2> HIDE DEF longer
  <2>9. ASSUME NEW t \in Int
        PROVE  Covers(longer, t) <=> \E j \in 1 .. i + 1 : Holds(ws[j], t)
    <3>1. \A j \in 1 .. i + 1 : j \in 1 .. i \/ j = i + 1
      OBVIOUS
    <3>2. \A j \in 1 .. i : j \in 1 .. i + 1
      OBVIOUS
    <3>3. i + 1 \in 1 .. i + 1
      OBVIOUS
    <3> QED  BY <2>7, <2>8, <3>1, <3>2, <3>3 DEF w
  <2> QED  BY <2>1, <2>3, <2>8, <2>9 DEF Fits, w
<1> HIDE DEF Good
<1>4. Nat \subseteq Good
  BY <1>2, <1>3, NatInductive
<1>5. n \in Good /\ n \in 0 .. n
  BY <1>0, <1>4
<1>6. Fits(n)
  BY <1>5 DEF Good
<1>7. \A t \in Int : Covers(f[n], t) <=> Covers(ws, t)
  BY <1>6 DEF Covers, n
<1> QED  BY <1>1, <1>6, <1>7

\* Windows of the day, no two of which hold the same half hour.
Disjoint(gaps, end) ==
  /\ IsFiniteSet(gaps) /\ gaps \subseteq Intervals
  /\ \A w \in gaps : Within(w, end)
  /\ \A v, w \in gaps : \A t \in Int : Holds(v, t) /\ Holds(w, t) => v = w

\* What parted windows leave uncovered.
LEMMA InvertGaps ==
  ASSUME NEW end \in Int, DayBegins <= end, NEW out \in Seq(Intervals), Parted(out, end)
  PROVE  LET gaps == invertWindows(end, out)
         IN  /\ Disjoint(gaps, end)
             /\ \A t \in DayBegins .. end - 1 : ~Covers(out, t) <=> \E w \in gaps : Holds(w, t)
<1> DEFINE n == Len(out)
           cursor == [i \in 0 .. n |-> IF i = 0 THEN DayBegins ELSE out[i].to]
           next   == [i \in 0 .. n |-> IF i = n THEN end ELSE out[i + 1].from]
           gap    == [i \in 0 .. n |-> [from |-> cursor[i], to |-> next[i]]]
           gaps   == invertWindows(end, out)
<1>0. /\ n \in Nat /\ DayBegins \in Int
      /\ \A i \in 1 .. n : out[i].from \in Int /\ out[i].to \in Int
      /\ \A i \in 1 .. n : DayBegins <= out[i].from /\ out[i].from < out[i].to /\ out[i].to <= end
      /\ \A i \in 1 .. n : \A j \in 1 .. n : i < j => out[i].to < out[j].from
  <2>1. n \in Nat /\ \A i \in 1 .. n : out[i] \in Intervals
    OBVIOUS
  <2> HIDE DEF n
  <2>2. \A i \in 1 .. n : out[i].from \in Int /\ out[i].to \in Int
    BY <2>1 DEF Intervals
  <2> QED  BY <2>1, <2>2, IdleAssumption DEF Parted, Within, n
<1>1. gaps = {w \in {gap[i] : i \in 0 .. n} : w.to > w.from}
  <2>1. gaps = {w \in {[from |-> IF i = 0 THEN DayBegins ELSE out[i].to,
                        to   |-> IF i = n THEN end ELSE out[i + 1].from] : i \in 0 .. n} :
                  w.to > w.from}
    BY DEF invertWindows
  <2>2. \A i \in 0 .. n : gap[i] = [from |-> IF i = 0 THEN DayBegins ELSE out[i].to,
                                    to   |-> IF i = n THEN end ELSE out[i + 1].from]
    OBVIOUS
  <2> HIDE DEF gap, gaps, n
  <2> QED  BY <2>1, <2>2
<1>2. \A i \in 0 .. n : gap[i].from = cursor[i] /\ gap[i].to = next[i]
  OBVIOUS
<1>3. /\ \A i \in 0 .. n : i = 0 => cursor[i] = DayBegins
      /\ \A i \in 1 .. n : cursor[i] = out[i].to
      /\ \A i \in 0 .. n : i = n => next[i] = end
      /\ \A i \in 0 .. n : i # n => i + 1 \in 1 .. n /\ next[i] = out[i + 1].from
      /\ \A i \in 0 .. n : i = 0 \/ i \in 1 .. n
  <2> HIDE DEF n
  <2> QED  BY <1>0
<1>4. IsFiniteSet({gap[i] : i \in 0 .. n})
  <2>1. IsFiniteSet(0 .. n) /\ DOMAIN gap = 0 .. n
    <3> HIDE DEF n, gap
    <3>1. n \in Int /\ 0 \in Int
      BY <1>0
    <3>2. IsFiniteSet(0 .. n)
      BY <3>1, FS_Interval
    <3> QED  BY <3>2 DEF gap
  <2> HIDE DEF gap, n
  <2> QED  BY <2>1, ImageFinite
<1>5. DOMAIN gap = 0 .. n /\ \A i \in 0 .. n : gap[i] = [from |-> cursor[i], to |-> next[i]]
  OBVIOUS
<1> HIDE DEF n, cursor, next, gap, gaps
<1>6. /\ \A i \in 0 .. n : cursor[i] \in Int /\ next[i] \in Int
      /\ \A i \in 0 .. n : DayBegins <= cursor[i] /\ next[i] <= end
  <2> SUFFICES ASSUME NEW i \in 0 .. n
               PROVE  /\ cursor[i] \in Int /\ DayBegins <= cursor[i]
                      /\ next[i] \in Int /\ next[i] <= end
    OBVIOUS
  <2>1. cursor[i] \in Int /\ DayBegins <= cursor[i]
    <3>1. CASE i = 0
      BY <1>0, <1>3, <3>1
    <3>2. CASE i \in 1 .. n
      <4>1. /\ cursor[i] = out[i].to /\ DayBegins <= out[i].from /\ out[i].from < out[i].to
            /\ out[i].from \in Int /\ out[i].to \in Int
        BY <1>0, <1>3, <3>2
      <4>2. DayBegins \in Int
        BY <1>0
      <4> QED  BY <4>1, <4>2
    <3> QED  BY <1>3, <3>1, <3>2
  <2>2. next[i] \in Int /\ next[i] <= end
    <3>1. CASE i = n
      BY <1>0, <1>3, <3>1
    <3>2. CASE i # n
      <4>1. i + 1 \in 1 .. n /\ next[i] = out[i + 1].from
        BY <1>3, <3>2
      <4>2. /\ out[i + 1].from \in Int /\ out[i + 1].to \in Int
            /\ out[i + 1].from < out[i + 1].to /\ out[i + 1].to <= end
        BY <1>0, <4>1
      <4> QED  BY <4>1, <4>2
    <3> QED  BY <3>1, <3>2
  <2> QED  BY <2>1, <2>2
<1>7. \A i \in 0 .. n : \A j \in 0 .. n : i < j => next[i] < cursor[j]
  <2> SUFFICES ASSUME NEW i \in 0 .. n, NEW j \in 0 .. n, i < j  PROVE next[i] < cursor[j]
    OBVIOUS
  <2>0. n \in Nat /\ i \in Int /\ j \in Int
    BY <1>0
  <2>1. i + 1 \in 1 .. n /\ j \in 1 .. n /\ i # n
    BY <2>0
  <2>2. next[i] = out[i + 1].from /\ cursor[j] = out[j].to
    BY <1>3, <2>1
  <2>3. i + 1 = j \/ i + 1 < j
    BY <2>0
  <2>4. /\ out[i + 1].from \in Int /\ out[i + 1].to \in Int
        /\ out[j].from \in Int /\ out[j].to \in Int
        /\ out[i + 1].from < out[i + 1].to /\ out[j].from < out[j].to
        /\ i + 1 < j => out[i + 1].to < out[j].from
    BY <1>0, <2>1
  <2>5. out[i + 1].from < out[j].to
    BY <2>3, <2>4
  <2> QED  BY <2>2, <2>5
<1>8. \A w \in gaps : w \in Intervals /\ Within(w, end)
  BY <1>1, <1>2, <1>5, <1>6 DEF Intervals, Within
<1>9. ASSUME NEW v \in gaps, NEW w \in gaps, NEW t \in Int, Holds(v, t), Holds(w, t)  PROVE v = w
  <2>1. PICK i \in 0 .. n : v = gap[i]
    BY <1>1
  <2>2. PICK j \in 0 .. n : w = gap[j]
    BY <1>1
  <2>3. cursor[i] <= t /\ t < next[i] /\ cursor[j] <= t /\ t < next[j]
    BY <1>2, <1>9, <2>1, <2>2 DEF Holds
  <2>4. ~(i < j) /\ ~(j < i)
    BY <1>6, <1>7, <2>3
  <2>5. i = j
    BY <1>0, <2>4
  <2> QED  BY <2>1, <2>2, <2>5
<1>10. IsFiniteSet(gaps)
  <2>1. gaps \in SUBSET {gap[i] : i \in 0 .. n}
    BY <1>1
  <2> DEFINE all == {gap[i] : i \in 0 .. n}
  <2>2. IsFiniteSet(all) /\ gaps \in SUBSET all
    BY <1>4, <2>1
  <2> HIDE DEF all
  <2> QED  BY <2>2, FS_Subset
<1>11. ASSUME NEW t \in DayBegins .. end - 1, NEW w \in gaps, Holds(w, t)  PROVE ~Covers(out, t)
  <2>1. PICK i \in 0 .. n : w = gap[i]
    BY <1>1
  <2>2. cursor[i] <= t /\ t < next[i]
    BY <1>2, <1>11, <2>1 DEF Holds
  <2> SUFFICES ASSUME NEW j \in 1 .. n, Holds(out[j], t)  PROVE FALSE
    BY DEF Covers, n
  <2>3. out[j].from <= t /\ t < out[j].to
    BY DEF Holds
  <2>4. CASE j <= i
    <3>1. i \in 1 .. n /\ cursor[i] = out[i].to
      BY <1>0, <1>3, <2>4
    <3>2. j = i \/ j < i
      BY <1>0, <2>4
    <3>3. CASE j = i
      BY <1>0, <2>2, <2>3, <3>1, <3>3
    <3>4. CASE j < i
      BY <1>0, <2>2, <2>3, <3>1, <3>4
    <3> QED  BY <3>2, <3>3, <3>4
  <2>5. CASE i < j
    <3>1. i + 1 \in 1 .. n /\ next[i] = out[i + 1].from
      BY <1>0, <1>3, <2>5
    <3>2. j = i + 1 \/ i + 1 < j
      BY <1>0, <2>5
    <3>3. CASE j = i + 1
      BY <1>0, <2>2, <2>3, <3>1, <3>3
    <3>4. CASE i + 1 < j
      BY <1>0, <2>2, <2>3, <3>1, <3>4
    <3> QED  BY <3>2, <3>3, <3>4
  <2> QED  BY <1>0, <2>4, <2>5
<1>12. ASSUME NEW t \in DayBegins .. end - 1, ~Covers(out, t)  PROVE \E w \in gaps : Holds(w, t)
  <2> DEFINE B == {j \in 0 .. n : cursor[j] <= t}
             i == Max(B)
  <2>0. t \in Int /\ DayBegins <= t /\ t < end
    BY <1>0
  <2>1. B \in SUBSET Int /\ B \in SUBSET (0 .. n) /\ B # {}
    <3>1. 0 \in 0 .. n /\ cursor[0] = DayBegins
      BY <1>0, <1>3
    <3>2. 0 \in B
      BY <2>0, <3>1
    <3> QED  BY <1>0, <3>2
  <2>2. IsFiniteSet(B)
    <3>0. n \in Int /\ 0 \in Int
      BY <1>0
    <3>1. IsFiniteSet(0 .. n)
      BY <3>0, FS_Interval
    <3> DEFINE all == 0 .. n
    <3>2. IsFiniteSet(all) /\ B \in SUBSET all
      BY <2>1, <3>1
    <3> HIDE DEF all, B
    <3> QED  BY <3>2, FS_Subset
  <2>3. i \in B /\ \A j \in B : i >= j
    <3> HIDE DEF B
    <3> QED  BY <2>1, <2>2, MaxMinOfFinite
  <2>4. i \in 0 .. n /\ cursor[i] <= t
    BY <2>3
  <2>5. \A j \in 0 .. n : cursor[j] <= t => i >= j
    BY <2>3
  <2> HIDE DEF B, i
  <2>6. t < next[i]
    <3>1. CASE i = n
      BY <1>3, <2>0, <2>4, <3>1
    <3>2. CASE i # n
      <4>1. i + 1 \in 1 .. n /\ next[i] = out[i + 1].from /\ i + 1 \in 0 .. n
        BY <1>0, <1>3, <2>4, <3>2
      <4>2. ~(cursor[i + 1] <= t) /\ cursor[i + 1] = out[i + 1].to
        BY <1>0, <1>3, <2>4, <2>5, <4>1
      <4>3. ~Holds(out[i + 1], t)
        BY <1>12, <4>1 DEF Covers, n
      <4> QED  BY <1>0, <2>0, <4>1, <4>2, <4>3 DEF Holds
    <3> QED  BY <3>1, <3>2
  <2>7. gap[i] \in gaps /\ Holds(gap[i], t)
    BY <1>1, <1>2, <1>6, <2>0, <2>4, <2>6 DEF Holds
  <2> QED  BY <2>7
<1>13. Disjoint(gaps, end)
  BY <1>8, <1>9, <1>10 DEF Disjoint
<1> QED  BY <1>11, <1>12, <1>13 DEF gaps

\* The gaps of the day hold its half hours without a session.
LEMMA GapsAreUncovered ==
  ASSUME IdleTypes, DayBegins < DayEndNow
  PROVE  LET gaps == nonChargingWindows(DayEndNow)
         IN  /\ Disjoint(gaps, DayEndNow)
             /\ \A t \in Int : t \in Uncovered <=> \E w \in gaps : Holds(w, t)
<1> DEFINE end  == DayEndNow
           ws   == SessionWindows(end)
           out  == mergeWindows(ws)
           gaps == invertWindows(end, out)
<1>1. end \in Int /\ DayBegins \in Int /\ DayBegins <= end
  <2>1. DayEnds \in Int /\ halfHour \in Int /\ DayBegins \in Int
    BY IdleAssumption DEF IdleTypes
  <2>2. end \in Int
    BY <2>1, MaxMinOfTwo DEF DayEndNow
  <2> QED  BY <2>1, <2>2
<1>2. gaps = nonChargingWindows(DayEndNow)
  BY DEF nonChargingWindows
<1> HIDE DEF end
<1>3. /\ ws \in Seq(Intervals)
      /\ \A i \in 1 .. Len(ws) : Within(ws[i], end)
      /\ \A i, j \in 1 .. Len(ws) : i < j => ws[i].from <= ws[j].from
      /\ \A t \in DayBegins .. end - 1 : Covers(ws, t) <=> \E s \in booked : Holds(s, t)
  BY <1>1, SessionsListed
<1> HIDE DEF ws
<1>4. /\ out \in Seq(Intervals) /\ Parted(out, end)
      /\ \A t \in Int : Covers(out, t) <=> Covers(ws, t)
  BY <1>1, <1>3, MergedList
<1> HIDE DEF out
<1>5. /\ Disjoint(gaps, end)
      /\ \A t \in DayBegins .. end - 1 : ~Covers(out, t) <=> \E w \in gaps : Holds(w, t)
  BY <1>1, <1>4, InvertGaps
<1> HIDE DEF gaps
<1>6. \A t \in DayBegins .. end - 1 : t \in Uncovered <=> \E w \in gaps : Holds(w, t)
  <2>1. \A t \in DayBegins .. end - 1 : t \in Int
    BY <1>1
  <2>2. \A t \in DayBegins .. end - 1 : t \in Uncovered <=> ~\E s \in booked : Holds(s, t)
    BY DEF Uncovered, Holds, end
  <2> QED  BY <1>3, <1>4, <1>5, <2>1, <2>2
<1>7. \A w \in gaps : \A t \in Int : Holds(w, t) => t \in DayBegins .. end - 1
  BY <1>1, <1>5 DEF Disjoint, Within, Holds, Intervals
<1>8. Uncovered \subseteq DayBegins .. end - 1
  BY DEF Uncovered, end
<1> QED  BY <1>2, <1>5, <1>6, <1>7, <1>8 DEF end

-----------------------------------------------------------------------------
(* PstrykEnergyKWh and CalculateSessionCost.                               *)

\* The hours with a row, and what each half hour of the day with a row consumed.
Present == {h \in HoursKept : consumed[h] # Missing}
Kept == {t \in DayBegins .. DayEndNow - 1 : consumed[HourOf(t)] # Missing}
UsedIn == [t \in Kept |-> consumed[HourOf(t)]]

\* The hours kept, and the half hours of one.
LEMMA HoursAndHalves ==
  ASSUME IdleTypes
  PROVE  /\ IsFiniteSet(HoursKept) /\ IsFiniteSet(Present) /\ Present \subseteq HoursKept
         /\ \A h \in HoursKept : h \in Nat /\ consumed[h] \in Int /\ priced[h] \in Tariffs
         /\ \A h \in Present : consumed[h] \in Nat
         /\ DayEnds \in Nat /\ DayBegins \in Nat /\ DayEndNow \in Nat /\ DayEndNow <= DayEnds
         /\ \A t \in 0 .. DayEnds - 1 : HourOf(t) \in HoursKept
         /\ \A t \in Int : \A h \in Int : HourOf(t) = h <=> t = 2 * h \/ t = 2 * h + 1
<1>1. DayEnds \in Nat /\ DayBegins \in Nat /\ DayEnds % 2 = 0 /\ Uses \subseteq Nat /\ halfHour \in Nat
  BY IdleAssumption DEF IdleTypes
<1>2. HourOf(DayEnds) \in Nat /\ DayEnds = 2 * HourOf(DayEnds)
  BY <1>1 DEF HourOf
<1>3. IsFiniteSet(HoursKept)
  <2>1. HourOf(DayEnds) - 1 \in Int /\ 0 \in Int
    BY <1>2
  <2> QED  BY <2>1, FS_Interval DEF HoursKept
<1>4. Present \in SUBSET HoursKept
  BY DEF Present
<1>5. IsFiniteSet(Present)
  BY <1>3, <1>4, FS_Subset
<1>6. \A h \in HoursKept : h \in Nat /\ consumed[h] \in Uses \cup {Missing} /\ priced[h] \in Tariffs
  BY <1>2 DEF HoursKept, IdleTypes
<1>7. \A h \in Present : consumed[h] \in Nat
  BY <1>1, <1>6 DEF Present
<1>8. \A h \in HoursKept : consumed[h] \in Int
  <2>1. Missing \in Int /\ \A x \in Uses : x \in Int
    BY <1>1 DEF Missing
  <2> QED  BY <1>6, <2>1
<1>9. DayEndNow \in Nat /\ DayEndNow <= DayEnds
  <2>0. DayEnds \in Int /\ halfHour \in Int
    BY <1>1
  <2>1. DayEndNow = IF DayEnds <= halfHour THEN DayEnds ELSE halfHour
    BY <2>0, MaxMinOfTwo DEF DayEndNow
  <2> QED  BY <1>1, <2>1
<1>10. \A t \in 0 .. DayEnds - 1 : HourOf(t) \in HoursKept
  <2> SUFFICES ASSUME NEW t \in 0 .. DayEnds - 1  PROVE HourOf(t) \in HoursKept
    OBVIOUS
  <2>1. HourOf(t) \in Int /\ (t = 2 * HourOf(t) \/ t = 2 * HourOf(t) + 1)
    BY <1>1 DEF HourOf
  <2> QED  BY <1>1, <1>2, <2>1 DEF HoursKept
<1>11. ASSUME NEW t \in Int, NEW h \in Int  PROVE HourOf(t) = h <=> t = 2 * h \/ t = 2 * h + 1
  BY DEF HourOf
<1> QED  BY <1>1, <1>3, <1>4, <1>5, <1>6, <1>7, <1>8, <1>9, <1>10, <1>11

\* How much of an hour lies in a window is how many of its halves the window holds.
LEMMA OverlapIs ==
  ASSUME NEW h \in Int, NEW w \in Intervals, w.from < w.to
  PROVE  Overlap(h, w) = (IF Holds(w, 2 * h) THEN 1 ELSE 0) + (IF Holds(w, 2 * h + 1) THEN 1 ELSE 0)
<1> DEFINE a == w.from
           b == w.to
           lo == IF 2 * h >= a THEN 2 * h ELSE a
           hi == IF 2 * h + 2 <= b THEN 2 * h + 2 ELSE b
           d == hi - lo
<1>1. a \in Int /\ b \in Int /\ 2 * h \in Int /\ 2 * h + 2 \in Int /\ 0 \in Int
  BY DEF Intervals
<1>2. Max({2 * h, w.from}) = lo
  BY <1>1, MaxMinOfTwo
<1>3. Min({2 * h + 2, w.to}) = hi
  BY <1>1, MaxMinOfTwo
<1>4. d \in Int
  BY <1>1
<1>5. Overlap(h, w) = Max({0, d})
  BY <1>2, <1>3 DEF Overlap
<1> HIDE DEF d
<1>6. Overlap(h, w) = IF 0 >= d THEN 0 ELSE d
  BY <1>1, <1>4, <1>5, MaxMinOfTwo
<1> QED  BY <1>1, <1>6 DEF Holds, d

\* The half hours of a window in some hours, and what each hour's value counts for.
HalvesIn(w, H) == {t \in w.from .. w.to - 1 : HourOf(t) \in H}
PartsIn(w, H, v) == [h \in H |-> v[h] * Overlap(h, w)]

\* A value of the hour, counted for as much of the hour as lies in the window, is the
\* sum over the half hours that the window holds.
LEMMA SumOfHalves ==
  ASSUME IdleTypes, NEW w \in Intervals, Within(w, DayEndNow),
         NEW H \in SUBSET HoursKept, NEW v, \A h \in H : v[h] \in Int,
         NEW f, \A t \in HalvesIn(w, H) : f[t] = v[HourOf(t)]
  PROVE  /\ IsFiniteSet(HalvesIn(w, H)) /\ IsFiniteSet(H)
         /\ SumOf(PartsIn(w, H, v), H) = SumOf(f, HalvesIn(w, H))
<1> DEFINE T == HalvesIn(w, H)
           parts == PartsIn(w, H, v)
           hour == [t \in T |-> HourOf(t)]
<1>d. /\ T = {t \in w.from .. w.to - 1 : HourOf(t) \in H}
      /\ parts = [h \in H |-> v[h] * Overlap(h, w)]
  BY DEF HalvesIn, PartsIn
<1> HIDE DEF T, parts
<1>f. \A t \in T : f[t] = v[HourOf(t)]
  BY DEF T
<1>0. /\ w.from \in Int /\ w.to \in Int /\ 0 <= w.from /\ w.from < w.to /\ w.to <= DayEnds
      /\ IsFiniteSet(HoursKept) /\ \A h \in H : h \in Int
      /\ \A t \in Int : \A h \in Int : HourOf(t) = h <=> t = 2 * h \/ t = 2 * h + 1
  <2>1. w.from \in Int /\ w.to \in Int
    BY DEF Intervals
  <2> QED  BY <2>1, HoursAndHalves DEF Within
<1>1. IsFiniteSet(H)
  BY <1>0, FS_Subset
<1>2. IsFiniteSet(T)
  <2> DEFINE all == w.from .. w.to - 1
  <2>1. T \in SUBSET all /\ w.to - 1 \in Int
    BY <1>0, <1>d
  <2>2. IsFiniteSet(all)
    BY <1>0, <2>1, FS_Interval
  <2> HIDE DEF all
  <2> QED  BY <2>1, <2>2, FS_Subset
<1>3. \A t \in T : f[t] \in Int /\ hour[t] \in H
  BY <1>d, <1>f
<1>4. ASSUME NEW h \in H  PROVE parts[h] = SumOf(f, Fiber(T, hour, h))
  <2> DEFINE x == 2 * h
             y == 2 * h + 1
             U == Fiber(T, hour, h)
  <2>0. U = {t \in T : HourOf(t) = h}
    BY DEF Fiber
  <2> HIDE DEF U
  <2>1. h \in Int /\ x \in Int /\ y \in Int /\ x # y /\ v[h] \in Int
    BY <1>0
  <2>2. Overlap(h, w) = (IF Holds(w, x) THEN 1 ELSE 0) + (IF Holds(w, y) THEN 1 ELSE 0)
    BY <1>0, <2>1, OverlapIs
  <2>3. parts[h] = v[h] * Overlap(h, w)
    BY <1>d
  <2>4. HourOf(x) = h /\ HourOf(y) = h
    BY <1>0, <2>1
  <2>5. \A t : t \in U <=> (t = x \/ t = y) /\ Holds(w, t)
    <3>1. ASSUME NEW t, t \in U  PROVE (t = x \/ t = y) /\ Holds(w, t)
      <4>1. t \in w.from .. w.to - 1 /\ HourOf(t) = h
        BY <1>d, <2>0, <3>1
      <4>2. t \in Int /\ w.from <= t /\ t < w.to
        BY <1>0, <4>1
      <4>3. t = x \/ t = y
        BY <1>0, <2>1, <4>1, <4>2
      <4> QED  BY <4>2, <4>3 DEF Holds
    <3>2. ASSUME NEW t, t = x \/ t = y, Holds(w, t)  PROVE t \in U
      <4>1. t \in Int /\ HourOf(t) = h /\ t \in w.from .. w.to - 1
        BY <1>0, <2>1, <2>4, <3>2 DEF Holds
      <4> QED  BY <1>d, <2>0, <4>1
    <3> QED  BY <3>1, <3>2
  <2>6. (Holds(w, x) => f[x] = v[h]) /\ (Holds(w, y) => f[y] = v[h])
    <3>1. \A t \in U : f[t] = v[h]
      BY <1>f, <2>0
    <3> HIDE DEF U, x, y
    <3> QED  BY <2>5, <3>1
  <2> HIDE DEF x, y
  <2>7. CASE Holds(w, x) /\ Holds(w, y)
    <3>1. U = {x, y}
      BY <2>5, <2>7
    <3>2. SumOf(f, U) = f[x] + f[y]
      BY <2>1, <2>6, <2>7, <3>1, SumTwo
    <3> QED  BY <2>1, <2>2, <2>3, <2>6, <2>7, <3>2 DEF U
  <2>8. CASE Holds(w, x) /\ ~Holds(w, y)
    <3>1. U = {x}
      BY <2>5, <2>8
    <3>2. SumOf(f, U) = f[x]
      BY <2>1, <2>6, <2>8, <3>1, SumOne
    <3> QED  BY <2>1, <2>2, <2>3, <2>6, <2>8, <3>2 DEF U
  <2>9. CASE ~Holds(w, x) /\ Holds(w, y)
    <3>1. U = {y}
      BY <2>5, <2>9
    <3>2. SumOf(f, U) = f[y]
      BY <2>1, <2>6, <2>9, <3>1, SumOne
    <3> QED  BY <2>1, <2>2, <2>3, <2>6, <2>9, <3>2 DEF U
  <2>10. CASE ~Holds(w, x) /\ ~Holds(w, y)
    <3>1. U = {}
      BY <2>5, <2>10
    <3>2. SumOf(f, U) = 0
      BY <3>1, SumEmpty
    <3> QED  BY <2>1, <2>2, <2>3, <2>10, <3>2 DEF U
  <2> QED  BY <2>7, <2>8, <2>9, <2>10
<1> HIDE DEF hour
<1>5. SumOf(f, T) = SumOf(parts, H)
  BY <1>1, <1>2, <1>3, <1>4, SumFibers
<1> QED  BY <1>1, <1>2, <1>5 DEF T, parts

\* EnergyIn sums over the hours with a row, and over the half hours of the window.
LEMMA EnergyIsSum ==
  ASSUME NEW w
  PROVE  EnergyIn(w) = SumOf(PartsIn(w, Present, consumed), Present)
<1> DEFINE E(h) == consumed[h] * Overlap(h, w)
           S == {h \in HoursKept : consumed[h] # Missing}
           f == PartsIn(w, Present, consumed)
           pick(T) == CHOOSE x \in T : TRUE
           A(g) == [T \in SUBSET S |-> IF T = {} THEN 0 ELSE E(pick(T)) + g[T \ {pick(T)}]]
           B(g) == [T \in SUBSET S |-> IF T = {} THEN 0 ELSE f[pick(T)] + g[T \ {pick(T)}]]
<1>1. EnergyIn(w) = (CHOOSE g : g = A(g))[S]
  BY DEF EnergyIn, MapThenSumSet, MapThenFoldSet
<1>2. SumOf(f, S) = (CHOOSE g : g = B(g))[S]
  BY DEF SumOf
<1>3. \A x \in S : f[x] = E(x)
  BY DEF PartsIn, Present
<1>4. S = Present
  BY DEF Present
<1>5. \A T \in SUBSET S : T # {} => pick(T) \in S
  OBVIOUS
<1> HIDE DEF E, S, f, pick
<1>6. \A g : A(g) = B(g)
  BY <1>3, <1>5
<1> HIDE DEF A, B
<1>7. (CHOOSE g : g = A(g)) = CHOOSE g : g = B(g)
  BY <1>6
<1> QED  BY <1>1, <1>2, <1>4, <1>7 DEF f

\* CostOf sums over the hours kept.
CostIn(w, energy) ==
  [h \in HoursKept |-> ((Scale * energy) \div (w.to - w.from)) * Overlap(h, w) * priced[h]]

LEMMA CostIsSum ==
  ASSUME NEW w, NEW energy
  PROVE  CostOf(w, energy) = SumOf(CostIn(w, energy), HoursKept)
<1> DEFINE E(h) == ((Scale * energy) \div (w.to - w.from)) * Overlap(h, w) * priced[h]
           S == HoursKept
           f == CostIn(w, energy)
           pick(T) == CHOOSE x \in T : TRUE
           A(g) == [T \in SUBSET S |-> IF T = {} THEN 0 ELSE E(pick(T)) + g[T \ {pick(T)}]]
           B(g) == [T \in SUBSET S |-> IF T = {} THEN 0 ELSE f[pick(T)] + g[T \ {pick(T)}]]
<1>1. CostOf(w, energy) = (CHOOSE g : g = A(g))[S]
  BY DEF CostOf, MapThenSumSet, MapThenFoldSet
<1>2. SumOf(f, S) = (CHOOSE g : g = B(g))[S]
  BY DEF SumOf
<1>3. \A x \in S : f[x] = E(x)
  BY DEF CostIn
<1>5. \A T \in SUBSET S : T # {} => pick(T) \in S
  OBVIOUS
<1> HIDE DEF E, f, pick
<1>6. \A g : A(g) = B(g)
  BY <1>3, <1>5
<1> HIDE DEF A, B
<1>7. (CHOOSE g : g = A(g)) = CHOOSE g : g = B(g)
  BY <1>6
<1> QED  BY <1>1, <1>2, <1>7 DEF f

\* A gap of the day has the energy of its half hours that have a row.
LEMMA EnergyOfGap ==
  ASSUME IdleTypes, NEW w \in Intervals, Within(w, DayEndNow)
  PROVE  LET T == {t \in Kept : Holds(w, t)}
         IN  /\ IsFiniteSet(T) /\ \A t \in T : UsedIn[t] \in Nat
             /\ EnergyIn(w) = SumOf(UsedIn, T)
             /\ EnergyIn(w) \in Nat
<1> DEFINE T == {t \in Kept : Holds(w, t)}
           P == PartsIn(w, Present, consumed)
<1>0. /\ w.from \in Int /\ w.to \in Int /\ DayBegins \in Nat /\ DayEndNow \in Nat
      /\ DayBegins <= w.from /\ w.from < w.to /\ w.to <= DayEndNow /\ DayEndNow <= DayEnds
      /\ DayEnds \in Nat /\ \A t \in 0 .. DayEnds - 1 : HourOf(t) \in HoursKept
      /\ Present \in SUBSET HoursKept /\ \A h \in Present : consumed[h] \in Nat
  BY HoursAndHalves DEF Within, Intervals
<1>1. T = HalvesIn(w, Present)
  <2>1. ASSUME NEW t \in w.from .. w.to - 1
        PROVE  /\ t \in DayBegins .. DayEndNow - 1 /\ Holds(w, t)
               /\ HourOf(t) \in Present <=> consumed[HourOf(t)] # Missing
    <3>1. t \in DayBegins .. DayEndNow - 1 /\ Holds(w, t) /\ t \in 0 .. DayEnds - 1
      BY <1>0 DEF Holds
    <3> QED  BY <1>0, <3>1 DEF Present
  <2>2. ASSUME NEW t \in Kept, Holds(w, t)  PROVE t \in w.from .. w.to - 1
    <3>1. t \in DayBegins .. DayEndNow - 1
      BY DEF Kept
    <3>2. t \in Int
      BY <1>0, <3>1
    <3> QED  BY <1>0, <2>2, <3>2 DEF Holds
  <2>3. \A t \in Kept : consumed[HourOf(t)] # Missing
    BY DEF Kept
  <2>4. \A t \in DayBegins .. DayEndNow - 1 : consumed[HourOf(t)] # Missing => t \in Kept
    BY DEF Kept
  <2>5. T \subseteq HalvesIn(w, Present)
    BY <2>1, <2>2, <2>3 DEF HalvesIn
  <2>6. HalvesIn(w, Present) \subseteq T
    BY <2>1, <2>4 DEF HalvesIn
  <2> QED  BY <2>5, <2>6
<1>2. \A t \in T : UsedIn[t] = consumed[HourOf(t)] /\ HourOf(t) \in Present
  <2>1. \A t \in Kept : UsedIn[t] = consumed[HourOf(t)]
    BY DEF UsedIn
  <2>2. \A t \in HalvesIn(w, Present) : HourOf(t) \in Present
    BY DEF HalvesIn
  <2> QED  BY <1>1, <2>1, <2>2
<1>3. \A t \in T : UsedIn[t] \in Nat
  BY <1>0, <1>2
<1> HIDE DEF T
<1>4. /\ IsFiniteSet(T)
      /\ SumOf(PartsIn(w, Present, consumed), Present) = SumOf(UsedIn, T)
  <2>1. \A h \in Present : consumed[h] \in Int
    BY <1>0
  <2>2. \A t \in HalvesIn(w, Present) : UsedIn[t] = consumed[HourOf(t)]
    BY <1>1, <1>2
  <2>3. /\ IsFiniteSet(HalvesIn(w, Present))
        /\ SumOf(PartsIn(w, Present, consumed), Present) = SumOf(UsedIn, HalvesIn(w, Present))
    BY <1>0, <2>1, <2>2, SumOfHalves
  <2> QED  BY <1>1, <2>3
<1>5. SumOf(UsedIn, T) \in Nat
  <2>1. \A t \in T : UsedIn[t] \in Int
    BY <1>3
  <2>2. SumOf(UsedIn, T) \in Int
    BY <1>4, <2>1, SumInt
  <2>3. 0 * SumOf(UsedIn, T) <= SumOf(UsedIn, T)
    <3>1. \A t \in T : UsedIn[t] \in Int /\ UsedIn[t] \in Int
      BY <2>1
    <3>2. \A t \in T : 0 * UsedIn[t] <= UsedIn[t]
      BY <1>3
    <3>3. 0 \in Int
      OBVIOUS
    <3> QED  BY <1>4, <3>1, <3>2, <3>3, SumBelow
  <2> QED  BY <2>2, <2>3
<1>6. EnergyIn(w) = SumOf(UsedIn, T)
  BY <1>4, EnergyIsSum
<1> QED  BY <1>3, <1>4, <1>5, <1>6 DEF T

\* A gap whose energy is spread over it costs at least, and at most, what the energy
\* costs at the least, and at the greatest, of the tariffs.
LEMMA CostOfGap ==
  ASSUME IdleTypes, NEW w \in Intervals, Within(w, DayEndNow), NEW energy \in Nat,
         Tariffs # {}
  PROVE  /\ CostOf(w, energy) \in Int
         /\ (Scale * Min(Tariffs)) * energy <= CostOf(w, energy)
         /\ CostOf(w, energy) <= (Scale * Max(Tariffs)) * energy
<1> DEFINE len == w.to - w.from
           u == (Scale * energy) \div len
           H == HoursKept
           one == [h \in H |-> 1]
           all == [t \in w.from .. w.to - 1 |-> 1]
           over == PartsIn(w, H, one)
           even == [h \in H |-> u * over[h]]
           cost == CostIn(w, energy)
           lo == Min(Tariffs)
           hi == Max(Tariffs)
<1>0. /\ w.from \in Int /\ w.to \in Int /\ DayBegins \in Nat /\ DayEndNow \in Nat
      /\ DayBegins <= w.from /\ w.from < w.to /\ w.to <= DayEndNow /\ DayEndNow <= DayEnds
      /\ DayEnds \in Nat /\ \A t \in 0 .. DayEnds - 1 : HourOf(t) \in HoursKept
      /\ IsFiniteSet(HoursKept) /\ \A h \in HoursKept : h \in Int /\ priced[h] \in Tariffs
  BY HoursAndHalves DEF Within, Intervals
<1>1. lo \in Int /\ hi \in Int /\ \A p \in Tariffs : p \in Int /\ lo <= p /\ p <= hi
  <2>1. Tariffs \in SUBSET Int /\ IsFiniteSet(Tariffs)
    BY IdleAssumption
  <2> QED  BY <2>1, MaxMinOfFinite
<1>2. u \in Nat /\ u * len = Scale * energy /\ Scale \in Nat
  <2>1. len \in 1 .. DayEnds - DayBegins
    BY <1>0
  <2>2. Scale \in Nat /\ Scale % len = 0 /\ len \in Nat /\ len > 0
    BY <2>1, IdleAssumption
  <2> DEFINE q == Scale \div len
  <2> HIDE DEF len
  <2>3. q \in Nat /\ Scale = q * len
    BY <2>2
  <2> HIDE DEF q
  <2>4. Scale * energy = (q * energy) * len /\ q * energy \in Nat
    BY <2>2, <2>3
  <2>5. ((q * energy) * len) \div len = q * energy
    BY <2>2, <2>4
  <2> QED  BY <2>2, <2>4, <2>5
<1>3. \A h \in H : over[h] = Overlap(h, w) /\ over[h] \in Nat
  <2>1. \A h \in H : over[h] = 1 * Overlap(h, w)
    BY DEF PartsIn
  <2>2. \A h \in H : Overlap(h, w) \in Nat
    <3>1. ASSUME NEW h \in H  PROVE Overlap(h, w) \in Nat
      <4>1. Overlap(h, w) = (IF Holds(w, 2 * h) THEN 1 ELSE 0)
                            + (IF Holds(w, 2 * h + 1) THEN 1 ELSE 0)
        BY <1>0, OverlapIs
      <4> QED  BY <4>1
    <3> QED  BY <3>1
  <2> HIDE DEF over
  <2> QED  BY <2>1, <2>2
<1>4. SumOf(over, H) = len
  <2> DEFINE D == w.from .. w.to - 1
  <2>1. HalvesIn(w, H) = D
    <3>1. \A t \in D : HourOf(t) \in H
      <4>1. \A t \in D : t \in 0 .. DayEnds - 1
        BY <1>0
      <4> QED  BY <1>0, <4>1
    <3> QED  BY <3>1 DEF HalvesIn
  <2>2. /\ \A h \in H : one[h] \in Int
        /\ \A t \in HalvesIn(w, H) : HourOf(t) \in H /\ all[t] = one[HourOf(t)]
    <3>1. \A t \in D : all[t] = 1
      OBVIOUS
    <3>2. \A h \in H : one[h] = 1
      OBVIOUS
    <3>3. \A t \in HalvesIn(w, H) : HourOf(t) \in H
      BY DEF HalvesIn
    <3> HIDE DEF all, one, D
    <3> QED  BY <2>1, <3>1, <3>2, <3>3
  <2>3. \A t \in D : all[t] = 1
    OBVIOUS
  <2>4. IsFiniteSet(D) /\ Cardinality(D) = len
    <3>1. w.from \in Int /\ w.to - 1 \in Int
      BY <1>0
    <3>2. IsFiniteSet(D) /\ Cardinality(D) = IF w.from > w.to - 1 THEN 0 ELSE (w.to - 1) - w.from + 1
      BY <3>1, FS_Interval
    <3> QED  BY <1>0, <3>2
  <2> HIDE DEF all, one, D
  <2>5. SumOf(PartsIn(w, H, one), H) = SumOf(all, HalvesIn(w, H))
    BY <2>2, SumOfHalves
  <2>6. SumOf(all, D) = Cardinality(D)
    BY <2>3, <2>4, SumOnes
  <2> QED  BY <2>1, <2>4, <2>5, <2>6
<1>5. \A h \in H : even[h] = u * over[h]
  OBVIOUS
<1>6. \A h \in H : cost[h] = (u * over[h]) * priced[h]
  <2>1. \A h \in H : cost[h] = u * Overlap(h, w) * priced[h]
    BY DEF CostIn
  <2> HIDE DEF over, cost, u
  <2> QED  BY <1>3, <2>1
<1>7. CostOf(w, energy) = SumOf(cost, H)
  BY CostIsSum
<1>8. IsFiniteSet(H) /\ \A h \in H : priced[h] \in Int /\ lo <= priced[h] /\ priced[h] <= hi
  BY <1>0, <1>1
<1>9. len \in Nat
  BY <1>0
<1> HIDE DEF len, u, H, one, all, over, even, cost, lo, hi
<1>10. \A h \in H : over[h] \in Int /\ even[h] \in Int /\ even[h] \in Nat /\ cost[h] \in Int
  <2>1. \A h \in H : u * over[h] \in Nat
    BY <1>2, <1>3
  <2>2. \A h \in H : (u * over[h]) * priced[h] \in Int
    BY <1>8, <2>1
  <2> QED  BY <1>3, <1>5, <1>6, <2>1, <2>2
<1>11. SumOf(even, H) = Scale * energy
  <2>1. u \in Int /\ \A h \in H : u * over[h] <= even[h] /\ even[h] <= u * over[h]
    BY <1>2, <1>5, <1>10
  <2>2. \A h \in H : over[h] \in Int /\ even[h] \in Int
    BY <1>10
  <2>3. u * SumOf(over, H) <= SumOf(even, H)
    BY <1>8, <2>1, <2>2, SumBelow
  <2>4. SumOf(even, H) <= u * SumOf(over, H)
    BY <1>8, <2>1, <2>2, SumAbove
  <2>5. SumOf(even, H) \in Int
    BY <1>8, <2>2, SumInt
  <2>6. u * len \in Int
    BY <1>2, <1>9
  <2> QED  BY <1>2, <1>4, <2>3, <2>4, <2>5, <2>6
<1>12. ASSUME NEW h \in H  PROVE lo * even[h] <= cost[h] /\ cost[h] <= hi * even[h]
  <2> DEFINE x == even[h]
             p == priced[h]
  <2>1. x \in Nat /\ p \in Int /\ lo \in Int /\ hi \in Int /\ lo <= p /\ p <= hi /\ cost[h] = x * p
    BY <1>1, <1>5, <1>6, <1>8, <1>10
  <2> HIDE DEF x, p
  <2>2. lo * x <= x * p /\ x * p <= hi * x
    BY <2>1
  <2> QED  BY <2>1, <2>2 DEF x
<1>13. lo * SumOf(even, H) <= SumOf(cost, H)
  <2>1. \A h \in H : even[h] \in Int /\ cost[h] \in Int
    BY <1>10
  <2>2. \A h \in H : lo * even[h] <= cost[h]
    BY <1>12
  <2> QED  BY <1>1, <1>8, <2>1, <2>2, SumBelow
<1>14. SumOf(cost, H) <= hi * SumOf(even, H)
  <2>1. \A h \in H : even[h] \in Int /\ cost[h] \in Int
    BY <1>10
  <2>2. \A h \in H : cost[h] <= hi * even[h]
    BY <1>12
  <2> QED  BY <1>1, <1>8, <2>1, <2>2, SumAbove
<1>15. SumOf(cost, H) \in Int
  <2>1. \A h \in H : cost[h] \in Int
    BY <1>10
  <2> QED  BY <1>8, <2>1, SumInt
<1>16. lo * (Scale * energy) = (Scale * lo) * energy /\ hi * (Scale * energy) = (Scale * hi) * energy
  BY <1>1, <1>2
<1> QED  BY <1>7, <1>11, <1>13, <1>14, <1>15, <1>16 DEF lo, hi

\* The sums of a row and of the property.
LEMMA EnergySum ==
  ASSUME NEW S
  PROVE  MapThenSumSet(EnergyIn, S) = SumOf([w \in S |-> EnergyIn(w)], S)
<1> DEFINE E(w) == EnergyIn(w)
           f == [w \in S |-> EnergyIn(w)]
           pick(T) == CHOOSE x \in T : TRUE
           A(g) == [T \in SUBSET S |-> IF T = {} THEN 0 ELSE E(pick(T)) + g[T \ {pick(T)}]]
           B(g) == [T \in SUBSET S |-> IF T = {} THEN 0 ELSE f[pick(T)] + g[T \ {pick(T)}]]
<1>1. MapThenSumSet(EnergyIn, S) = (CHOOSE g : g = A(g))[S]
  BY DEF MapThenSumSet, MapThenFoldSet
<1>2. SumOf(f, S) = (CHOOSE g : g = B(g))[S]
  BY DEF SumOf
<1>3. \A x \in S : f[x] = E(x)
  OBVIOUS
<1>4. \A T \in SUBSET S : T # {} => pick(T) \in S
  OBVIOUS
<1> HIDE DEF E, f, pick
<1>5. \A g : A(g) = B(g)
  BY <1>3, <1>4
<1> HIDE DEF A, B
<1>6. (CHOOSE g : g = A(g)) = CHOOSE g : g = B(g)
  BY <1>5
<1> QED  BY <1>1, <1>2, <1>6 DEF f

LEMMA CostSum ==
  ASSUME NEW S
  PROVE  MapThenSumSet(LAMBDA w : CostOf(w, EnergyIn(w)), S) = SumOf([w \in S |-> CostOf(w, EnergyIn(w))], S)
<1> DEFINE E(w) == CostOf(w, EnergyIn(w))
           f == [w \in S |-> CostOf(w, EnergyIn(w))]
           pick(T) == CHOOSE x \in T : TRUE
           A(g) == [T \in SUBSET S |-> IF T = {} THEN 0 ELSE E(pick(T)) + g[T \ {pick(T)}]]
           B(g) == [T \in SUBSET S |-> IF T = {} THEN 0 ELSE f[pick(T)] + g[T \ {pick(T)}]]
<1>1. MapThenSumSet(LAMBDA w : CostOf(w, EnergyIn(w)), S) = (CHOOSE g : g = A(g))[S]
  BY DEF MapThenSumSet, MapThenFoldSet
<1>2. SumOf(f, S) = (CHOOSE g : g = B(g))[S]
  BY DEF SumOf
<1>3. \A x \in S : f[x] = E(x)
  OBVIOUS
<1>4. \A T \in SUBSET S : T # {} => pick(T) \in S
  OBVIOUS
<1> HIDE DEF E, f, pick
<1>5. \A g : A(g) = B(g)
  BY <1>3, <1>4
<1> HIDE DEF A, B
<1>6. (CHOOSE g : g = A(g)) = CHOOSE g : g = B(g)
  BY <1>5
<1> QED  BY <1>1, <1>2, <1>6 DEF f

LEMMA UsedSum ==
  ASSUME NEW S
  PROVE  MapThenSumSet(LAMBDA t : consumed[HourOf(t)], S) = SumOf([t \in S |-> consumed[HourOf(t)]], S)
<1> DEFINE E(t) == consumed[HourOf(t)]
           f == [t \in S |-> consumed[HourOf(t)]]
           pick(T) == CHOOSE x \in T : TRUE
           A(g) == [T \in SUBSET S |-> IF T = {} THEN 0 ELSE E(pick(T)) + g[T \ {pick(T)}]]
           B(g) == [T \in SUBSET S |-> IF T = {} THEN 0 ELSE f[pick(T)] + g[T \ {pick(T)}]]
<1>1. MapThenSumSet(LAMBDA t : consumed[HourOf(t)], S) = (CHOOSE g : g = A(g))[S]
  BY DEF MapThenSumSet, MapThenFoldSet
<1>2. SumOf(f, S) = (CHOOSE g : g = B(g))[S]
  BY DEF SumOf
<1>3. \A x \in S : f[x] = E(x)
  OBVIOUS
<1>4. \A T \in SUBSET S : T # {} => pick(T) \in S
  OBVIOUS
<1> HIDE DEF E, f, pick
<1>5. \A g : A(g) = B(g)
  BY <1>3, <1>4
<1> HIDE DEF A, B
<1>6. (CHOOSE g : g = A(g)) = CHOOSE g : g = B(g)
  BY <1>5
<1> QED  BY <1>1, <1>2, <1>6 DEF f

\* The gaps with energy have, between them, what the uncovered half hours consumed.
LEMMA UncoveredIsGaps ==
  ASSUME IdleTypes, NEW G0, Disjoint(G0, DayEndNow),
         \A t \in Int : t \in Uncovered <=> \E w \in G0 : Holds(w, t)
  PROVE  MapThenSumSet(EnergyIn, {w \in G0 : EnergyIn(w) > 0})
           = MapThenSumSet(LAMBDA t : consumed[HourOf(t)],
                           {t \in Uncovered : consumed[HourOf(t)] # Missing})
<1> DEFINE G == {w \in G0 : EnergyIn(w) > 0}
           Z == {w \in G0 : ~(EnergyIn(w) > 0)}
           K == {t \in Uncovered : consumed[HourOf(t)] # Missing}
           e0 == [w \in G0 |-> EnergyIn(w)]
           eG == [w \in G |-> EnergyIn(w)]
           uK == [t \in K |-> consumed[HourOf(t)]]
           k == [t \in K |-> CHOOSE w \in G0 : Holds(w, t)]
<1>0. IsFiniteSet(G0) /\ \A w \in G0 : w \in Intervals /\ Within(w, DayEndNow)
  BY DEF Disjoint
<1>1. \A w \in G0 : e0[w] = EnergyIn(w) /\ e0[w] \in Nat
  <2>1. ASSUME NEW w \in G0  PROVE EnergyIn(w) \in Nat
    BY <1>0, EnergyOfGap
  <2> QED  BY <2>1
<1>2. \A w \in G0 : EnergyIn(w) = SumOf(UsedIn, {t \in Kept : Holds(w, t)})
  BY <1>0, EnergyOfGap
<1>3. K \subseteq Kept /\ K \subseteq Int /\ IsFiniteSet(K)
  <2> DEFINE halves == DayBegins .. DayEndNow - 1
  <2>1. Uncovered \subseteq halves
    BY DEF Uncovered
  <2>2. DayBegins \in Int /\ DayEndNow - 1 \in Int
    BY HoursAndHalves
  <2>3. IsFiniteSet(halves) /\ halves \subseteq Int
    BY <2>2, FS_Interval
  <2>4. K \subseteq Kept /\ K \in SUBSET halves
    BY <2>1 DEF Kept
  <2> HIDE DEF K, halves
  <2> QED  BY <2>3, <2>4, FS_Subset
<1>4. \A t \in K : k[t] \in G0 /\ Holds(k[t], t)
  <2> SUFFICES ASSUME NEW t \in K  PROVE k[t] \in G0 /\ Holds(k[t], t)
    OBVIOUS
  <2>1. \E w \in G0 : Holds(w, t)
    <3>1. t \in Int /\ t \in Uncovered
      BY <1>3
    <3> QED  BY <3>1
  <2>2. k[t] = CHOOSE w \in G0 : Holds(w, t)
    OBVIOUS
  <2> QED  BY <2>1, <2>2
<1>5. ASSUME NEW w \in G0  PROVE {t \in Kept : Holds(w, t)} = Fiber(K, k, w)
  <2>1. ASSUME NEW t \in Kept, Holds(w, t)  PROVE t \in K /\ k[t] = w
    <3>1. t \in Int /\ consumed[HourOf(t)] # Missing
      <4>1. t \in DayBegins .. DayEndNow - 1 /\ consumed[HourOf(t)] # Missing
        BY DEF Kept
      <4>2. DayBegins \in Int /\ DayEndNow \in Int
        BY HoursAndHalves
      <4> QED  BY <4>1, <4>2
    <3>2. t \in Uncovered
      BY <2>1, <3>1
    <3>3. t \in K
      BY <3>1, <3>2
    <3>4. k[t] \in G0 /\ Holds(k[t], t)
      BY <1>4, <3>3
    <3> HIDE DEF k, K
    <3>5. k[t] = w
      BY <2>1, <3>1, <3>4 DEF Disjoint
    <3> QED  BY <3>3, <3>5
  <2>2. ASSUME NEW t \in K, k[t] = w  PROVE t \in Kept /\ Holds(w, t)
    BY <1>3, <1>4, <2>2
  <2> HIDE DEF k, K
  <2> QED  BY <2>1, <2>2 DEF Fiber
<1>6. \A t \in K : UsedIn[t] = uK[t] /\ UsedIn[t] \in Int
  <2> SUFFICES ASSUME NEW t \in K  PROVE UsedIn[t] = uK[t] /\ UsedIn[t] \in Int
    OBVIOUS
  <2>1. UsedIn[t] = consumed[HourOf(t)] /\ uK[t] = consumed[HourOf(t)]
    <3>1. t \in Kept
      BY <1>3
    <3> QED  BY <3>1 DEF UsedIn
  <2>2. HourOf(t) \in HoursKept
    <3>1. t \in DayBegins .. DayEndNow - 1
      BY DEF Uncovered
    <3>2. t \in 0 .. DayEnds - 1
      BY <3>1, HoursAndHalves
    <3> QED  BY <3>2, HoursAndHalves
  <2>3. consumed[HourOf(t)] \in Int
    BY <2>2, HoursAndHalves
  <2> QED  BY <2>1, <2>3
<1>7. \A w \in G : eG[w] = e0[w]
  OBVIOUS
<1>8. \A w \in Z : e0[w] = 0
  <2>1. \A w \in Z : w \in G0 /\ ~(EnergyIn(w) > 0)
    OBVIOUS
  <2> HIDE DEF Z, e0
  <2> QED  BY <1>1, <2>1
<1>9. G \in SUBSET G0 /\ Z \in SUBSET G0 /\ G \cap Z = {} /\ G \cup Z = G0
  OBVIOUS
<1>10. MapThenSumSet(EnergyIn, G) = SumOf(eG, G)
  BY EnergySum
<1>11. MapThenSumSet(LAMBDA t : consumed[HourOf(t)], K) = SumOf(uK, K)
  BY UsedSum
<1> HIDE DEF G, Z, K, e0, eG, uK, k
<1>12. SumOf(UsedIn, K) = SumOf(e0, G0)
  <2>1. \A w \in G0 : e0[w] = SumOf(UsedIn, Fiber(K, k, w))
    BY <1>1, <1>2, <1>5
  <2>2. \A t \in K : UsedIn[t] \in Int
    BY <1>6
  <2>3. \A t \in K : k[t] \in G0
    BY <1>4
  <2>4. IsFiniteSet(G0) /\ IsFiniteSet(K)
    BY <1>0, <1>3
  <2>5. ASSUME NEW j, \A t \in K : j[t] \in G0,
               \A w \in G0 : e0[w] = SumOf(UsedIn, Fiber(K, j, w))
        PROVE  SumOf(UsedIn, K) = SumOf(e0, G0)
    BY <2>2, <2>4, <2>5, SumFibers
  <2> QED  BY <2>1, <2>3, <2>5, Zenon
<1>13. IsFiniteSet(G) /\ IsFiniteSet(Z)
  BY <1>0, <1>9, FS_Subset
<1>14. \A w \in G0 : e0[w] \in Int
  BY <1>1
<1>15. SumOf(e0, Z) = 0
  <2>1. \A w \in Z : e0[w] \in Int
    BY <1>8
  <2>2. \A w \in Z : 0 * e0[w] <= e0[w] /\ e0[w] <= 0 * e0[w]
    BY <1>8
  <2>3. SumOf(e0, Z) \in Int
    BY <1>13, <2>1, SumInt
  <2>4. 0 * SumOf(e0, Z) <= SumOf(e0, Z)
    BY <1>13, <2>1, <2>2, SumBelow
  <2>5. SumOf(e0, Z) <= 0 * SumOf(e0, Z)
    BY <1>13, <2>1, <2>2, SumAbove
  <2> QED  BY <2>3, <2>4, <2>5
<1>16. SumOf(e0, G0) = SumOf(e0, G) + SumOf(e0, Z)
  <2>1. SumOf(e0, G \cup Z) = SumOf(e0, G) + SumOf(e0, Z)
    BY <1>0, <1>9, <1>14, SumUnion
  <2> QED  BY <1>9, <2>1, Zenon
<1>17. SumOf(e0, G) = SumOf(eG, G) /\ SumOf(e0, G) \in Int
  <2>1. \A w \in G : e0[w] \in Int /\ e0[w] = eG[w]
    BY <1>7, <1>9, <1>14
  <2>2. SumOf(e0, G) = SumOf(eG, G)
    BY <1>13, <2>1, SumSame
  <2>3. SumOf(e0, G) \in Int
    BY <1>13, <2>1, SumInt
  <2> QED  BY <2>2, <2>3
<1>18. SumOf(UsedIn, K) = SumOf(uK, K)
  BY <1>3, <1>6, SumSame
<1>19. SumOf(eG, G) = SumOf(uK, K)
  BY <1>12, <1>15, <1>16, <1>17, <1>18
<1>20. MapThenSumSet(EnergyIn, G) = MapThenSumSet(LAMBDA t : consumed[HourOf(t)], K)
  BY <1>10, <1>11, <1>19
<1> QED  BY <1>20 DEF G, K

\* The cost of gaps is within the tariffs of their energy.
LEMMA CostOfGaps ==
  ASSUME IdleTypes, Tariffs # {}, NEW G, IsFiniteSet(G),
         \A w \in G : w \in Intervals /\ Within(w, DayEndNow)
  PROVE  LET energy == MapThenSumSet(EnergyIn, G)
             cost   == MapThenSumSet(LAMBDA w : CostOf(w, EnergyIn(w)), G)
         IN  cost >= Scale * energy * Min(Tariffs) /\ cost <= Scale * energy * Max(Tariffs)
<1> DEFINE e == [w \in G |-> EnergyIn(w)]
           c == [w \in G |-> CostOf(w, EnergyIn(w))]
           lo == Scale * Min(Tariffs)
           hi == Scale * Max(Tariffs)
<1>1. MapThenSumSet(EnergyIn, G) = SumOf(e, G)
  BY EnergySum
<1>2. MapThenSumSet(LAMBDA w : CostOf(w, EnergyIn(w)), G) = SumOf(c, G)
  BY CostSum
<1>3. Scale \in Nat /\ Min(Tariffs) \in Int /\ Max(Tariffs) \in Int
  <2>1. Tariffs \in SUBSET Int /\ IsFiniteSet(Tariffs) /\ Scale \in Nat
    BY IdleAssumption
  <2>2. Min(Tariffs) \in Tariffs /\ Max(Tariffs) \in Tariffs
    BY <2>1, MaxMinOfFinite
  <2> QED  BY <2>1, <2>2
<1>4. ASSUME NEW w \in G
      PROVE  e[w] \in Int /\ c[w] \in Int /\ lo * e[w] <= c[w] /\ c[w] <= hi * e[w]
  <2>1. w \in Intervals /\ Within(w, DayEndNow) /\ EnergyIn(w) \in Nat
    BY EnergyOfGap
  <2>2. /\ CostOf(w, EnergyIn(w)) \in Int
        /\ lo * EnergyIn(w) <= CostOf(w, EnergyIn(w))
        /\ CostOf(w, EnergyIn(w)) <= hi * EnergyIn(w)
    BY <2>1, CostOfGap
  <2>3. e[w] = EnergyIn(w) /\ c[w] = CostOf(w, EnergyIn(w))
    OBVIOUS
  <2> HIDE DEF e, c, lo, hi
  <2> QED  BY <2>1, <2>2, <2>3
<1>5. lo \in Int /\ hi \in Int
  BY <1>3
<1> HIDE DEF e, c, lo, hi
<1>6. \A w \in G : e[w] \in Int /\ c[w] \in Int
  BY <1>4
<1>7. lo * SumOf(e, G) <= SumOf(c, G)
  <2>1. \A w \in G : lo * e[w] <= c[w]
    BY <1>4
  <2> QED  BY <1>5, <1>6, <2>1, SumBelow
<1>8. SumOf(c, G) <= hi * SumOf(e, G)
  <2>1. \A w \in G : c[w] <= hi * e[w]
    BY <1>4
  <2> QED  BY <1>5, <1>6, <2>1, SumAbove
<1>9. SumOf(e, G) \in Int /\ SumOf(c, G) \in Int
  <2>1. SumOf(e, G) \in Int
    <3>1. \A w \in G : e[w] \in Int
      BY <1>6
    <3> QED  BY <3>1, SumInt
  <2>2. SumOf(c, G) \in Int
    <3>1. \A w \in G : c[w] \in Int
      BY <1>6
    <3> QED  BY <3>1, SumInt
  <2> QED  BY <2>1, <2>2
<1>10. /\ lo * SumOf(e, G) = Scale * SumOf(e, G) * Min(Tariffs)
       /\ hi * SumOf(e, G) = Scale * SumOf(e, G) * Max(Tariffs)
  BY <1>3, <1>9 DEF lo, hi
<1>11. Scale * SumOf(e, G) * Min(Tariffs) \in Int /\ Scale * SumOf(e, G) * Max(Tariffs) \in Int
  BY <1>3, <1>9
<1> QED  BY <1>1, <1>2, <1>7, <1>8, <1>9, <1>10, <1>11

\* A rebuilt row has the consumption of every half hour of the day without a session,
\* and of no other, and its price is within the prices of the day
\* (RebuildDailyIdle, nonChargingWindows, PstrykEnergyKWh, CalculateSessionCost).
THEOREM IdleCountsUncovered == IdleSpec => IdleIsUncovered
<1> DEFINE Row(r) ==
      /\ r.energy = MapThenSumSet(LAMBDA t : consumed[HourOf(t)],
                                  {t \in Uncovered : consumed[HourOf(t)] # Missing})
      /\ r.cost >= Scale * r.energy * Min(Tariffs)
      /\ r.cost <= Scale * r.energy * Max(Tariffs)
    Counted == RebuildDailyIdle => \A r \in idleRow' : Row(r)
<1>1. ASSUME IdleTypes, RebuildDailyIdle  PROVE \A r \in idleRow' : Row(r)
  <2> DEFINE G0 == nonChargingWindows(DayEndNow)
             G == {w \in G0 : EnergyIn(w) > 0}
             energy == MapThenSumSet(EnergyIn, G)
             cost == MapThenSumSet(LAMBDA w : CostOf(w, EnergyIn(w)), G)
  <2>1. DayBegins < DayEndNow /\ RowsOfDay # {} /\ idleRow' = {[energy |-> energy, cost |-> cost]}
    <3>1. DayEndNow > DayBegins => DayBegins < DayEndNow
      BY <1>1, HoursAndHalves
    <3> QED  BY <1>1, <3>1 DEF RebuildDailyIdle
  <2>2. /\ Disjoint(G0, DayEndNow)
        /\ \A t \in Int : t \in Uncovered <=> \E w \in G0 : Holds(w, t)
    BY <1>1, <2>1, GapsAreUncovered
  <2>3. Tariffs # {}
    <3>1. PICK h \in HoursKept : TRUE
      BY <2>1 DEF RowsOfDay
    <3>2. priced[h] \in Tariffs
      BY <1>1 DEF IdleTypes
    <3> QED  BY <3>2
  <2>4. energy = MapThenSumSet(LAMBDA t : consumed[HourOf(t)],
                               {t \in Uncovered : consumed[HourOf(t)] # Missing})
    <3> HIDE DEF G0
    <3> QED  BY <1>1, <2>2, UncoveredIsGaps
  <2>5. IsFiniteSet(G) /\ \A w \in G : w \in Intervals /\ Within(w, DayEndNow)
    <3>1. G \in SUBSET G0 /\ IsFiniteSet(G0) /\ \A w \in G0 : w \in Intervals /\ Within(w, DayEndNow)
      BY <2>2 DEF Disjoint
    <3> HIDE DEF G, G0
    <3> QED  BY <3>1, FS_Subset
  <2>6. cost >= Scale * energy * Min(Tariffs) /\ cost <= Scale * energy * Max(Tariffs)
    <3> HIDE DEF G
    <3> QED  BY <1>1, <2>3, <2>5, CostOfGaps
  <2> HIDE DEF energy, cost
  <2>7. ASSUME NEW r \in idleRow'  PROVE r.energy = energy /\ r.cost = cost
    BY <2>1
  <2> QED  BY <2>4, <2>6, <2>7
<1>2. IdleTypes => [Counted]_idleVars
  BY <1>1
<1>3. [][Counted]_idleVars => IdleIsUncovered
  BY DEF IdleIsUncovered
<1>4. IdleSpec => []IdleTypes
  BY InitIdleTypes, IdleTypesInductive, PTL DEF IdleSpec
<1> QED  BY <1>2, <1>3, <1>4, PTL DEF IdleSpec
=============================================================================
