--------------------------- MODULE SlotPlanProofs ---------------------------
(***************************************************************************)
(* Proofs about SlotPlan: whatever the prices, the need, the overrides and *)
(* the plan before, a recompute plans nothing into a block, plans every    *)
(* forced period and keeps of the old plan only what it pins; and the      *)
(* profile sent to the charger, a list of limits made from the periods in  *)
(* order, gives every moment the power that the plan has then.             *)
(***************************************************************************)
EXTENDS SlotPlan, DataProofs

(* The shape of the plan. *)
Periods == [from : Nat, to : Nat, power : Nat, price : Int]
Slots == [deadline : Int, off : BOOLEAN, periods : SUBSET Periods]
Overrides == [from : Nat, to : Nat, power : Nat]

PlanTypes ==
  /\ moment \in Nat
  /\ quote \in {NoPrices} \cup AllPrices
  /\ due \in BOOLEAN /\ open \in BOOLEAN
  /\ overrides \subseteq Overrides
  /\ plan \subseteq Slots
  /\ pinned \subseteq Periods

\* An override has a length, and no two share a half hour.
Apart == 
  /\ \A o \in overrides : o.from < o.to
  /\ \A o, x \in overrides : o # x => ~Overlaps(o, x)

\* Settled, a block is kept clear and a forced window is in the slot of its day, that
\* slot cancelled or not.
OverridesPlanned ==
  Settled =>
    \A o \in Loaded :
      IF o.power = 0
      THEN \A p \in (UNION {s.periods : s \in plan}) \ pinned : p.from > moment => ~Overlaps(p, o)
      ELSE config =>
             \/ \E s \in plan : s.deadline = nextDeadlineAfter(o.from) /\ \E p \in s.periods :
                  p.from = o.from /\ p.to = o.to /\ p.power = o.power
             \/ \E p \in pinned : Overlaps(p, o)

PlanInv == PlanTypes /\ Apart /\ OverridesPlanned

-----------------------------------------------------------------------------
(* What is planned before the merge with the slot in progress.             *)

\* An hour of the plan has a price.
LEMMA HoursHavePrices ==
  ASSUME PlanTypes, NEW h \in AutoHours
  PROVE  h \in 0 .. Horizon \div 2 - 1 /\ quote[h] \in Prices
<1>1. h \in DOMAIN quote
  BY DEF AutoHours
<1>2. DOMAIN NoPrices = {}
  BY DEF NoPrices
<1>3. quote \in AllPrices
  BY <1>1, <1>2 DEF PlanTypes
<1> QED  BY <1>1, <1>3 DEF AllPrices

\* What fragmentRates leaves are periods clear of every override that has not
\* ended.
LEMMA FragmentsAreClear ==
  ASSUME PlanTypes, Apart, NEW p \in fragmentRates
  PROVE  /\ p \in Periods
         /\ \A o \in Loaded : ~Overlaps(p, o)
<1> DEFINE Free(t) == ~\E o \in Loaded : o.from <= t /\ t < o.to
           Whole(h) == [from |-> 2 * h, to |-> 2 * h + 2, power |-> AutoPower, price |-> quote[h]]
           Half(h, t) == [Whole(h) EXCEPT !.from = t, !.to = t + 1]
           Of(h) == IF Free(2 * h) /\ Free(2 * h + 1)
                    THEN {Whole(h)}
                    ELSE {Half(h, t) : t \in {u \in {2 * h, 2 * h + 1} : Free(u)}}
<1>0. /\ AutoPower \in Nat /\ Prices \subseteq Int /\ Horizon \in Nat
  BY PlanAssumption
<1>1. PICK h \in AutoHours : p \in Of(h)
  BY DEF fragmentRates
<1>2. /\ h \in Nat /\ quote[h] \in Int
  <2>1. h \in 0 .. Horizon \div 2 - 1 /\ quote[h] \in Prices
    BY HoursHavePrices
  <2>3. h \in Nat
    <3> DEFINE last == Horizon \div 2 - 1
    <3>1. h \in 0 .. last
      BY <2>1
    <3>2. last \in Int
      BY <1>0
    <3> HIDE DEF last
    <3> QED  BY <3>1, <3>2
  <2> QED  BY <2>1, <2>3, <1>0
<1>3. \A o \in Loaded : o.from \in Nat /\ o.to \in Nat /\ o.from < o.to
  BY DEF Loaded, PlanTypes, Apart, Overrides
<1>4. CASE Free(2 * h) /\ Free(2 * h + 1)
  <2>1. p = Whole(h)
    BY <1>1, <1>4
  <2>2. p \in Periods
    BY <2>1, <1>2, <1>0 DEF Periods
  <2>3. p.from = 2 * h /\ p.to = 2 * h + 2
    BY <2>1
  <2>4. ASSUME NEW o \in Loaded  PROVE ~Overlaps(p, o)
    <3>1. ~(o.from <= 2 * h /\ 2 * h < o.to) /\ ~(o.from <= 2 * h + 1 /\ 2 * h + 1 < o.to)
      BY <1>4
    <3> QED  BY <3>1, <2>3, <1>2, <1>3 DEF Overlaps
  <2> QED  BY <2>2, <2>4
<1>5. CASE ~(Free(2 * h) /\ Free(2 * h + 1))
  <2>1. PICK t \in {2 * h, 2 * h + 1} : Free(t) /\ p = Half(h, t)
    BY <1>1, <1>5
  <2>2. t \in Nat
    BY <2>1, <1>2
  <2>3. p = [from |-> t, to |-> t + 1, power |-> AutoPower, price |-> quote[h]]
    BY <2>1
  <2>4. p \in Periods
    BY <2>3, <2>2, <1>2, <1>0 DEF Periods
  <2>5. p.from = t /\ p.to = t + 1
    BY <2>3
  <2>6. ASSUME NEW o \in Loaded  PROVE ~Overlaps(p, o)
    <3>1. ~(o.from <= t /\ t < o.to)
      BY <2>1
    <3> QED  BY <3>1, <2>5, <2>2, <1>3 DEF Overlaps
  <2> QED  BY <2>4, <2>6
<1> QED  BY <1>4, <1>5

\* A deadline is an integer.
LEMMA DeadlineType ==
  /\ \A t \in Int : nextDeadlineAfter(t) \in Int
  /\ moment \in Nat => FirstDeadline \in Int
<1>1. DayUnits \in Nat \ {0} /\ DueAt \in Int
  BY PlanAssumption
<1>2. \A t \in Int : (t \div DayUnits) * DayUnits + DueAt \in Int
  BY <1>1
<1> QED  BY <1>1, <1>2 DEF nextDeadlineAfter, FirstDeadline

\* computeSlot takes from the rates it is given.
LEMMA ComputeSlotTakes ==
  ASSUME NEW rates, NEW energy, NEW S \in computeSlot(rates, energy)
  PROVE  S \subseteq rates
BY DEF computeSlot, kSubset

\* What is planned automatically are slots of fragments.
LEMMA AutoIsFragments ==
  ASSUME PlanTypes, NEW auto \in AutoSchedules, NEW s \in auto
  PROVE  /\ s.deadline \in Int /\ s.periods \subseteq fragmentRates
<1>1. /\ AutoTarget # 0 /\ AutoHours # {}
      /\ auto \in ComputeSchedule(AutoTarget)
  BY DEF AutoSchedules
<1> DEFINE today == FirstDeadline
           tomorrow == today + DayUnits
           Later(S) == IF AutoTarget <= Energy(S) THEN {{}}
                       ELSE computeSlot(WindowRates(today, tomorrow), AutoTarget - Energy(S))
           First == computeSlot(WindowRates(moment, today), AutoTarget)
<1>2. PICK S \in First : \E T \in Later(S) :
        auto = {t \in {Slot(today, S), Slot(tomorrow, T)} : t.periods # {}}
  BY <1>1 DEF ComputeSchedule
<1>3. PICK T \in Later(S) :
        auto = {t \in {Slot(today, S), Slot(tomorrow, T)} : t.periods # {}}
  BY <1>2
<1>4. \A a, b : WindowRates(a, b) \subseteq fragmentRates
  BY DEF WindowRates
<1>5. S \subseteq fragmentRates
  BY <1>4, ComputeSlotTakes
<1>6. T \subseteq fragmentRates
  <2>1. CASE AutoTarget <= Energy(S)
    BY <2>1
  <2>2. CASE ~(AutoTarget <= Energy(S))
    BY <2>2, <1>4, ComputeSlotTakes
  <2> QED  BY <2>1, <2>2
<1>7. today \in Int /\ tomorrow \in Int
  BY DeadlineType, PlanAssumption DEF PlanTypes
<1> HIDE DEF today, tomorrow
<1> QED  BY <1>3, <1>5, <1>6, <1>7 DEF Slot

\* A forced period is a period, one for each forced override that has not ended.
LEMMA ForcedArePeriods ==
  ASSUME PlanTypes, Apart
  PROVE  /\ ForcePeriods \subseteq Periods
         /\ \A f \in ForcePeriods : \E x \in Loaded :
              x.power > 0 /\ f.from = x.from /\ f.to = x.to /\ f.power = x.power
         /\ \A x \in Loaded : x.power > 0 => \E f \in ForcePeriods :
              f.from = x.from /\ f.to = x.to /\ f.power = x.power
<1> DEFINE Of(o) == [from |-> o.from, to |-> o.to, power |-> o.power, price |-> 0]
           Forced == {x \in Loaded : x.power > 0}
<1>1. ForcePeriods = {Of(o) : o \in Forced}
  BY DEF ForcePeriods
<1>2. \A o : Of(o).from = o.from /\ Of(o).to = o.to /\ Of(o).power = o.power
  OBVIOUS
<1>3. \A o \in Loaded : Of(o) \in Periods
  BY DEF Loaded, PlanTypes, Overrides, Periods
<1> HIDE DEF Of
<1> QED  BY <1>1, <1>2, <1>3

\* What is merged so far: slots whose periods are fragments or forced, each forced
\* one in the slot of its deadline.
LEMMA MergedPlan ==
  ASSUME PlanTypes, Apart, NEW auto \in AutoSchedules
  PROVE  /\ mergeForcesIntoSchedule(auto) \subseteq Slots
         /\ \A s \in mergeForcesIntoSchedule(auto) :
              s.periods \subseteq fragmentRates \cup ForcePeriods
         /\ \A f \in ForcePeriods : \E s \in mergeForcesIntoSchedule(auto) :
              s.deadline = nextDeadlineAfter(f.from) /\ f \in s.periods
<1> DEFINE Joined(d) == (UNION {s.periods : s \in {t \in auto : t.deadline = d}})
                        \cup {f \in ForcePeriods : nextDeadlineAfter(f.from) = d}
           Days == {s.deadline : s \in auto} \cup {nextDeadlineAfter(f.from) : f \in ForcePeriods}
<1>1. mergeForcesIntoSchedule(auto) = {Slot(d, Joined(d)) : d \in Days}
  BY DEF mergeForcesIntoSchedule
<1>2. \A d : Joined(d) \subseteq fragmentRates \cup ForcePeriods
  <2>1. ASSUME NEW d, NEW p \in Joined(d), p \notin ForcePeriods  PROVE p \in fragmentRates
    <3>1. p \in UNION {s.periods : s \in {t \in auto : t.deadline = d}}
      BY <2>1
    <3>2. PICK P \in {s.periods : s \in {t \in auto : t.deadline = d}} : p \in P
      BY <3>1
    <3>3. PICK s \in {t \in auto : t.deadline = d} : P = s.periods
      BY <3>2
    <3> QED  BY <3>2, <3>3, AutoIsFragments
  <2> QED  BY <2>1
<1>3. \A d : Joined(d) \subseteq Periods
  BY <1>2, FragmentsAreClear, ForcedArePeriods
<1>4. Days \subseteq Int
  <2>1. \A f \in ForcePeriods : f.from \in Int
    BY ForcedArePeriods DEF Periods
  <2> QED  BY <2>1, AutoIsFragments, DeadlineType
<1>5. \A f \in ForcePeriods : /\ nextDeadlineAfter(f.from) \in Days
                             /\ f \in Joined(nextDeadlineAfter(f.from))
  <2>1. ASSUME NEW f \in ForcePeriods, NEW d, d = nextDeadlineAfter(f.from)
        PROVE  d \in Days /\ f \in Joined(d)
    <3>1. f \in {g \in ForcePeriods : nextDeadlineAfter(g.from) = d}
      BY <2>1
    <3>2. d \in {nextDeadlineAfter(g.from) : g \in ForcePeriods}
      BY <2>1
    <3> QED  BY <3>1, <3>2
  <2> QED  BY <2>1
<1> HIDE DEF Joined, Days
<1>6. \A d : Slot(d, Joined(d)).periods = Joined(d) /\ Slot(d, Joined(d)).deadline = d
  BY DEF Slot
<1>7. \A d \in Days : Slot(d, Joined(d)) \in Slots
  BY <1>3, <1>4 DEF Slot, Slots
<1> QED  BY <1>1, <1>2, <1>5, <1>6, <1>7

\* A cancellation changes no period.
LEMMA CancellationsKeepPeriods ==
  ASSUME NEW slots \in SUBSET Slots
  PROVE  /\ WithCancellations(slots) \subseteq Slots
         /\ \A s \in WithCancellations(slots) : \E t \in slots :
              t.periods = s.periods /\ t.deadline = s.deadline
         /\ \A t \in slots : \E s \in WithCancellations(slots) :
              t.periods = s.periods /\ t.deadline = s.deadline
<1> DEFINE Of(s) == [s EXCEPT !.off = \E t \in plan : t.deadline = s.deadline /\ t.off]
<1>1. WithCancellations(slots) = {Of(s) : s \in slots}
  BY DEF WithCancellations
<1>2. ASSUME NEW s \in Slots
      PROVE  Of(s) \in Slots /\ Of(s).periods = s.periods /\ Of(s).deadline = s.deadline
  <2>1. (\E t \in plan : t.deadline = s.deadline /\ t.off) \in BOOLEAN
    OBVIOUS
  <2> QED  BY <2>1 DEF Slots
<1> HIDE DEF Of
<1> QED  BY <1>1, <1>2

\* The period in progress of the active slot exists: periods begin at natural
\* numbers, so one of those that contain now begins first.
LEMMA ActivePeriodExists ==
  ASSUME PlanTypes, NEW in \in activeSlot
  PROVE  /\ in \in Slots
         /\ activePeriod(in) \in in.periods
         /\ Now(activePeriod(in))
<1>1. /\ in \in Slots /\ in.periods \subseteq Periods
      /\ \E p \in in.periods : Now(p)
  BY DEF activeSlot, PlanTypes, Slots
<1> DEFINE Begin == {p.from : p \in {q \in in.periods : Now(q)}}
<1>2. Begin \subseteq Nat /\ Begin # {}
  BY <1>1 DEF Periods
<1> HIDE DEF Begin
<1>4. PICK b \in Begin : \A c \in Begin : b <= c
  BY <1>2, LeastNat
<1> USE DEF Begin
<1>5. PICK p \in in.periods : Now(p) /\ p.from = b
  OBVIOUS
<1>6. \A q \in in.periods : Now(q) => p.from <= q.from
  BY <1>4, <1>5
<1> QED  BY <1>1, <1>5, <1>6 DEF activePeriod

-----------------------------------------------------------------------------
(* The recompute.                                                          *)

\* A fragment or a forced period begins in no block that has not ended and meets
\* none.
LEMMA PlannedMeetsNoBlock ==
  ASSUME PlanTypes, Apart, NEW p \in fragmentRates \cup ForcePeriods,
         NEW o \in Loaded, o.power = 0
  PROVE  ~Overlaps(p, o)
<1>1. CASE p \in fragmentRates
  BY <1>1, FragmentsAreClear
<1>2. CASE p \in ForcePeriods
  <2>1. PICK x \in Loaded : x.power > 0 /\ p.from = x.from /\ p.to = x.to
    BY <1>2, ForcedArePeriods
  <2>2. x # o
    BY <2>1
  <2>3. x \in overrides /\ o \in overrides
    BY DEF Loaded
  <2>4. ~Overlaps(x, o)
    BY <2>2, <2>3 DEF Apart
  <2> QED  BY <2>1, <2>4 DEF Overlaps
<1> QED  BY <1>1, <1>2

\* What Planned holds, for any merged slots: periods of the merged slots, pinned
\* ones, or ones that have begun; and every merged period, unless it begins before
\* a pinned one that contains now has ended.
LEMMA PlannedPeriods ==
  ASSUME PlanTypes, NEW slots \in SUBSET Slots
  PROVE  /\ Planned(slots) \subseteq Slots
         /\ Pinned(slots) \subseteq Periods
         /\ \A s \in Planned(slots) : \A p \in s.periods :
              \/ \E t \in slots : p \in t.periods
              \/ p \in Pinned(slots)
              \/ p.from <= moment
         /\ \A t \in slots : \A p \in t.periods :
              \/ \E s \in Planned(slots) : s.deadline = t.deadline /\ p \in s.periods
              \/ \E a \in Pinned(slots) : Now(a) /\ p.from < a.to
<1>1. CASE activeSlot = {}
  <2>1. Planned(slots) = WithCancellations(slots) /\ Pinned(slots) = {}
    BY <1>1 DEF Planned, Pinned
  <2>2. \A s \in WithCancellations(slots) : \E t \in slots : t.periods = s.periods
    BY CancellationsKeepPeriods
  <2>3. \A t \in slots : \E s \in WithCancellations(slots) :
          t.periods = s.periods /\ t.deadline = s.deadline
    BY CancellationsKeepPeriods
  <2>4. WithCancellations(slots) \subseteq Slots
    BY CancellationsKeepPeriods
  <2> QED  BY <2>1, <2>2, <2>3, <2>4
<1>2. CASE activeSlot # {} /\ slots = {}
  <2>1. Planned(slots) = activeSlot /\ Pinned(slots) = UNION {s.periods : s \in activeSlot}
    BY <1>2 DEF Planned, Pinned
  <2>2. activeSlot \subseteq Slots
    BY ActivePeriodExists
  <2>3. \A s \in activeSlot : s.periods \subseteq Periods
    BY <2>2 DEF Slots
  <2> QED  BY <2>1, <2>2, <2>3, <1>2
<1>3. CASE activeSlot # {} /\ slots # {}
  <2> DEFINE in == CHOOSE s \in activeSlot : TRUE
             a == activePeriod(in)
             others == WithCancellations(slots)
             new == UNION {s.periods : s \in {t \in others : t.deadline = in.deadline}}
             kept == {p \in in.periods : p.from <= a.from} \cup {p \in new : p.from >= a.to}
             merged == [in EXCEPT !.periods = kept]
  <2>1. in \in activeSlot
    BY <1>3
  <2>2. in \in Slots /\ a \in in.periods /\ Now(a)
    BY <2>1, ActivePeriodExists
  <2>3. Planned(slots) = {s \in others : s.deadline # in.deadline} \cup {merged}
    <3>1. Planned(slots) = mergeActiveSlot(others, in)
      BY <1>3 DEF Planned
    <3>2. mergeActiveSlot(others, in) =
            {s \in others : s.deadline # in.deadline} \cup
              {[in EXCEPT !.periods = {p \in @ : p.from <= a.from} \cup {p \in new : p.from >= a.to}]}
      BY DEF mergeActiveSlot
    <3>3. [in EXCEPT !.periods = {p \in @ : p.from <= a.from} \cup {p \in new : p.from >= a.to}] = merged
      OBVIOUS
    <3> QED  BY <3>1, <3>2, <3>3
  <2>4. /\ a \in Pinned(slots)
        /\ Pinned(slots) = {activePeriod(s) : s \in activeSlot}
    <3>1. Pinned(slots) = UNION {{activePeriod(s)} : s \in activeSlot}
      BY <1>3 DEF Pinned
    <3> HIDE DEF in
    <3> QED  BY <3>1, <2>1
  <2>5. Pinned(slots) \subseteq Periods
    <3>1. ASSUME NEW s \in activeSlot  PROVE activePeriod(s) \in Periods
      <4>1. s \in Slots /\ activePeriod(s) \in s.periods
        BY ActivePeriodExists
      <4> QED  BY <4>1 DEF Slots
    <3> QED  BY <2>4, <3>1
  <2>6. /\ others \subseteq Slots
        /\ \A s \in others : \E t \in slots : t.periods = s.periods /\ t.deadline = s.deadline
        /\ \A t \in slots : \E s \in others : t.periods = s.periods /\ t.deadline = s.deadline
    BY CancellationsKeepPeriods
  <2>7. in.periods \subseteq Periods /\ a \in Periods
    BY <2>2 DEF Slots
  <2>8. a.from \in Nat /\ a.to \in Nat /\ moment \in Nat /\ a.from <= moment
    BY <2>2, <2>7 DEF Periods, Now, PlanTypes
  <2>9. merged.periods = kept /\ merged.deadline = in.deadline
    BY <2>2 DEF Slots
  <2>10. \A p \in new : \E t \in slots : p \in t.periods
    BY <2>6
  <2> HIDE DEF in, a, others
  <2>11. new \subseteq Periods
    <3>1. \A s \in others : s.periods \subseteq Periods
      BY <2>6 DEF Slots
    <3> QED  BY <3>1
  <2>12. kept \subseteq Periods
    BY <2>7, <2>11
  <2>13. merged \in Slots
    <3> HIDE DEF kept
    <3> QED  BY <2>2, <2>12 DEF Slots
  <2>14. Planned(slots) \subseteq Slots
    <3> HIDE DEF merged
    <3> QED  BY <2>3, <2>6, <2>13
  <2>15. ASSUME NEW s \in Planned(slots), NEW p \in s.periods
         PROVE  \/ \E t \in slots : p \in t.periods
                \/ p \in Pinned(slots)
                \/ p.from <= moment
    <3>1. CASE s \in others
      BY <3>1, <2>6
    <3>2. CASE s = merged
      <4>1. CASE p \in new
        BY <4>1, <2>10
      <4>2. CASE p \in in.periods /\ p.from <= a.from
        <5>1. p.from \in Nat
          BY <4>2, <2>7 DEF Periods
        <5> QED  BY <5>1, <4>2, <2>8
      <4> HIDE DEF merged, new
      <4> QED  BY <3>2, <2>9, <4>1, <4>2
    <3> HIDE DEF merged
    <3> QED  BY <3>1, <3>2, <2>3
  <2>16. ASSUME NEW t \in slots, NEW p \in t.periods
         PROVE  \/ \E s \in Planned(slots) : s.deadline = t.deadline /\ p \in s.periods
                \/ \E b \in Pinned(slots) : Now(b) /\ p.from < b.to
    <3>1. PICK s \in others : t.periods = s.periods /\ t.deadline = s.deadline
      BY <2>6
    <3>2. CASE s.deadline # in.deadline
      <4> HIDE DEF merged
      <4> QED  BY <3>1, <3>2, <2>3
    <3>3. CASE s.deadline = in.deadline /\ p.from >= a.to
      <4>1. p \in new
        BY <3>1, <3>3
      <4>2. p \in merged.periods /\ merged.deadline = t.deadline
        BY <4>1, <3>1, <3>3, <2>9
      <4> HIDE DEF merged, new
      <4> QED  BY <4>2, <2>3
    <3>4. CASE ~(p.from >= a.to)
      <4>1. p.from \in Nat
        BY DEF Slots, Periods
      <4>2. p.from < a.to
        BY <4>1, <3>4, <2>8
      <4> QED  BY <4>2, <2>2, <2>4
    <3> QED  BY <3>2, <3>3, <3>4
  <2> QED  BY <2>5, <2>14, <2>15, <2>16
<1> QED  BY <1>1, <1>2, <1>3
-----------------------------------------------------------------------------
(* The invariant.                                                          *)

\* Before the first recompute nothing is planned.
LEMMA InitPlanInv == PlanInit => PlanInv
<1> SUFFICES ASSUME PlanInit  PROVE PlanInv
  OBVIOUS
<1>1. quote \in {NoPrices} \cup AllPrices
  BY DEF PlanInit
<1>2. /\ moment = 0 /\ overrides = {} /\ plan = {} /\ pinned = {}
      /\ due = TRUE /\ open = FALSE
  BY DEF PlanInit
<1>3. PlanTypes
  BY <1>1, <1>2 DEF PlanTypes
<1> QED  BY <1>2, <1>3 DEF PlanInv, Apart, OverridesPlanned, Settled

\* A recompute that does not return early plans the overrides.
LEMMA PlanningHolds ==
  ASSUME PlanTypes, Apart, NEW auto \in AutoSchedules,
         plan' = Planned(mergeForcesIntoSchedule(auto)),
         pinned' = Pinned(mergeForcesIntoSchedule(auto)),
         UNCHANGED <<moment, quote, overrides>>
  PROVE  OverridesPlanned' /\ plan' \subseteq Slots /\ pinned' \subseteq Periods
<1> DEFINE slots == mergeForcesIntoSchedule(auto)
<1>1. /\ slots \in SUBSET Slots
      /\ \A s \in slots : s.periods \subseteq fragmentRates \cup ForcePeriods
      /\ \A f \in ForcePeriods : \E s \in slots :
           s.deadline = nextDeadlineAfter(f.from) /\ f \in s.periods
  BY MergedPlan
<1> HIDE DEF slots
<1>2. /\ plan' \subseteq Slots /\ pinned' \subseteq Periods
      /\ \A s \in plan' : \A p \in s.periods :
           (\E t \in slots : p \in t.periods) \/ p \in pinned' \/ p.from <= moment
      /\ \A t \in slots : \A p \in t.periods :
           \/ \E s \in plan' : s.deadline = t.deadline /\ p \in s.periods
           \/ \E a \in pinned' : Now(a) /\ p.from < a.to
  BY <1>1, PlannedPeriods DEF slots
<1>3. Loaded' = Loaded /\ moment' = moment
  BY DEF Loaded
<1>4. ASSUME NEW o \in Loaded, o.power = 0,
             NEW s \in plan', NEW p \in s.periods, p \notin pinned', p.from > moment
      PROVE  ~Overlaps(p, o)
  <2>1. p.from \in Nat /\ moment \in Nat
    BY <1>2 DEF Slots, Periods, PlanTypes
  <2>2. \E t \in slots : p \in t.periods
    BY <1>2, <1>4, <2>1
  <2> QED  BY <2>2, <1>1, <1>4, PlannedMeetsNoBlock
<1>5. ASSUME NEW o \in Loaded, o.power # 0
      PROVE  \/ \E s \in plan' : s.deadline = nextDeadlineAfter(o.from) /\ \E p \in s.periods :
                  p.from = o.from /\ p.to = o.to /\ p.power = o.power
             \/ \E p \in pinned' : Overlaps(p, o)
  <2>1. o.power \in Nat /\ o.from \in Nat /\ o.to \in Nat /\ o.to > moment /\ moment \in Nat
    BY DEF Loaded, PlanTypes, Overrides
  <2>2. PICK f \in ForcePeriods : f.from = o.from /\ f.to = o.to /\ f.power = o.power
    BY <1>5, <2>1, ForcedArePeriods
  <2>3. PICK t \in slots : t.deadline = nextDeadlineAfter(f.from) /\ f \in t.periods
    BY <1>1
  <2>4. CASE \E s \in plan' : s.deadline = t.deadline /\ f \in s.periods
    BY <2>2, <2>3, <2>4
  <2>5. CASE \E a \in pinned' : Now(a) /\ f.from < a.to
    <3>1. PICK a \in pinned' : Now(a) /\ f.from < a.to
      BY <2>5
    <3>2. a.from \in Nat /\ a.to \in Nat
      BY <1>2 DEF Periods
    <3>3. Overlaps(a, o)
      BY <2>1, <2>2, <3>1, <3>2 DEF Now, Overlaps
    <3> QED  BY <3>3
  <2> QED  BY <1>2, <2>3, <2>4, <2>5
<1> DEFINE planned == UNION {s.periods : s \in plan}
<1>6. \A p \in planned' : \E s \in plan' : p \in s.periods
  OBVIOUS
<1> HIDE DEF planned
<1>7. ASSUME NEW o \in Loaded, o.power = 0
      PROVE  \A p \in planned' \ pinned' : p.from > moment => ~Overlaps(p, o)
  BY <1>4, <1>6, <1>7
<1> QED  BY <1>2, <1>3, <1>5, <1>7 DEF OverridesPlanned, planned

\* Recompute: where it returns, while a transaction is open, without a Config, and
\* with neither prices nor forced periods, it keeps every period.
LEMMA RecomputeKeepsPlan == ASSUME PlanInv, Recompute  PROVE PlanInv'
<1>1. PlanTypes /\ Apart /\ Apart'
  BY DEF PlanInv, Recompute, Apart
<1>2. CASE Returns
  <2>1. UNCHANGED <<plan, moment, quote, config, overrides, open>> /\ due' = FALSE
        /\ pinned' = UNION {s.periods : s \in plan}
    BY <1>2 DEF Recompute, inputs
  <2>2. pinned' \subseteq Periods
    BY <1>1, <2>1 DEF PlanTypes, Slots
  <2>3. PlanTypes'
    BY <1>1, <2>1, <2>2 DEF PlanTypes
  <2>4. Loaded' = Loaded /\ Settled' = ~open
    BY <2>1 DEF Loaded, Settled
  <2>5. ASSUME ~open, config, NEW o \in Loaded  PROVE o.power = 0
    <3>1. ForcePeriods = {}
      BY <1>2, <2>5 DEF Returns
    <3>2. o.power \in Nat
      BY <1>1 DEF PlanTypes, Loaded, Overrides
    <3> QED  BY <1>1, <2>5, <3>1, <3>2, ForcedArePeriods
  <2>6. (UNION {s.periods : s \in plan})' \ pinned' = {}
    BY <2>1
  <2> QED  BY <1>1, <2>1, <2>3, <2>4, <2>5, <2>6 DEF PlanInv, OverridesPlanned
<1>3. CASE ~Returns
  <2>1. PICK auto \in AutoSchedules :
          /\ plan' = Planned(mergeForcesIntoSchedule(auto))
          /\ pinned' = Pinned(mergeForcesIntoSchedule(auto))
    BY <1>3 DEF Recompute
  <2>2. UNCHANGED <<moment, quote, overrides, open>> /\ due' = FALSE
    BY DEF Recompute, inputs
  <2>3. OverridesPlanned' /\ plan' \subseteq Slots /\ pinned' \subseteq Periods
    BY <1>1, <2>1, <2>2, PlanningHolds
  <2>4. PlanTypes'
    BY <1>1, <2>2, <2>3 DEF PlanTypes
  <2> QED  BY <1>1, <2>3, <2>4 DEF PlanInv
<1> QED  BY <1>2, <1>3

\* The user's changes of the overrides notify the loop.
LEMMA CreateKeepsPlan == ASSUME PlanInv, CreateOverride  PROVE PlanInv'
<1>1. PICK from \in 0 .. Horizon - 1, len \in 1 .. MaxLen, power \in {0} \cup Powers :
        InsertOverride([from |-> from, to |-> from + len, power |-> power])
  BY DEF CreateOverride
<1> DEFINE o == [from |-> from, to |-> from + len, power |-> power]
<1>2. from \in Nat /\ len \in Nat \ {0} /\ power \in Nat
  BY PlanAssumption
<1>3. o \in Overrides /\ o.from < o.to
  BY <1>2 DEF Overrides
<1>4. overrides' = overrides \cup {o} /\ \A x \in overrides : ~Overlaps(o, x)
  BY <1>1 DEF InsertOverride
<1> HIDE DEF o
<1>5. Apart'
  <2>1. \A x \in overrides : ~Overlaps(x, o)
    BY <1>4 DEF Overlaps
  <2> QED  BY <1>3, <1>4, <2>1 DEF PlanInv, Apart
<1>6. PlanTypes'
  BY <1>3, <1>4 DEF PlanInv, PlanTypes, CreateOverride, inputs
<1>7. ~Settled'
  BY DEF CreateOverride, Settled
<1> QED  BY <1>5, <1>6, <1>7 DEF PlanInv, OverridesPlanned

LEMMA DeleteKeepsPlan == ASSUME PlanInv, DeleteOverride  PROVE PlanInv'
<1>1. overrides' \subseteq overrides /\ ~Settled'
  BY DEF DeleteOverride, Settled
<1>2. Apart'
  BY <1>1 DEF PlanInv, Apart
<1>3. PlanTypes'
  BY <1>1 DEF PlanInv, PlanTypes, DeleteOverride, inputs
<1> QED  BY <1>1, <1>2, <1>3 DEF PlanInv, OverridesPlanned

\* A slot that is cancelled or restored keeps its periods.
LEMMA ToggleKeepsPlan == ASSUME PlanInv, ToggleSlot  PROVE PlanInv'
<1>1. UNCHANGED <<moment, quote, config, overrides, due, open, pinned>>
  BY DEF ToggleSlot, inputs
<1>2. PICK s \in plan : plan' = (plan \ {s}) \cup {[s EXCEPT !.off = ~@]}
  BY DEF ToggleSlot
<1> DEFINE r == [s EXCEPT !.off = ~@]
<1>3. s \in Slots
  BY DEF PlanInv, PlanTypes
<1>4. r \in Slots /\ r.periods = s.periods /\ r.deadline = s.deadline
  BY <1>3 DEF Slots
<1> HIDE DEF r
<1>5. plan' = (plan \ {s}) \cup {r}
  BY <1>2 DEF r
<1>6. PlanTypes'
  BY <1>1, <1>4, <1>5 DEF PlanInv, PlanTypes
<1>7. Apart'
  BY <1>1 DEF PlanInv, Apart
<1> DEFINE planned == UNION {t.periods : t \in plan}
           Has(d, o) == \E t \in plan : t.deadline = d /\ \E p \in t.periods :
                          p.from = o.from /\ p.to = o.to /\ p.power = o.power
<1>8. planned' = planned
  <2>1. ASSUME NEW p  PROVE p \in planned' <=> p \in planned
    <3>1. p \in planned <=> \E t \in plan : p \in t.periods
      OBVIOUS
    <3>2. p \in planned' <=> \E t \in plan' : p \in t.periods
      OBVIOUS
    <3> QED  BY <3>1, <3>2, <1>4, <1>5
  <2> QED  BY <2>1
<1>9. ASSUME NEW o, NEW d, Has(d, o)
      PROVE  \E t \in plan' : t.deadline = d /\ \E p \in t.periods :
                 p.from = o.from /\ p.to = o.to /\ p.power = o.power
  <2>1. PICK t \in plan : t.deadline = d /\ \E p \in t.periods :
                 p.from = o.from /\ p.to = o.to /\ p.power = o.power
    BY <1>9
  <2>2. CASE t = s
    BY <1>4, <1>5, <2>1, <2>2
  <2>3. CASE t # s
    BY <1>5, <2>1, <2>3
  <2> QED  BY <2>2, <2>3
<1>10. Loaded' = Loaded /\ Settled' = Settled
  BY <1>1 DEF Loaded, Settled
<1>11. \A x : nextDeadlineAfter(x)' = nextDeadlineAfter(x)
  BY DEF nextDeadlineAfter
<1>12. Settled => \A o \in Loaded :
         IF o.power = 0
         THEN \A p \in planned \ pinned : p.from > moment => ~Overlaps(p, o)
         ELSE config => \/ Has(nextDeadlineAfter(o.from), o)
                        \/ \E p \in pinned : Overlaps(p, o)
  BY DEF PlanInv, OverridesPlanned
<1>13. OverridesPlanned'
  <2> SUFFICES ASSUME Settled, NEW o \in Loaded
      PROVE  IF o.power = 0
             THEN \A p \in planned' \ pinned : p.from > moment => ~Overlaps(p, o)
             ELSE config =>
               \/ \E t \in plan' : t.deadline = nextDeadlineAfter(o.from) /\ \E p \in t.periods :
                     p.from = o.from /\ p.to = o.to /\ p.power = o.power
               \/ \E p \in pinned : Overlaps(p, o)
    BY <1>1, <1>10, <1>11 DEF OverridesPlanned
  <2> HIDE DEF planned, Has
  <2>1. CASE o.power = 0
    BY <1>8, <1>12, <2>1
  <2>2. CASE o.power # 0
    BY <1>9, <1>12, <2>2
  <2> QED  BY <2>1, <2>2
<1> QED  BY <1>6, <1>7, <1>13 DEF PlanInv

\* What the car, the charger and a transaction do notifies the loop or freezes it;
\* prices arrive without a word, and no override depends on them.
LEMMA WorldKeepsPlan ==
  ASSUME PlanInv, ChargeChanges \/ TransactionOpens \/ TransactionEnds
  PROVE  PlanInv'
<1>1. UNCHANGED <<moment, quote, overrides, plan, pinned>>
      /\ due' \in BOOLEAN /\ open' \in BOOLEAN /\ ~Settled'
  BY DEF PlanInv, PlanTypes, ChargeChanges, TransactionOpens, TransactionEnds, Settled, inputs
<1>2. PlanTypes' /\ Apart'
  BY <1>1 DEF PlanInv, PlanTypes, Apart
<1> QED  BY <1>1, <1>2 DEF PlanInv, OverridesPlanned

LEMMA PricesKeepPlan == ASSUME PlanInv, PricesArrive  PROVE PlanInv'
<1>1. UNCHANGED <<moment, config, overrides, plan, due, open, pinned>> /\ quote' \in AllPrices
  BY DEF PricesArrive
<1>2. PlanTypes' /\ Apart'
  BY <1>1 DEF PlanInv, PlanTypes, Apart
<1> QED  BY <1>1, <1>2 DEF PlanInv, OverridesPlanned, Settled, Loaded, nextDeadlineAfter

\* With time the overrides that count become fewer, and so do the periods to come.
LEMMA AdvanceKeepsPlan == ASSUME PlanInv, Advance  PROVE PlanInv'
<1>1. UNCHANGED <<quote, config, overrides, plan, due, open, pinned>> /\ moment' = moment + 1
      /\ moment \in Nat
  BY DEF Advance, PlanInv, PlanTypes, inputs
<1>2. PlanTypes' /\ Apart'
  BY <1>1 DEF PlanInv, PlanTypes, Apart
<1>3. Settled' = Settled /\ Loaded' \subseteq Loaded
  <2>1. \A o \in overrides : o.to \in Nat
    BY DEF PlanInv, PlanTypes, Overrides
  <2> QED  BY <1>1, <2>1 DEF Settled, Loaded
<1> DEFINE planned == UNION {s.periods : s \in plan}
           Has(o) == \E s \in plan : s.deadline = nextDeadlineAfter(o.from) /\ \E p \in s.periods :
                       p.from = o.from /\ p.to = o.to /\ p.power = o.power
<1>4. planned' = planned /\ \A o : Has(o)' = Has(o)
  BY <1>1 DEF nextDeadlineAfter
<1>5. \A p \in planned : p.from \in Nat
  BY DEF PlanInv, PlanTypes, Slots, Periods
<1>6. Settled => \A o \in Loaded :
        IF o.power = 0
        THEN \A p \in planned \ pinned : p.from > moment => ~Overlaps(p, o)
        ELSE config => Has(o) \/ \E p \in pinned : Overlaps(p, o)
  BY DEF PlanInv, OverridesPlanned
<1> HIDE DEF planned, Has
<1>7. \A p \in planned : p.from > moment' => p.from > moment
  BY <1>1, <1>5
<1>8. Settled' => \A o \in Loaded' :
        IF o.power = 0
        THEN \A p \in planned' \ pinned' : p.from > moment' => ~Overlaps(p, o)
        ELSE config' => Has(o)' \/ \E p \in pinned' : Overlaps(p, o)
  BY <1>1, <1>3, <1>4, <1>6, <1>7
<1>9. OverridesPlanned'
  BY <1>8 DEF OverridesPlanned, planned, Has
<1> QED  BY <1>2, <1>9 DEF PlanInv

LEMMA PlanInvIsInductive == PlanInv /\ [PlanNext]_planVars => PlanInv'
<1> SUFFICES ASSUME PlanInv, [PlanNext]_planVars  PROVE PlanInv'
  OBVIOUS
<1>1. CASE UNCHANGED planVars
  BY <1>1 DEF planVars, PlanInv, PlanTypes, Apart, OverridesPlanned, Settled, Loaded, nextDeadlineAfter
<1> QED
  BY <1>1, RecomputeKeepsPlan, CreateKeepsPlan, DeleteKeepsPlan, ToggleKeepsPlan,
     WorldKeepsPlan, PricesKeepPlan, AdvanceKeepsPlan DEF PlanNext

\* The plan is a set of slots with periods of half hours, and no two stored
\* overrides share one.
THEOREM PlanTypeCorrect == PlanSpec => [](PlanTypes /\ Apart)
<1>1. PlanInv => PlanTypes /\ Apart
  BY DEF PlanInv
<1> QED  BY <1>1, InitPlanInv, PlanInvIsInductive, PTL DEF PlanSpec

-----------------------------------------------------------------------------
(* The order of the plan: what ActivePeriods and BuildProfile rely on.     *)

\* The periods of a slot have a length and do not overlap, and a day has one slot.
PeriodsApart ==
  /\ \A s \in plan : \A p \in s.periods : p.from < p.to
  /\ \A s \in plan : \A p, q \in s.periods : p # q => ~Overlaps(p, q)
  /\ \A s, t \in plan : s.deadline = t.deadline => s = t

\* An override holds a half of the hour.
Taken(h) ==
  \E o \in Loaded : \/ o.from <= 2 * h /\ 2 * h < o.to
                    \/ o.from <= 2 * h + 1 /\ 2 * h + 1 < o.to

\* A fragment is its hour or one half of it.
LEMMA FragmentShape ==
  ASSUME PlanTypes, NEW p \in fragmentRates
  PROVE  \E h \in Nat, t \in Nat, n \in {1, 2} :
           /\ p = [from |-> t, to |-> t + n, power |-> AutoPower, price |-> quote[h]]
           /\ 2 * h <= t /\ t + n <= 2 * h + 2
           /\ n = 2 <=> ~Taken(h)
<1> DEFINE Free(t) == ~\E o \in Loaded : o.from <= t /\ t < o.to
           Whole(h) == [from |-> 2 * h, to |-> 2 * h + 2, power |-> AutoPower, price |-> quote[h]]
           Half(h, t) == [Whole(h) EXCEPT !.from = t, !.to = t + 1]
           Of(h) == IF Free(2 * h) /\ Free(2 * h + 1)
                    THEN {Whole(h)}
                    ELSE {Half(h, t) : t \in {u \in {2 * h, 2 * h + 1} : Free(u)}}
<1>1. PICK h \in AutoHours : p \in Of(h)
  BY DEF fragmentRates
<1>2. h \in Nat
  <2> DEFINE last == Horizon \div 2 - 1
  <2>1. h \in 0 .. last
    BY HoursHavePrices
  <2>2. last \in Int
    BY PlanAssumption
  <2> HIDE DEF last
  <2> QED  BY <2>1, <2>2
<1>3. CASE Free(2 * h) /\ Free(2 * h + 1)
  <2>1. p = [from |-> 2 * h, to |-> 2 * h + 2, power |-> AutoPower, price |-> quote[h]]
    BY <1>1, <1>3
  <2>2. 2 * h \in Nat /\ 2 * h <= 2 * h /\ 2 * h + 2 <= 2 * h + 2 /\ 2 \in {1, 2}
    BY <1>2
  <2>3. ~Taken(h)
    BY <1>3 DEF Taken
  <2> QED  BY <1>2, <2>1, <2>2, <2>3
<1>4. CASE ~(Free(2 * h) /\ Free(2 * h + 1))
  <2>1. PICK t \in {2 * h, 2 * h + 1} : p = Half(h, t)
    BY <1>1, <1>4
  <2>2. p = [from |-> t, to |-> t + 1, power |-> AutoPower, price |-> quote[h]]
    BY <2>1
  <2>3. t \in Nat /\ 2 * h <= t /\ t + 1 <= 2 * h + 2 /\ 1 \in {1, 2} /\ 1 # 2
    BY <1>2, <2>1
  <2>4. Taken(h)
    <3>1. CASE ~Free(2 * h)
      <4>1. PICK o \in Loaded : o.from <= 2 * h /\ 2 * h < o.to
        BY <3>1
      <4> QED  BY <4>1 DEF Taken
    <3>2. CASE ~Free(2 * h + 1)
      <4>1. PICK o \in Loaded : o.from <= 2 * h + 1 /\ 2 * h + 1 < o.to
        BY <3>2
      <4> QED  BY <4>1 DEF Taken
    <3> QED  BY <1>4, <3>1, <3>2
  <2> HIDE DEF Free, Of, Half, Whole
  <2>5. WITNESS h \in Nat, t \in Nat, 1 \in {1, 2}
  <2> QED  BY <2>2, <2>3, <2>4
<1> QED  BY <1>3, <1>4

\* Two fragments do not overlap: hours do not, nor do the halves of one.
LEMMA FragmentsApart ==
  ASSUME PlanTypes, NEW p \in fragmentRates, NEW q \in fragmentRates
  PROVE  p.from < p.to /\ (p # q => ~Overlaps(p, q))
<1>1. PICK h \in Nat, t \in Nat, n \in {1, 2} :
        /\ p = [from |-> t, to |-> t + n, power |-> AutoPower, price |-> quote[h]]
        /\ 2 * h <= t /\ t + n <= 2 * h + 2
        /\ n = 2 <=> ~Taken(h)
  BY FragmentShape
<1>2. PICK k \in Nat, u \in Nat, m \in {1, 2} :
        /\ q = [from |-> u, to |-> u + m, power |-> AutoPower, price |-> quote[k]]
        /\ 2 * k <= u /\ u + m <= 2 * k + 2
        /\ m = 2 <=> ~Taken(k)
  BY FragmentShape
<1>3. p.from = t /\ p.to = t + n /\ q.from = u /\ q.to = u + m
  BY <1>1, <1>2
<1>4. p.from < p.to
  BY <1>3
<1>5. ASSUME Overlaps(p, q)  PROVE p = q
  <2>1. t < u + m /\ u < t + n
    BY <1>3, <1>5 DEF Overlaps
  <2>2. h = k
    BY <1>1, <1>2, <2>1
  <2>3. n = m
    BY <1>1, <1>2, <2>2
  <2>4. t = u
    BY <1>1, <1>2, <2>1, <2>2, <2>3
  <2> QED  BY <1>1, <1>2, <2>2, <2>3, <2>4
<1> QED  BY <1>4, <1>5

\* Nor do a fragment and a forced period, or two forced periods.
LEMMA CandidatesApart ==
  ASSUME PlanTypes, Apart, NEW p \in fragmentRates \cup ForcePeriods,
         NEW q \in fragmentRates \cup ForcePeriods
  PROVE  p.from < p.to /\ (p # q => ~Overlaps(p, q))
<1> DEFINE Of(o) == [from |-> o.from, to |-> o.to, power |-> o.power, price |-> 0]
<1>0. \A f \in ForcePeriods : \E x \in Loaded : f = Of(x)
  BY DEF ForcePeriods
<1>1. \A x \in Loaded : x \in overrides /\ x.from < x.to
  BY DEF Loaded, Apart
<1>2. \A o : Of(o).from = o.from /\ Of(o).to = o.to
  OBVIOUS
<1> HIDE DEF Of
<1>3. ASSUME NEW f \in ForcePeriods  PROVE f.from < f.to
  BY <1>0, <1>1, <1>2
<1>4. ASSUME NEW f \in ForcePeriods, NEW g \in ForcePeriods, f # g  PROVE ~Overlaps(f, g)
  <2>1. PICK x \in Loaded : f = Of(x)
    BY <1>0
  <2>2. PICK y \in Loaded : g = Of(y)
    BY <1>0
  <2>3. x # y
    BY <1>4, <2>1, <2>2
  <2>4. ~Overlaps(x, y)
    BY <1>1, <2>3 DEF Apart
  <2> QED  BY <1>2, <2>1, <2>2, <2>4 DEF Overlaps
<1>5. ASSUME NEW f \in ForcePeriods, NEW r \in fragmentRates  PROVE ~Overlaps(f, r) /\ ~Overlaps(r, f)
  <2>1. PICK x \in Loaded : f = Of(x)
    BY <1>0
  <2>2. ~Overlaps(r, x)
    BY FragmentsAreClear
  <2> QED  BY <1>2, <2>1, <2>2 DEF Overlaps
<1> QED  BY <1>3, <1>4, <1>5, FragmentsApart

\* The merged slots of a recompute have one slot a day.
LEMMA MergedDays ==
  ASSUME NEW auto
  PROVE  \A s, t \in mergeForcesIntoSchedule(auto) : s.deadline = t.deadline => s = t
<1> DEFINE Joined(d) == (UNION {s.periods : s \in {t \in auto : t.deadline = d}})
                        \cup {f \in ForcePeriods : nextDeadlineAfter(f.from) = d}
           Days == {s.deadline : s \in auto} \cup {nextDeadlineAfter(f.from) : f \in ForcePeriods}
<1>1. mergeForcesIntoSchedule(auto) = {Slot(d, Joined(d)) : d \in Days}
  BY DEF mergeForcesIntoSchedule
<1> HIDE DEF Joined, Days
<1>2. \A d : Slot(d, Joined(d)).deadline = d
  BY DEF Slot
<1> QED  BY <1>1, <1>2

\* A cancellation keeps the days apart.
LEMMA CancellationsKeepDays ==
  ASSUME NEW slots \in SUBSET Slots, \A s, t \in slots : s.deadline = t.deadline => s = t
  PROVE  \A s, t \in WithCancellations(slots) : s.deadline = t.deadline => s = t
<1> DEFINE Of(s) == [s EXCEPT !.off = \E t \in plan : t.deadline = s.deadline /\ t.off]
<1>1. WithCancellations(slots) = {Of(s) : s \in slots}
  BY DEF WithCancellations
<1>2. \A s \in Slots : Of(s).deadline = s.deadline
  BY DEF Slots
<1> HIDE DEF Of
<1> QED  BY <1>1, <1>2

\* What Planned does to the order of the slots it merges and of the plan before.
LEMMA PlannedApart ==
  ASSUME PlanTypes, PeriodsApart, NEW slots \in SUBSET Slots,
         \A s \in slots : \A p \in s.periods : p.from < p.to,
         \A s \in slots : \A p, q \in s.periods : p # q => ~Overlaps(p, q),
         \A s, t \in slots : s.deadline = t.deadline => s = t
  PROVE  /\ \A s \in Planned(slots) : \A p \in s.periods : p.from < p.to
         /\ \A s \in Planned(slots) : \A p, q \in s.periods : p # q => ~Overlaps(p, q)
         /\ \A s, t \in Planned(slots) : s.deadline = t.deadline => s = t
<1> DEFINE others == WithCancellations(slots)
<1>0. /\ others \subseteq Slots
      /\ \A s \in others : \E t \in slots : t.periods = s.periods /\ t.deadline = s.deadline
      /\ \A s, t \in others : s.deadline = t.deadline => s = t
  BY CancellationsKeepPeriods, CancellationsKeepDays
<1>a. \A s \in others : \A p \in s.periods : p.from < p.to
  BY <1>0
<1>b. \A s \in others : \A p, q \in s.periods : p # q => ~Overlaps(p, q)
  BY <1>0
<1>1. CASE activeSlot = {}
  <2>1. Planned(slots) = others
    BY <1>1 DEF Planned
  <2> QED  BY <1>0, <1>a, <1>b, <2>1
<1>2. CASE activeSlot # {} /\ slots = {}
  <2>1. Planned(slots) = activeSlot /\ activeSlot \subseteq plan
    BY <1>2 DEF Planned, activeSlot
  <2> QED  BY <2>1 DEF PeriodsApart
<1>3. CASE activeSlot # {} /\ slots # {}
  <2> DEFINE in == CHOOSE s \in activeSlot : TRUE
             a == activePeriod(in)
             new == UNION {s.periods : s \in {t \in others : t.deadline = in.deadline}}
             kept == {p \in in.periods : p.from <= a.from} \cup {p \in new : p.from >= a.to}
             merged == [in EXCEPT !.periods = kept]
  <2>1. in \in activeSlot
    BY <1>3
  <2>2. in \in Slots /\ a \in in.periods /\ Now(a) /\ in \in plan
    BY <2>1, ActivePeriodExists DEF activeSlot
  <2>3. Planned(slots) = {s \in others : s.deadline # in.deadline} \cup {merged}
    <3>1. Planned(slots) = mergeActiveSlot(others, in)
      BY <1>3 DEF Planned
    <3>2. mergeActiveSlot(others, in) =
            {s \in others : s.deadline # in.deadline} \cup
              {[in EXCEPT !.periods = {p \in @ : p.from <= a.from} \cup {p \in new : p.from >= a.to}]}
      BY DEF mergeActiveSlot
    <3>3. [in EXCEPT !.periods = {p \in @ : p.from <= a.from} \cup {p \in new : p.from >= a.to}] = merged
      OBVIOUS
    <3> QED  BY <3>1, <3>2, <3>3
  <2>4. merged.periods = kept /\ merged.deadline = in.deadline
    BY <2>2 DEF Slots
  <2>5. \A p \in new : \E s \in others : p \in s.periods /\ s.deadline = in.deadline
    OBVIOUS
  <2> HIDE DEF in, a, others, new, merged
  <2>6. ASSUME NEW p \in new, NEW q \in new
        PROVE  p.from < p.to /\ p \in Periods /\ (p # q => ~Overlaps(p, q))
    <3>1. PICK s \in others : p \in s.periods /\ s.deadline = in.deadline
      BY <2>5
    <3>2. PICK t \in others : q \in t.periods /\ t.deadline = in.deadline
      BY <2>5
    <3>3. s = t
      BY <1>0, <3>1, <3>2
    <3>4. p \in Periods
      BY <1>0, <3>1 DEF Slots
    <3> QED  BY <1>a, <1>b, <3>1, <3>2, <3>3, <3>4
  <2>7. ASSUME NEW p \in in.periods, NEW q \in in.periods
        PROVE  p.from < p.to /\ p \in Periods /\ (p # q => ~Overlaps(p, q))
    BY <2>2 DEF PeriodsApart, Slots
  <2>8. ASSUME NEW p \in in.periods, p.from <= a.from  PROVE p.to <= a.to
    <3>1. CASE p = a
      BY <3>1, <2>2, <2>7 DEF Periods
    <3>2. CASE p # a
      <4>1. p.from < p.to /\ a.from < a.to /\ p.from \in Nat /\ p.to \in Nat
            /\ a.from \in Nat /\ a.to \in Nat /\ ~Overlaps(p, a)
        BY <2>2, <2>7, <3>2 DEF Periods
      <4> QED  BY <2>8, <4>1 DEF Overlaps
    <3> QED  BY <3>1, <3>2
  <2>9. ASSUME NEW p \in in.periods, p.from <= a.from, NEW q \in new, q.from >= a.to
        PROVE  ~Overlaps(p, q) /\ ~Overlaps(q, p)
    <3>1. p.to \in Nat /\ a.to \in Nat /\ q.from \in Nat /\ p.to <= a.to
      BY <2>2, <2>6, <2>7, <2>8, <2>9 DEF Periods
    <3> QED  BY <2>9, <3>1 DEF Overlaps
  <2>10. \A p \in kept : p.from < p.to
    BY <2>6, <2>7
  <2>11. \A p, q \in kept : p # q => ~Overlaps(p, q)
    BY <2>6, <2>7, <2>9
  <2> HIDE DEF kept
  <2>12. \A s, t \in Planned(slots) : s.deadline = t.deadline => s = t
    BY <1>0, <2>3, <2>4
  <2> QED  BY <1>a, <1>b, <2>3, <2>4, <2>10, <2>11, <2>12
<1> QED  BY <1>1, <1>2, <1>3

\* Toggling a slot changes no period and no day.
LEMMA ToggleKeepsPeriods == ASSUME PlanInv, PeriodsApart, ToggleSlot  PROVE PeriodsApart'
<1>1. PICK s \in plan : plan' = (plan \ {s}) \cup {[s EXCEPT !.off = ~@]}
  BY DEF ToggleSlot
<1> DEFINE r == [s EXCEPT !.off = ~@]
<1>2. r.periods = s.periods /\ r.deadline = s.deadline
  BY DEF PlanInv, PlanTypes, Slots
<1> HIDE DEF r
<1>3. plan' = (plan \ {s}) \cup {r}
  BY <1>1 DEF r
<1>4. \A t \in plan' : \E u \in plan : t.periods = u.periods /\ t.deadline = u.deadline
  BY <1>2, <1>3
<1>5. \A t \in plan' : \A p \in t.periods : p.from < p.to
  BY <1>4 DEF PeriodsApart
<1>6. \A t \in plan' : \A p, q \in t.periods : p # q => ~Overlaps(p, q)
  BY <1>4 DEF PeriodsApart
<1>7. \A t, u \in plan' : t.deadline = u.deadline => t = u
  BY <1>2, <1>3 DEF PeriodsApart
<1> QED  BY <1>5, <1>6, <1>7 DEF PeriodsApart, Overlaps

LEMMA RecomputeKeepsPeriods == ASSUME PlanInv, PeriodsApart, Recompute  PROVE PeriodsApart'
<1>0. PlanTypes /\ Apart
  BY DEF PlanInv
<1>1. CASE Returns
  BY <1>1 DEF Recompute, PeriodsApart, Overlaps
<1>2. CASE ~Returns
  <2>1. PICK auto \in AutoSchedules : plan' = Planned(mergeForcesIntoSchedule(auto))
    BY <1>2 DEF Recompute
  <2> DEFINE slots == mergeForcesIntoSchedule(auto)
  <2>2. slots \in SUBSET Slots /\ \A s \in slots : s.periods \subseteq fragmentRates \cup ForcePeriods
    BY <1>0, MergedPlan
  <2>3. \A s, t \in slots : s.deadline = t.deadline => s = t
    BY MergedDays
  <2> HIDE DEF slots
  <2>4. \A s \in slots : \A p \in s.periods : p.from < p.to
    BY <1>0, <2>2, CandidatesApart
  <2>5. \A s \in slots : \A p, q \in s.periods : p # q => ~Overlaps(p, q)
    BY <1>0, <2>2, CandidatesApart
  <2>6. /\ \A s \in plan' : \A p \in s.periods : p.from < p.to
        /\ \A s \in plan' : \A p, q \in s.periods : p # q => ~Overlaps(p, q)
        /\ \A s, t \in plan' : s.deadline = t.deadline => s = t
    BY <1>0, <2>1, <2>2, <2>3, <2>4, <2>5, PlannedApart DEF slots
  <2> QED  BY <2>6 DEF PeriodsApart, Overlaps
<1> QED  BY <1>1, <1>2

LEMMA PeriodsApartIsInductive == PlanInv /\ PeriodsApart /\ [PlanNext]_planVars => PeriodsApart'
<1> SUFFICES ASSUME PlanInv, PeriodsApart, [PlanNext]_planVars  PROVE PeriodsApart'
  OBVIOUS
<1>1. CASE UNCHANGED plan
  BY <1>1 DEF PeriodsApart, Overlaps
<1>2. UNCHANGED planVars \/ CreateOverride \/ DeleteOverride \/ ChargeChanges \/ PricesArrive
        \/ TransactionOpens \/ TransactionEnds \/ Advance => UNCHANGED plan
  BY DEF planVars, CreateOverride, DeleteOverride, ChargeChanges, PricesArrive, TransactionOpens,
     TransactionEnds, Advance
<1> QED  BY <1>1, <1>2, ToggleKeepsPeriods, RecomputeKeepsPeriods DEF PlanNext

\* What ActivePeriods lists is in order: a day has one slot, and the periods of a
\* slot have a length and do not overlap, so that BuildProfile, which looks at each
\* period and the end of the one before, meets them one after the other.  Whatever
\* recompute joins: hours cut at the edges of overrides, forced periods, and the
\* slot in progress up to its current period with new ones after it.
THEOREM SlotsStayOrdered == PlanSpec => []PeriodsApart
<1>1. PlanInit => PeriodsApart
  BY DEF PlanInit, PeriodsApart
<1> QED  BY <1>1, InitPlanInv, PlanInvIsInductive, PeriodsApartIsInductive, PTL DEF PlanSpec

-----------------------------------------------------------------------------
(* Which days are cancelled.                                               *)

\* Only the user cancels a day.
OffByUser == \A s \in plan : s.off => s.deadline \in daysOff

\* What is planned is off only on a day that was off before.
LEMMA PlannedOff ==
  ASSUME PlanTypes, NEW slots \in SUBSET Slots, NEW s \in Planned(slots), s.off
  PROVE  \E t \in plan : t.off /\ t.deadline = s.deadline
<1> DEFINE Of(u) == [u EXCEPT !.off = \E t \in plan : t.deadline = u.deadline /\ t.off]
<1>1. WithCancellations(slots) = {Of(u) : u \in slots}
  BY DEF WithCancellations
<1>2. ASSUME NEW u \in Slots, Of(u).off
      PROVE  \E t \in plan : t.off /\ t.deadline = Of(u).deadline
  <2>1. Of(u).deadline = u.deadline /\ Of(u).off = (\E t \in plan : t.deadline = u.deadline /\ t.off)
    BY DEF Slots
  <2> QED  BY <1>2, <2>1
<1>3. ASSUME s \in WithCancellations(slots)
      PROVE  \E t \in plan : t.off /\ t.deadline = s.deadline
  <2> HIDE DEF Of
  <2>1. PICK u \in slots : s = Of(u)
    BY <1>1, <1>3
  <2> QED  BY <1>2, <2>1
<1>4. \A u \in activeSlot : u \in Slots /\ u.off = FALSE
  BY DEF activeSlot, PlanTypes, Slots
<1>5. CASE activeSlot = {}
  BY <1>3, <1>5 DEF Planned
<1>6. CASE activeSlot # {} /\ slots = {}
  BY <1>4, <1>6 DEF Planned
<1>7. CASE activeSlot # {} /\ slots # {}
  <2> DEFINE in == CHOOSE u \in activeSlot : TRUE
             others == WithCancellations(slots)
  <2>1. in \in activeSlot
    BY <1>7
  <2>2. Planned(slots) = mergeActiveSlot(others, in)
    BY <1>7 DEF Planned
  <2> HIDE DEF in, others
  <2>3. \/ s \in others
        \/ \E ps : s = [in EXCEPT !.periods = ps]
    BY <2>2 DEF mergeActiveSlot
  <2>4. \A ps : [in EXCEPT !.periods = ps].off = FALSE
    BY <1>4, <2>1 DEF Slots
  <2> QED  BY <1>3, <2>3, <2>4 DEF others
<1> QED  BY <1>5, <1>6, <1>7

LEMMA RecomputeKeepsOff == ASSUME PlanInv, OffByUser, Recompute  PROVE OffByUser'
<1>1. PlanTypes /\ Apart /\ daysOff' = daysOff
  BY DEF PlanInv, Recompute
<1>2. CASE Returns
  BY <1>1, <1>2 DEF Recompute, OffByUser
<1>3. CASE ~Returns
  <2>1. PICK auto \in AutoSchedules : plan' = Planned(mergeForcesIntoSchedule(auto))
    BY <1>3 DEF Recompute
  <2>2. mergeForcesIntoSchedule(auto) \in SUBSET Slots
    BY <1>1, MergedPlan
  <2>3. \A s \in plan' : s.off => \E t \in plan : t.off /\ t.deadline = s.deadline
    BY <1>1, <2>1, <2>2, PlannedOff
  <2> QED  BY <1>1, <2>3 DEF OffByUser
<1> QED  BY <1>2, <1>3

\* A day has one slot, so that restoring it leaves no other that is off.
LEMMA ToggleKeepsOff == ASSUME PlanInv, PeriodsApart, OffByUser, ToggleSlot  PROVE OffByUser'
<1>1. PICK s \in plan :
        /\ plan' = (plan \ {s}) \cup {[s EXCEPT !.off = ~@]}
        /\ daysOff' = IF s.off THEN daysOff \ {s.deadline} ELSE daysOff \cup {s.deadline}
  BY DEF ToggleSlot
<1> DEFINE r == [s EXCEPT !.off = ~@]
<1>2. r.deadline = s.deadline /\ r.off = ~s.off
  BY DEF PlanInv, PlanTypes, Slots
<1> HIDE DEF r
<1>3. plan' = (plan \ {s}) \cup {r}
  BY <1>1 DEF r
<1>4. \A t \in plan \ {s} : t.deadline # s.deadline
  BY DEF PeriodsApart
<1>5. ASSUME NEW t \in plan', t.off  PROVE t.deadline \in daysOff'
  <2>1. CASE t = r
    BY <1>1, <1>2, <1>5, <2>1
  <2>2. CASE t \in plan \ {s}
    BY <1>1, <1>4, <1>5, <2>2 DEF OffByUser
  <2> QED  BY <1>3, <2>1, <2>2
<1> QED  BY <1>5 DEF OffByUser

LEMMA OffByUserIsInductive ==
  PlanInv /\ PeriodsApart /\ OffByUser /\ [PlanNext]_planVars => OffByUser'
<1> SUFFICES ASSUME PlanInv, PeriodsApart, OffByUser, [PlanNext]_planVars  PROVE OffByUser'
  OBVIOUS
<1>1. CASE UNCHANGED <<plan, daysOff>>
  BY <1>1 DEF OffByUser
<1>2. UNCHANGED planVars \/ CreateOverride \/ DeleteOverride \/ ChargeChanges \/ PricesArrive
        \/ TransactionOpens \/ TransactionEnds \/ Advance => UNCHANGED <<plan, daysOff>>
  BY DEF planVars, CreateOverride, DeleteOverride, ChargeChanges, PricesArrive, TransactionOpens,
     TransactionEnds, Advance
<1> QED  BY <1>1, <1>2, RecomputeKeepsOff, ToggleKeepsOff DEF PlanNext

\* A forced window in the slot of its day is charged in unless that day is cancelled.
LEMMA PlannedHold == PlanInv /\ OffByUser => OverridesHold
<1> SUFFICES ASSUME PlanInv, OffByUser, Settled, NEW o \in Loaded
    PROVE  IF o.power = 0
           THEN \A p \in (UNION {s.periods : s \in plan}) \ pinned :
                  p.from > moment => ~Overlaps(p, o)
           ELSE config =>
             \/ \E s \in plan : ~s.off /\ \E p \in s.periods :
                  p.from = o.from /\ p.to = o.to /\ p.power = o.power
             \/ nextDeadlineAfter(o.from) \in daysOff
             \/ \E p \in pinned : Overlaps(p, o)
  BY DEF OverridesHold
<1>1. CASE o.power = 0
  BY <1>1 DEF PlanInv, OverridesPlanned
<1>2. CASE o.power # 0 /\ config /\ ~\E p \in pinned : Overlaps(p, o)
  <2>1. PICK s \in plan : s.deadline = nextDeadlineAfter(o.from) /\ \E p \in s.periods :
                  p.from = o.from /\ p.to = o.to /\ p.power = o.power
    BY <1>2 DEF PlanInv, OverridesPlanned
  <2>2. s.off => nextDeadlineAfter(o.from) \in daysOff
    BY <2>1 DEF OffByUser
  <2> QED  BY <1>2, <2>1, <2>2
<1> QED  BY <1>1, <1>2

\* recompute, with its early returns, mergeForcesIntoSchedule and
\* mergeActiveSlotPreservingActive: what is planned to come keeps clear of every
\* block, and with a Config every forced window is in an active slot unless the user
\* has cancelled its day; the periods that the recompute has kept are left out.
THEOREM OverridesAlwaysHold == PlanSpec => []OverridesHold
<1> DEFINE Inv == PlanInv /\ PeriodsApart /\ OffByUser
<1>1. PlanInit => Inv
  BY InitPlanInv DEF PlanInit, PeriodsApart, OffByUser
<1>2. Inv /\ [PlanNext]_planVars => Inv'
  BY PlanInvIsInductive, PeriodsApartIsInductive, OffByUserIsInductive
<1>3. Inv => OverridesHold
  BY PlannedHold
<1> QED  BY <1>1, <1>2, <1>3, PTL DEF PlanSpec
-----------------------------------------------------------------------------
(* BuildProfile over any sequence of periods in order.                     *)

Limits == [at : Int, power : Int]
Begun == [out : Seq(Limits), end : Int]
Nothing == [out |-> <<>>, end |-> 0]

LEMMA WithPeriodType ==
  ASSUME NEW acc \in Begun, NEW p \in Periods
  PROVE  WithPeriod(acc, p) \in Begun
<1>1. /\ p.from \in Int /\ p.to \in Int /\ p.power \in Int
      /\ acc.out \in Seq(Limits) /\ acc.end \in Int
  BY DEF Periods, Begun
<1>2. Limit(p.from, p.power) \in Limits /\ Limit(acc.end, 0) \in Limits
  BY <1>1 DEF Limit, Limits
<1>3. [acc EXCEPT !.end = p.to] \in Begun
  BY <1>1 DEF Begun
<1> DEFINE pause == IF acc.out # <<>> /\ p.from > acc.end THEN <<Limit(acc.end, 0)>> ELSE <<>>
<1>4. pause \in Seq(Limits)
  BY <1>2
<1> HIDE DEF pause
<1>5. acc.out \o pause \o <<Limit(p.from, p.power)>> \in Seq(Limits)
  BY <1>1, <1>2, <1>4
<1>6. [out |-> acc.out \o pause \o <<Limit(p.from, p.power)>>, end |-> p.to] \in Begun
  BY <1>1, <1>5 DEF Begun
<1> QED  BY <1>3, <1>6 DEF WithPeriod, pause

\* The fold goes through the periods one by one.
LEMMA ProfileFold ==
  ASSUME NEW ps \in Seq(Periods)
  PROVE  \E f \in [0 .. Len(ps) -> Begun] :
           /\ f[0] = Nothing
           /\ \A i \in 1 .. Len(ps) : f[i] = WithPeriod(f[i - 1], ps[i])
           /\ FoldLeft(WithPeriod, Nothing, ps) = f[Len(ps)]
<1> DEFINE n == Len(ps)
           Of(g, T) == IF T = {} THEN Nothing ELSE WithPeriod(g[T \ {Max(T)}], ps[Max(T)])
           Def(g) == [T \in SUBSET (1 .. n) |-> Of(g, T)]
           it == CHOOSE g : g = Def(g)
<1>1. n \in Nat /\ DOMAIN ps = 1 .. n /\ Nothing \in Begun /\ \A i \in 1 .. n : ps[i] \in Periods
  BY DEF Begun, Nothing
<1>2. FoldLeft(WithPeriod, Nothing, ps) = it[1 .. n]
  <2>1. FoldLeft(WithPeriod, Nothing, ps)
          = (CHOOSE g : g = [T \in SUBSET DOMAIN ps |->
               IF T = {} THEN Nothing ELSE WithPeriod(g[T \ {Max(T)}], ps[Max(T)])])[DOMAIN ps]
    BY DEF FoldLeft, MapThenFoldSet
  <2> QED  BY <1>1, <2>1
<1>3. \E g : g = Def(g)
  <2> DEFINE step == [pair \in (1 .. n) \X Begun |-> WithPeriod(pair[2], ps[pair[1]])]
  <2>1. \A i \in 1 .. n : \A acc \in Begun : step[<<i, acc>>] = WithPeriod(acc, ps[i])
    OBVIOUS
  <2>2. \A i \in 1 .. n : \A acc \in Begun : step[<<i, acc>>] \in Begun
    BY <1>1, <2>1, WithPeriodType
  <2> HIDE DEF step, n
  <2>3. PICK g \in [SUBSET (1 .. n) -> Begun] : IsFoldLeft(g, n, Nothing, step)
    BY <1>1, <2>2, FoldLeftExists
  <2>4. ASSUME NEW T \in SUBSET (1 .. n)  PROVE g[T] = Of(g, T)
    <3>1. CASE T = {}
      BY <2>3, <3>1 DEF IsFoldLeft
    <3>2. CASE T # {}
      <4>1. Max(T) \in 1 .. n /\ T \ {Max(T)} \in SUBSET (1 .. n)
        BY <1>1, <3>2, MaxOf
      <4>2. g[T \ {Max(T)}] \in Begun
        BY <4>1
      <4> QED  BY <2>1, <2>3, <3>2, <4>1, <4>2 DEF IsFoldLeft
    <3> QED  BY <3>1, <3>2
  <2> HIDE DEF Of
  <2>5. g = Def(g)
    BY <2>4
  <2> QED  BY <2>5
<1>4. it = Def(it)
  <2> HIDE DEF Def
  <2> QED  BY <1>3
<1> DEFINE f == [i \in 0 .. n |-> it[1 .. i]]
<1> HIDE DEF it, n
<1>5. f[0] = Nothing
  <2>1. it[1 .. 0] = Nothing
    <3>1. {} \in SUBSET (1 .. n) /\ Of(it, {}) = Nothing
      OBVIOUS
    <3> HIDE DEF Of
    <3>2. it[{}] = Nothing
      BY <1>4, <3>1
    <3> QED  BY <3>2, Segments
  <2> QED  BY <1>1, <2>1
<1>6. ASSUME NEW i \in 1 .. n  PROVE f[i] = WithPeriod(f[i - 1], ps[i])
  <2>1. /\ 1 .. i \in SUBSET (1 .. n) /\ 1 .. i # {}
        /\ Max(1 .. i) = i /\ (1 .. i) \ {i} = 1 .. (i - 1)
    <3>1. i \in Nat \ {0} /\ i \in 1 .. i
      BY <1>1
    <3> QED  BY <1>1, <3>1, Segments
  <2>2. Of(it, 1 .. i) = WithPeriod(it[1 .. (i - 1)], ps[i])
    BY <2>1
  <2> HIDE DEF Of
  <2>3. it[1 .. i] = WithPeriod(it[1 .. (i - 1)], ps[i])
    BY <1>4, <2>1, <2>2
  <2>4. i \in 0 .. n /\ i - 1 \in 0 .. n
    BY <1>1
  <2> QED  BY <2>3, <2>4
<1>7. DOMAIN f = 0 .. n /\ f[n] = it[1 .. n]
  BY <1>1
<1> HIDE DEF f, Def
<1>8. \A i \in 0 .. n : f[i] \in Begun
  <2> DEFINE Good == {i \in Nat : i \in 0 .. n => f[i] \in Begun}
  <2>1. 0 \in Good
    BY <1>1, <1>5
  <2>2. ASSUME NEW i \in Nat, i \in Good  PROVE i + 1 \in Good
    <3>1. CASE i + 1 \in 0 .. n
      <4>1. i \in 0 .. n /\ i + 1 \in 1 .. n /\ (i + 1) - 1 = i
        BY <1>1, <3>1
      <4> QED  BY <1>1, <1>6, <2>2, <4>1, WithPeriodType
    <3> QED  BY <3>1
  <2> HIDE DEF Good
  <2>3. Nat \subseteq Good
    BY <2>1, <2>2, NatInductive
  <2> QED  BY <1>1, <2>3 DEF Good
<1>9. f \in [0 .. n -> Begun]
  <2>1. f = [i \in 0 .. n |-> f[i]]
    BY DEF f
  <2> QED  BY <1>8, <2>1
<1> QED  BY <1>2, <1>5, <1>6, <1>7, <1>9 DEF n

\* The last of some limits that has begun, 0 before the first.
LimitAt(limits, t) ==
  LET begun == {i \in DOMAIN limits : limits[i].at <= t}
  IN  IF begun = {} THEN 0 ELSE limits[Max(begun)].power

\* The last limit counts once it has begun; until then those before it do.
LEMMA LimitAtAppend ==
  ASSUME NEW out \in Seq(Limits), NEW l \in Limits, NEW t \in Int
  PROVE  LimitAt(out \o <<l>>, t) = IF l.at <= t THEN l.power ELSE LimitAt(out, t)
<1> DEFINE n == Len(out)
           all == out \o <<l>>
           begun == {i \in DOMAIN out : out[i].at <= t}
           now == {i \in DOMAIN all : all[i].at <= t}
<1>1. /\ n \in Nat /\ DOMAIN out = 1 .. n /\ DOMAIN all = 1 .. n + 1
      /\ all[n + 1] = l /\ \A i \in 1 .. n : all[i] = out[i]
  OBVIOUS
<1>2. LimitAt(all, t) = (IF now = {} THEN 0 ELSE all[Max(now)].power)
      /\ LimitAt(out, t) = (IF begun = {} THEN 0 ELSE out[Max(begun)].power)
  BY DEF LimitAt
<1> HIDE DEF all
<1>3. CASE l.at <= t
  <2>1. n + 1 \in now /\ now \in SUBSET (1 .. n + 1)
    BY <1>1, <1>3
  <2> DEFINE m == n + 1
  <2>0. m \in Nat /\ m \in now /\ now \in SUBSET (1 .. m)
    BY <1>1, <2>1
  <2> HIDE DEF now, m
  <2>2. Max(now) \in now /\ Max(now) >= m
    BY <2>0, MaxOf
  <2>a. Max(now) = m
    <3>1. Max(now) \in 1 .. m
      BY <2>0, <2>2
    <3> QED  BY <2>0, <2>2, <3>1
  <2>3. Max(now) = n + 1
    BY <2>a DEF m
  <2> QED  BY <1>1, <1>2, <1>3, <2>1, <2>3 DEF all
<1>4. CASE ~(l.at <= t)
  <2>1. now = begun /\ begun \in SUBSET (1 .. n)
    BY <1>1, <1>4
  <2>2. begun # {} => Max(begun) \in 1 .. n
    <3> HIDE DEF begun
    <3> QED  BY <1>1, <2>1, MaxOf
  <2> HIDE DEF now, begun
  <2> QED  BY <1>1, <1>2, <1>4, <2>1, <2>2 DEF all
<1> QED  BY <1>3, <1>4

LEMMA LimitAtEmpty == ASSUME NEW t  PROVE LimitAt(<<>>, t) = 0
<1>1. {i \in DOMAIN <<>> : <<>>[i].at <= t} = {}
  OBVIOUS
<1> QED  BY <1>1 DEF LimitAt

\* What a next period q changes: from its beginning on it counts, and before it the
\* last period p counts no longer than to its end.
LEMMA WithPeriodShows ==
  ASSUME NEW acc \in Begun, NEW p \in Periods, NEW q \in Periods, NEW t \in Int,
         acc.out # <<>>, acc.end = p.to, Last(acc.out).power = p.power,
         p.from < p.to, p.from <= q.from
  PROVE  LET next == WithPeriod(acc, q)
         IN  /\ next.out # <<>> /\ next.end = q.to /\ Last(next.out).power = q.power
             /\ next.out[1] = acc.out[1]
             /\ q.from <= t /\ LimitAt(acc.out, t) = p.power => LimitAt(next.out, t) = q.power
             /\ t < q.from => LimitAt(next.out, t) = IF p.to <= t THEN 0 ELSE LimitAt(acc.out, t)
<1> DEFINE next == WithPeriod(acc, q)
           pause == <<Limit(acc.end, 0)>>
           this == <<Limit(q.from, q.power)>>
<1>1. /\ p.from \in Int /\ p.to \in Int /\ p.power \in Int
      /\ q.from \in Int /\ q.to \in Int /\ q.power \in Int
      /\ acc.out \in Seq(Limits) /\ acc.end \in Int
  BY DEF Periods, Begun
<1>2. /\ Limit(q.from, q.power) \in Limits /\ Limit(acc.end, 0) \in Limits
      /\ Limit(q.from, q.power).at = q.from /\ Limit(q.from, q.power).power = q.power
      /\ Limit(acc.end, 0).at = acc.end /\ Limit(acc.end, 0).power = 0
  BY <1>1 DEF Limit, Limits
<1>3. \A out \in Seq(Limits) :
        /\ out \o this # <<>> /\ Last(out \o this).power = q.power
        /\ LimitAt(out \o this, t) = IF q.from <= t THEN q.power ELSE LimitAt(out, t)
  <2> HIDE DEF this
  <2>1. ASSUME NEW out \in Seq(Limits)
        PROVE  out \o this # <<>> /\ Last(out \o this) = Limit(q.from, q.power)
    <3>1. out \o this \in Seq(Limits) /\ Len(out \o this) = Len(out) + 1
          /\ (out \o this)[Len(out) + 1] = Limit(q.from, q.power)
      BY <1>2 DEF this
    <3> QED  BY <3>1 DEF Last
  <2> QED  BY <1>2, <2>1, LimitAtAppend DEF this
<1>4. CASE q.from = acc.end /\ q.power = Last(acc.out).power
  <2>1. next = [acc EXCEPT !.end = q.to]
    BY <1>4 DEF WithPeriod
  <2>2. next.out = acc.out /\ next.end = q.to
    BY <2>1 DEF Begun
  <2> HIDE DEF next
  <2> QED  BY <1>1, <1>4, <2>2 DEF next
<1>7. ASSUME NEW out \in Seq(Limits), out # <<>>, NEW l  PROVE (out \o <<l>>)[1] = out[1]
  BY <1>7
<1>5. CASE ~(q.from = acc.end /\ q.power = Last(acc.out).power) /\ q.from > acc.end
  <2>1. next = [out |-> acc.out \o pause \o this, end |-> q.to]
    BY <1>5 DEF WithPeriod
  <2>2. acc.out \o pause \in Seq(Limits)
        /\ LimitAt(acc.out \o pause, t) = IF acc.end <= t THEN 0 ELSE LimitAt(acc.out, t)
    BY <1>1, <1>2, LimitAtAppend
  <2> HIDE DEF pause, this, next
  <2>3. next.end = q.to /\ next.out = (acc.out \o pause) \o this
    BY <2>1
  <2>4. /\ next.out # <<>> /\ Last(next.out).power = q.power
        /\ LimitAt(next.out, t) = IF q.from <= t THEN q.power ELSE LimitAt(acc.out \o pause, t)
    BY <1>3, <2>2, <2>3
  <2>5. t < q.from => LimitAt(next.out, t) = IF p.to <= t THEN 0 ELSE LimitAt(acc.out, t)
    BY <1>1, <2>2, <2>4
  <2>6. q.from <= t => LimitAt(next.out, t) = q.power
    BY <2>4
  <2>7. acc.out \o pause # <<>> /\ (acc.out \o pause)[1] = acc.out[1]
    BY <1>1, <1>7 DEF pause
  <2>8. next.out[1] = acc.out[1]
    BY <1>7, <2>2, <2>3, <2>7 DEF this
  <2> QED  BY <2>3, <2>4, <2>5, <2>6, <2>8 DEF next
<1>6. CASE ~(q.from = acc.end /\ q.power = Last(acc.out).power) /\ ~(q.from > acc.end)
  <2>1. next = [out |-> acc.out \o <<>> \o this, end |-> q.to]
    BY <1>6 DEF WithPeriod
  <2>2. acc.out \o <<>> = acc.out
    BY <1>1
  <2> HIDE DEF this, next
  <2>3. next.end = q.to /\ next.out = acc.out \o this
    BY <2>1, <2>2
  <2>4. next.out[1] = acc.out[1]
    BY <1>1, <1>7, <2>3 DEF this
  <2> QED  BY <1>1, <1>3, <1>6, <2>3, <2>4 DEF next
<1> QED  BY <1>4, <1>5, <1>6

InStep(ps) ==
  /\ \A i \in 1 .. Len(ps) : ps[i].from < ps[i].to
  /\ \A i \in 1 .. Len(ps) : \A j \in 1 .. Len(ps) : i < j => ps[i].from <= ps[j].from

\* The period numbered i of k is the last that has begun at t.
LastBegun(ps, k, i, t) ==
  ps[i].from <= t /\ (i < k => t < ps[i + 1].from)

\* The limit of k periods at t is the power of the last that has begun, 0 once it
\* has ended; the last of all is still open.
LEMMA ProfileSoFar ==
  ASSUME NEW ps \in Seq(Periods), InStep(ps), NEW t \in Int,
         NEW f \in [0 .. Len(ps) -> Begun], f[0] = Nothing,
         \A i \in 1 .. Len(ps) : f[i] = WithPeriod(f[i - 1], ps[i]),
         NEW k \in 1 .. Len(ps)
  PROVE  /\ f[k].out # <<>> /\ f[k].end = ps[k].to /\ Last(f[k].out).power = ps[k].power
         /\ f[k].out[1].at = ps[1].from
         /\ t < ps[1].from => LimitAt(f[k].out, t) = 0
         /\ \A i \in 1 .. k : LastBegun(ps, k, i, t) =>
              LimitAt(f[k].out, t) = IF i < k /\ ps[i].to <= t THEN 0 ELSE ps[i].power
<1> DEFINE n == Len(ps)
           Shape(m) == /\ f[m].out # <<>> /\ f[m].end = ps[m].to /\ Last(f[m].out).power = ps[m].power
                       /\ f[m].out[1].at = ps[1].from
           Early(m) == t < ps[1].from => LimitAt(f[m].out, t) = 0
           Late(m) == \A i \in 1 .. m : LastBegun(ps, m, i, t) =>
                        LimitAt(f[m].out, t) = IF i < m /\ ps[i].to <= t THEN 0 ELSE ps[i].power
           Good == {m \in Nat : m \in 1 .. n => Shape(m) /\ Early(m) /\ Late(m)}
<1>1. /\ n \in Nat /\ \A i \in 1 .. n : ps[i] \in Periods
      /\ \A i \in 1 .. n : ps[i].from \in Int /\ ps[i].to \in Int /\ ps[i].power \in Int
  <2>1. n \in Nat /\ \A i \in 1 .. n : ps[i] \in Periods
    OBVIOUS
  <2>2. \A p \in Periods : p.from \in Int /\ p.to \in Int /\ p.power \in Int
    BY DEF Periods
  <2> QED  BY <2>1, <2>2
<1>2. 0 \in Good
  OBVIOUS
<1>3. ASSUME 1 \in 1 .. n  PROVE Shape(1) /\ Early(1) /\ Late(1)
  <2> DEFINE p == ps[1]
             l == Limit(p.from, p.power)
  <2>1. p \in Periods /\ p.from \in Int /\ p.power \in Int
    BY <1>1, <1>3
  <2>2. l \in Limits /\ l.at = p.from /\ l.power = p.power
    BY <2>1 DEF Limit, Limits
  <2>3. f[1] = [out |-> <<>> \o <<>> \o <<l>>, end |-> p.to]
    <3>1. f[1] = WithPeriod(Nothing, p)
      BY <1>3
    <3> QED  BY <3>1 DEF WithPeriod, Nothing
  <2> HIDE DEF l, p
  <2>4. <<>> \o <<>> \o <<l>> = <<>> \o <<l>> /\ <<>> \o <<l>> = <<l>>
    OBVIOUS
  <2>5. f[1].out = <<l>> /\ f[1].end = p.to
    BY <2>3, <2>4
  <2>6. LimitAt(<<l>>, t) = IF p.from <= t THEN p.power ELSE 0
    <3>1. <<>> \in Seq(Limits)
      OBVIOUS
    <3> QED  BY <2>2, <2>4, <3>1, LimitAtAppend, LimitAtEmpty
  <2>7. <<l>> # <<>> /\ Last(<<l>>) = l /\ <<l>>[1] = l
    BY DEF Last
  <2>8. Shape(1)
    BY <2>2, <2>5, <2>7 DEF p
  <2>9. Early(1)
    BY <2>1, <2>5, <2>6 DEF p
  <2>10. Late(1)
    <3>1. \A i \in 1 .. 1 : i = 1
      OBVIOUS
    <3> QED  BY <2>5, <2>6, <3>1 DEF LastBegun, p
  <2> QED  BY <2>8, <2>9, <2>10
<1>4. ASSUME NEW m \in Nat, m \in 1 .. n, m + 1 \in 1 .. n, Shape(m), Early(m), Late(m)
      PROVE  Shape(m + 1) /\ Early(m + 1) /\ Late(m + 1)
  <2> DEFINE acc == f[m]
             next == f[m + 1]
             p == ps[m]
             q == ps[m + 1]
  <2>1. acc \in Begun /\ p \in Periods /\ q \in Periods /\ next = WithPeriod(acc, q)
    <3>1. m \in 0 .. n /\ (m + 1) - 1 = m
      BY <1>1, <1>4
    <3> QED  BY <1>1, <1>4, <3>1
  <2>0. \A i \in 1 .. m : LastBegun(ps, m, i, t) =>
          LimitAt(acc.out, t) = IF i < m /\ ps[i].to <= t THEN 0 ELSE ps[i].power
    BY <1>4
  <2>2. p.from < p.to /\ p.from <= q.from /\ ps[1].from <= q.from
    <3>1. m < m + 1 /\ 1 < m + 1 /\ 1 \in 1 .. n
      BY <1>4
    <3> QED  BY <1>4, <3>1 DEF InStep
  <2>3. /\ next.out # <<>> /\ next.end = q.to /\ Last(next.out).power = q.power
        /\ next.out[1] = acc.out[1]
        /\ q.from <= t /\ LimitAt(acc.out, t) = p.power => LimitAt(next.out, t) = q.power
        /\ t < q.from => LimitAt(next.out, t) = IF p.to <= t THEN 0 ELSE LimitAt(acc.out, t)
    <3> HIDE DEF p, q, acc, next
    <3>1. acc.out # <<>> /\ acc.end = p.to /\ Last(acc.out).power = p.power
      BY <1>4 DEF acc, p
    <3> QED  BY <2>1, <2>2, <3>1, WithPeriodShows
  <2>4. Shape(m + 1)
    BY <1>4, <2>3
  <2>5. Early(m + 1)
    <3> SUFFICES ASSUME t < ps[1].from  PROVE LimitAt(next.out, t) = 0
      OBVIOUS
    <3>1. LimitAt(acc.out, t) = 0
      BY <1>4
    <3>2. t < q.from
      <4>1. 1 \in 1 .. n
        BY <1>1, <1>4
      <4> QED  BY <1>1, <1>4, <2>2, <4>1
    <3> HIDE DEF acc, next, p, q
    <3> QED  BY <2>3, <3>1, <3>2
  <2>6. ASSUME NEW i \in 1 .. m + 1, LastBegun(ps, m + 1, i, t)
        PROVE  LimitAt(next.out, t) = IF i < m + 1 /\ ps[i].to <= t THEN 0 ELSE ps[i].power
    <3>0. i \in 1 .. n /\ p.from \in Int /\ p.to \in Int /\ q.from \in Int
      BY <1>1, <1>4
    <3>1. CASE i = m + 1
      <4>1. q.from <= t
        BY <2>6, <3>1 DEF LastBegun
      <4>2. LastBegun(ps, m, m, t)
        BY <2>2, <3>0, <4>1 DEF LastBegun
      <4>3. LimitAt(acc.out, t) = p.power
        <5>1. m \in 1 .. m /\ ~(m < m)
          BY <1>4
        <5> HIDE DEF acc
        <5> QED  BY <2>0, <4>2, <5>1
      <4> QED  BY <2>3, <3>1, <4>1, <4>3
    <3>2. CASE i = m
      <4>1. p.from <= t /\ t < q.from
        BY <2>6, <3>2 DEF LastBegun
      <4>2. LastBegun(ps, m, m, t)
        BY <4>1 DEF LastBegun
      <4>3. LimitAt(acc.out, t) = p.power
        BY <1>4, <4>2
      <4> QED  BY <2>3, <3>2, <4>1, <4>3
    <3>3. CASE i < m
      <4>1. ps[i].from <= t /\ t < ps[i + 1].from
        BY <2>6, <3>3 DEF LastBegun
      <4>2. i \in 1 .. m /\ LastBegun(ps, m, i, t)
        BY <3>3, <4>1 DEF LastBegun
      <4>3. LimitAt(acc.out, t) = IF ps[i].to <= t THEN 0 ELSE ps[i].power
        BY <1>4, <3>3, <4>2
      <4>4. t < p.from /\ t < q.from /\ t < p.to
        <5>1. i + 1 \in 1 .. n /\ (i + 1 = m \/ i + 1 < m)
          BY <1>1, <1>4, <3>3
        <5>2. ps[i + 1].from <= p.from /\ ps[i + 1].from \in Int
          <6>1. ps[i + 1].from \in Int
            BY <1>1, <5>1
          <6>2. CASE i + 1 = m
            BY <6>1, <6>2
          <6>3. CASE i + 1 < m
            <7>1. \A j \in 1 .. Len(ps) : \A h \in 1 .. Len(ps) : j < h => ps[j].from <= ps[h].from
              BY DEF InStep
            <7>2. m \in 1 .. Len(ps) /\ i + 1 \in 1 .. Len(ps)
              BY <1>4, <5>1
            <7> QED  BY <6>1, <6>3, <7>1, <7>2
          <6> QED  BY <5>1, <6>2, <6>3
        <5> QED  BY <2>2, <3>0, <4>1, <5>2
      <4>5. LimitAt(next.out, t) = LimitAt(acc.out, t)
        BY <2>3, <3>0, <4>4
      <4> QED  BY <3>3, <4>3, <4>5
    <3> QED  BY <3>1, <3>2, <3>3
  <2> QED  BY <2>4, <2>5, <2>6
<1>5. ASSUME NEW m \in Nat, m \in Good  PROVE m + 1 \in Good
  <2> HIDE DEF Shape, Early, Late
  <2>1. CASE m = 0
    BY <1>3, <2>1
  <2>2. CASE m # 0 /\ m + 1 \in 1 .. n
    <3>1. m \in 1 .. n
      BY <1>1, <2>2
    <3> QED  BY <1>4, <1>5, <2>2, <3>1
  <2> QED  BY <2>1, <2>2
<1> HIDE DEF Good
<1>6. Nat \subseteq Good
  BY <1>2, <1>5, NatInductive
<1> QED  BY <1>6 DEF Good
\* The profile at t: nothing before the first period, else the power of the last
\* that has begun, until it ends.
LEMMA ProfileShows ==
  ASSUME NEW ps \in Seq(Periods), ps # <<>>, InStep(ps), NEW t \in Int,
         NEW done, done = FoldLeft(WithPeriod, Nothing, ps)
  PROVE  LET shown == LimitAt(done.out \o <<Limit(done.end, 0)>>, t)
         IN  /\ (done.out \o <<Limit(done.end, 0)>>)[1].at = ps[1].from
             /\ DOMAIN (done.out \o <<Limit(done.end, 0)>>) = 1 .. Len(done.out) + 1
             /\ Len(done.out) \in Nat
             /\ t < ps[1].from => shown = 0
             /\ \A i \in 1 .. Len(ps) : LastBegun(ps, Len(ps), i, t) =>
                  shown = IF ps[i].to <= t THEN 0 ELSE ps[i].power
<1> DEFINE n == Len(ps)
           l == Limit(done.end, 0)
           shown == LimitAt(done.out \o <<l>>, t)
<1>1. n \in Nat \ {0} /\ n \in 1 .. n /\ 1 \in 1 .. n /\ \A i \in 1 .. n : ps[i] \in Periods
  OBVIOUS
<1>2. \A i \in 1 .. n : ps[i].from \in Int /\ ps[i].to \in Int /\ ps[i].power \in Int
  <2>1. \A p \in Periods : p.from \in Int /\ p.to \in Int /\ p.power \in Int
    BY DEF Periods
  <2> QED  BY <1>1, <2>1
<1>3. PICK f \in [0 .. n -> Begun] :
        /\ f[0] = Nothing
        /\ \A i \in 1 .. n : f[i] = WithPeriod(f[i - 1], ps[i])
        /\ done = f[n]
  BY ProfileFold
<1>4. /\ done.end = ps[n].to /\ done.out \in Seq(Limits) /\ done.end \in Int
      /\ done.out # <<>> /\ done.out[1].at = ps[1].from
  <2>1. f[n].end = ps[n].to /\ f[n].out # <<>> /\ f[n].out[1].at = ps[1].from
    BY <1>1, <1>3, ProfileSoFar
  <2>2. f[n] \in Begun
    BY <1>1, <1>3
  <2> QED  BY <1>3, <2>1, <2>2 DEF Begun
<1>9. /\ (done.out \o <<l>>)[1].at = ps[1].from
      /\ DOMAIN (done.out \o <<l>>) = 1 .. Len(done.out) + 1 /\ Len(done.out) \in Nat
  <2> HIDE DEF l, n
  <2>1. (done.out \o <<l>>)[1] = done.out[1]
    BY <1>4
  <2>2. DOMAIN (done.out \o <<l>>) = 1 .. Len(done.out) + 1 /\ Len(done.out) \in Nat
    BY <1>4
  <2> QED  BY <1>4, <2>1, <2>2
<1>5. shown = IF ps[n].to <= t THEN 0 ELSE LimitAt(done.out, t)
  <2>1. l \in Limits /\ l.at = ps[n].to /\ l.power = 0
    BY <1>4 DEF Limit, Limits
  <2> HIDE DEF l
  <2> QED  BY <1>4, <2>1, LimitAtAppend
<1>6. /\ t < ps[1].from => LimitAt(done.out, t) = 0
      /\ \A i \in 1 .. n : LastBegun(ps, n, i, t) =>
           LimitAt(done.out, t) = IF i < n /\ ps[i].to <= t THEN 0 ELSE ps[i].power
  BY <1>1, <1>3, ProfileSoFar
<1> HIDE DEF shown, l, n
<1>7. t < ps[1].from => shown = 0
  BY <1>5, <1>6
<1>8. ASSUME NEW i \in 1 .. n, LastBegun(ps, n, i, t)
      PROVE  shown = IF ps[i].to <= t THEN 0 ELSE ps[i].power
  <2>1. CASE i = n
    BY <1>1, <1>2, <1>5, <1>6, <1>8, <2>1
  <2>2. CASE i < n
    <3>1. t < ps[i + 1].from /\ i + 1 \in 1 .. n
      BY <1>1, <1>8, <2>2 DEF LastBegun
    <3>2. ps[i + 1].from <= ps[n].from /\ ps[n].from < ps[n].to
      BY <1>1, <1>2, <3>1 DEF InStep, n
    <3>3. ~(ps[n].to <= t)
      BY <1>1, <1>2, <3>1, <3>2
    <3> QED  BY <1>5, <1>6, <1>8, <2>2, <3>3
  <2> QED  BY <1>1, <2>1, <2>2
<1> QED  BY <1>7, <1>8, <1>9 DEF shown, l, n

-----------------------------------------------------------------------------
(* The order of slots and periods.                                         *)

\* The periods of a slot in order: one after the other.
LEMMA InOrderLists ==
  ASSUME NEW S \in SUBSET Periods, IsFiniteSet(S),
         \A p \in S : p.from < p.to,
         \A p, q \in S : p # q => ~Overlaps(p, q)
  PROVE  /\ InOrder(S) \in Seq(S)
         /\ \A i, j \in 1 .. Len(InOrder(S)) : i < j => InOrder(S)[i].to <= InOrder(S)[j].from
<1> DEFINE R == {pair \in S \X S : pair[1].from < pair[2].from}
           n == Cardinality(S)
           s == Ranked(S, R)
<1>0. \A p \in S : p.from \in Int /\ p.to \in Int
  BY DEF Periods
<1>1. InOrder(S) = s
  <2> DEFINE A(x) == Cardinality({y \in S : y.from < x.from})
             B(x) == Cardinality({y \in S : <<y, x>> \in R})
  <2>1. InOrder(S) = [i \in 1 .. n |-> CHOOSE x \in S : A(x) = i - 1]
    BY DEF InOrder, Ordered
  <2>2. \A x \in S : A(x) = B(x)
    <3>1. ASSUME NEW x \in S  PROVE {y \in S : y.from < x.from} = {y \in S : <<y, x>> \in R}
      OBVIOUS
    <3> QED  BY <3>1
  <2>3. s = [i \in 1 .. n |-> CHOOSE x \in S : B(x) = i - 1]
    BY DEF Ranked
  <2> HIDE DEF A, B, n, s
  <2>4. \A i \in 1 .. n : (CHOOSE x \in S : A(x) = i - 1) = CHOOSE x \in S : B(x) = i - 1
    BY <2>2
  <2> QED  BY <2>1, <2>3, <2>4
<1>2. /\ \A x \in S : <<x, x>> \notin R
      /\ \A x \in S : \A y \in S : <<x, y>> \in R <=> x.from < y.from
      /\ \A x \in S : \A y \in S : x # y => <<x, y>> \in R \/ <<y, x>> \in R
      /\ \A x \in S : \A y \in S : \A z \in S : <<x, y>> \in R /\ <<y, z>> \in R => <<x, z>> \in R
  BY <1>0 DEF Overlaps
<1>a. StrictOrder(S, R) /\ s = Ranked(S, R) /\ n = Cardinality(S)
  BY <1>2 DEF StrictOrder
<1> HIDE DEF R, s, n
<1>3. /\ n \in Nat /\ s \in [1 .. n -> S]
      /\ \A i \in 1 .. n : \A j \in 1 .. n : i < j => <<s[i], s[j]>> \in R
  BY <1>a, RankedInOrder
<1>4. s \in Seq(S) /\ Len(s) = n
  BY <1>3
<1>5. ASSUME NEW i \in 1 .. n, NEW j \in 1 .. n, i < j  PROVE s[i].to <= s[j].from
  <2> DEFINE p == s[i]
             q == s[j]
  <2>1. p \in S /\ q \in S /\ <<p, q>> \in R
    BY <1>3, <1>5
  <2> HIDE DEF p, q
  <2>2. p.from < q.from /\ p # q
    BY <1>0, <1>2, <2>1
  <2>3. q.from < q.to
    BY <2>1
  <2>4. ~Overlaps(p, q)
    BY <2>1, <2>2
  <2> QED  BY <1>0, <2>1, <2>2, <2>3, <2>4 DEF Overlaps, p, q
<1> QED  BY <1>1, <1>4, <1>5

\* The slots in the order of their days.
LEMMA SlotsInOrderLists ==
  ASSUME plan \in SUBSET Slots, IsFiniteSet(plan),
         \A s, t \in plan : s.deadline = t.deadline => s = t
  PROVE  /\ SlotsInOrder \in Seq(plan)
         /\ \A i, j \in 1 .. Len(SlotsInOrder) :
              i < j => SlotsInOrder[i].deadline < SlotsInOrder[j].deadline
<1> DEFINE R == {pair \in plan \X plan : pair[1].deadline < pair[2].deadline}
           n == Cardinality(plan)
           s == Ranked(plan, R)
<1>0. \A x \in plan : x.deadline \in Int
  BY DEF Slots
<1>1. SlotsInOrder = s
  <2> DEFINE A(x) == Cardinality({y \in plan : y.deadline < x.deadline})
             B(x) == Cardinality({y \in plan : <<y, x>> \in R})
  <2>1. SlotsInOrder = [i \in 1 .. n |-> CHOOSE x \in plan : A(x) = i - 1]
    BY DEF SlotsInOrder, Ordered
  <2>2. \A x \in plan : A(x) = B(x)
    <3>1. ASSUME NEW x \in plan
          PROVE  {y \in plan : y.deadline < x.deadline} = {y \in plan : <<y, x>> \in R}
      OBVIOUS
    <3> QED  BY <3>1
  <2>3. s = [i \in 1 .. n |-> CHOOSE x \in plan : B(x) = i - 1]
    BY DEF Ranked
  <2> HIDE DEF A, B, n, s
  <2>4. \A i \in 1 .. n : (CHOOSE x \in plan : A(x) = i - 1) = CHOOSE x \in plan : B(x) = i - 1
    BY <2>2
  <2> QED  BY <2>1, <2>3, <2>4
<1>2. /\ \A x \in plan : <<x, x>> \notin R
      /\ \A x \in plan : \A y \in plan : <<x, y>> \in R <=> x.deadline < y.deadline
      /\ \A x \in plan : \A y \in plan : x # y => <<x, y>> \in R \/ <<y, x>> \in R
      /\ \A x \in plan : \A y \in plan : \A z \in plan :
           <<x, y>> \in R /\ <<y, z>> \in R => <<x, z>> \in R
  BY <1>0
<1>a. StrictOrder(plan, R) /\ s = Ranked(plan, R) /\ n = Cardinality(plan)
  BY <1>2 DEF StrictOrder
<1> HIDE DEF R, s, n
<1>3. /\ n \in Nat /\ s \in [1 .. n -> plan]
      /\ \A i \in 1 .. n : \A j \in 1 .. n : i < j => <<s[i], s[j]>> \in R
  BY <1>a, RankedInOrder
<1>4. s \in Seq(plan) /\ Len(s) = n
  BY <1>3
<1>5. ASSUME NEW i \in 1 .. n, NEW j \in 1 .. n, i < j  PROVE s[i].deadline < s[j].deadline
  BY <1>2, <1>3, <1>5
<1> QED  BY <1>1, <1>4, <1>5

-----------------------------------------------------------------------------
(* Deadlines.                                                              *)

IsDeadline(d) == \E k \in Int : d = k * DayUnits + DueAt

\* Days follow each other.
LEMMA DaysApart ==
  ASSUME NEW k \in Int, NEW m \in Int, k < m
  PROVE  k * DayUnits + DayUnits <= m * DayUnits
<1>1. DayUnits \in Nat
  BY PlanAssumption
<1>2. m - k - 1 \in Nat
  OBVIOUS
<1>3. (m - k - 1) * DayUnits \in Nat
  BY <1>1, <1>2
<1>4. (m - k - 1) * DayUnits = m * DayUnits - k * DayUnits - DayUnits
  BY <1>1
<1>5. k * DayUnits \in Int /\ m * DayUnits \in Int
  BY <1>1
<1> QED  BY <1>1, <1>3, <1>4, <1>5

LEMMA Division ==
  ASSUME NEW t \in Int
  PROVE  /\ t \div DayUnits \in Int
         /\ (t \div DayUnits) * DayUnits <= t /\ t < (t \div DayUnits) * DayUnits + DayUnits
  BY PlanAssumption

\* Two deadlines are at least a day apart.
LEMMA DeadlinesApart ==
  ASSUME NEW d, NEW e, IsDeadline(d), IsDeadline(e), d < e
  PROVE  d \in Int /\ e \in Int /\ d + DayUnits <= e
<1>1. PICK k \in Int : d = k * DayUnits + DueAt
  BY DEF IsDeadline
<1>2. PICK m \in Int : e = m * DayUnits + DueAt
  BY DEF IsDeadline
<1>3. /\ DayUnits \in Nat /\ DueAt \in Int
      /\ k * DayUnits \in Int /\ m * DayUnits \in Int
  BY PlanAssumption
<1>4. k < m
  <2> SUFFICES ASSUME ~(k < m)  PROVE FALSE
    OBVIOUS
  <2>1. CASE k = m
    BY <1>1, <1>2, <1>3, <2>1
  <2>2. CASE m < k
    <3>1. m * DayUnits + DayUnits <= k * DayUnits
      BY <2>2, DaysApart
    <3> QED  BY <1>1, <1>2, <1>3, <3>1
  <2> QED  BY <2>1, <2>2
<1>5. k * DayUnits + DayUnits <= m * DayUnits
  BY <1>4, DaysApart
<1> QED  BY <1>1, <1>2, <1>3, <1>5

\* nextDeadlineAfter: the first deadline that is later, at most a day away.
LEMMA NextDeadline ==
  ASSUME NEW t \in Int
  PROVE  /\ IsDeadline(nextDeadlineAfter(t))
         /\ t < nextDeadlineAfter(t) /\ nextDeadlineAfter(t) <= t + DayUnits
         /\ \A d : IsDeadline(d) /\ t < d => nextDeadlineAfter(t) <= d
<1> DEFINE k == t \div DayUnits
           next == nextDeadlineAfter(t)
<1>1. k \in Int /\ k * DayUnits <= t /\ t < k * DayUnits + DayUnits
  BY Division
<1>2. /\ DayUnits \in Nat /\ DueAt \in Nat /\ DueAt < DayUnits
      /\ k * DayUnits \in Int /\ (k + 1) * DayUnits = k * DayUnits + DayUnits
  BY <1>1, PlanAssumption
<1>3. next = IF k * DayUnits + DueAt > t THEN k * DayUnits + DueAt
             ELSE k * DayUnits + DueAt + DayUnits
  BY DEF nextDeadlineAfter
<1> HIDE DEF k, next
<1>4. IsDeadline(next)
  <2>1. next = k * DayUnits + DueAt \/ next = (k + 1) * DayUnits + DueAt
    BY <1>2, <1>3
  <2>2. k + 1 \in Int
    BY <1>1
  <2> QED  BY <1>1, <2>1, <2>2 DEF IsDeadline
<1>5. t < next /\ next <= t + DayUnits
  BY <1>1, <1>2, <1>3
<1>6. ASSUME NEW d, IsDeadline(d), t < d  PROVE next <= d
  <2>1. d \in Int /\ next \in Int
    BY <1>4, <1>6, PlanAssumption DEF IsDeadline
  <2>2. SUFFICES ASSUME d < next  PROVE FALSE
    BY <2>1
  <2>3. d + DayUnits <= next
    BY <1>4, <1>6, <2>2, DeadlinesApart
  <2> QED  BY <1>2, <1>5, <1>6, <2>1, <2>3
<1> QED  BY <1>4, <1>5, <1>6 DEF next

\* The first deadline of ComputeSchedule is less than a day away.
LEMMA FirstDeadlineIs ==
  ASSUME moment \in Int
  PROVE  /\ IsDeadline(FirstDeadline) /\ IsDeadline(FirstDeadline + DayUnits)
         /\ FirstDeadline \in Int /\ moment <= FirstDeadline /\ FirstDeadline < moment + DayUnits
<1> DEFINE k == moment \div DayUnits
           first == FirstDeadline
<1>1. k \in Int /\ k * DayUnits <= moment /\ moment < k * DayUnits + DayUnits
  BY Division
<1>2. /\ DayUnits \in Nat /\ DueAt \in Nat /\ DueAt < DayUnits
      /\ k * DayUnits \in Int /\ (k + 1) * DayUnits = k * DayUnits + DayUnits
      /\ (k + 2) * DayUnits = k * DayUnits + DayUnits + DayUnits
      /\ k + 1 \in Int /\ k + 2 \in Int
  BY <1>1, PlanAssumption
<1>3. first = IF k * DayUnits + DueAt >= moment THEN k * DayUnits + DueAt
              ELSE k * DayUnits + DueAt + DayUnits
  BY DEF FirstDeadline
<1> HIDE DEF k, first
<1>4. first = k * DayUnits + DueAt \/ first = (k + 1) * DayUnits + DueAt
  BY <1>2, <1>3
<1>5. first + DayUnits = (k + 1) * DayUnits + DueAt \/ first + DayUnits = (k + 2) * DayUnits + DueAt
  BY <1>2, <1>4
<1>6. first \in Int /\ moment <= first /\ first < moment + DayUnits
  BY <1>1, <1>2, <1>3
<1> QED  BY <1>1, <1>2, <1>4, <1>5, <1>6 DEF IsDeadline, first

-----------------------------------------------------------------------------
(* A period stays near the deadline of its slot.                           *)

\* It begins before the deadline, ends after the one before, and begins no more
\* than half an hour before that.
Near(p, d) == p.from < d /\ d < p.to + DayUnits /\ d <= p.from + DayUnits + 1

\* Few slots, each with a deadline and periods near it.
Spanned(slots) ==
  /\ IsFiniteSet(slots)
  /\ \A s \in slots : IsDeadline(s.deadline)
  /\ \A s \in slots : \A p \in s.periods : Near(p, s.deadline)

SlotSpan == IsFiniteSet(overrides) /\ Spanned(plan)

\* An hour or a half of one that a window takes.
LEMMA WindowIsNear ==
  ASSUME PlanTypes, NEW start \in Int, NEW d \in Int, start < d + 1, d <= start + DayUnits,
         NEW p \in WindowRates(start, d)
  PROVE  Near(p, d)
<1>1. p \in fragmentRates /\ p.to > start /\ p.from < d
  BY DEF WindowRates
<1>2. PICK h \in Nat, t \in Nat, n \in {1, 2} :
        p = [from |-> t, to |-> t + n, power |-> AutoPower, price |-> quote[h]]
  BY <1>1, FragmentShape
<1>3. p.from = t /\ p.to = t + n /\ (n = 1 \/ n = 2)
  BY <1>2
<1>4. DayUnits \in Nat
  BY PlanAssumption
<1> QED  BY <1>1, <1>3, <1>4 DEF Near

\* The automatic schedule.
LEMMA AutoSpan == ASSUME PlanTypes, NEW auto \in AutoSchedules  PROVE Spanned(auto)
<1>1. CASE auto = {}
  BY <1>1, FS_EmptySet DEF Spanned
<1>2. CASE auto # {}
  <2>1. auto \in ComputeSchedule(AutoTarget)
    BY <1>2 DEF AutoSchedules
  <2> DEFINE today == FirstDeadline
             tomorrow == today + DayUnits
             Later(S) == IF AutoTarget <= Energy(S) THEN {{}}
                         ELSE computeSlot(WindowRates(today, tomorrow), AutoTarget - Energy(S))
             First == computeSlot(WindowRates(moment, today), AutoTarget)
  <2>2. PICK S \in First : \E T \in Later(S) :
          auto = {t \in {Slot(today, S), Slot(tomorrow, T)} : t.periods # {}}
    BY <2>1 DEF ComputeSchedule
  <2>3. PICK T \in Later(S) :
          auto = {t \in {Slot(today, S), Slot(tomorrow, T)} : t.periods # {}}
    BY <2>2
  <2>4. S \subseteq WindowRates(moment, today)
    BY ComputeSlotTakes
  <2>5. T \subseteq WindowRates(today, tomorrow)
    <3>1. CASE AutoTarget <= Energy(S)
      BY <3>1
    <3>2. CASE ~(AutoTarget <= Energy(S))
      BY <3>2, ComputeSlotTakes
    <3> QED  BY <3>1, <3>2
  <2>6. /\ IsDeadline(today) /\ IsDeadline(tomorrow) /\ DayUnits \in Nat \ {0}
        /\ today \in Int /\ moment \in Int /\ moment <= today /\ today < moment + DayUnits
    BY FirstDeadlineIs, PlanAssumption DEF PlanTypes
  <2>7. tomorrow \in Int /\ tomorrow = today + DayUnits
    BY <2>6
  <2> HIDE DEF today, tomorrow
  <2>8. \A p \in S : Near(p, today)
    <3>1. moment < today + 1 /\ today <= moment + DayUnits
      BY <2>6
    <3> QED  BY <2>4, <2>6, <3>1, WindowIsNear
  <2>9. \A p \in T : Near(p, tomorrow)
    <3>1. today < tomorrow + 1 /\ tomorrow <= today + DayUnits
      BY <2>6, <2>7
    <3> QED  BY <2>5, <2>6, <2>7, <3>1, WindowIsNear
  <2>10. IsFiniteSet(auto)
    <3>1. IsFiniteSet({Slot(today, S)}) /\ IsFiniteSet({Slot(tomorrow, T)})
      BY FS_Singleton
    <3>2. IsFiniteSet({Slot(today, S)} \cup {Slot(tomorrow, T)})
      BY <3>1, FS_Union
    <3>3. auto \in SUBSET ({Slot(today, S)} \cup {Slot(tomorrow, T)})
      BY <2>3
    <3> QED  BY <3>2, <3>3, FS_Subset
  <2>11. ASSUME NEW s \in auto
         PROVE  \/ s.deadline = today /\ s.periods = S
                \/ s.deadline = tomorrow /\ s.periods = T
    BY <2>3 DEF Slot
  <2> QED  BY <2>6, <2>8, <2>9, <2>10, <2>11 DEF Spanned
<1> QED  BY <1>1, <1>2

\* A forced period joins the slot of the next deadline, near it however long it is.
LEMMA ForcedSpan ==
  ASSUME PlanTypes, Apart, IsFiniteSet(overrides)
  PROVE  /\ IsFiniteSet(ForcePeriods)
         /\ \A f \in ForcePeriods : /\ IsDeadline(nextDeadlineAfter(f.from))
                                    /\ Near(f, nextDeadlineAfter(f.from))
<1>1. IsFiniteSet(ForcePeriods)
  <2> DEFINE Forced == {x \in Loaded : x.power > 0}
             of == [o \in Forced |-> [from |-> o.from, to |-> o.to, power |-> o.power, price |-> 0]]
  <2>1. Forced \in SUBSET overrides
    BY DEF Loaded
  <2>2. IsFiniteSet(Forced)
    BY <2>1, FS_Subset
  <2>3. ForcePeriods = {of[o] : o \in Forced}
    <3>1. \A o \in Forced : of[o] = [from |-> o.from, to |-> o.to, power |-> o.power, price |-> 0]
      OBVIOUS
    <3>2. ForcePeriods
            = {[from |-> o.from, to |-> o.to, power |-> o.power, price |-> 0] : o \in Forced}
      BY DEF ForcePeriods
    <3> HIDE DEF of, Forced
    <3> QED  BY <3>1, <3>2
  <2>4. DOMAIN of = Forced
    OBVIOUS
  <2> HIDE DEF of, Forced
  <2> QED  BY <2>2, <2>3, <2>4, ImageFinite
<1>2. ASSUME NEW f \in ForcePeriods
      PROVE  IsDeadline(nextDeadlineAfter(f.from)) /\ Near(f, nextDeadlineAfter(f.from))
  <2>1. f.from \in Int /\ f.to \in Int /\ f.from < f.to
    <3>1. f \in Periods
      BY ForcedArePeriods
    <3>2. f.from < f.to
      BY CandidatesApart
    <3> QED  BY <3>1, <3>2 DEF Periods
  <2> DEFINE d == nextDeadlineAfter(f.from)
  <2>2. IsDeadline(d) /\ f.from < d /\ d <= f.from + DayUnits
    BY <2>1, NextDeadline
  <2>3. d \in Int /\ DayUnits \in Int
    BY <2>2, PlanAssumption DEF IsDeadline
  <2> HIDE DEF d
  <2>4. Near(f, d)
    BY <2>1, <2>2, <2>3 DEF Near
  <2> QED  BY <2>2, <2>4 DEF d
<1> QED  BY <1>1, <1>2

LEMMA MergedSpan ==
  ASSUME PlanTypes, Apart, IsFiniteSet(overrides), NEW auto \in AutoSchedules
  PROVE  Spanned(mergeForcesIntoSchedule(auto))
<1> DEFINE FromAuto(d) == UNION {s.periods : s \in {t \in auto : t.deadline = d}}
           FromForced(d) == {f \in ForcePeriods : nextDeadlineAfter(f.from) = d}
           AutoDays == {s.deadline : s \in auto}
           ForcedDays == {nextDeadlineAfter(f.from) : f \in ForcePeriods}
           Days == AutoDays \cup ForcedDays
           of == [d \in Days |-> Slot(d, FromAuto(d) \cup FromForced(d))]
<1>1. mergeForcesIntoSchedule(auto) = {of[d] : d \in Days}
  <2>1. mergeForcesIntoSchedule(auto) = {Slot(d, FromAuto(d) \cup FromForced(d)) : d \in Days}
    BY DEF mergeForcesIntoSchedule
  <2>2. \A d \in Days : of[d] = Slot(d, FromAuto(d) \cup FromForced(d))
    OBVIOUS
  <2> HIDE DEF of, FromAuto, FromForced, Days
  <2> QED  BY <2>1, <2>2
<1>2. Spanned(auto)
  BY AutoSpan
<1>3. \A d \in Days : of[d].deadline = d /\ of[d].periods = FromAuto(d) \cup FromForced(d)
  <2> HIDE DEF FromAuto, FromForced, Days
  <2> QED  BY DEF Slot
<1>4. \A d : \A p \in FromAuto(d) : Near(p, d)
  <2>1. \A d : \A p \in FromAuto(d) : \E s \in auto : s.deadline = d /\ p \in s.periods
    OBVIOUS
  <2> QED  BY <1>2, <2>1 DEF Spanned
<1>5. \A d : \A p \in FromForced(d) : Near(p, d)
  BY ForcedSpan
<1>6. \A d \in Days : IsDeadline(d)
  <2>1. \A s \in auto : IsDeadline(s.deadline)
    BY <1>2 DEF Spanned
  <2> QED  BY <2>1, ForcedSpan
<1>7. IsFiniteSet(Days)
  <2>1. IsFiniteSet(AutoDays)
    <3> DEFINE g == [s \in auto |-> s.deadline]
    <3>1. AutoDays = {g[s] : s \in auto} /\ DOMAIN g = auto /\ IsFiniteSet(auto)
      BY <1>2 DEF Spanned
    <3> HIDE DEF g, AutoDays
    <3> QED  BY <3>1, ImageFinite
  <2>2. IsFiniteSet(ForcedDays)
    <3> DEFINE g == [f \in ForcePeriods |-> nextDeadlineAfter(f.from)]
    <3>1. ForcedDays = {g[s] : s \in ForcePeriods} /\ DOMAIN g = ForcePeriods
      OBVIOUS
    <3>2. IsFiniteSet(ForcePeriods)
      BY ForcedSpan
    <3> HIDE DEF g, ForcedDays
    <3> QED  BY <3>1, <3>2, ImageFinite
  <2> HIDE DEF AutoDays, ForcedDays
  <2> QED  BY <2>1, <2>2, FS_Union
<1>8. DOMAIN of = Days
  OBVIOUS
<1> HIDE DEF of, Days, FromAuto, FromForced
<1>9. IsFiniteSet({of[d] : d \in Days})
  BY <1>7, <1>8, ImageFinite
<1> QED  BY <1>1, <1>3, <1>4, <1>5, <1>6, <1>9 DEF Spanned

\* The merge with the slot in progress adds to it periods of the same day.
LEMMA PlannedSpan ==
  ASSUME PlanTypes, NEW slots \in SUBSET Slots, Spanned(slots), Spanned(plan)
  PROVE  Spanned(Planned(slots))
<1> DEFINE others == WithCancellations(slots)
<1>1. Spanned(others)
  <2>1. \A s \in others : \E t \in slots : t.periods = s.periods /\ t.deadline = s.deadline
    BY CancellationsKeepPeriods
  <2>2. IsFiniteSet(others)
    <3> DEFINE g == [s \in slots |-> [s EXCEPT !.off = \E t \in plan : t.deadline = s.deadline /\ t.off]]
    <3>1. others = {g[s] : s \in slots} /\ DOMAIN g = slots /\ IsFiniteSet(slots)
      BY DEF WithCancellations, Spanned
    <3> HIDE DEF g, others
    <3> QED  BY <3>1, ImageFinite
  <2> HIDE DEF others
  <2> QED  BY <2>1, <2>2 DEF Spanned
<1>2. CASE activeSlot = {}
  BY <1>1, <1>2 DEF Planned
<1>3. CASE activeSlot # {} /\ slots = {}
  <2>1. Planned(slots) = activeSlot /\ activeSlot \in SUBSET plan
    BY <1>3 DEF Planned, activeSlot
  <2>2. IsFiniteSet(activeSlot)
    BY <2>1, FS_Subset DEF Spanned
  <2> QED  BY <2>1, <2>2 DEF Spanned
<1>4. CASE activeSlot # {} /\ slots # {}
  <2> DEFINE in == CHOOSE s \in activeSlot : TRUE
             a == activePeriod(in)
             new == UNION {s.periods : s \in {t \in others : t.deadline = in.deadline}}
             kept == {p \in in.periods : p.from <= a.from} \cup {p \in new : p.from >= a.to}
             merged == [in EXCEPT !.periods = kept]
             rest == {s \in others : s.deadline # in.deadline}
  <2>1. in \in plan /\ in \in Slots
    <3>1. in \in activeSlot
      BY <1>4
    <3> QED  BY <3>1 DEF activeSlot, PlanTypes
  <2>2. Planned(slots) = rest \cup {merged}
    <3>1. Planned(slots) = mergeActiveSlot(others, in)
      BY <1>4 DEF Planned
    <3>2. mergeActiveSlot(others, in) = rest \cup
              {[in EXCEPT !.periods = {p \in @ : p.from <= a.from} \cup {p \in new : p.from >= a.to}]}
      BY DEF mergeActiveSlot
    <3>3. [in EXCEPT !.periods = {p \in @ : p.from <= a.from} \cup {p \in new : p.from >= a.to}] = merged
      OBVIOUS
    <3> QED  BY <3>1, <3>2, <3>3
  <2>3. merged.periods = kept /\ merged.deadline = in.deadline
    BY <2>1 DEF Slots
  <2>4. \A p \in new : Near(p, in.deadline)
    <3>1. \A p \in new : \E s \in others : p \in s.periods /\ s.deadline = in.deadline
      OBVIOUS
    <3> HIDE DEF others, in, new
    <3> QED  BY <1>1, <3>1 DEF Spanned
  <2>5. \A p \in in.periods : Near(p, in.deadline)
    BY <2>1 DEF Spanned
  <2>6. IsDeadline(in.deadline)
    BY <2>1 DEF Spanned
  <2>7. IsFiniteSet(rest \cup {merged})
    <3>1. rest \in SUBSET others
      OBVIOUS
    <3> HIDE DEF rest, others, merged
    <3>2. IsFiniteSet(rest)
      BY <1>1, <3>1, FS_Subset DEF Spanned
    <3> QED  BY <3>2, FS_AddElement
  <2>8. \A s \in rest : s \in others
    OBVIOUS
  <2>9. \A p \in kept : p \in in.periods \/ p \in new
    OBVIOUS
  <2> HIDE DEF in, a, others, new, merged, kept, rest
  <2> QED  BY <1>1, <2>2, <2>3, <2>4, <2>5, <2>6, <2>7, <2>8, <2>9 DEF Spanned
<1> QED  BY <1>2, <1>3, <1>4

LEMMA RecomputeKeepsSpan == ASSUME PlanInv, SlotSpan, Recompute  PROVE SlotSpan'
<1>1. PlanTypes /\ Apart /\ IsFiniteSet(overrides) /\ Spanned(plan) /\ UNCHANGED overrides
  BY DEF PlanInv, SlotSpan, Recompute
<1>2. CASE Returns
  BY <1>1, <1>2 DEF Recompute, SlotSpan, Spanned, Near, IsDeadline
<1>3. CASE ~Returns
  <2>1. PICK auto \in AutoSchedules : plan' = Planned(mergeForcesIntoSchedule(auto))
    BY <1>3 DEF Recompute
  <2>2. mergeForcesIntoSchedule(auto) \in SUBSET Slots
    BY <1>1, MergedPlan
  <2>3. Spanned(Planned(mergeForcesIntoSchedule(auto)))
    BY <1>1, <2>2, MergedSpan, PlannedSpan
  <2> QED  BY <1>1, <2>1, <2>3 DEF SlotSpan, Spanned, Near, IsDeadline
<1> QED  BY <1>2, <1>3

LEMMA ToggleKeepsSpan == ASSUME PlanInv, SlotSpan, ToggleSlot  PROVE SlotSpan'
<1>1. PICK s \in plan : plan' = (plan \ {s}) \cup {[s EXCEPT !.off = ~@]}
  BY DEF ToggleSlot
<1> DEFINE r == [s EXCEPT !.off = ~@]
<1>2. r.periods = s.periods /\ r.deadline = s.deadline
  BY DEF PlanInv, PlanTypes, Slots
<1>3. plan' = (plan \ {s}) \cup {r} /\ UNCHANGED overrides
  BY <1>1 DEF ToggleSlot
<1> HIDE DEF r
<1>4. \A t \in plan' : \E u \in plan : t.periods = u.periods /\ t.deadline = u.deadline
  BY <1>2, <1>3
<1>5. IsFiniteSet(plan')
  BY <1>3, FS_RemoveElement, FS_AddElement DEF SlotSpan, Spanned
<1> QED  BY <1>3, <1>4, <1>5 DEF SlotSpan, Spanned, Near, IsDeadline

\* The user adds or deletes one override.
LEMMA OverridesStayFew ==
  ASSUME IsFiniteSet(overrides), CreateOverride \/ DeleteOverride
  PROVE  IsFiniteSet(overrides')
<1>1. CASE CreateOverride
  <2>1. PICK o : InsertOverride(o)
    BY <1>1 DEF CreateOverride
  <2>2. overrides' = overrides \cup {o}
    BY <2>1 DEF InsertOverride
  <2> QED  BY <2>2, FS_AddElement
<1>2. CASE DeleteOverride
  BY <1>2, FS_RemoveElement DEF DeleteOverride
<1> QED  BY <1>1, <1>2

LEMMA InitSlotSpan == PlanInit => SlotSpan
BY FS_EmptySet DEF PlanInit, SlotSpan, Spanned

LEMMA SlotSpanIsInductive == PlanInv /\ SlotSpan /\ [PlanNext]_planVars => SlotSpan'
<1> SUFFICES ASSUME PlanInv, SlotSpan, [PlanNext]_planVars  PROVE SlotSpan'
  OBVIOUS
<1>1. CASE UNCHANGED <<plan, overrides>>
  BY <1>1 DEF SlotSpan, Spanned, Near, IsDeadline
<1>2. CASE CreateOverride \/ DeleteOverride
  <2>1. UNCHANGED plan
    BY <1>2 DEF CreateOverride, DeleteOverride
  <2>2. IsFiniteSet(overrides')
    BY <1>2, OverridesStayFew DEF SlotSpan
  <2> QED  BY <2>1, <2>2 DEF SlotSpan, Spanned, Near, IsDeadline
<1>3. UNCHANGED planVars \/ ChargeChanges \/ PricesArrive \/ TransactionOpens \/ TransactionEnds
        \/ Advance => UNCHANGED <<plan, overrides>>
  BY DEF planVars, ChargeChanges, PricesArrive, TransactionOpens, TransactionEnds, Advance
<1> QED  BY <1>1, <1>2, <1>3, RecomputeKeepsSpan, ToggleKeepsSpan DEF PlanNext

-----------------------------------------------------------------------------
(* The periods of all slots, in the order ActivePeriods gives them.        *)

\* q follows p: it begins no earlier, and ends later unless p runs past the
\* deadline p counts for.
Follows(p, q) ==
  p.from <= q.from /\ (p.to <= nextDeadlineAfter(p.from) => p.to < q.to)

Chain(ps) ==
  /\ \A i \in 1 .. Len(ps) : ps[i].from < ps[i].to
  /\ \A i, j \in 1 .. Len(ps) : i < j => Follows(ps[i], ps[j])

\* The periods of a day follow those of the days before.
LEMMA DaysFollow ==
  ASSUME NEW p \in Periods, NEW q \in Periods, NEW d, NEW e,
         IsDeadline(d), IsDeadline(e), d < e, Near(p, d), Near(q, e)
  PROVE  Follows(p, q)
<1>1. /\ p.from \in Int /\ p.to \in Int /\ q.from \in Int /\ q.to \in Int
      /\ DayUnits \in Int
  BY PlanAssumption DEF Periods
<1>2. d \in Int /\ e \in Int /\ d + DayUnits <= e
  BY DeadlinesApart
<1> DEFINE next == nextDeadlineAfter(p.from)
<1>3. next \in Int /\ next <= d
  BY <1>1, NextDeadline, DeadlineType DEF Near
<1> HIDE DEF next
<1>4. p.from <= q.from
  BY <1>1, <1>2 DEF Near
<1>5. p.to <= next => p.to < q.to
  BY <1>1, <1>2, <1>3 DEF Near
<1> QED  BY <1>4, <1>5 DEF Follows, next

\* So do those of one slot.
LEMMA SlotChain ==
  ASSUME NEW S \in SUBSET Periods, IsFiniteSet(S),
         \A p \in S : p.from < p.to,
         \A p, q \in S : p # q => ~Overlaps(p, q)
  PROVE  InOrder(S) \in Seq(S) /\ Chain(InOrder(S))
<1> DEFINE s == InOrder(S)
<1>1. s \in Seq(S) /\ \A i, j \in 1 .. Len(s) : i < j => s[i].to <= s[j].from
  BY InOrderLists
<1> HIDE DEF s
<1>2. \A i \in 1 .. Len(s) : s[i] \in S
  BY <1>1
<1>3. \A p \in S : p.from \in Int /\ p.to \in Int /\ p.from < p.to
  BY DEF Periods
<1>4. ASSUME NEW i \in 1 .. Len(s), NEW j \in 1 .. Len(s), i < j  PROVE Follows(s[i], s[j])
  <2>1. /\ s[i].from \in Int /\ s[i].to \in Int /\ s[i].from < s[i].to
        /\ s[j].from \in Int /\ s[j].to \in Int /\ s[j].from < s[j].to
        /\ s[i].to <= s[j].from
    BY <1>1, <1>2, <1>3, <1>4
  <2>2. s[i].from <= s[j].from /\ s[i].to < s[j].to
    BY <2>1
  <2> QED  BY <2>2 DEF Follows
<1>5. Chain(s)
  BY <1>2, <1>3, <1>4 DEF Chain
<1> QED  BY <1>1, <1>5 DEF s

LEMMA ChainAppend ==
  ASSUME NEW a \in Seq(Periods), NEW b \in Seq(Periods), Chain(a), Chain(b),
         \A i \in 1 .. Len(a) : \A j \in 1 .. Len(b) : Follows(a[i], b[j])
  PROVE  Chain(a \o b)
<1> DEFINE c == a \o b
           m == Len(a)
           n == Len(b)
<1>1. /\ m \in Nat /\ n \in Nat /\ Len(c) = m + n
      /\ \A i \in 1 .. m + n : c[i] = IF i <= m THEN a[i] ELSE b[i - m]
  OBVIOUS
<1> HIDE DEF c, m, n
<1>2. ASSUME NEW i \in 1 .. m + n
      PROVE  \/ i \in 1 .. m /\ c[i] = a[i]
             \/ i > m /\ i - m \in 1 .. n /\ c[i] = b[i - m]
  BY <1>1
<1>3. ASSUME NEW i \in 1 .. m + n  PROVE c[i].from < c[i].to
  BY <1>2 DEF Chain, m, n
<1>4. ASSUME NEW i \in 1 .. m + n, NEW j \in 1 .. m + n, i < j  PROVE Follows(c[i], c[j])
  <2>1. CASE i \in 1 .. m /\ c[i] = a[i] /\ j \in 1 .. m /\ c[j] = a[j]
    BY <1>4, <2>1 DEF Chain, m
  <2>2. CASE i \in 1 .. m /\ c[i] = a[i] /\ j - m \in 1 .. n /\ c[j] = b[j - m]
    BY <2>2 DEF m, n
  <2>3. CASE i - m \in 1 .. n /\ c[i] = b[i - m] /\ j - m \in 1 .. n /\ c[j] = b[j - m]
    <3>1. i - m < j - m
      BY <1>1, <1>4
    <3> QED  BY <2>3, <3>1 DEF Chain, n
  <2>4. ~(i > m /\ j \in 1 .. m)
    BY <1>1, <1>4
  <2> QED  BY <1>2, <2>1, <2>2, <2>3, <2>4
<1> QED  BY <1>1, <1>3, <1>4 DEF Chain, c

\* One slot more: those that are off are left out.
WithSlot(all, s) == IF s.off THEN all ELSE all \o InOrder(s.periods)

\* The slots are gone through one by one.
LEMMA ActiveFold ==
  ASSUME NEW ss \in Seq(plan),
         \A s \in plan : InOrder(s.periods) \in Seq(Periods)
  PROVE  \E f \in [0 .. Len(ss) -> Seq(Periods)] :
           /\ f[0] = <<>>
           /\ \A i \in 1 .. Len(ss) : f[i] = WithSlot(f[i - 1], ss[i])
           /\ ss = SlotsInOrder => ActivePeriods = f[Len(ss)]
<1> DEFINE n == Len(ss)
           Of(g, T) == IF T = {} THEN <<>> ELSE WithSlot(g[T \ {Max(T)}], ss[Max(T)])
           Def(g) == [T \in SUBSET (1 .. n) |-> Of(g, T)]
           it == CHOOSE g : g = Def(g)
<1>1. n \in Nat /\ DOMAIN ss = 1 .. n /\ <<>> \in Seq(Periods) /\ \A i \in 1 .. n : ss[i] \in plan
  OBVIOUS
<1>a. \A acc \in Seq(Periods) : \A s \in plan : WithSlot(acc, s) \in Seq(Periods)
  BY DEF WithSlot
<1>2. ss = SlotsInOrder => ActivePeriods = it[1 .. n]
  <2>1. SUFFICES ASSUME ss = SlotsInOrder  PROVE ActivePeriods = it[1 .. n]
    OBVIOUS
  <2>2. ActivePeriods
          = (CHOOSE g : g = [T \in SUBSET DOMAIN ss |->
               IF T = {} THEN <<>>
               ELSE IF ss[Max(T)].off THEN g[T \ {Max(T)}]
                    ELSE g[T \ {Max(T)}] \o InOrder(ss[Max(T)].periods)])[DOMAIN ss]
    BY <2>1 DEF ActivePeriods, FoldLeft, MapThenFoldSet
  <2> QED  BY <1>1, <2>2 DEF WithSlot
<1>3. \E g : g = Def(g)
  <2> DEFINE step == [pair \in (1 .. n) \X Seq(Periods) |-> WithSlot(pair[2], ss[pair[1]])]
  <2>1. \A i \in 1 .. n : \A acc \in Seq(Periods) : step[<<i, acc>>] = WithSlot(acc, ss[i])
    OBVIOUS
  <2>2. \A i \in 1 .. n : \A acc \in Seq(Periods) : step[<<i, acc>>] \in Seq(Periods)
    BY <1>1, <1>a, <2>1
  <2> HIDE DEF step, n
  <2>3. PICK g \in [SUBSET (1 .. n) -> Seq(Periods)] : IsFoldLeft(g, n, <<>>, step)
    BY <1>1, <2>2, FoldLeftExists
  <2>4. ASSUME NEW T \in SUBSET (1 .. n)  PROVE g[T] = Of(g, T)
    <3>1. CASE T = {}
      BY <2>3, <3>1 DEF IsFoldLeft
    <3>2. CASE T # {}
      <4>1. Max(T) \in 1 .. n /\ T \ {Max(T)} \in SUBSET (1 .. n)
        BY <1>1, <3>2, MaxOf
      <4>2. g[T \ {Max(T)}] \in Seq(Periods)
        BY <4>1
      <4> QED  BY <2>1, <2>3, <3>2, <4>1, <4>2 DEF IsFoldLeft
    <3> QED  BY <3>1, <3>2
  <2> HIDE DEF Of
  <2>5. g = Def(g)
    BY <2>4
  <2> QED  BY <2>5
<1>4. it = Def(it)
  <2> HIDE DEF Def
  <2> QED  BY <1>3
<1> DEFINE f == [i \in 0 .. n |-> it[1 .. i]]
<1> HIDE DEF it, n
<1>5. f[0] = <<>>
  <2>1. it[1 .. 0] = <<>>
    <3>1. {} \in SUBSET (1 .. n) /\ Of(it, {}) = <<>>
      OBVIOUS
    <3> HIDE DEF Of
    <3>2. it[{}] = <<>>
      BY <1>4, <3>1
    <3> QED  BY <3>2, Segments
  <2> QED  BY <1>1, <2>1
<1>6. ASSUME NEW i \in 1 .. n  PROVE f[i] = WithSlot(f[i - 1], ss[i])
  <2>1. /\ 1 .. i \in SUBSET (1 .. n) /\ 1 .. i # {}
        /\ Max(1 .. i) = i /\ (1 .. i) \ {i} = 1 .. (i - 1)
    <3>1. i \in Nat \ {0} /\ i \in 1 .. i
      BY <1>1
    <3> QED  BY <1>1, <3>1, Segments
  <2>2. Of(it, 1 .. i) = WithSlot(it[1 .. (i - 1)], ss[i])
    BY <2>1
  <2> HIDE DEF Of
  <2>3. it[1 .. i] = WithSlot(it[1 .. (i - 1)], ss[i])
    BY <1>4, <2>1, <2>2
  <2>4. i \in 0 .. n /\ i - 1 \in 0 .. n
    BY <1>1
  <2> QED  BY <2>3, <2>4
<1>7. DOMAIN f = 0 .. n /\ f[n] = it[1 .. n]
  BY <1>1
<1> HIDE DEF f, Def
<1>8. \A i \in 0 .. n : f[i] \in Seq(Periods)
  <2> DEFINE Good == {i \in Nat : i \in 0 .. n => f[i] \in Seq(Periods)}
  <2>1. 0 \in Good
    BY <1>1, <1>5
  <2>2. ASSUME NEW i \in Nat, i \in Good  PROVE i + 1 \in Good
    <3>1. CASE i + 1 \in 0 .. n
      <4>1. i \in 0 .. n /\ i + 1 \in 1 .. n /\ (i + 1) - 1 = i
        BY <1>1, <3>1
      <4>2. f[i] \in Seq(Periods)
        BY <2>2, <4>1
      <4>3. f[i + 1] = WithSlot(f[i], ss[i + 1]) /\ ss[i + 1] \in plan
        BY <1>1, <1>6, <4>1
      <4>4. WithSlot(f[i], ss[i + 1]) \in Seq(Periods)
        BY <1>a, <4>2, <4>3, Zenon
      <4> QED  BY <4>3, <4>4
    <3> QED  BY <3>1
  <2> HIDE DEF Good
  <2>3. Nat \subseteq Good
    BY <2>1, <2>2, NatInductive
  <2> QED  BY <1>1, <2>3 DEF Good
<1>9. f \in [0 .. n -> Seq(Periods)]
  <2>1. f = [i \in 0 .. n |-> f[i]]
    BY DEF f
  <2> QED  BY <1>8, <2>1
<1> QED  BY <1>2, <1>5, <1>6, <1>7, <1>9 DEF n

\* The periods of the slots that are not off follow each other.
LEMMA ActiveChain ==
  ASSUME PlanTypes, PeriodsApart, SlotSpan
  PROVE  ActivePeriods \in Seq(Periods) /\ Chain(ActivePeriods)
<1> DEFINE ss == SlotsInOrder
           n == Len(ss)
<1>0. plan \in SUBSET Slots /\ IsFiniteSet(plan)
  BY DEF PlanTypes, SlotSpan, Spanned
<1>1. ss \in Seq(plan) /\ \A i, j \in 1 .. n : i < j => ss[i].deadline < ss[j].deadline
  BY <1>0, SlotsInOrderLists DEF PeriodsApart
<1>2. ASSUME NEW s \in plan
      PROVE  /\ s.periods \in SUBSET Periods
             /\ InOrder(s.periods) \in Seq(s.periods)
             /\ InOrder(s.periods) \in Seq(Periods) /\ Chain(InOrder(s.periods))
  <2>1. /\ s.periods \in SUBSET Periods
        /\ \A p \in s.periods : p.from < p.to
        /\ \A p, q \in s.periods : p # q => ~Overlaps(p, q)
    BY <1>0 DEF Slots, PeriodsApart
  <2>2. IsFiniteSet(s.periods)
    <3> DEFINE S == s.periods
               d == s.deadline
               g == [p \in S |-> p.from]
    <3>1. d \in Int /\ \A p \in S : p.from \in Nat /\ p.to \in Nat /\ p.from < d
      BY <1>0, <2>1 DEF Slots, Periods, SlotSpan, Spanned, Near
    <3>2. \A p \in S : g[p] \in 0 .. d
      BY <3>1
    <3>3. \A p \in S : \A q \in S : g[p] = g[q] => p = q
      BY <2>1, <3>1 DEF Overlaps
    <3>4. g \in Injection(S, 0 .. d)
      <4>1. g \in [S -> 0 .. d]
        BY <3>2
      <4> QED  BY <3>3, <4>1 DEF Injection, IsInjective
    <3>5. IsFiniteSet(0 .. d)
      BY <3>1, FS_Interval
    <3> HIDE DEF g, S, d
    <3> QED  BY <3>4, <3>5, FS_Injection DEF S
  <2> DEFINE S == s.periods
  <2>3. S \in SUBSET Periods /\ IsFiniteSet(S)
    BY <2>1, <2>2
  <2>4. /\ \A p \in S : p.from < p.to
        /\ \A p, q \in S : p # q => ~Overlaps(p, q)
    BY <2>1
  <2> HIDE DEF S
  <2>5. InOrder(S) \in Seq(S) /\ Chain(InOrder(S))
    BY <2>3, <2>4, SlotChain
  <2>6. InOrder(S) \in Seq(Periods)
    BY <2>3, <2>5
  <2> QED  BY <2>3, <2>5, <2>6 DEF S
<1> HIDE DEF ss
<1>3. n \in Nat /\ \A i \in 1 .. n : ss[i] \in plan
  BY <1>1
<1>4. PICK f \in [0 .. n -> Seq(Periods)] :
        /\ f[0] = <<>>
        /\ \A i \in 1 .. n : f[i] = WithSlot(f[i - 1], ss[i])
        /\ ss = SlotsInOrder => ActivePeriods = f[n]
  BY <1>1, <1>2, ActiveFold
<1> DEFINE From(m) == \A i \in 1 .. Len(f[m]) : \E k \in 1 .. m : f[m][i] \in ss[k].periods
           Good == {m \in Nat : m \in 0 .. n => Chain(f[m]) /\ From(m)}
<1>5. 0 \in Good
  <2>1. Len(f[0]) = 0
    BY <1>4
  <2> QED  BY <2>1 DEF Chain
<1>6. ASSUME NEW m \in Nat, m \in Good  PROVE m + 1 \in Good
  <2> SUFFICES ASSUME m + 1 \in 0 .. n  PROVE Chain(f[m + 1]) /\ From(m + 1)
    OBVIOUS
  <2>1. m \in 0 .. n /\ m + 1 \in 1 .. n /\ (m + 1) - 1 = m
    BY <1>3
  <2> DEFINE s == ss[m + 1]
             a == f[m]
             b == InOrder(s.periods)
             next == f[m + 1]
  <2>2. s \in plan /\ a \in Seq(Periods) /\ Chain(a) /\ From(m) /\ next = WithSlot(a, s)
    BY <1>3, <1>4, <1>6, <2>1
  <2>3. b \in Seq(s.periods) /\ b \in Seq(Periods) /\ Chain(b)
    BY <1>2, <2>2
  <2>4. ASSUME NEW i \in 1 .. Len(a), NEW j \in 1 .. Len(b)  PROVE Follows(a[i], b[j])
    <3>1. PICK k \in 1 .. m : a[i] \in ss[k].periods
      BY <2>2
    <3>2. k \in 1 .. n /\ k < m + 1 /\ ss[k] \in plan
      BY <1>3, <2>1, <3>1
    <3>3. ss[k].deadline < s.deadline
      BY <1>1, <2>1, <3>2
    <3>4. b[j] \in s.periods /\ b[j] \in Periods /\ a[i] \in Periods
      BY <2>2, <2>3
    <3>5. /\ IsDeadline(s.deadline) /\ IsDeadline(ss[k].deadline)
          /\ Near(a[i], ss[k].deadline) /\ Near(b[j], s.deadline)
      BY <2>2, <3>1, <3>2, <3>4 DEF SlotSpan, Spanned
    <3> HIDE DEF s, a, b
    <3> QED  BY <3>3, <3>4, <3>5, DaysFollow
  <2>5. \A k \in 1 .. m : k \in 1 .. m + 1
    OBVIOUS
  <2>6. CASE s.off
    <3>1. next = a
      BY <2>2, <2>6 DEF WithSlot
    <3> QED  BY <2>2, <2>5, <3>1
  <2>7. CASE ~s.off
    <3>1. next = a \o b
      BY <2>2, <2>7 DEF WithSlot
    <3>2. Chain(next)
      <4> HIDE DEF a, b, next
      <4> QED  BY <2>2, <2>3, <2>4, <3>1, ChainAppend
    <3>3. ASSUME NEW i \in 1 .. Len(next)  PROVE \E k \in 1 .. m + 1 : next[i] \in ss[k].periods
      <4>1. \/ i \in 1 .. Len(a) /\ next[i] = a[i]
            \/ i - Len(a) \in 1 .. Len(b) /\ next[i] = b[i - Len(a)]
        <5> HIDE DEF a, b, next
        <5> QED  BY <2>2, <2>3, <3>1
      <4>2. CASE i \in 1 .. Len(a) /\ next[i] = a[i]
        <5>1. PICK k \in 1 .. m : a[i] \in ss[k].periods
          BY <2>2, <4>2
        <5> QED  BY <2>5, <4>2, <5>1
      <4>3. CASE i - Len(a) \in 1 .. Len(b) /\ next[i] = b[i - Len(a)]
        <5>1. next[i] \in s.periods
          BY <2>3, <4>3
        <5>2. m + 1 \in 1 .. m + 1
          OBVIOUS
        <5> QED  BY <5>1, <5>2
      <4> QED  BY <4>1, <4>2, <4>3
    <3> QED  BY <3>2, <3>3
  <2> QED  BY <2>6, <2>7
<1> HIDE DEF Good
<1>7. Nat \subseteq Good
  BY <1>5, <1>6, NatInductive
<1>8. Chain(f[n])
  <2>1. n \in Good /\ n \in 0 .. n
    BY <1>3, <1>7
  <2> QED  BY <2>1 DEF Good
<1>9. ActivePeriods = f[n] /\ f[n] \in Seq(Periods)
  BY <1>3, <1>4 DEF ss
<1> QED  BY <1>8, <1>9

\* With slots in order and near their deadlines the profile is the plan.
LEMMA ProfileHolds ==
  ASSUME PlanTypes, PeriodsApart, SlotSpan  PROVE ProfileIsPlan
<1> DEFINE ps == ActivePeriods
           n == Len(ps)
           periods == Range(ps)
           In(t) == {p \in periods : p.from <= t /\ t < p.to}
           done == FoldLeft(WithPeriod, Nothing, ps)
           limits == done.out \o <<Limit(done.end, 0)>>
           profile == [validFrom |-> Head(ps).from, validTo |-> Last(ps).to, limits |-> limits]
           Shown(t) == LimitAt(limits, t)
<1>1. ps \in Seq(Periods) /\ Chain(ps)
  BY ActiveChain
<1>2. /\ n \in Nat /\ \A i \in 1 .. n : ps[i] \in Periods
      /\ periods = {ps[i] : i \in 1 .. n}
  BY <1>1 DEF Range
<1>3. \A i \in 1 .. n : ps[i].from \in Int /\ ps[i].to \in Int /\ ps[i].power \in Int
  <2>1. \A p \in Periods : p.from \in Int /\ p.to \in Int /\ p.power \in Int
    BY DEF Periods
  <2> QED  BY <1>2, <2>1
<1>4. BuildProfile = IF ps = <<>> THEN NoProfile ELSE profile
  BY DEF BuildProfile, Nothing
<1>5. InStep(ps)
  BY <1>1 DEF Chain, InStep, Follows
<1> SUFFICES ASSUME NEW t \in moment .. Horizon,
                    \A p \in In(t) : p.to <= nextDeadlineAfter(p.from)
             PROVE  IF In(t) = {} THEN LimitsAt(BuildProfile, t) \subseteq {0}
                    ELSE /\ LimitsAt(BuildProfile, t) # {}
                         /\ LimitsAt(BuildProfile, t) \subseteq {p.power : p \in In(t)}
  BY DEF ProfileIsPlan
<1>6. t \in Int
  BY PlanAssumption DEF PlanTypes
<1> HIDE DEF ps, periods, profile, limits
<1>7. CASE ps = <<>>
  <2>1. LimitsAt(NoProfile, t) = {}
    BY <1>6 DEF LimitsAt, NoProfile
  <2>2. In(t) = {}
    BY <1>2, <1>7
  <2> HIDE DEF In
  <2> QED  BY <1>4, <1>7, <2>1, <2>2
<1>8. CASE ps # <<>>
  <2>0. n \in Nat \ {0} /\ 1 \in 1 .. n /\ n \in 1 .. n
    BY <1>1, <1>8
  <2>1. /\ limits[1].at = ps[1].from /\ 1 \in DOMAIN limits
        /\ t < ps[1].from => Shown(t) = 0
        /\ \A i \in 1 .. n : LastBegun(ps, n, i, t) =>
             Shown(t) = IF ps[i].to <= t THEN 0 ELSE ps[i].power
    <3> HIDE DEF done
    <3>1. done = FoldLeft(WithPeriod, Nothing, ps)
      BY DEF done
    <3>2. /\ (done.out \o <<Limit(done.end, 0)>>)[1].at = ps[1].from
          /\ DOMAIN (done.out \o <<Limit(done.end, 0)>>) = 1 .. Len(done.out) + 1
          /\ Len(done.out) \in Nat
          /\ t < ps[1].from => LimitAt(done.out \o <<Limit(done.end, 0)>>, t) = 0
          /\ \A i \in 1 .. Len(ps) : LastBegun(ps, Len(ps), i, t) =>
               LimitAt(done.out \o <<Limit(done.end, 0)>>, t) = IF ps[i].to <= t THEN 0 ELSE ps[i].power
      BY <1>1, <1>5, <1>6, <1>8, <3>1, ProfileShows
    <3> QED  BY <3>2 DEF limits
  <2>v. /\ profile.limits = limits
        /\ profile.validFrom = ps[1].from /\ profile.validTo = ps[n].to
    BY <1>1, <1>8 DEF profile, Last
  <2>w. ~(ps[1].from <= t /\ t < ps[n].to) => LimitsAt(profile, t) = {}
    BY <2>v DEF LimitsAt
  <2>x. ps[1].from <= t /\ t < ps[n].to => LimitsAt(profile, t) = {Shown(t)}
    <3> SUFFICES ASSUME ps[1].from <= t /\ t < ps[n].to  PROVE LimitsAt(profile, t) = {Shown(t)}
      OBVIOUS
    <3> DEFINE begun == {i \in DOMAIN limits : limits[i].at <= t}
    <3>1. 1 \in begun
      BY <2>1
    <3>2. LimitsAt(profile, t) = {limits[Max(begun)].power}
      BY <2>v, <3>1 DEF LimitsAt
    <3>3. Shown(t) = limits[Max(begun)].power
      BY <3>1 DEF LimitAt
    <3> QED  BY <3>2, <3>3
  <2>y. BuildProfile = profile
    BY <1>4, <1>8
  <2> HIDE DEF Shown
  <2>2. CASE t < ps[1].from
    <3>1. \A i \in 1 .. n : ps[1].from <= ps[i].from
      BY <1>3, <1>5, <2>0 DEF InStep
    <3>2. In(t) = {}
      BY <1>2, <1>3, <1>6, <2>0, <2>2, <3>1
    <3>3. LimitsAt(BuildProfile, t) = {}
      BY <1>3, <1>6, <2>0, <2>2, <2>w, <2>y
    <3> HIDE DEF In
    <3> QED  BY <3>2, <3>3
  <2>3. CASE ~(t < ps[1].from)
    <3> DEFINE begun == {i \in 1 .. n : ps[i].from <= t}
               i == Max(begun)
    <3>1. begun \in SUBSET (1 .. n) /\ 1 \in begun
      BY <1>3, <1>6, <2>0, <2>3
    <3>2. i \in begun /\ \A j \in begun : i >= j
      <4> HIDE DEF begun
      <4> QED  BY <1>2, <3>1, MaxOf
    <3> HIDE DEF i
    <3>3. i \in 1 .. n /\ ps[i].from <= t /\ \A j \in 1 .. n : ps[j].from <= t => j <= i
      BY <3>2
    <3>4. LastBegun(ps, n, i, t)
      <4>1. ASSUME i < n  PROVE t < ps[i + 1].from
        <5>1. i + 1 \in 1 .. n /\ ~(i + 1 <= i)
          BY <1>2, <3>3, <4>1
        <5> QED  BY <1>3, <1>6, <3>3, <5>1
      <4> QED  BY <3>3, <4>1 DEF LastBegun
    <3>5. Shown(t) = IF ps[i].to <= t THEN 0 ELSE ps[i].power
      BY <2>1, <3>3, <3>4
    <3>6. CASE t < ps[i].to
      <4>1. ps[i] \in In(t)
        BY <1>2, <3>3, <3>6
      <4>2. Shown(t) = ps[i].power
        BY <1>3, <1>6, <3>3, <3>5, <3>6
      <4>3. t < ps[n].to
        <5>1. ps[i].to <= nextDeadlineAfter(ps[i].from)
          BY <4>1
        <5>2. CASE i = n
          BY <3>6, <5>2
        <5>3. CASE i < n
          <6>1. Follows(ps[i], ps[n])
            BY <1>1, <2>0, <3>3, <5>3 DEF Chain
          <6> QED  BY <1>3, <1>6, <2>0, <3>3, <3>6, <5>1, <6>1 DEF Follows
        <5> QED  BY <2>0, <3>3, <5>2, <5>3
      <4>4. ps[1].from <= t
        BY <1>3, <1>6, <2>0, <2>3
      <4>5. LimitsAt(BuildProfile, t) = {ps[i].power}
        BY <2>x, <2>y, <4>2, <4>3, <4>4
      <4> HIDE DEF In
      <4> QED  BY <4>1, <4>5
    <3>7. CASE ps[i].to <= t
      <4>1. In(t) = {}
        <5> SUFFICES ASSUME NEW p \in In(t)  PROVE FALSE
          OBVIOUS
        <5>1. PICK j \in 1 .. n : p = ps[j]
          BY <1>2
        <5>2. ps[j].from <= t /\ t < ps[j].to /\ ps[j].to <= nextDeadlineAfter(ps[j].from)
          BY <5>1
        <5>3. j < i
          BY <1>3, <1>6, <3>3, <3>7, <5>2
        <5>4. Follows(ps[j], ps[i])
          BY <1>1, <3>3, <5>3 DEF Chain
        <5> QED  BY <1>3, <1>6, <3>3, <3>7, <5>2, <5>4 DEF Follows
      <4>2. Shown(t) = 0
        BY <3>5, <3>7
      <4>3. LimitsAt(BuildProfile, t) \subseteq {0}
        BY <2>w, <2>x, <2>y, <4>2
      <4> HIDE DEF In
      <4> QED  BY <4>1, <4>3
    <3> QED  BY <1>3, <1>6, <3>3, <3>6, <3>7
  <2> QED  BY <2>2, <2>3
<1> QED  BY <1>7, <1>8

\* BuildProfile and ActivePeriods: from now on the profile, within its validity from
\* the first start to the last end, sets the power of a period of the plan that holds
\* at that time, and no limit but a pause outside all of them, for every plan that
\* recompute, cancellations and restorations can make.
THEOREM ProfileFollowsPlan == PlanSpec => []ProfileIsPlan
<1> DEFINE Inv == PlanInv /\ PeriodsApart /\ SlotSpan
<1>1. PlanInit => Inv
  BY InitPlanInv, InitSlotSpan DEF PlanInit, PeriodsApart
<1>2. Inv /\ [PlanNext]_planVars => Inv'
  BY PlanInvIsInductive, PeriodsApartIsInductive, SlotSpanIsInductive
<1>3. Inv => ProfileIsPlan
  BY ProfileHolds DEF PlanInv
<1> QED  BY <1>1, <1>2, <1>3, PTL DEF PlanSpec

\* A slot is due at a deadline, and its periods lie around it: they begin before it,
\* and end after the deadline before; forced ones too, however long they are, and
\* those that a slot in progress keeps from an earlier plan.
THEOREM SlotsStaySpanned == PlanSpec => []SlotSpan
<1>1. PlanInv /\ SlotSpan /\ [PlanNext]_planVars => (PlanInv /\ SlotSpan)'
  BY PlanInvIsInductive, SlotSpanIsInductive
<1> QED  BY <1>1, InitPlanInv, InitSlotSpan, PTL DEF PlanSpec
=============================================================================
