------------------------------ MODULE SlotPlan ------------------------------
(***************************************************************************)
(* What recompute plans (internal/scheduler: ComputeSchedule, overrides.go,*)
(* fragment.go, the merge of the slot in progress, BuildProfile; with      *)
(* store/schedule_overrides.go).  ChargeControl takes the plan as a free   *)
(* choice and checks how it is written, sent and obeyed; here it is        *)
(* computed: the cheapest hours before each of two deadlines, around what  *)
(* the user forces or blocks, joined with the period in progress.          *)
(*                                                                         *)
(* A unit of time is half an hour: prices are hourly, an override may      *)
(* begin at any half hour.  Recompute is one step: what happens when       *)
(* goroutines overlap in it is ChargeControl's subject.  A price of 0      *)
(* stands for an hour without a price, which the code treats alike.        *)
(***************************************************************************)
EXTENDS Ordering, SequencesExt

CONSTANTS
  Horizon,           \* the half hours with prices: 0 .. Horizon - 1
  DayUnits, DueAt,   \* length of a day; time of day of the deadline
  Prices, MaxPrice,  \* prices of an hour; scheduler.max_price, 0 = no limit
  AutoPower, Powers, \* the charging power; powers of a forced override
  ChargeHeadroom,    \* percent
  Needs,             \* energies that may be missing from the target
  MaxLen, MaxOverride, \* length of an override; overrides at a time
  MaxChange          \* bound: changes of overrides or of the car's charge

ASSUME PlanAssumption ==
  /\ Horizon \in Nat /\ MaxLen \in Nat
  /\ DayUnits \in Nat \ {0} /\ DueAt \in 0 .. DayUnits - 1
  /\ Prices \subseteq Int
  /\ AutoPower \in Nat \ {0} /\ Powers \subseteq Nat \ {0}

VARIABLES
  moment,            \* now
  quote,             \* Tariff.Rates: the price of each hour; no hours as long as none is known
  config,            \* does SetConfig or configFromStore give a Config?
  need, soc,         \* TargetEnergy; CurrentSoC: below min_soc, above skip_above_soc
  overrides,         \* schedule_overrides: [from, to, power], power 0 = block
  plan,              \* Scheduler.current: its slots
  due,               \* a notification waits for the loop
  open,              \* a transaction is open
  pinned,            \* history: the periods that the last recompute has kept
  daysOff,           \* history: the days the user has cancelled and not restored
  changes            \* what the bound counts

planVars == <<moment, quote, config, need, soc, overrides, plan, due, open, pinned, daysOff, changes>>

\* What the car or the user and the tariff tell.
inputs == <<quote, config, need, soc>>

NoPrices == [h \in {} |-> 0]
AllPrices == [0 .. Horizon \div 2 - 1 -> Prices]

PlanInit ==
  /\ moment = 0
  /\ quote \in {NoPrices} \cup AllPrices
  /\ config \in BOOLEAN
  /\ need = Max(Needs)
  /\ soc \in {"low", "middle", "high"}
  /\ overrides = {} /\ plan = {} /\ due = TRUE /\ open = FALSE
  /\ pinned = {} /\ daysOff = {} /\ changes = 0

-----------------------------------------------------------------------------
(* Periods [from, to, power, price] and slots [deadline, off, periods].    *)

Total(f(_), S) == FoldSet(LAMBDA x, sum : sum + f(x), 0, S)

Overlaps(p, q) == p.from < q.to /\ q.from < p.to
Energy(periods) == Total(LAMBDA p : p.power * (p.to - p.from), periods)
Now(p) == p.from <= moment /\ moment < p.to /\ p.power > 0

InOrder(periods) == Ordered(periods, LAMBDA p, q : p.from < q.from)
SlotsInOrder == Ordered(plan, LAMBDA s, t : s.deadline < t.deadline)

\* Schedule.ActivePeriods.
ActivePeriods ==
  LET with(all, s) == IF s.off THEN all ELSE all \o InOrder(s.periods)
  IN  FoldLeft(with, <<>>, SlotsInOrder)

\* nextDeadlineAfter: a deadline that is now is not the next one.
nextDeadlineAfter(t) ==
  LET today == (t \div DayUnits) * DayUnits + DueAt
  IN  IF today > t THEN today ELSE today + DayUnits

\* The first deadline of ComputeSchedule may be now.
FirstDeadline ==
  LET today == (moment \div DayUnits) * DayUnits + DueAt
  IN  IF today >= moment THEN today ELSE today + DayUnits

-----------------------------------------------------------------------------
(* What may be planned automatically.                                      *)

\* autoRates: above skip_above_soc only negative prices, if there are any.
AutoHours ==
  {h \in DOMAIN quote : quote[h] # 0 /\ (soc = "high" => quote[h] < 0)}

\* LoadOverrides: those that have not ended.
Loaded == {o \in overrides : o.to > moment}

\* fragmentRates: what the overrides leave of each hour, cut at their edges.
fragmentRates ==
  LET Free(t) == ~\E o \in Loaded : o.from <= t /\ t < o.to
      Whole(h) == [from |-> 2 * h, to |-> 2 * h + 2, power |-> AutoPower, price |-> quote[h]]
      Half(h, t) == [Whole(h) EXCEPT !.from = t, !.to = t + 1]
  IN  UNION {IF Free(2 * h) /\ Free(2 * h + 1)
             THEN {Whole(h)}
             ELSE {Half(h, t) : t \in {u \in {2 * h, 2 * h + 1} : Free(u)}} : h \in AutoHours}

\* max_price counts unless the charge is below min_soc.
Affordable(p) == MaxPrice = 0 \/ soc = "low" \/ p.price <= MaxPrice

WindowRates(start, deadline) ==
  {p \in fragmentRates : p.to > start /\ p.from < deadline /\ Affordable(p)}

\* An hour that an override has shortened still counts as an hour.
hoursNeeded(energy) ==
  (energy * (100 + ChargeHeadroom) + 200 * AutoPower - 1) \div (200 * AutoPower)

\* computeSlot takes the cheapest; the sort leaves equal prices in any order.
computeSlot(rates, energy) ==
  {S \in kSubset(Min({hoursNeeded(energy), Cardinality(rates)}), rates) :
     \A p \in S, q \in rates \ S : p.price <= q.price}

Slot(deadline, periods) == [deadline |-> deadline, off |-> FALSE, periods |-> periods]

\* ComputeSchedule: the rest is planned before tomorrow's deadline.
ComputeSchedule(energy) ==
  LET today    == FirstDeadline
      tomorrow == today + DayUnits
      Later(S) == IF energy <= Energy(S) THEN {{}}
                  ELSE computeSlot(WindowRates(today, tomorrow), energy - Energy(S))
  IN  {{s \in {Slot(today, pair[1]), Slot(tomorrow, pair[2])} : s.periods # {}} :
         pair \in UNION {{<<S, T>> : T \in Later(S)} :
                          S \in computeSlot(WindowRates(moment, today), energy)}}

-----------------------------------------------------------------------------
(* Overrides, cancellations and the slot in progress are merged.           *)

\* buildForcePeriods (the average price of a period is left out).
ForcePeriods ==
  {[from |-> o.from, to |-> o.to, power |-> o.power, price |-> 0] :
     o \in {x \in Loaded : x.power > 0}}

\* The automatic schedule covers what the forced periods do not.
AutoTarget == Max({0, need - Energy(ForcePeriods)})

AutoSchedules ==
  IF AutoTarget = 0 \/ AutoHours = {} THEN {{}} ELSE ComputeSchedule(AutoTarget)

\* A mutant: a period joins only a slot that exists.
MergedIntoSlots(auto) ==
  {[s EXCEPT !.periods = @ \cup {f \in ForcePeriods : nextDeadlineAfter(f.from) = s.deadline}] :
     s \in auto}

\* mergeForcesIntoSchedule: each period joins the slot of its deadline.
mergeForcesIntoSchedule(auto) ==
  {Slot(d, (UNION {s.periods : s \in {t \in auto : t.deadline = d}})
           \cup {f \in ForcePeriods : nextDeadlineAfter(f.from) = d}) :
     d \in {s.deadline : s \in auto} \cup {nextDeadlineAfter(f.from) : f \in ForcePeriods}}

\* Slots of a day that was cancelled stay cancelled.
WithCancellations(slots) ==
  {[s EXCEPT !.off = \E t \in plan : t.deadline = s.deadline /\ t.off] : s \in slots}

\* activeSlot: the first slot with a period that contains now.
activeSlot ==
  LET in == {s \in plan : ~s.off /\ \E p \in s.periods : Now(p)}
  IN  {s \in in : \A t \in in : s.deadline <= t.deadline}

activePeriod(slot) ==
  CHOOSE p \in slot.periods : Now(p) /\ \A q \in slot.periods : Now(q) => p.from <= q.from

\* mergeActiveSlotPreservingActive and mergeInProgressSlot: the slot keeps its
\* periods up to the one in progress; the new ones follow it.
mergeActiveSlot(slots, in) ==
  LET a == activePeriod(in)
      new == UNION {s.periods : s \in {t \in slots : t.deadline = in.deadline}}
  IN  {s \in slots : s.deadline # in.deadline} \cup
      {[in EXCEPT !.periods = {p \in @ : p.from <= a.from} \cup {p \in new : p.from >= a.to}]}

\* Without a new schedule the slot in progress is kept as it is.
Planned(slots) ==
  IF activeSlot = {} THEN WithCancellations(slots)
  ELSE IF slots = {} THEN activeSlot
  ELSE mergeActiveSlot(WithCancellations(slots), CHOOSE s \in activeSlot : TRUE)

\* The periods kept as they were.
Pinned(slots) ==
  UNION {IF slots = {} THEN s.periods ELSE {activePeriod(s)} : s \in activeSlot}

\* recompute is frozen while a transaction is open, whose end notifies again, and
\* returns without a Config, and with neither prices nor forced periods.
Returns == open \/ ~config \/ (DOMAIN quote = {} /\ ForcePeriods = {})

Recompute ==
  /\ due' = FALSE
  /\ IF Returns
     THEN UNCHANGED plan /\ pinned' = UNION {s.periods : s \in plan}
     ELSE \E auto \in AutoSchedules :
            /\ plan' = Planned(mergeForcesIntoSchedule(auto))
            /\ pinned' = Pinned(mergeForcesIntoSchedule(auto))
  /\ UNCHANGED <<moment, inputs, overrides, open, daysOff, changes>>

-----------------------------------------------------------------------------
(* The user, the car and the clock.                                        *)

\* InsertOverride rejects what overlaps an override, ended ones included.
InsertOverride(o) ==
  /\ \A x \in overrides : ~Overlaps(o, x)
  /\ overrides' = overrides \cup {o}

CreateOverride ==
  /\ Cardinality(overrides) < MaxOverride /\ changes < MaxChange
  /\ \E from \in 0 .. Horizon - 1, len \in 1 .. MaxLen, power \in {0} \cup Powers :
       LET o == [from |-> from, to |-> from + len, power |-> power]
       IN  o.to > moment /\ o.to <= Horizon /\ InsertOverride(o)
  /\ due' = TRUE /\ changes' = changes + 1
  /\ UNCHANGED <<moment, inputs, plan, open, pinned, daysOff>>

DeleteOverride ==
  /\ changes < MaxChange
  /\ \E o \in overrides : overrides' = overrides \ {o}
  /\ due' = TRUE /\ changes' = changes + 1
  /\ UNCHANGED <<moment, inputs, plan, open, pinned, daysOff>>

\* CancelSlot and RestoreSlot.
ToggleSlot ==
  /\ changes < MaxChange
  /\ \E s \in plan :
       /\ plan' = (plan \ {s}) \cup {[s EXCEPT !.off = ~@]}
       /\ daysOff' = IF s.off THEN daysOff \ {s.deadline} ELSE daysOff \cup {s.deadline}
  /\ changes' = changes + 1
  /\ UNCHANGED <<moment, inputs, overrides, due, open, pinned>>

\* The car or the user reports another state of charge, target, or none.
ChargeChanges ==
  /\ changes < MaxChange
  /\ \/ config' = FALSE /\ UNCHANGED <<need, soc>>
     \/ config' = TRUE /\ need' \in Needs /\ soc' \in {"low", "middle", "high"}
  /\ due' = TRUE /\ changes' = changes + 1
  /\ UNCHANGED <<moment, quote, overrides, plan, open, pinned, daysOff>>

\* The first answer of the price service; it notifies nobody.
PricesArrive ==
  /\ DOMAIN quote = {}
  /\ quote' \in AllPrices
  /\ UNCHANGED <<moment, config, need, soc, overrides, plan, due, open, pinned, daysOff, changes>>

TransactionOpens ==
  /\ ~open /\ changes < MaxChange
  /\ open' = TRUE
  /\ changes' = changes + 1
  /\ UNCHANGED <<moment, inputs, overrides, plan, due, pinned, daysOff>>

TransactionEnds ==
  /\ open
  /\ open' = FALSE /\ due' = TRUE
  /\ UNCHANGED <<moment, inputs, overrides, plan, pinned, daysOff, changes>>

Advance ==
  /\ moment < Horizon
  /\ moment' = moment + 1
  /\ UNCHANGED <<inputs, overrides, plan, due, open, pinned, daysOff, changes>>

PlanNext ==
  \/ Recompute \/ CreateOverride \/ DeleteOverride \/ ToggleSlot
  \/ ChargeChanges \/ PricesArrive \/ TransactionOpens \/ TransactionEnds \/ Advance

PlanSpec == PlanInit /\ [][PlanNext]_planVars

-----------------------------------------------------------------------------
(* BuildProfile.                                                           *)

Limit(at, power) == [at |-> at, power |-> power]

\* A period that continues the last limit moves its end; any other begins a limit,
\* after a pause if there is a gap.
WithPeriod(acc, p) ==
  IF acc.out # <<>> /\ p.from = acc.end /\ p.power = Last(acc.out).power
  THEN [acc EXCEPT !.end = p.to]
  ELSE [out |-> acc.out \o (IF acc.out # <<>> /\ p.from > acc.end
                            THEN <<Limit(acc.end, 0)>> ELSE <<>>)
                \o <<Limit(p.from, p.power)>>,
        end |-> p.to]

NoProfile == [validFrom |-> 0, validTo |-> 0, limits |-> <<>>]

\* A mutant: valid no longer than to the end of the first period.
ProfileOfFirst ==
  LET done == FoldLeft(WithPeriod, [out |-> <<>>, end |-> 0], ActivePeriods)
  IN  IF ActivePeriods = <<>> THEN NoProfile
      ELSE [validFrom |-> Head(ActivePeriods).from, validTo |-> Head(ActivePeriods).to,
            limits |-> done.out \o <<Limit(done.end, 0)>>]

\* Limits from a time on, pauses where periods do not touch, and one in the end; the
\* profile is valid from the first period's start to the last period's end.
BuildProfile ==
  LET done == FoldLeft(WithPeriod, [out |-> <<>>, end |-> 0], ActivePeriods)
  IN  IF ActivePeriods = <<>> THEN NoProfile
      ELSE [validFrom |-> Head(ActivePeriods).from, validTo |-> Last(ActivePeriods).to,
            limits |-> done.out \o <<Limit(done.end, 0)>>]

\* What the charger makes of it (external): the last limit that has begun, as long
\* as the profile is valid; outside that time the profile sets no limit.
LimitsAt(profile, t) ==
  LET begun == {i \in DOMAIN profile.limits : profile.limits[i].at <= t}
      valid == profile.validFrom <= t /\ t < profile.validTo
  IN  IF valid /\ begun # {} THEN {profile.limits[Max(begun)].power} ELSE {}

-----------------------------------------------------------------------------
(* Properties.                                                             *)

\* The plan has been computed since the last change.
Settled == ~due /\ ~open

\* A block "marks a window where the auto-scheduler must not place charging", a
\* forced one "where charging must occur".  What a recompute plans to come keeps
\* clear of every block, and every forced window is in an active slot unless the
\* user has cancelled its day.  Not covered: the periods that the recompute has
\* kept as they were, the one in progress or, where it has returned early, all of
\* them; and forced windows without a Config, when recompute plans nothing.
OverridesHold ==
  Settled =>
    \A o \in Loaded :
      IF o.power = 0
      THEN \A p \in (UNION {s.periods : s \in plan}) \ pinned : p.from > moment => ~Overlaps(p, o)
      ELSE config =>
             \/ \E s \in plan : ~s.off /\ \E p \in s.periods :
                  p.from = o.from /\ p.to = o.to /\ p.power = o.power
             \/ nextDeadlineAfter(o.from) \in daysOff
             \/ \E p \in pinned : Overlaps(p, o)

\* The profile that applyProfile would build from the schedule at any time sets, from
\* now on, within every active period the power of the schedule shown to the user,
\* and outside all of them a pause or, before the first and after the last, nothing:
\* a validity that ends too early or too late, or a missing pause, breaks it.  (A
\* forced period may reach past a deadline and then overlap the next slot, whose end
\* ends both in the profile: the time of such periods is left out.)
ProfileIsPlan ==
  LET periods == Range(ActivePeriods)
      profile == BuildProfile
      In(t) == {p \in periods : p.from <= t /\ t < p.to}
      PowersAt(t) == {p.power : p \in In(t)}
  IN  \A t \in moment .. Horizon :
        (\A p \in In(t) : p.to <= nextDeadlineAfter(p.from)) =>
          IF In(t) = {} THEN LimitsAt(profile, t) \subseteq {0}
          ELSE LimitsAt(profile, t) # {} /\ LimitsAt(profile, t) \subseteq PowersAt(t)
=============================================================================
