# grosz: a formal model

grosz is a home EV charging service: an OCPP 1.6 central system for a charger
(a myenergi Zappi behind its vendor's cloud proxy), a price-driven scheduler,
clients of a tariff (Pstryk), of a car (Renault) and of an energy meter, an
SQLite store and a web interface, all goroutines of one Go process. This
directory models its stateful core in TLA+, checks it with TLC and proves part
of it with TLAPS. Source paths below are relative to `src/`.

## 1. Inventory

| Component | State it keeps | Operations | Hard behaviour | What makes it correct |
|---|---|---|---|---|
| OCPP transactions (`internal/ocpp/handler.go`, `connector.go`, `server.go`; tables `charging_sessions`, `connector_state`) | per connector: status, transaction, last energy; `nextTxnID`; session rows; the persisted connector row | StatusNotification, StartTransaction, StopTransaction, MeterValues, finalize on a stop status, hydration after a restart | handlers run concurrently and commit statement by statement; confirmations get lost and calls are repeated; crashes between writes | ids unique, a session closed once and final, energy within the register, memory and tables in step |
| Charge control (`internal/scheduler/scheduler.go`) | schedule, its persisted copy, mode, pending mode, command cooldowns, recorded profile, notification channel | recompute, control, cancel and restore a slot, clear, mode changes, boot hook | loop, mode timer and web goroutines share fields, partly without the lock; requests block up to 30 s; crashes; a charger that restarts | what is stored is what is in memory, the recorded profile is the charger's, cancellations and the slot in progress outlive a recompute, off stops and slots start |
| Schedule computation (`ComputeSchedule`, `fragment.go`, `overrides.go`, `BuildProfile`) | table `schedule_overrides` | select the cheapest hours per deadline window, split rates at overrides, build the OCPP profile | boundaries of hours, days and deadlines; what was planned before | blocks stay free and forces are planned, the profile is the plan |
| OCPP commands (`internal/ocpp/requests.go`) | requests under way | remote start/stop, set/clear profile, configuration with retries | timeouts race answers | at most one command per decision |
| Stale-status checker (`internal/ocpp/statuscheck.go`) | last status per connector | periodic TriggerMessage | its sleep, cooldown and setting interfere; lost notifications | a silent connector is asked within a bound |
| Renault poller (`internal/vehicle/renault.go`) | poll timers, tier and back-off state, cached car data | periodic poll, plug poll, manual poll, write of the charge limit | timers versus polls, rate limits, reads overtaken by writes | a plug event leads to a poll; the stored state and limits follow the car's; no invented limit is written |
| Renault authentication (`renault.go`, `renault_tfa.go`) | session, tokens, pending two-factor login | login, refresh, two-factor flow | expiry, transport errors, concurrent calls, crashes | only a trusted device is kept; a completed link works; a dead session leads to a new login |
| Pstryk client (`internal/tariff/pstryk.go`; tables `rates`, `pstryk_consumption`) | cached rates, consumption frames | fetch, fill gaps, cap | partial days, gaps, placeholder prices, two writers | prices known in time, no hole behind a backfill, rows return to the published values |
| Energy meter (`internal/meter/meter.go`; table `meter`) | last counters, offsets | poll, adjust for counter resets | resets, restarts and failed writes | monotone readings, no invented energy, closed days whole |
| Idle consumption (`internal/store/idle.go`) | none (SQL and arithmetic) | energy per window outside sessions | overlapping, open and straddling sessions | idle energy is that of the uncovered time |
| Web server (`internal/web`) | login sessions, WebAuthn challenges | REST handlers that call the others | expiry, concurrent logins | |
| Server-sent events (`internal/web/sse.go`) | subscribers with bounded channels | subscribe, broadcast, close | slow clients, close during broadcast | no send on a closed channel, no blocked broadcaster |
| Zappi setup, ABRP upload, event log, database helpers, wiring (`cmd/grosz/main.go`), browser UI | configuration or none | sequential runs, inserts, rendering | | |

How they interact: the charger's calls run OCPP handlers, which call hooks set
in `main.go`: connector status and transaction end poke the scheduler's channel,
plug events the Renault poller, BootNotification resets the scheduler's profile
state. The scheduler reads the connector through `ConnectorStatus` and sends
requests back through the OCPP server. The web handlers call the scheduler
directly on their own goroutines. Renault updates and settings reach it through
the settings table and `Notify`/`ReloadConfig`.

`PROJECT.json` lists these components with their status and, under `hazards`,
the places where each can go wrong.

| Module | Models | Checked by |
|---|---|---|
| `OcppSessions`, `SessionLedger` | transactions and their ledger (section 2) | `MCOcppSessions`, `OcppSessionsProofs` |
| `ChargeControl` | the scheduler's goroutines (section 3) | `MCChargeControl`, `ChargeControlProofs` |
| `RenaultAuth`, `RenaultPoll`, `SocTarget` | the car (section 4) | `MCFollow`, `MCParts`; `RenaultAuthProofs`, `PeriodicProofs`, `SocTargetProofs` |
| `RateRefresh`, `Backfill`, `Metering`, `IdleWindows` | prices and energy (section 5) | `MCFollow`, `MCParts`; `PeriodicProofs`, `ConsumptionProofs` |
| `SlotPlan`, `StatusCheck` | the computed plan, the stale-status checker (section 6) | `MCParts`; `SlotPlanProofs`, `PeriodicProofs` |
| `Ordering` | a set put in order (`sort.Slice`, `ORDER BY`), used by `SlotPlan` and `IdleWindows` | `DataProofs` |

## 2. OcppSessions

**State.** The charger (external): its status, transaction, import register and
an unconfirmed StopTransaction. Memory: the `Connector` (`conn`), `nextTxnID`,
and per handler goroutine a program counter and its local variables. The
database: `sessions` and `rows` (table `charging_sessions`), `cs`
(`connector_state`), `logged` (the newest MeterValues event of a transaction).
History variables count stop markers and SoC updates and remember which ids
reached the charger.

**Actions and code.** A handler is cut after each of its SQL writes, so two
handlers interleave between statements as they may in the process; reads
directly before a write share its step, except where the code reads, decides
and writes in separate statements (ActiveSession, then StopSession).

| Code | Actions |
|---|---|
| `OnStatusNotification` | `StatusBegin`, `StatusUpsert` |
| `finalizeSessionOnStop` | `FinalizeRead`, `FinalizeActive`, `FinalizeEnergy`, `FinalizeStop`, `FinalizeAfter` |
| `OnStartTransaction` | `StartBegin`, `StartInsert`, `StartUpsert` |
| `OnStopTransaction` | `StopBegin`, `StopUpsert`, `StopActive`, `StopClose`, `StopAfter` |
| `OnMeterValues` | `MeterValues` |
| `NewServer`, `hydrateAllFromStore` | `Crash` |
| the charger | `ChargerStatus`, `ChargerStart`, `ChargerDelivers`, `ChargerStop`, `ChargerGivesUp` |

Abstracted: cost, distance and the kWh/Wh scaling; several connectors and charge
points (the code treats them independently); the websocket itself (a lost
confirmation and a second goroutine stand for it).

**What the charger is assumed to do** (OCPP 1.6): it queues transaction
messages, so meter values wait for an unconfirmed start or stop; it leaves
Available before a transaction and keeps the cable locked during one. With
`MayLose` it may miss a confirmation and repeat the call; with `MayGiveUp` it may
drop a StopTransaction.

**The abstract specification.** `SessionLedger` is what a bill relies on: an
entry is opened once, at a register value of its past, and closed once with an
energy the register has advanced since. `OcppSessions` implements it under the
mapping "entry = status, start and energy of the row, register = the charger's"
(`LedgerSpec`).

**Runs.**

| Run | Instance | Shows |
|---|---|---|
| `sessions_serial` | 1 goroutine, 2 transactions, register 0..2, 1 crash, losses, drops | type correctness, unique ids, one SoC update, memory and tables in step, start values kept, energy within the register |
| `sessions_overlap` | 2 goroutines, 1 transaction, register 0..1, 1 crash, losses | closing races: one marker, nothing rewritten, `SessionLedger` implemented |
| `sessions_reliable` | 1 goroutine, no faults, register 0..3 | exact energies, no double billing, no phantom markers |
| `sessions_live` | 1 goroutine, losses, 1 crash, fair | an ended transaction is closed in the end |

The bounds reach the interesting cases: two transactions are needed for an id to
be reissued or for a session to be taken for another, one for a closing race;
one crash can fall between any two statements, and what it leaves behind is
the same whatever came before; two register units separate "no energy", "some"
and "more later". Goroutines are interchangeable (symmetry in the safety run
with two). What overlap, several transactions and several crashes do together is
the proofs' part (section 8).

Some properties are stated for less than everything the process can do, because
the code does not keep them beyond that: with two overlapping handlers the SoC
estimate can grow twice for one transaction (`handler.go:430` calls `socUpdater`
whatever `StopSession` returned) and `connector_state` can lose an update until
the next status report (`handler.go:147`); a crash between the plug marker and
the row it is compared with repeats the marker (`handler.go:115`). The notes of
the hazards in `PROJECT.json` say this next to each property.

**Fairness** (`sessions_live`): a handler that runs goes on (weak fairness: the
Go scheduler and SQLite's locks are fair in this sense), and a charger that has
an unconfirmed StopTransaction keeps repeating it whenever it may call (strong
fairness, because the goroutine is busy with other calls in between; repeating
is what OCPP requires of the charger).

## 3. ChargeControl

**State.** Settings `mode` and `persisted`; the fields of `Scheduler` (schedule,
pending mode, notification token, recorded profile, cooldowns) and, for the loop,
each mode-timer callback and each web request, a program counter with locals;
`line`, the OCPP requests under way; the charger, the remote commands its cloud
proxy holds, the car's plug report and the clock.

A schedule is the set of its active and of its cancelled slots, one period per
slot. A pointer to a schedule (`prev`, and the argument of `applyProfile`) is
modelled as what it is: it shares the object that CancelSlot and RestoreSlot
write into until `s.current` is replaced (`Held`, `Detached`).

| Code | Actions |
|---|---|
| `loop` | `LoopBoot`, `RecomputeTick`, `ControlTick`, `Notified` |
| `controlChargingInternal`, `sendStartForced`, `sendStop` | `Control`, `ControlStatus`, `ControlCooldown`, `ControlSend`, `ControlAccepted`, `ControlFailed` |
| `recompute`, `preserveActiveSlot`, `mergeActiveSlotPreservingActive` | `Recompute`, `RecomputePlan`, `RecomputeWrite` |
| `applyProfile` | `ApplyProfile`, `ProfileInstalled`, `ProfileAnswered`, `ProfileFailed` |
| `saveCurrent` | `Save`, `SaveWrite` |
| `ClearSchedule` | `Clear`, `ClearStatus`, `ClearSent`, then `Save` |
| `RequestModeChange`, `applyPendingMode`, `OnModeChanged` | `RequestModeChange`, `ApplyPendingMode`, then clear, control, `NotifyImmediate` |
| `CancelSlot`, `RestoreSlot`, `SetConfig`, `handleDeleteSchedule` | actions of the same names |
| `ResetProfileState` and the boot hook | `BootNotification` |
| `New`, `loadPersistedSchedule` | `Crash` |

Abstracted: what `recompute` plans is any set of slots that have not ended (the
tariff, SoC and override inputs decide it; their arithmetic is module
`SlotPlan`), or an early return; the plug check is one Boolean that the
world sets; `scheduler.enabled` and a configured charge box are taken as set;
the debounce of `Notify` is part of the arrival of its token. `UpdateLivePower`
has no caller. Time is untimed except for one fact: the 3 s debounce means that
a mode callback has returned or waits for the charger when the next one fires
(`Debounced`).

**Runs.**

| Run | Instance | Shows |
|---|---|---|
| `control_serial` | one call at a time; modes off and schedule, all page operations, charger reboots, 1 crash, 1 slot | type correctness; recorded profile = charger's; stored schedule = the one in memory; a cancellation holds until it is restored, cleared, or a schedule has no slot for its day |
| `control_manual` | one call at a time, three modes, timeouts and disconnects, page operations except SetConfig, 1 slot that begins and ends between calls | the last requested mode applies; off and force leave no schedule; the slot in progress survives every recompute |
| `control_live_overlap` | loop and mode timer interleaved, modes off and force, plug reports, fair | off stops a charge; force starts a waiting car |
| `control_left_profile` | violation: loop and mode timer interleaved | a recompute under way writes after the clear |
| `control_forgotten` | violation: one call at a time, only cancel and restore | a cancelled slot is active again after a recompute that planned nothing for its day |

Runs with `Serial = TRUE` say what holds as long as calls do not overlap, which
is the usual case in this service (a call lasts milliseconds unless the charger
is slow to answer); `control_left_profile` is one of these properties without that
restriction, with a trace of about twenty steps, and `control_forgotten` is
`CancellationHolds` without its exception. One slot suffices: it may be planned or
not, cancelled, in progress or past, and no property relates one slot to another
(the proofs, section 8, are for any number). `MaxQueue` = 1 remote command of a type held by
the proxy: the scheduler never looks at it, so more would only repeat commands.

As for the sessions, properties are stated within what the code keeps. When calls
overlap, the later store of `saveCurrent` can carry the older schedule (310), and
a mode callback overtaken while `ClearSchedule` waits still controls with its own
mode (867). A lost answer to SetChargingProfile leaves the older hash on record
(1512), so `control_serial` has no timeouts. A slot that begins between the
sampling (1209) and the assignment (1384) of a recompute is dropped, so
`control_manual` lets the clock move only between calls. SetConfig recomputes in
every mode and a crash inside `applyPendingMode` leaves the old schedule in
mode off (830), so `control_manual` has neither. Remote commands are spaced by a
cooldown that is checked right before the command; it matters when two goroutines
check it at a time, and then it fails (section 9), so no property is made of it.
(Lines of `internal/scheduler/scheduler.go`.)

**Fairness** (`control_live_overlap`): every goroutine that can take a step takes one;
the 30 s ticker fires whenever the loop selects again (strong, because calls
keep the loop busy in between); timers and cooldowns, which are wall-clock time,
expire; the proxy relays what it holds; and a command that is sent again and
again is accepted some time (strong fairness over a lossy link). Nothing is
assumed of the user, the car or the clock.

## 4. The car

**`RenaultAuth`** (`renault.go`: `ensureAuth`, `NewRenaultWithURL`;
`renault_tfa.go`). State: the login fields of `Renault`, their settings on disk,
Gigya (which sessions it accepts, which devices it trusts, whether it enforces
two-factor login) and, for the poll loop and each web request, a program counter
with locals. Each HTTP call, each lock section and each settings write others
can see is a step.

| Code | Actions |
|---|---|
| `pollOnce`, `SetSocTarget` up to their API call | `BeginCall`, `CallOk`, `CallRejected`, `CallLost`, `ClearFlag` |
| `ensureAuth` | `EnterAuth`, `CheckSession`, `Login*`, `StoreSession`, `ReadSession`, `Person*`, `Jwt*`, `DropStored`, `Account*`, `AuthLost` |
| `StartTFA`, `persistDevice` | `BeginStart`, `Bootstrap*`, `Start*`, `KeepSession`, `CodeSent` |
| `CompleteTFA`, `finalizeTFA`, `lockIn` | `BeginComplete`, `Code*`, `VerifyLost`, `LockIn`, `Persist`, `Mint*`, `RecordLink` |
| `NewRenaultWithURL` | `Restart` |
| lifetimes of session, JWT and pending verification | `SessionExpires`, `JwtExpires`, `TfaExpires` |

Tokens are opaque; a fresh one is the least not held anywhere, so few suffice.
Promised: the device on disk is trusted (`DeviceOnDisk`), a completed
verification is followed by a poll that succeeds (`LinkTakes`). The run
`renault_stuck` refutes the third promise, `NeverSilentlyStuck`, which two
comments make.

**`RenaultPoll`** (`loop`, `pollOnce`, `Trigger`, `SchedulePlugPoll`): the two
one-element channels, the three timers, the second try after a failure, and the
plug as the car, Kamereon and the settings have it. Timers count down in a `Tick`;
a poll takes no time, but the plug may move between its steps. Promised: the
stored plug state follows within one slow interval per failure
(`PlugStateFollows`); a reported transition is polled within `plugPollDelay`
(`TransitionPolled`).

**`SocTarget`** (`pollTierB`, `getSocLevel`, `SetSocTarget`, `putSocLevel`): the
car's floor and target, their settings and cache, the back-off, one read and one
write under way. A limit of 0 is an unknown or missing one. Promised: the car's
floor is always one its owner chose (`FloorIsReal`), the stored target keeps
coming back to the car's (`TargetFollows`).

## 5. Prices and energy

**`RateRefresh`** (`refreshLoop`, `fetchAndStore`, `filterPlaceholders`,
`NewPstrykWithURL`): what is known of today's and tomorrow's prices, in memory and
in `tariff_rates`, and the pace of the ticker. After midnight the
prices of yesterday stay in memory, where `len(p.rates) > 0` takes them for prices
(`past`); the pace of the ticker and the reuse of cached prices follow from that.
`PricesFollow`: published prices are known within an hour per failed fetch.

**`Backfill`** (`liveLoop`, `RefreshTodayConsumption`, `fetchConsumptionAndStore`,
`FetchConsumption`, `RebuildDailyIdle`): the rows of `pstryk_consumption` by hour,
with the revision of each, the idle row of each day as the set of hours it
counts, and three goroutines (live loop, the first cycle after a start, ticked
cycles) cut at the answer of each request and at each write. `CycleFillsSpan`: no
hole behind a cycle. `TodayFollows`, `IdleFollows`: rows and idle rows keep coming
back to what Pstryk publishes.

**`Metering`** (`poll`, `adjustEnergy`, `snapshotIdle`, `SnapshotDailyIdle`,
`PurgeMeterReadings`): register, offset in memory and on disk, the readings of
each day as count, minimum and maximum, idle rows. Cut where the process may die
between two writes. `SeriesGrows`, `NoEnergyInvented`, `ClosedDayIsWhole`.

**`IdleWindows`** (`nonChargingWindows`, `mergeWindows`, `invertWindows`,
`computeDailyIdle`): the arithmetic on sequences of windows, in half hours, as
operators; `IdleIsUncovered` compares it with the definition a reader would
write: the sum over the half hours without a session. `Scale`, a multiple of
every length a gap may have, keeps the spread of a gap's energy over its hours
exact in integers, where the code divides floating-point numbers; the day begins
at a half hour and ends at a full one, as a local midnight does.

## 6. Plan and status

**`SlotPlan`** (`ComputeSchedule`, `computeSlot`, `fragmentRates`, `overrides.go`,
`nextDeadlineAfter`, the merge of the slot in progress, `BuildProfile`): what
`ChargeControl` leaves as a free choice, computed in half hours over hourly prices
from the user's overrides, cancellations and what was planned before.
A recompute may also return and leave the plan as it is (`Returns`): while a
transaction is open, without a Config, and with neither prices nor forces.
`OverridesHold`: what a recompute plans to come keeps clear of blocks, and every
forced window is in an active slot unless the user has cancelled its day. The
periods it keeps as they were (`pinned`: the one in progress, a slot preserved whole,
or the whole plan after an early return) are left out; they are the code's choice
and section 9 says what it costs. `ProfileIsPlan`: the profile that would be sent is
valid whenever the plan charges and sets the power the plan shows then; outside the
plan's periods it pauses the charger or is not valid (`ValidFrom`, `ValidTo`).

**`StatusCheck`** (`statuscheck.go`): the sleep, the cooldown and the threshold,
all from one setting that may change meanwhile, and the age of each connector's
last notification. `SilenceIsAsked`: a silent connector is asked within the
longest sleep plus the threshold.

## 7. The runs `follow`, `parts` and `renault_stuck`

`MCFollow` and `MCParts` each put parts that share nothing into one run: the
initial states are the union of the parts' (`part` says which), and a behaviour
only takes steps of its own part, the others standing in one initial state. So
the state spaces add up, and each property is checked exactly as in a run of its
own; `AtRest` picks standing states in which the other parts' properties hold.
In `MCFollow` the parts also share fairness conditions: a behaviour is one of a
single part, so a condition over the disjunction of one action of each is the
condition on that part's action.

| Run | Instance | Shows |
|---|---|---|
| `follow` | login: one page, 2 mishaps (lost call, expiry, crash, charge-limit call) of at most one each, 1 device id; limits: 2 values each, 2 writes, 1 change by the owner, 2 failures, 1 restart; backfill: hours 2..4 in days of 2, chunk 1, window 1, cap 2, 1 mishap | `DeviceOnDisk`, `LinkTakes`; `FloorIsReal`, `TargetFollows`; `CycleFillsSpan`, `TodayFollows`, `IdleFollows` |
| `parts` | poller: delay 1, intervals 2 and 3, 2 plug moves, 2 failures, 1 restart; meter: 2 units consumed from register 0 or 3, 3 days, 2 troubles; prices: a day of 10 units, 2 failures, 1 restart; idle: a day of 4 half hours, 2 sessions; plan: 6 half hours, 2 overrides, 2 changes; status: 2 connectors, thresholds 0, 2, 3 | `PlugStateFollows`, `TransitionPolled`; `SeriesGrows`, `NoEnergyInvented`, `ClosedDayIsWhole`; `PricesFollow`; `IdleIsUncovered`; `OverridesHold`, `ProfileIsPlan`; `SilenceIsAsked` |
| `renault_stuck` | violation: `RenaultAuth`, fair | the poller fails for ever and never asks for a code |

Why the bounds are enough. Login: the interesting cases are a rejection that
arrives after a new session is stored, and a crash or a lost call inside a
verification; each needs one mishap, and two allow any pair. Limits: two values
tell old from new; a write overtakes a read, and a second one begins
from what the first has left (one write is under way at a time: two pages that write
at once are not modelled). Backfill: a day of
two hours and a chunk of one give a cycle two chunks and a change of day; one
mishap falls at any point, and liveness starts over after it. Meter: two days end,
so that one is closed and purged; two troubles give a reset with a failed write,
or with a restart; register 3 is above the threshold from the start. Plan:
hourly prices of which one is negative and one positive, an override that may
begin within an hour, two deadlines. Status: two thresholds, so that a longer
setting may follow a shorter one, and `Old` beyond their sum. The larger
instances are the proofs' part.

`CHECK_DEADLOCK FALSE` in `parts`: the day of `IdleWindows` and the horizon of
`SlotPlan` end, and so does the bounded activity of the meter.

**Fairness** (`follow`, `renault_stuck`): weak fairness throughout. Login: the
poll loop polls again whenever it is idle, and whoever is in a call goes on (the
HTTP client has a timeout of 15 s); nothing is assumed of Gigya or the user.
Limits: the slow tier comes round, reads and writes end, and the age of the last
read and the back-off pass. Backfill: both tickers fire, and requests end.
Failures are bounded, so a promise "again and again" says that the program
recovers from any of them.

## 8. Proofs

`OcppSessionsProofs` proves, for any set of goroutines, any bounds on ids,
register values and crashes, and any combination of faults:

| Theorem | States | Inductive invariant |
|---|---|---|
| `TypeCorrect` | `TypeOK` | `TypeInv`: also, a handler past its lookup names an existing transaction (`HasTxn`), without which `StopSession` could be applied outside the table |
| `IdsUnique` | `IdsNeverReissued` | `IdInv`: every id in memory, in a handler, in the tables or at the charger is below `nextTxnID`; a confirmed id has a row, so the counter of a restart lies above it; no two handlers insert the same id |
| `CompletedFinal` | `CompletedIsFinal` | `IdInv` again: an insert always meets an absent row, and `StopSession` only an active one |
| `OneStopMark` | `StopMarkOnce` | `MarkInv`: markers inserted plus handlers about to insert one are at most one per transaction, and zero while the row is active |
| `BilledWithinRegister` | `NeverOvercounted` | `EnergyInv`: readings in memory, in events and in handlers never exceed the register, a row's start is at most any later reading of its transaction, and an energy in a handler is a difference of two such readings |
| `ImplementsLedger` | `LedgerSpec` | the three together: a row is inserted where none was, closed where one was open, with an energy in range; every other step is a stutter or lets the register advance |

Assumptions: `OcppAssumption` only (the constants' types). The argument is the
same each time: the invariant holds initially, one lemma per action or group of
actions shows that it is kept, frame lemmas dispose of the actions that leave it
alone, and PTL closes the induction.

What two overlapping handlers can break (section 9, and the hazards) holds when
they do not overlap, and what a lost message or a restart can break holds
without. OCPP allows the charger one outstanding call, so `CallsDoNotOverlap` (one
goroutine serves the charger) is its normal operation; `Reliable` adds that no
confirmation is lost, no call given up and no restart takes place. Both are
assumptions on the constants that the runs `sessions_serial` and
`sessions_reliable` satisfy.

| Theorem | States | Assuming | Inductive invariant |
|---|---|---|---|
| `TransactionIsTracked`, `OpenTransactionIsRecorded` | `TransactionTracked`, `OpenTransactionHasSession` | `CallsDoNotOverlap` | `TrackInv`: the charger's transaction is the one in `connector_state` and has a row with its start value; memory agrees except between a handler's first and last statement; a start that is being answered meets a charger without a transaction |
| `SoCUpdatedOnce` | `SoCOnce` | `CallsDoNotOverlap` | `SocInv`: the updater has run for completed sessions only, and not yet for the one a handler has just closed; an energy about to be stored with a sum belongs to a session that is still active |
| `NoPhantomMarkers` | `NoPhantomMarker` | `CallsDoNotOverlap`, no restart | `MarkerInv`: the status a handler diffs against is the charger's last marked one |
| `StopsRecordEnergy` | `StopRecordsEnergy` | `CallsDoNotOverlap`, `Reliable` | `ReliableInv`: an active session is the transaction the charger is in, has just ended or is being given, and a close about to happen carries the difference of its readings |
| `IntervalsDisjoint` | (`SessionsApart`) | `CallsDoNotOverlap`, `Reliable` | `ApartInv`: at most one session is open, it is the newest, and every reading of an older one is at most its start |
| `NoEnergyBilledTwice` | `NoDoubleBilling` | `CallsDoNotOverlap`, `Reliable` | none of its own: intervals that do not overlap sum to at most the register |

The last step is a sum over a set. The library's induction over data is out of
reach, but the naturals' well-foundedness is a library theorem without operator parameter: a set
of least size whose intervals sum to more than the register would lose its last
interval and still be one (`LeastNat`, and lemmas that unfold the sum one session
at a time).

`ChargeControlProofs` proves, for any number of timer callbacks, web requests,
slots, crashes and held commands, any modes, faults and user operations:

| Theorem | States | Assuming | Inductive invariant |
|---|---|---|---|
| `TypeCorrect` | `TypeOK` | | `TypeInv`: also, a goroutine about to send a command has chosen one |
| `LastModeApplies` | `LastRequestWins` | | `ModeInv`: the last request is the pending mode, or the setting when none is pending |
| `ScheduleSaved` | `PersistedIsCurrent` | `Serial` | `SaveInv`: stored and current schedule differ in their live slots only while a goroutine still has to save, and what it is about to store is the current one |
| `CancellationsKept` | `CancellationHolds` | `Serial` | `SlotInv`: active and cancelled slots are disjoint in memory and store; the previous schedule a recompute holds is the current one, and its plan keeps out what is cancelled. `CancelInv`: unless it has lapsed, a cancellation is in the schedule in memory, in the one about to replace it, and in the stored one as soon as the request has saved |
| `SlotInProgressKept` | `ActiveSlotKept` | `Serial`, `~ClockMidCall` | `SlotInv`: the slot sampled at the start is the one in progress, and the plan contains it |
| `ProfileRecorded` | `ProfileAsRecorded` | `Serial`, no lost answers or outages | `ProfileInv`: at most one request is under way, and none with a charger that restarted; between the installation of a profile and its answer the record may be behind, unless the charger forgot the profile meanwhile |
| `ManualModesCleared` | `ManualModeHasNoSchedule` | `Serial`, no SetConfig, no crash | `ManualInv`: outside mode schedule nobody recomputes, and there is no schedule unless its clear is the next step |

Apart from the conditions in the table the only assumption is
`ControlAssumption` (the constants' types; goroutines of the three kinds are
distinct). The conditional theorems share `SerialInv` (types, and at most one
goroutine is within a call) and footprint lemmas: a step of one goroutine leaves
the others' counters and locals alone, a world step leaves all of them alone, and
only three steps write the schedule. The conditions are needed: without `Serial`
TLC refutes `ManualModeHasNoSchedule` (`control_left_profile`), and section 3 says what the other conditions exclude.

The smaller modules, each for all values of its constants, under the named
assumption of the module (types and the order of periods):

| Module | Theorem | States | Argument |
|---|---|---|---|
| `RenaultAuthProofs` | `AuthTypeCorrect` | `AuthTypeOK` | places, fields and counters apart, one lemma per group of actions; any number of pages |
| | `DeviceStaysTrusted` | `DeviceOnDisk` | one page at a time; `Safe`: also the device in memory is trusted, or the one that was logged in with, wherever it is about to be persisted |
| `SocTargetProofs` | `SocTypeCorrect`, `FloorStaysReal` | `SocTypeOK`, `FloorIsReal` | `Sound`: every floor held anywhere (settings, cache, answer, request) is 0 or one the owner chose, and a request about to be sent has one |
| `PeriodicProofs` (`RenaultPoll`) | `PollTypeCorrect`, `PlugStateIsFollowed`, `TransitionIsPolled` | `PollTypeOK`, `PlugStateFollows`, `TransitionPolled` | what has passed plus what is left on the timer is within the bound; a failure buys one more interval. The two poll intervals are independent settings, so the bound is the longer of them, whichever it is |
| (`RateRefresh`) | `RateTypeCorrect`, `PricesAreFollowed` | `RateTypeOK`, `PricesFollow` | the same for the ticker, whose period is one of three |
| (`StatusCheck`) | `SilenceAsked` | `SilenceIsAsked` | `StatusInv`: the sleep left and the age of the last trigger make up the cooldown, and either the wait plus the sleep is within the bound or every connector is fresh enough to be asked by then |
| `SlotPlanProofs` | `PlanTypeCorrect`, `OverridesAlwaysHold`, `SlotsStayOrdered`, `SlotsStaySpanned`, `ProfileFollowsPlan` | `OverridesHold`, `ProfileIsPlan`; `PeriodsApart`, `SlotSpan` | `PlanInv`: stored overrides have a length and share no half hour; a fragment is clear of every override that has not ended, a forced period of every other; a cancelled slot's day is one the user has cancelled; an early return pins the whole plan; the merge with the slot in progress drops a forced period only if it overlaps the pinned one. `PeriodsApart`: what a slot is merged from (fragments, forced periods, the pinned ones) does not overlap pairwise, and a day is merged into one slot. `SlotSpan`: a slot's periods begin before its deadline and end after the deadline before. So the slots by deadline, and the periods of each by start, are the periods in the order of time, and the loop of `BuildProfile` keeps the invariant that its limits are those of the periods so far |
| `ConsumptionProofs` (`Metering`) | `MeterTypeCorrect`, `SeriesNeverFalls`, `SeriesIsConsumed`, `ClosedDaysStayWhole` | `MeterTypeOK`, `SeriesGrows`, `NoEnergyInvented`, `ClosedDayIsWhole` | the reading about to be stored is at least the latest; effective value and offset are within what was consumed; a closed day is before today and its readings are only purged |
| (`Backfill`) | `FillTypeCorrect`, `SpanIsFilled` | `FillTypeOK`, `CycleFillsSpan` | `Covering`: a cycle's window ended before it began, so the chunk in hand has a row for each of its hours; rows are never removed. That a stored newest row exists uses the library's well-foundedness of < on the naturals |
| (`IdleWindows`) | `IdleCountsUncovered` | `IdleIsUncovered` | `IdleTypes` is all a step needs: the clipped sessions are listed by start; the loop of `mergeWindows` keeps windows that leave time between them and cover what was covered; what `invertWindows` leaves holds every other half hour, and each in one gap; a sum over hours weighted by their overlap is the sum over the half hours held; and a sum over gaps of sums is the sum over their half hours. The tariffs bound each term of the cost |

`DeviceStaysTrusted` needs its condition: with two pages a StartTFA may put a
fresh device into memory between `lockIn` and `persistDevice` of the other page's
CompleteTFA, which then stores it. TLC finds this with `Pages = {w1, w2}`.

The two theorems about data that loops build up, `ProfileFollowsPlan` and
`IdleCountsUncovered`, rest on the lemmas of `DataProofs`. The library states
induction with an operator parameter, which cannot be instantiated; `NatInductive`
and `SetInductive` state it with a set of what is good instead, and follow from the
well-foundedness of < on the naturals. From them:

* the recursive functions inside the folds of the community modules exist
  (`FoldExists`, `FoldLeftExists`), so a fold is what its definition says;
* a finite set under a strict order is listed in order, each element once
  (`RankedInOrder`). `Ordering!Ordered` says this of the element's rank;
  `SetToSortSeq` would say the same but rests on `SortSeq`, which the provers do not
  know;
* sums add, split over disjoint sets and over the fibers of a function, compare
  and count (`SumAdd`, `SumUnion`, `SumFibers`, `SumBelow`, `SumAbove`, `SumOnes`).

`ProfileFollowsPlan` says that the profile is valid at every moment to come within an
active period, with a power of that moment, and that it asks for no charging at any
other. It leaves out what `ProfileIsPlan` leaves out: moments within a forced period
that reaches past a deadline. Its assumptions are those of
`PlanAssumption`, `IdleCountsUncovered`'s those of `IdleAssumption`: consumption is
not negative, tariffs are a finite set of integers of either sign, and `Scale` as
above.

Only model-checked is everything about liveness: fairness and ENABLED are out of
TLAPS's reach. No module uses a RECURSIVE operator.

## 9. Disagreements met

Three are runs with a counterexample and findings in `PROJECT.json`:
`control_left_profile`, `control_forgotten` and `renault_stuck`. Others were met while modelling; the
properties are stated so that they hold beside them.

* A repeated StartTransaction (its confirmation was lost) inserts a second row
  that stays active for ever and that `ActiveSession`, "the currently active
  session", may return (`internal/store/sessions.go:163-171`).
* Loop and web request may both pass the cooldown check before either records its
  command, which is then sent twice (`scheduler.go:1007-1009`; the cooldown is
  written at 1114, 1121, 1139, 1145).
* A recompute that plans nothing returns before cancellations are carried over, so
  the next plan forgets them (`scheduler.go:1337` before 1351); one that plans other
  days only drops them as well (1359-1363). This is `control_forgotten`.
* A forced window on a day the user has cancelled does not charge (1351-1363), and
  without a Config a new one plans nothing (1216-1218), although
  `store/schedule_overrides.go:12-13` and `scheduler.go:1246` say that forces are
  honored. After an early return (1216-1218, 1251-1253) the plan made before stays,
  and may charge in a window blocked since.
* A backfill that bails leaves hours that no later cycle asks for once newer rows
  are stored, although the comment says the next tick retries
  (`pstryk.go:500-515`, 537-553).
* `nextDeadlineAfter` says that exactly at HH:MM it returns the same instant; it
  returns the next day's (`overrides.go:143-152`).
* A block is ignored while a slot in progress is preserved whole
  (`scheduler.go:1325-1333`).
* A floor that the owner changed in the app since the last read is written back by
  SetSocTarget with the cached one (`renault.go:1041-1048`).
* With two pages, or a second StartTFA during a CompleteTFA, the device that is
  trusted and the one that is stored may differ (`renault_tfa.go:401-435`).

What the models leave out next to what they contain, where a reader might expect it:

* `OnStartTransaction` ignores the error of `StartSession` and confirms the id
  anyway (`handler.go:323`); in `OcppSessions` the insert does not fail, so
  `OpenTransactionHasSession` and `IdsNeverReissued` are about a database that works.
* `PUT /api/settings` may write `charger.mode` without the clear that
  `RequestModeChange` brings (`web/settings.go:35`); `ChargeControl` changes the mode
  by `RequestModeChange` only, as the user interface does.
* In `RenaultAuth` a restart ends the promise of `LinkTakes` when Gigya no longer
  accepts the session on disk (`linked`): there is no link left to take.
* `RebuildDailyIdle` (`store/idle.go:86-94`), the second writer of `daily_idle`, is
  part of `Backfill`; `ClosedDayIsWhole` of `Metering` is about days that only
  `SnapshotDailyIdle` writes.

## 10. What is left

In the order of their worth:

1. A composition of `OcppSessions` with `ChargeControl` through the hooks, with
   the question whether what the scheduler believes of the transaction is ever
   wrong for longer than one status report. Today each module has the other's
   part as its environment.
2. The subscribers of `sse.go` and the login sessions and WebAuthn challenges of
   the web server.

## 11. Not modelled

Rendering, HTTP routing, JSON and SQL encodings, statistics queries, event-log
texts, the Zappi setup wizard and the ABRP upload: sequential code without
state that others rely on. Of the OCPP requests the configuration calls and
`withRetry`; of the Renault poller the odometer and charge power; of the web
server login sessions, passkeys and settings forms, each of which reads or writes
one row. The charge point registry and the event broker are maps under one mutex.
The reasons per component are in `PROJECT.json`.
