---------------------------- MODULE ChargeControl ----------------------------
(***************************************************************************)
(* The scheduler's control of the charger (internal/scheduler/scheduler.go)*)
(* : the loop goroutine, the callbacks of the mode-change timer and the    *)
(* web handlers all call recompute, ClearSchedule, saveCurrent and         *)
(* controlCharging on one Scheduler, whose fields they partly read and     *)
(* write without its lock.                                                 *)
(*                                                                         *)
(* A step ends at every access to a field or setting that another          *)
(* goroutine may write in between, and at every request to the charger,    *)
(* which may take as long as its timeout.  Time is untimed: a cooldown     *)
(* expires, and the clock enters or leaves a slot, at any moment.          *)
(*                                                                         *)
(* A schedule is reduced to the set of its active and the set of its       *)
(* cancelled slots, a slot to one period, and the tariff, SoC and override *)
(* inputs of recompute to a free choice of the slots it plans.             *)
(***************************************************************************)
EXTENDS Integers, Sequences

CONSTANTS
  Loop,          \* the goroutine of Scheduler.loop
  Timers,        \* goroutines that run a mode timer's callback
  Webs,          \* goroutines that serve a web request
  MaxSlot,       \* slots (days) the tariff data covers
  Modes,         \* charger modes the user picks in this instance
  UserOps,       \* what the user does in this instance
  Faults,        \* what goes wrong in this instance
  Serial,        \* do calls of different goroutines exclude each other?
  ClockMidCall,  \* may a slot begin or end while a call runs?
  MaxQueue,      \* bound: remote starts (stops) the cloud proxy holds
  MaxCrash       \* bound: process crashes

AllModes  == {"schedule", "off", "force"}
AllOps    == {"mode", "cancel", "restore", "clear", "config"}
AllFaults == {"lose", "offline", "reboot", "block"}

ASSUME ControlAssumption ==
  /\ Loop \notin Timers \cup Webs
  /\ Timers \cap Webs = {}
  /\ MaxSlot \in Nat
  /\ Modes \subseteq AllModes
  /\ UserOps \subseteq AllOps
  /\ Faults \subseteq AllFaults
  /\ Serial \in BOOLEAN
  /\ ClockMidCall \in BOOLEAN
  /\ MaxQueue \in Nat
  /\ MaxCrash \in Nat

Procs == {Loop} \cup Timers \cup Webs
Slots == 1..MaxSlot

Sched == [on : SUBSET Slots, off : SUBSET Slots]
NoSchedule == [on |-> {}, off |-> {}]

Statuses == {"Available", "Preparing", "Charging", "SuspendedEV", "Finishing"}
Calls == {"clear", "recompute", "control", "notify"}
Pcs == {"idle", "boot"} \cup Calls \cup
       {"ctl_status", "ctl_cool", "ctl_send", "ctl_sent",
        "rc_plan", "rc_write", "rc_apply", "rc_sent", "rc_delivered",
        "save", "save_write", "cl_status", "cl_sent"}

VARIABLES
  \* the settings table
  mode, persisted,
  \* fields of Scheduler
  current,         \* the schedule
  pendingMode,     \* "" or the mode whose timer is running
  notifyCh,        \* is there a token in the channel?
  lastProfileHash, \* the active slots of the last profile recorded, {} for ""
  cool,            \* commands of each type sent within their cooldown
  pc, loc,         \* per goroutine: the next step and its local variables
  \* requests under way and the charger (external)
  line,            \* OCPP requests not answered yet, in order, by goroutine
  online, booting, \* websocket connected; charger restarted, not yet announced
  status, txn,     \* the connector as the charger reports it
  queued,          \* remote commands the cloud proxy still has to relay
  chProfile,       \* the profile installed in the charger
  blocked,         \* isVehiclePlugBlocked, from the car's reports
  clock,           \* 2s - 1 within slot s, even in between
  \* history
  cancelled,       \* slots the user has cancelled and neither restored nor cleared
  lapsed,          \* those of them that a schedule has replaced without the slot
  lastRequest,     \* the last mode requested, {} if none or dropped
  crashes

vars == <<mode, persisted, current, pendingMode, notifyCh, lastProfileHash, cool, pc, loc,
          line, online, booting, status, txn, queued, chProfile, blocked, clock,
          cancelled, lapsed, lastRequest, crashes>>

sched    == <<mode, persisted, current, pendingMode, lastProfileHash>>
charger  == <<online, booting, status, txn, queued, chProfile>>
world    == <<blocked, clock, crashes>>
history  == <<cancelled, lapsed, lastRequest>>

Fresh == [calls |-> {}, pin |-> "", mode |-> "", cmd |-> "none", held |-> NoSchedule,
          alias |-> FALSE, data |-> NoSchedule, slots |-> {}]

Locals == [calls : SUBSET Calls,                \* calls still to make
           pin   : AllModes \cup {""},          \* OnModeChanged's explicit mode
           mode  : AllModes \cup {""},          \* the mode controlCharging acts on
           cmd   : {"none", "start", "stop"},   \* the command it has chosen
           held  : Sched, alias : BOOLEAN,      \* a pointer to a schedule; see Held
           data  : Sched,                       \* a schedule about to be stored
           slots : SUBSET Slots]                \* slots in progress, or of a profile

TypeOK ==
  /\ mode \in AllModes
  /\ persisted \in Sched
  /\ current \in Sched
  /\ pendingMode \in AllModes \cup {""}
  /\ notifyCh \in BOOLEAN
  /\ lastProfileHash \in SUBSET Slots
  /\ cool \in SUBSET {"start", "stop", "profile"}
  /\ pc \in [Procs -> Pcs]
  /\ loc \in [Procs -> Locals]
  /\ line \in Seq(Procs)
  /\ online \in BOOLEAN
  /\ booting \in BOOLEAN
  /\ status \in Statuses
  /\ txn \in BOOLEAN
  /\ queued \in [{"start", "stop"} -> 0..MaxQueue]
  /\ chProfile \in SUBSET Slots
  /\ blocked \in BOOLEAN
  /\ clock \in 0..(2 * MaxSlot)
  /\ cancelled \in SUBSET Slots
  /\ lapsed \in SUBSET Slots
  /\ lastRequest \in SUBSET AllModes
  /\ crashes \in 0..MaxCrash

Init ==
  /\ mode = "schedule"
  /\ persisted = NoSchedule
  /\ current = NoSchedule
  /\ pendingMode = ""
  /\ notifyCh = FALSE
  /\ lastProfileHash = {}
  /\ cool = {}
  /\ pc = [p \in Procs |-> IF p = Loop THEN "boot" ELSE "idle"]
  /\ loc = [p \in Procs |-> Fresh]
  /\ line = <<>>
  /\ online = TRUE
  /\ booting = FALSE
  /\ status = "Available"
  /\ txn = FALSE
  /\ queued = [c \in {"start", "stop"} |-> 0]
  /\ chProfile = {}
  /\ blocked = FALSE
  /\ clock = 0
  /\ cancelled = {}
  /\ lapsed = {}
  /\ lastRequest = {}
  /\ crashes = 0

-----------------------------------------------------------------------------
(* Schedules and time.                                                     *)

Ended(s)    == clock > 2 * s - 1
InWindow(s) == clock = 2 * s - 1

activeSlot(sch)   == {s \in sch.on : InWindow(s)}
IsChargeTime(sch) == activeSlot(sch) # {}
ScheduleHash(sch) == {s \in sch.on : ~Ended(s)}

\* loadPersistedSchedule drops the slots that have ended.
Live(sch) == [on |-> {s \in sch.on : ~Ended(s)}, off |-> {s \in sch.off : ~Ended(s)}]

\* A mutant: a car that waits for a transaction is not seen.
isPluggedInCharging == status \in {"Charging", "SuspendedEV"}

\* Suspended by the charger (SuspendedEVSE) counts as Charging here.
isPluggedIn == status \in {"Preparing", "Charging", "SuspendedEV"}

-----------------------------------------------------------------------------
(* Goroutines.                                                             *)

Quiet == \A p \in Procs : pc[p] = "idle"

CanBegin(p) == pc[p] = "idle" /\ (Serial => Quiet)

\* Calls run in the order clear, recompute, control, notify.
NextPc(calls) ==
  IF "clear" \in calls THEN "clear"
  ELSE IF "recompute" \in calls THEN "recompute"
  ELSE IF "control" \in calls THEN "control"
  ELSE IF "notify" \in calls THEN "notify"
  ELSE "idle"

\* Goroutine p goes on to the first of the calls it still has to make.
Proceed(p, calls, pin) ==
  /\ pc' = [pc EXCEPT ![p] = NextPc(calls)]
  /\ loc' = [loc EXCEPT ![p] =
       [Fresh EXCEPT !.calls = calls \ {NextPc(calls)}, !.pin = IF calls = {} THEN "" ELSE pin]]

Return(p) == Proceed(p, loc[p].calls, loc[p].pin)

Goto(p, label) == pc' = [pc EXCEPT ![p] = label]

\* What p's *Schedule points to.  The object is shared while it is s.current:
\* CancelSlot and RestoreSlot write into it.
Held(p) == IF loc[p].alias THEN current ELSE loc[p].held

\* s.current is replaced: pointers to the old object keep its last contents.
Detached == [p \in Procs |->
  IF loc[p].alias THEN [loc[p] EXCEPT !.alias = FALSE, !.held = current] ELSE loc[p]]

-----------------------------------------------------------------------------
(* OCPP requests (external): the library sends one at a time per charger,  *)
(* in order, and the caller blocks until the answer, an error or a timeout.*)

Request(p) == line' = IF online THEN Append(line, p) ELSE line

Served(p) == line # <<>> /\ Head(line) = p

InLine(p) == \E i \in 1..Len(line) : line[i] = p

\* The caller gets an error: the connection is gone, or a timeout.
Fails(p) ==
  \/ ~InLine(p) /\ UNCHANGED line
  \/ /\ "lose" \in Faults
     /\ \E i \in 1..Len(line) :
          line[i] = p /\ line' = SubSeq(line, 1, i - 1) \o SubSeq(line, i + 1, Len(line))

-----------------------------------------------------------------------------
(* controlChargingInternal, sendStartForced and sendStop.                  *)

\* The mode is the caller's or is read from the store; OnModeChanged clears the
\* start and stop cooldowns first.
Control(p) ==
  /\ pc[p] = "control"
  /\ loc' = [loc EXCEPT ![p].mode = IF loc[p].pin = "" THEN mode ELSE loc[p].pin]
  /\ cool' = IF loc[p].pin = "" THEN cool ELSE cool \ {"start", "stop"}
  /\ Goto(p, "ctl_status")
  /\ UNCHANGED <<sched, notifyCh, line, charger, world, history>>

Charge(p) == loc[p].mode = "force" \/ (loc[p].mode = "schedule" /\ IsChargeTime(current))

StartWanted(p) == loc[p].mode # "off" /\ isPluggedIn /\ Charge(p) /\ ~txn /\ ~blocked

\* A mutant: only the schedule ends a charge.
StopWantedBySchedule(p) == txn /\ loc[p].mode = "schedule" /\ isPluggedIn /\ ~Charge(p)

StopWanted(p) ==
  txn /\ (loc[p].mode = "off" \/ (loc[p].mode = "schedule" /\ isPluggedIn /\ ~Charge(p)))

\* The command the connector, the mode and the schedule call for.  A car that has
\* suspended is left alone unless the user has just changed the mode.
Wanted(p) ==
  IF status = "SuspendedEV" /\ loc[p].pin = "" THEN "none"
  ELSE IF StartWanted(p) THEN "start"
  ELSE IF StopWanted(p) THEN "stop"
  ELSE "none"

\* Cooldowns whose command the connector's state shows to be done or moot.
Settled == (IF txn \/ ~isPluggedIn THEN {"start"} ELSE {}) \cup (IF txn THEN {} ELSE {"stop"})

ControlStatus(p) ==
  /\ pc[p] = "ctl_status"
  /\ cool' = IF online THEN cool \ Settled ELSE cool
  /\ IF online /\ Wanted(p) # "none"
     THEN loc' = [loc EXCEPT ![p].cmd = Wanted(p)] /\ Goto(p, "ctl_cool")
     ELSE Return(p)
  /\ UNCHANGED <<sched, notifyCh, line, charger, world, history>>

\* A mutant: the cooldown is not checked.

\* The time of the last command of this type is read without the lock.
OnCooldown(p) == loc[p].cmd \in cool

ControlCooldown(p) ==
  /\ pc[p] = "ctl_cool"
  /\ IF OnCooldown(p) THEN Return(p) ELSE Goto(p, "ctl_send") /\ UNCHANGED loc
  /\ UNCHANGED <<sched, notifyCh, cool, line, charger, world, history>>

\* A mutant: cooldowns are kept per mode instead of per type of command.
StampMode(p) == cool \cup {loc[p].mode}

Stamp(p) == cool \cup {loc[p].cmd}

\* lastStartSent (lastStopSent) := now, then the remote command.
ControlSend(p) ==
  /\ pc[p] = "ctl_send"
  /\ cool' = Stamp(p)
  /\ Request(p)
  /\ Goto(p, "ctl_sent")
  /\ UNCHANGED <<sched, notifyCh, loc, charger, world, history>>

\* The proxy takes the command.
ControlAccepted(p) ==
  /\ pc[p] = "ctl_sent"
  /\ Served(p)
  /\ queued[loc[p].cmd] < MaxQueue
  /\ queued' = [queued EXCEPT ![loc[p].cmd] = @ + 1]
  /\ line' = Tail(line)
  /\ Return(p)
  /\ UNCHANGED <<sched, notifyCh, cool, online, booting, status, txn, chProfile, world, history>>

\* An error is only logged: the cooldown stands.
ControlFailed(p) ==
  /\ pc[p] = "ctl_sent"
  /\ Fails(p)
  /\ Return(p)
  /\ UNCHANGED <<sched, notifyCh, cool, charger, world, history>>

-----------------------------------------------------------------------------
(* recompute, preserveActiveSlot and applyProfile.                         *)

\* Frozen while a transaction is open; else remember the schedule and the slot
\* in progress.
Recompute(p) ==
  /\ pc[p] = "recompute"
  /\ IF online /\ txn
     THEN Return(p)
     ELSE /\ loc' = [loc EXCEPT ![p].held = current, ![p].alias = TRUE,
                                ![p].slots = activeSlot(current)]
          /\ Goto(p, "rc_plan")
  /\ UNCHANGED <<sched, notifyCh, cool, line, charger, world, history>>

\* Mutants: the slot in progress is not merged; cancellations are not copied.
MergedWithoutActive(p, plan) ==
  [on |-> plan \ Held(p).off, off |-> plan \cap Held(p).off]

MergedUncancelled(p, plan) == [on |-> plan \cup loc[p].slots, off |-> {}]

\* The planned slots and the slot in progress, with the cancellations of the
\* previous schedule.
Merged(p, plan) ==
  LET all == plan \cup loc[p].slots
  IN  [on |-> all \ Held(p).off, off |-> all \cap Held(p).off]

\* Without a target or rates nothing changes; else any set of slots that have not
\* ended may be planned, none included.
RecomputePlan(p) ==
  /\ pc[p] = "rc_plan"
  /\ \/ Return(p)
     \/ \E plan \in SUBSET {s \in Slots : ~Ended(s)} :
          /\ loc' = [loc EXCEPT ![p].data = Merged(p, plan), ![p].slots = {}]
          /\ Goto(p, "rc_write")
  /\ UNCHANGED <<sched, notifyCh, cool, line, charger, world, history>>

\* s.current = sched.  A schedule is applied, its absence only saved.
RecomputeWrite(p) ==
  /\ pc[p] = "rc_write"
  /\ current' = loc[p].data
  /\ loc' = [Detached EXCEPT ![p].held = NoSchedule, ![p].alias = TRUE, ![p].data = NoSchedule]
  /\ Goto(p, IF loc[p].data = NoSchedule THEN "save" ELSE "rc_apply")
  /\ lapsed' = lapsed \cup (cancelled \ (loc[p].data.on \cup loc[p].data.off))
  /\ UNCHANGED <<mode, persisted, pendingMode, lastProfileHash, notifyCh, cool, line, charger,
                 world, cancelled, lastRequest>>

ProfileDue(hash) == hash # {} /\ hash # lastProfileHash /\ "profile" \notin cool

ApplyProfile(p) ==
  /\ pc[p] = "rc_apply"
  /\ LET hash == ScheduleHash(Held(p))
     IN  IF ProfileDue(hash)
         THEN /\ loc' = [loc EXCEPT ![p].slots = hash, ![p].alias = FALSE]
              /\ Request(p)
              /\ Goto(p, "rc_sent")
         ELSE /\ loc' = [loc EXCEPT ![p].alias = FALSE]
              /\ Goto(p, "save")
              /\ UNCHANGED line
  /\ UNCHANGED <<sched, notifyCh, cool, charger, world, history>>

\* The charger installs the profile.
ProfileInstalled(p) ==
  /\ pc[p] = "rc_sent"
  /\ Served(p)
  /\ chProfile' = loc[p].slots
  /\ Goto(p, "rc_delivered")
  /\ UNCHANGED <<sched, notifyCh, cool, loc, line, online, booting, status, txn, queued,
                 world, history>>

\* The answer: only now is the profile recorded.
ProfileAnswered(p) ==
  /\ pc[p] = "rc_delivered"
  /\ Served(p)
  /\ line' = Tail(line)
  /\ lastProfileHash' = loc[p].slots
  /\ cool' = cool \cup {"profile"}
  /\ loc' = [loc EXCEPT ![p].slots = {}]
  /\ Goto(p, "save")
  /\ UNCHANGED <<mode, persisted, current, pendingMode, notifyCh, charger, world, history>>

ProfileFailed(p) ==
  /\ pc[p] \in {"rc_sent", "rc_delivered"}
  /\ Fails(p)
  /\ loc' = [loc EXCEPT ![p].slots = {}]
  /\ Goto(p, "save")
  /\ UNCHANGED <<sched, notifyCh, cool, charger, world, history>>

-----------------------------------------------------------------------------
(* saveCurrent: the schedule is read and encoded, then stored.             *)

Save(p) ==
  /\ pc[p] = "save"
  /\ loc' = [loc EXCEPT ![p].data = current]
  /\ Goto(p, "save_write")
  /\ UNCHANGED <<sched, notifyCh, cool, line, charger, world, history>>

SaveWrite(p) ==
  /\ pc[p] = "save_write"
  /\ persisted' = loc[p].data
  /\ Return(p)
  /\ UNCHANGED <<mode, current, pendingMode, lastProfileHash, notifyCh, cool, line, charger,
                 world, history>>

-----------------------------------------------------------------------------
(* ClearSchedule.                                                          *)

\* A mutant: the hash of the cleared profile is kept.
ClearedHashKept == lastProfileHash

ClearedHash == {}

Clear(p) ==
  /\ pc[p] = "clear"
  /\ current' = NoSchedule
  /\ lastProfileHash' = ClearedHash
  /\ loc' = Detached
  /\ Goto(p, IF lastProfileHash # {} THEN "cl_status" ELSE "save")
  /\ cancelled' = {} /\ lapsed' = {}
  /\ UNCHANGED <<mode, persisted, pendingMode, notifyCh, cool, line, charger, world,
                 lastRequest>>

\* The charger's profile is cleared only if no transaction is open.
ClearStatus(p) ==
  /\ pc[p] = "cl_status"
  /\ IF online /\ ~txn
     THEN Request(p) /\ Goto(p, "cl_sent")
     ELSE UNCHANGED line /\ Goto(p, "save")
  /\ UNCHANGED <<sched, notifyCh, cool, loc, charger, world, history>>

ClearSent(p) ==
  /\ pc[p] = "cl_sent"
  /\ \/ Served(p) /\ chProfile' = {} /\ line' = Tail(line)
     \/ Fails(p) /\ UNCHANGED chProfile
  /\ Goto(p, "save")
  /\ UNCHANGED <<sched, notifyCh, cool, loc, online, booting, status, txn, queued, world, history>>

-----------------------------------------------------------------------------
(* The goroutines' entry points.                                           *)

\* Before its select loop: recompute unless a schedule was restored.
LoopBoot ==
  /\ pc[Loop] = "boot"
  /\ Proceed(Loop, IF mode = "schedule" /\ current = NoSchedule THEN {"recompute"} ELSE {}, "")
  /\ UNCHANGED <<sched, notifyCh, cool, line, charger, world, history>>

RecomputeTick ==
  /\ CanBegin(Loop)
  /\ mode = "schedule"
  /\ Proceed(Loop, {"recompute"}, "")
  /\ UNCHANGED <<sched, notifyCh, cool, line, charger, world, history>>

ControlTick ==
  /\ CanBegin(Loop)
  /\ Proceed(Loop, {"control"}, "")
  /\ UNCHANGED <<sched, notifyCh, cool, line, charger, world, history>>

Notified ==
  /\ CanBegin(Loop)
  /\ notifyCh
  /\ notifyCh' = FALSE
  /\ Proceed(Loop, {"control"} \cup (IF mode = "schedule" THEN {"recompute"} ELSE {}), "")
  /\ UNCHANGED <<sched, cool, line, charger, world, history>>

\* The end of OnModeChanged.
NotifyImmediate(p) ==
  /\ pc[p] = "notify"
  /\ notifyCh' = TRUE
  /\ Return(p)
  /\ UNCHANGED <<sched, cool, line, charger, world, history>>

\* A mutant: the first of several requests counts.
RequestedFirst(m) == IF pendingMode = "" THEN m ELSE pendingMode

Requested(m) == m

\* RequestModeChange replaces the pending mode and restarts its timer.
RequestModeChange(m) ==
  /\ "mode" \in UserOps
  /\ pendingMode' = Requested(m)
  /\ lastRequest' = {m}
  /\ UNCHANGED <<mode, persisted, current, notifyCh, lastProfileHash, cool, pc, loc, line, charger,
                 world, cancelled, lapsed>>

\* A callback fires 3 s after the one before it at the earliest: by then that one
\* has returned or waits for the charger.
Debounced(t) == \A q \in Timers \ {t} : pc[q] \in {"idle", "cl_sent", "ctl_sent"}

\* applyPendingMode takes the pending mode and stores it.
ApplyPendingMode(t) ==
  /\ CanBegin(t)
  /\ Debounced(t)
  /\ pendingMode # ""
  /\ pendingMode' = ""
  /\ mode' = pendingMode
  /\ Proceed(t, {"control", "notify"} \cup (IF pendingMode \in {"off", "force"} THEN {"clear"} ELSE {}),
             pendingMode)
  /\ UNCHANGED <<persisted, current, lastProfileHash, notifyCh, cool, line, charger, world, history>>

\* A mutant: the change is not saved.
SavePcSkipped == "control"

\* CancelSlot and RestoreSlot save and then control the charger.
SavePc == "save"

CancelSlot(w, s) ==
  /\ "cancel" \in UserOps
  /\ CanBegin(w)
  /\ s \in current.on
  /\ current' = [on |-> current.on \ {s}, off |-> current.off \cup {s}]
  /\ pc' = [pc EXCEPT ![w] = SavePc]
  /\ loc' = [loc EXCEPT ![w].calls = {"control"}]
  /\ cancelled' = cancelled \cup {s} /\ lapsed' = lapsed \ {s}
  /\ UNCHANGED <<mode, persisted, pendingMode, lastProfileHash, notifyCh, cool, line, charger, world,
                 lastRequest>>

RestoreSlot(w, s) ==
  /\ "restore" \in UserOps
  /\ CanBegin(w)
  /\ s \in current.off
  /\ current' = [on |-> current.on \cup {s}, off |-> current.off \ {s}]
  /\ pc' = [pc EXCEPT ![w] = SavePc]
  /\ loc' = [loc EXCEPT ![w].calls = {"control"}]
  /\ cancelled' = cancelled \ {s} /\ lapsed' = lapsed \ {s}
  /\ UNCHANGED <<mode, persisted, pendingMode, lastProfileHash, notifyCh, cool, line, charger, world,
                 lastRequest>>

\* SetConfig recomputes whatever the mode.
SetConfig(w) ==
  /\ "config" \in UserOps
  /\ CanBegin(w)
  /\ Proceed(w, {"recompute"}, "")
  /\ UNCHANGED <<sched, notifyCh, cool, line, charger, world, history>>

DeleteSchedule(w) ==
  /\ "clear" \in UserOps
  /\ CanBegin(w)
  /\ Proceed(w, {"clear"}, "")
  /\ UNCHANGED <<sched, notifyCh, cool, line, charger, world, history>>

CooldownExpires(c) ==
  /\ c \in cool
  /\ cool' = cool \ {c}
  /\ UNCHANGED <<sched, notifyCh, pc, loc, line, charger, world, history>>

-----------------------------------------------------------------------------
(* The charger, the cloud proxy and the world (external).                  *)

Connector(st, t) ==
  /\ status' = st
  /\ txn' = t
  /\ notifyCh' = TRUE        \* SetConnectorStatusHook, SetTransactionEndedHook
  /\ UNCHANGED <<sched, cool, pc, loc, line, online, booting, chProfile, world, history>>

\* A stop names its transaction, so it is void once that has ended.
NoStop == [queued EXCEPT !["stop"] = 0]

PlugIn == online /\ status \in {"Available", "Finishing"} /\ Connector("Preparing", FALSE) /\ UNCHANGED queued

Unplug == online /\ status # "Available" /\ Connector("Available", FALSE) /\ queued' = NoStop

CarSuspends == online /\ status = "Charging" /\ Connector("SuspendedEV", txn) /\ UNCHANGED queued

CarResumes == online /\ status = "SuspendedEV" /\ Connector("Charging", txn) /\ UNCHANGED queued

\* The proxy relays a start: it takes effect on a waiting car only.
RelayStart ==
  /\ queued["start"] > 0
  /\ queued' = [queued EXCEPT !["start"] = @ - 1]
  /\ IF online /\ status = "Preparing"
     THEN Connector("Charging", TRUE)
     ELSE UNCHANGED <<sched, notifyCh, cool, pc, loc, line, online, booting, status, txn, chProfile,
                      world, history>>

\* The proxy relays a stop: a car that suspended does not heed it.
RelayStop ==
  /\ queued["stop"] > 0
  /\ IF online /\ txn /\ status = "Charging"
     THEN Connector("Finishing", FALSE) /\ queued' = NoStop
     ELSE /\ queued' = [queued EXCEPT !["stop"] = @ - 1]
          /\ UNCHANGED <<sched, notifyCh, cool, pc, loc, line, online, booting, status, txn, chProfile,
                         world, history>>

\* The websocket closes: requests under way fail.
Disconnect ==
  /\ "offline" \in Faults
  /\ online
  /\ online' = FALSE
  /\ line' = <<>>
  /\ UNCHANGED <<sched, notifyCh, cool, pc, loc, booting, status, txn, queued, chProfile, world, history>>

Reconnect ==
  /\ ~online
  /\ ~booting
  /\ online' = TRUE
  /\ UNCHANGED <<sched, notifyCh, cool, pc, loc, line, booting, status, txn, queued, chProfile, world, history>>

\* The charger restarts outside a transaction and loses its profile.
ChargerReboots ==
  /\ "reboot" \in Faults
  /\ ~txn
  /\ online' = FALSE
  /\ booting' = TRUE
  /\ line' = <<>>
  /\ chProfile' = {}
  /\ UNCHANGED <<sched, notifyCh, cool, pc, loc, status, txn, queued, world, history>>

\* A mutant: only the cooldown is reset.
ResetHashKept == lastProfileHash

ResetHash == {}

\* BootNotification: ResetProfileState, and a notification 10 s later.
BootNotification ==
  /\ booting
  /\ booting' = FALSE
  /\ online' = TRUE
  /\ lastProfileHash' = ResetHash
  /\ cool' = cool \ {"profile"}
  /\ notifyCh' = TRUE
  /\ UNCHANGED <<mode, persisted, current, pendingMode, pc, loc, line, status, txn, queued, chProfile,
                 world, history>>

PlugReport ==
  /\ "block" \in Faults
  /\ blocked' = ~blocked
  /\ UNCHANGED <<sched, notifyCh, cool, pc, loc, line, charger, clock, crashes, history>>

Tick ==
  /\ clock < 2 * MaxSlot
  /\ ClockMidCall \/ Quiet
  /\ clock' = clock + 1
  /\ UNCHANGED <<sched, notifyCh, cool, pc, loc, line, charger, blocked, crashes, history>>

\* The process dies; New restores the live part of the persisted schedule.  The
\* charger has to reconnect, a pending mode is dropped, and so is a change to a slot
\* that a web request has not saved, as its user is not answered.
Crash ==
  /\ crashes < MaxCrash
  /\ crashes' = crashes + 1
  /\ current' = Live(persisted)
  /\ pendingMode' = ""
  /\ notifyCh' = FALSE
  /\ lastProfileHash' = {}
  /\ cool' = {}
  /\ pc' = [p \in Procs |-> IF p = Loop THEN "boot" ELSE "idle"]
  /\ loc' = [p \in Procs |-> Fresh]
  /\ line' = <<>>
  /\ online' = FALSE
  /\ lastRequest' = {}
  /\ cancelled' = (IF \E w \in Webs : pc[w] \in {"save", "save_write"}
                   THEN cancelled \cap persisted.off ELSE cancelled)
  /\ UNCHANGED <<mode, persisted, booting, status, txn, queued, chProfile, blocked, clock,
                 lapsed>>

-----------------------------------------------------------------------------
Step(p) ==
  \/ Control(p) \/ ControlStatus(p) \/ ControlCooldown(p) \/ ControlSend(p)
  \/ ControlAccepted(p) \/ ControlFailed(p)
  \/ Recompute(p) \/ RecomputePlan(p) \/ RecomputeWrite(p)
  \/ ApplyProfile(p) \/ ProfileInstalled(p) \/ ProfileAnswered(p) \/ ProfileFailed(p)
  \/ Save(p) \/ SaveWrite(p)
  \/ Clear(p) \/ ClearStatus(p) \/ ClearSent(p)
  \/ NotifyImmediate(p)

LoopBegins == LoopBoot \/ RecomputeTick \/ ControlTick \/ Notified

User ==
  \/ \E m \in Modes : RequestModeChange(m)
  \/ \E w \in Webs : \/ \E s \in Slots : CancelSlot(w, s) \/ RestoreSlot(w, s)
                     \/ SetConfig(w)
                     \/ DeleteSchedule(w)

World ==
  \/ PlugIn \/ Unplug \/ CarSuspends \/ CarResumes
  \/ RelayStart \/ RelayStop
  \/ Disconnect \/ Reconnect \/ ChargerReboots \/ BootNotification
  \/ PlugReport \/ Tick
  \/ \E c \in {"start", "stop", "profile"} : CooldownExpires(c)

Next ==
  \/ \E p \in Procs : Step(p)
  \/ LoopBegins
  \/ \E t \in Timers : ApplyPendingMode(t)
  \/ User
  \/ World
  \/ Crash

Spec == Init /\ [][Next]_vars

\* Goroutines run on, timers fire, tickers tick whenever the loop selects again,
\* cooldowns expire, the proxy relays, and a command that is repeated for ever is
\* accepted in the end.
Fairness ==
  /\ \A p \in Procs : WF_vars(Step(p)) /\ SF_vars(ControlAccepted(p))
  /\ \A t \in Timers : WF_vars(ApplyPendingMode(t))
  /\ WF_vars(LoopBoot)
  /\ SF_vars(ControlTick)
  /\ \A c \in {"start", "stop"} : WF_vars(CooldownExpires(c))
  /\ WF_vars(RelayStart) /\ WF_vars(RelayStop)

FairSpec == Spec /\ Fairness

-----------------------------------------------------------------------------
(* Properties.                                                             *)

\* The profile the scheduler has recorded is the one in the charger, so that
\* skipping an unchanged profile leaves the charger with the schedule's.
ProfileAsRecorded ==
  Quiet /\ ~booting /\ lastProfileHash # {} => chProfile = lastProfileHash

\* Between calls a restart would restore the schedule in memory: every change of
\* recompute, ClearSchedule, CancelSlot and RestoreSlot has been saved.
PersistedIsCurrent == Quiet => Live(persisted) = Live(current)

\* Once a change to off or force has been applied there is no automatic schedule
\* and no profile of it on record ("clears any auto schedule"), unless SetConfig
\* recomputes later on (instances with "config").
ManualModeHasNoSchedule ==
  Quiet /\ mode # "schedule" => current = NoSchedule /\ lastProfileHash = {}

\* "Only the last requested mode applies": it is the mode once nothing is pending.
LastRequestWins == Quiet /\ pendingMode = "" => lastRequest \subseteq {mode}

\* A slot the user has cancelled is not active again before the user restores it or
\* clears the schedule: every recompute, save and restart carries the cancellation
\* on.  Not covered: a slot that was missing from some schedule since, by which its
\* cancellation is forgotten (run control_forgotten).
CancellationHolds == cancelled \cap current.on \subseteq lapsed

\* "Preserve slot cancellations from previous schedule": without that exception.
CancelledStaysOff == cancelled \cap current.on = {}

\* "Recompute may not drop or replace" the slot in progress: "only user actions
\* (CancelSlot, ClearSchedule) can".
ActiveSlotKept ==
  [][activeSlot(current) \subseteq current'.on \/ crashes' # crashes
       \/ (\E p \in Procs : Clear(p)) \/ (\E w \in Webs, s \in Slots : CancelSlot(w, s))]_vars

\* In mode off a running charge is stopped in the end, although commands may be
\* lost and are not repeated within the cooldown.
OffStops ==
  mode = "off" /\ txn ~> ~txn \/ mode # "off" \/ status # "Charging" \/ ~online

\* A waiting car is charged when the user forces it or its slot has come, unless
\* the mode changes or the slot passes or is cancelled first.
Wants == mode = "force" \/ (mode = "schedule" /\ IsChargeTime(current))

ChargeStarts ==
  Wants /\ status = "Preparing" ~> txn \/ ~Wants \/ status # "Preparing" \/ ~online \/ blocked
=============================================================================
