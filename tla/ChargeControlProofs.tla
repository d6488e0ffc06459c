------------------------- MODULE ChargeControlProofs -------------------------
(* Theorems about ChargeControl, for any sets of goroutines, any number of *)
(* slots and any bounds, modes, user operations and faults.                *)
EXTENDS ChargeControl, SequenceTheorems, TLAPS

\* A goroutine that is about to send a command has chosen one.
CommandChosen ==
  \A p \in Procs : pc[p] \in {"ctl_cool", "ctl_send", "ctl_sent"} => loc[p].cmd \in {"start", "stop"}

TypeInv == TypeOK /\ CommandChosen

\* The initial values are well-typed.
LEMMA ConstTypes ==
  /\ NoSchedule \in Sched
  /\ Fresh \in Locals
  /\ Loop \in Procs
  /\ \A t \in Timers : t \in Procs /\ t # Loop
  /\ \A w \in Webs : w \in Procs /\ w # Loop
<1>1. NoSchedule \in Sched
  BY DEF NoSchedule, Sched
<1>2. Fresh \in Locals
  BY <1>1 DEF Fresh, Locals
<1> QED
  BY <1>1, <1>2, ControlAssumption DEF ControlAssumption, Procs

\* The bounds are numbers.
LEMMA BoundTypes == MaxSlot \in Nat /\ MaxQueue \in Nat /\ MaxCrash \in Nat
  BY ControlAssumption DEF ControlAssumption

\* The fields of a goroutine's locals.
LEMMA LocalTypes ==
  ASSUME TypeOK, NEW p \in Procs
  PROVE  /\ loc[p] \in Locals
         /\ loc[p].calls \in SUBSET Calls
         /\ loc[p].pin \in AllModes \cup {""}
         /\ loc[p].mode \in AllModes \cup {""}
         /\ loc[p].cmd \in {"none", "start", "stop"}
         /\ loc[p].held \in Sched
         /\ loc[p].alias \in BOOLEAN
         /\ loc[p].data \in Sched
         /\ loc[p].slots \in SUBSET Slots
<1>1. loc[p] \in Locals
  BY DEF TypeOK
<1> QED
  BY <1>1 DEF Locals

\* Changing one entry keeps a function's type.
LEMMA PcType ==
  ASSUME TypeOK, NEW p \in Procs, NEW l \in Pcs, Goto(p, l)
  PROVE  pc' \in [Procs -> Pcs]
  BY DEF TypeOK, Goto

LEMMA LocType ==
  ASSUME TypeOK, NEW p \in Procs, NEW r \in Locals, loc' = [loc EXCEPT ![p] = r]
  PROVE  loc' \in [Procs -> Locals]
  BY DEF TypeOK

LEMMA ProceedTypes ==
  ASSUME TypeOK, NEW p \in Procs, NEW calls \in SUBSET Calls, NEW pin \in AllModes \cup {""},
         Proceed(p, calls, pin)
  PROVE  pc' \in [Procs -> Pcs] /\ loc' \in [Procs -> Locals]
<1> DEFINE r == [Fresh EXCEPT !.calls = calls \ {NextPc(calls)}, !.pin = IF calls = {} THEN "" ELSE pin]
<1>1. r \in Locals
  BY ConstTypes DEF Locals
<1>2. NextPc(calls) \in Pcs
  BY DEF NextPc, Pcs, Calls
<1> QED
  BY <1>1, <1>2 DEF Proceed, TypeOK

LEMMA ReturnTypes ==
  ASSUME TypeOK, NEW p \in Procs, Return(p)
  PROVE  pc' \in [Procs -> Pcs] /\ loc' \in [Procs -> Locals]
<1>1. loc[p].calls \in SUBSET Calls /\ loc[p].pin \in AllModes \cup {""}
  BY LocalTypes
<1> QED
  BY <1>1, ProceedTypes DEF Return

LEMMA DetachedType == TypeOK => Detached \in [Procs -> Locals]
<1> SUFFICES ASSUME TypeOK PROVE Detached \in [Procs -> Locals]
  OBVIOUS
<1>1. ASSUME NEW p \in Procs PROVE [loc[p] EXCEPT !.alias = FALSE, !.held = current] \in Locals
  <2>1. loc[p] \in Locals /\ current \in Sched
    BY LocalTypes DEF TypeOK
  <2> QED
    BY <2>1 DEF Locals
<1> QED
  BY <1>1 DEF Detached, TypeOK

\* What a goroutine points to is a schedule.
LEMMA HeldType == ASSUME TypeOK, NEW p \in Procs PROVE Held(p) \in Sched
  BY LocalTypes DEF TypeOK, Held

\* The queue of requests stays a sequence of goroutines.
LEMMA LineTypes ==
  ASSUME TypeOK, NEW p \in Procs
  PROVE  /\ Request(p) => line' \in Seq(Procs)
         /\ Served(p) => Tail(line) \in Seq(Procs)
         /\ Fails(p) => line' \in Seq(Procs)
<1>0. line \in Seq(Procs)
  BY DEF TypeOK
<1>1. Request(p) => line' \in Seq(Procs)
  BY <1>0 DEF Request
<1>2. Served(p) => Tail(line) \in Seq(Procs)
  BY <1>0 DEF Served
<1>3. ASSUME NEW i \in 1..Len(line)
      PROVE  SubSeq(line, 1, i - 1) \o SubSeq(line, i + 1, Len(line)) \in Seq(Procs)
  <2>1. Len(line) \in Nat /\ \A j \in 1..Len(line) : line[j] \in Procs
    BY <1>0
  <2>2. SubSeq(line, 1, i - 1) \in Seq(Procs)
    BY <2>1, SubSeqProperties
  <2>3. SubSeq(line, i + 1, Len(line)) \in Seq(Procs)
    BY <2>1, SubSeqProperties
  <2> QED
    BY <2>2, <2>3, ConcatProperties
<1>4. Fails(p) => line' \in Seq(Procs)
  BY <1>0, <1>3 DEF Fails
<1> QED
  BY <1>1, <1>2, <1>4

\* Init establishes the type invariant.
LEMMA InitTypes == Init => TypeOK
<1> SUFFICES ASSUME Init PROVE TypeOK
  OBVIOUS
<1>1. pc \in [Procs -> Pcs] /\ loc \in [Procs -> Locals]
  BY ConstTypes DEF Init, Pcs
<1>2. queued \in [{"start", "stop"} -> 0..MaxQueue]
  <2>1. 0 \in 0..MaxQueue
    BY BoundTypes
  <2> QED
    BY <2>1 DEF Init
<1>3. clock \in 0..(2 * MaxSlot) /\ crashes \in 0..MaxCrash
  <2>1. 0 \in 0..(2 * MaxSlot) /\ 0 \in 0..MaxCrash
    BY BoundTypes
  <2> QED
    BY <2>1 DEF Init
<1>4. line \in Seq(Procs)
  BY EmptySeq DEF Init
<1> QED
  BY <1>1, <1>2, <1>3, <1>4, ConstTypes DEF Init, TypeOK, AllModes, Statuses

-----------------------------------------------------------------------------
(* Type correctness, action by action.                                     *)

LEMMA ControlTypes == ASSUME TypeOK, NEW p \in Procs, Control(p) PROVE TypeOK'
<1>1. loc' \in [Procs -> Locals]
  <2> DEFINE m == IF loc[p].pin = "" THEN mode ELSE loc[p].pin
  <2>1. [loc[p] EXCEPT !.mode = m] \in Locals
    <3>1. loc[p] \in Locals /\ m \in AllModes \cup {""}
      BY LocalTypes, ControlAssumption DEF ControlAssumption, TypeOK
    <3> QED
      BY <3>1 DEF Locals
  <2> QED
    BY <2>1 DEF Control, TypeOK
<1>2. pc' \in [Procs -> Pcs]
  BY PcType DEF Control, Pcs
<1> QED
  BY <1>1, <1>2 DEF Control, TypeOK, sched, charger, world, history

LEMMA ControlStatusTypes == ASSUME TypeOK, NEW p \in Procs, ControlStatus(p) PROVE TypeOK'
<1>1. pc' \in [Procs -> Pcs] /\ loc' \in [Procs -> Locals]
  <2>1. CASE online /\ Wanted(p) # "none"
    <3>1. [loc[p] EXCEPT !.cmd = Wanted(p)] \in Locals
      BY LocalTypes DEF Locals, Wanted
    <3> QED
      BY <2>1, <3>1 DEF ControlStatus, TypeOK, Goto, Pcs
  <2>2. CASE ~(online /\ Wanted(p) # "none")
    BY <2>2, ReturnTypes DEF ControlStatus
  <2> QED
    BY <2>1, <2>2
<1> QED
  BY <1>1 DEF ControlStatus, TypeOK, sched, charger, world, history

LEMMA ControlCooldownTypes == ASSUME TypeOK, NEW p \in Procs, ControlCooldown(p) PROVE TypeOK'
<1>1. pc' \in [Procs -> Pcs] /\ loc' \in [Procs -> Locals]
  BY ReturnTypes, PcType DEF ControlCooldown, Pcs, TypeOK
<1> QED
  BY <1>1 DEF ControlCooldown, TypeOK, sched, charger, world, history

LEMMA ControlSendTypes == ASSUME TypeInv, NEW p \in Procs, ControlSend(p) PROVE TypeOK'
<1>1. cool' \in SUBSET {"start", "stop", "profile"}
  <2>1. loc[p].cmd \in {"start", "stop"}
    BY DEF ControlSend, TypeInv, CommandChosen
  <2> QED
    BY <2>1 DEF ControlSend, Stamp, TypeInv, TypeOK
<1>2. pc' \in [Procs -> Pcs] /\ line' \in Seq(Procs)
  BY PcType, LineTypes DEF ControlSend, Pcs, TypeInv
<1> QED
  BY <1>1, <1>2 DEF ControlSend, TypeInv, TypeOK, sched, charger, world, history

LEMMA ControlAcceptedTypes == ASSUME TypeInv, NEW p \in Procs, ControlAccepted(p) PROVE TypeOK'
<1>1. pc' \in [Procs -> Pcs] /\ loc' \in [Procs -> Locals] /\ line' \in Seq(Procs)
  BY ReturnTypes, LineTypes DEF ControlAccepted, TypeInv
<1>2. queued' \in [{"start", "stop"} -> 0..MaxQueue]
  <2>1. loc[p].cmd \in {"start", "stop"}
    BY DEF ControlAccepted, TypeInv, CommandChosen
  <2>2. queued[loc[p].cmd] + 1 \in 0..MaxQueue
    <3>1. queued[loc[p].cmd] \in 0..MaxQueue /\ queued[loc[p].cmd] < MaxQueue
      BY <2>1 DEF ControlAccepted, TypeInv, TypeOK
    <3> QED
      BY <3>1, BoundTypes
  <2> QED
    BY <2>1, <2>2 DEF ControlAccepted, TypeInv, TypeOK
<1> QED
  BY <1>1, <1>2 DEF ControlAccepted, TypeInv, TypeOK, sched, world, history

LEMMA ControlFailedTypes == ASSUME TypeOK, NEW p \in Procs, ControlFailed(p) PROVE TypeOK'
<1>1. pc' \in [Procs -> Pcs] /\ loc' \in [Procs -> Locals] /\ line' \in Seq(Procs)
  BY ReturnTypes, LineTypes DEF ControlFailed
<1> QED
  BY <1>1 DEF ControlFailed, TypeOK, sched, charger, world, history

LEMMA RecomputeTypes == ASSUME TypeOK, NEW p \in Procs, Recompute(p) PROVE TypeOK'
<1>1. pc' \in [Procs -> Pcs] /\ loc' \in [Procs -> Locals]
  <2>1. CASE online /\ txn
    BY <2>1, ReturnTypes DEF Recompute
  <2>2. CASE ~(online /\ txn)
    <3>1. current \in Sched /\ activeSlot(current) \in SUBSET Slots
      BY DEF TypeOK, activeSlot, Sched
    <3>2. [loc[p] EXCEPT !.held = current, !.alias = TRUE, !.slots = activeSlot(current)] \in Locals
      BY <3>1, LocalTypes DEF Locals
    <3> QED
      BY <2>2, <3>2 DEF Recompute, TypeOK, Goto, Pcs
  <2> QED
    BY <2>1, <2>2
<1> QED
  BY <1>1 DEF Recompute, TypeOK, sched, charger, world, history

\* What recompute plans is a schedule.
LEMMA MergedType ==
  ASSUME TypeOK, NEW p \in Procs, NEW plan \in SUBSET Slots PROVE Merged(p, plan) \in Sched
  BY LocalTypes DEF Merged, Sched

LEMMA RecomputePlanTypes == ASSUME TypeOK, NEW p \in Procs, RecomputePlan(p) PROVE TypeOK'
<1>1. pc' \in [Procs -> Pcs] /\ loc' \in [Procs -> Locals]
  <2>1. CASE Return(p)
    BY <2>1, ReturnTypes
  <2>2. CASE \E plan \in SUBSET {s \in Slots : ~Ended(s)} :
               /\ loc' = [loc EXCEPT ![p].data = Merged(p, plan), ![p].slots = {}]
               /\ Goto(p, "rc_write")
    <3>1. PICK plan \in SUBSET Slots :
            /\ loc' = [loc EXCEPT ![p].data = Merged(p, plan), ![p].slots = {}]
            /\ Goto(p, "rc_write")
      BY <2>2
    <3>2. Merged(p, plan) \in Sched
      BY MergedType
    <3>3. [loc[p] EXCEPT !.data = Merged(p, plan), !.slots = {}] \in Locals
      BY <3>2, LocalTypes DEF Locals
    <3> QED
      BY <3>1, <3>3 DEF TypeOK, Goto, Pcs
  <2> QED
    BY <2>1, <2>2 DEF RecomputePlan
<1> QED
  BY <1>1 DEF RecomputePlan, TypeOK, sched, charger, world, history

LEMMA RecomputeWriteTypes == ASSUME TypeOK, NEW p \in Procs, RecomputeWrite(p) PROVE TypeOK'
<1>1. loc' \in [Procs -> Locals]
  <2>1. [Detached[p] EXCEPT !.held = NoSchedule, !.alias = TRUE, !.data = NoSchedule] \in Locals
    BY DetachedType, ConstTypes DEF Locals
  <2> QED
    BY <2>1, DetachedType DEF RecomputeWrite
<1>2. pc' \in [Procs -> Pcs]
  BY PcType DEF RecomputeWrite, Pcs
<1>3. current' \in Sched
  BY LocalTypes DEF RecomputeWrite
<1> QED
  BY <1>1, <1>2, <1>3 DEF RecomputeWrite, TypeOK, charger, world, history

LEMMA ApplyProfileTypes == ASSUME TypeOK, NEW p \in Procs, ApplyProfile(p) PROVE TypeOK'
<1> DEFINE hash == ScheduleHash(Held(p))
<1>1. hash \in SUBSET Slots
  BY HeldType DEF ScheduleHash, Sched
<1>2. [loc[p] EXCEPT !.slots = hash, !.alias = FALSE] \in Locals
  BY <1>1, LocalTypes DEF Locals
<1>3. [loc[p] EXCEPT !.alias = FALSE] \in Locals
  BY LocalTypes DEF Locals
<1>4. loc' \in [Procs -> Locals]
  BY <1>2, <1>3 DEF ApplyProfile, TypeOK
<1>5. pc' \in [Procs -> Pcs]
  BY PcType DEF ApplyProfile, Pcs
<1>6. line' \in Seq(Procs)
  BY LineTypes DEF ApplyProfile, TypeOK
<1> QED
  BY <1>4, <1>5, <1>6 DEF ApplyProfile, TypeOK, sched, charger, world, history

LEMMA ProfileInstalledTypes == ASSUME TypeOK, NEW p \in Procs, ProfileInstalled(p) PROVE TypeOK'
<1>1. pc' \in [Procs -> Pcs]
  BY PcType DEF ProfileInstalled, Pcs
<1>2. chProfile' \in SUBSET Slots
  BY LocalTypes DEF ProfileInstalled
<1> QED
  BY <1>1, <1>2 DEF ProfileInstalled, TypeOK, sched, world, history

\* Emptying the slots of a goroutine's locals keeps them well-typed.
LEMMA NoSlotsType ==
  ASSUME TypeOK, NEW p \in Procs, loc' = [loc EXCEPT ![p].slots = {}]
  PROVE  loc' \in [Procs -> Locals]
<1>1. [loc[p] EXCEPT !.slots = {}] \in Locals
  BY LocalTypes DEF Locals
<1> QED
  BY <1>1 DEF TypeOK

LEMMA ProfileAnsweredTypes == ASSUME TypeOK, NEW p \in Procs, ProfileAnswered(p) PROVE TypeOK'
<1>1. pc' \in [Procs -> Pcs] /\ line' \in Seq(Procs) /\ loc' \in [Procs -> Locals]
  BY PcType, LineTypes, NoSlotsType DEF ProfileAnswered, Pcs
<1>2. lastProfileHash' \in SUBSET Slots
  BY LocalTypes DEF ProfileAnswered
<1> QED
  BY <1>1, <1>2 DEF ProfileAnswered, TypeOK, charger, world, history

LEMMA ProfileFailedTypes == ASSUME TypeOK, NEW p \in Procs, ProfileFailed(p) PROVE TypeOK'
<1>1. pc' \in [Procs -> Pcs] /\ line' \in Seq(Procs) /\ loc' \in [Procs -> Locals]
  BY PcType, LineTypes, NoSlotsType DEF ProfileFailed, Pcs
<1> QED
  BY <1>1 DEF ProfileFailed, TypeOK, sched, charger, world, history

LEMMA SaveTypes == ASSUME TypeOK, NEW p \in Procs, Save(p) PROVE TypeOK'
<1>1. loc' \in [Procs -> Locals]
  <2>1. [loc[p] EXCEPT !.data = current] \in Locals
    <3>1. loc[p] \in Locals /\ current \in Sched
      BY LocalTypes DEF TypeOK
    <3> QED
      BY <3>1 DEF Locals
  <2> QED
    BY <2>1 DEF Save, TypeOK
<1>2. pc' \in [Procs -> Pcs]
  BY PcType DEF Save, Pcs
<1> QED
  BY <1>1, <1>2 DEF Save, TypeOK, sched, charger, world, history

LEMMA SaveWriteTypes == ASSUME TypeOK, NEW p \in Procs, SaveWrite(p) PROVE TypeOK'
<1>1. pc' \in [Procs -> Pcs] /\ loc' \in [Procs -> Locals] /\ persisted' \in Sched
  BY ReturnTypes, LocalTypes DEF SaveWrite
<1> QED
  BY <1>1 DEF SaveWrite, TypeOK, charger, world, history

LEMMA ClearTypes == ASSUME TypeOK, NEW p \in Procs, Clear(p) PROVE TypeOK'
<1>1. pc' \in [Procs -> Pcs]
  BY PcType DEF Clear, Pcs
<1> QED
  BY <1>1, DetachedType, ConstTypes DEF Clear, ClearedHash, TypeOK, charger, world, history

LEMMA ClearStatusTypes == ASSUME TypeOK, NEW p \in Procs, ClearStatus(p) PROVE TypeOK'
<1>1. pc' \in [Procs -> Pcs] /\ line' \in Seq(Procs)
  BY PcType, LineTypes DEF ClearStatus, Pcs, TypeOK
<1> QED
  BY <1>1 DEF ClearStatus, TypeOK, sched, charger, world, history

LEMMA ClearSentTypes == ASSUME TypeOK, NEW p \in Procs, ClearSent(p) PROVE TypeOK'
<1>1. pc' \in [Procs -> Pcs] /\ line' \in Seq(Procs)
  BY PcType, LineTypes DEF ClearSent, Pcs
<1> QED
  BY <1>1 DEF ClearSent, TypeOK, sched, world, history

LEMMA NotifyImmediateTypes == ASSUME TypeOK, NEW p \in Procs, NotifyImmediate(p) PROVE TypeOK'
<1>1. pc' \in [Procs -> Pcs] /\ loc' \in [Procs -> Locals]
  BY ReturnTypes DEF NotifyImmediate
<1> QED
  BY <1>1 DEF NotifyImmediate, TypeOK, sched, charger, world, history

LEMMA StepTypes == ASSUME TypeInv, NEW p \in Procs, Step(p) PROVE TypeOK'
  BY ControlTypes, ControlStatusTypes, ControlCooldownTypes, ControlSendTypes,
     ControlAcceptedTypes, ControlFailedTypes, RecomputeTypes, RecomputePlanTypes,
     RecomputeWriteTypes, ApplyProfileTypes, ProfileInstalledTypes, ProfileAnsweredTypes,
     ProfileFailedTypes, SaveTypes, SaveWriteTypes, ClearTypes, ClearStatusTypes,
     ClearSentTypes, NotifyImmediateTypes DEF Step, TypeInv

LEMMA LoopBeginsTypes == ASSUME TypeOK, LoopBegins PROVE TypeOK'
<1>1. ASSUME NEW calls \in SUBSET Calls, Proceed(Loop, calls, "")
      PROVE  pc' \in [Procs -> Pcs] /\ loc' \in [Procs -> Locals]
  BY <1>1, ProceedTypes, ConstTypes
<1>2. CASE LoopBoot
  BY <1>1, <1>2 DEF LoopBoot, Calls, TypeOK, sched, charger, world, history
<1>3. CASE RecomputeTick
  BY <1>1, <1>3 DEF RecomputeTick, Calls, TypeOK, sched, charger, world, history
<1>4. CASE ControlTick
  BY <1>1, <1>4 DEF ControlTick, Calls, TypeOK, sched, charger, world, history
<1>5. CASE Notified
  <2>1. {"control"} \cup (IF mode = "schedule" THEN {"recompute"} ELSE {}) \in SUBSET Calls
    BY DEF Calls
  <2> QED
    BY <1>1, <1>5, <2>1 DEF Notified, TypeOK, sched, charger, world, history
<1> QED
  BY <1>2, <1>3, <1>4, <1>5 DEF LoopBegins

LEMMA ApplyPendingModeTypes ==
  ASSUME TypeOK, NEW t \in Timers, ApplyPendingMode(t) PROVE TypeOK'
<1> DEFINE calls == {"control", "notify"} \cup (IF pendingMode \in {"off", "force"} THEN {"clear"} ELSE {})
<1>1. calls \in SUBSET Calls /\ t \in Procs /\ pendingMode \in AllModes
  BY ConstTypes DEF Calls, ApplyPendingMode, TypeOK
<1>2. pc' \in [Procs -> Pcs] /\ loc' \in [Procs -> Locals]
  BY <1>1, ProceedTypes DEF ApplyPendingMode
<1> QED
  BY <1>1, <1>2 DEF ApplyPendingMode, TypeOK, charger, world, history

LEMMA RequestModeChangeTypes ==
  ASSUME TypeOK, NEW m \in Modes, RequestModeChange(m) PROVE TypeOK'
<1>1. m \in AllModes
  BY ControlAssumption DEF ControlAssumption
<1> QED
  BY <1>1 DEF RequestModeChange, Requested, TypeOK, charger, world

LEMMA SlotOpsTypes ==
  ASSUME TypeOK, NEW w \in Webs, NEW s \in Slots, CancelSlot(w, s) \/ RestoreSlot(w, s)
  PROVE  TypeOK'
<1>1. w \in Procs
  BY ConstTypes
<1>2. [loc[w] EXCEPT !.calls = {"control"}] \in Locals
  BY <1>1, LocalTypes DEF Locals, Calls
<1>3. loc' \in [Procs -> Locals]
  BY <1>1, <1>2 DEF CancelSlot, RestoreSlot, TypeOK
<1>4. pc' \in [Procs -> Pcs]
  BY <1>1 DEF CancelSlot, RestoreSlot, SavePc, TypeOK, Pcs
<1>5. current' \in Sched
  <2>1. current \in Sched
    BY DEF TypeOK
  <2> QED
    BY <2>1 DEF CancelSlot, RestoreSlot, Sched
<1> QED
  BY <1>3, <1>4, <1>5 DEF CancelSlot, RestoreSlot, TypeOK, charger, world

LEMMA WebCallTypes ==
  ASSUME TypeOK, NEW w \in Webs, SetConfig(w) \/ DeleteSchedule(w) PROVE TypeOK'
<1>1. pc' \in [Procs -> Pcs] /\ loc' \in [Procs -> Locals]
  BY ProceedTypes, ConstTypes DEF SetConfig, DeleteSchedule, Calls
<1> QED
  BY <1>1 DEF SetConfig, DeleteSchedule, TypeOK, sched, charger, world, history

LEMMA ConnectorTypes ==
  ASSUME TypeOK, PlugIn \/ Unplug \/ CarSuspends \/ CarResumes \/ RelayStart \/ RelayStop
  PROVE  TypeOK'
<1>1. queued' \in [{"start", "stop"} -> 0..MaxQueue]
  <2>0. 0 \in 0..MaxQueue
    BY BoundTypes
  <2>1. NoStop \in [{"start", "stop"} -> 0..MaxQueue]
    BY <2>0 DEF NoStop, TypeOK
  <2>2. ASSUME NEW c \in {"start", "stop"}, queued[c] > 0
        PROVE  [queued EXCEPT ![c] = @ - 1] \in [{"start", "stop"} -> 0..MaxQueue]
    <3>1. queued[c] \in 0..MaxQueue
      BY DEF TypeOK
    <3>2. queued[c] - 1 \in 0..MaxQueue
      BY <2>2, <3>1, BoundTypes
    <3> QED
      BY <3>2 DEF TypeOK
  <2> QED
    BY <2>1, <2>2 DEF PlugIn, Unplug, CarSuspends, CarResumes, RelayStart, RelayStop, TypeOK
<1>2. status' \in Statuses /\ txn' \in BOOLEAN /\ notifyCh' \in BOOLEAN
  BY DEF PlugIn, Unplug, CarSuspends, CarResumes, RelayStart, RelayStop, Connector, TypeOK, Statuses
<1>3. UNCHANGED <<sched, cool, pc, loc, line, online, booting, chProfile, world, history>>
  BY DEF PlugIn, Unplug, CarSuspends, CarResumes, RelayStart, RelayStop, Connector
<1> QED
  BY <1>1, <1>2, <1>3 DEF TypeOK, sched, world, history

LEMMA WorldTypes == ASSUME TypeOK, World PROVE TypeOK'
<1>1. CASE PlugIn \/ Unplug \/ CarSuspends \/ CarResumes \/ RelayStart \/ RelayStop
  BY <1>1, ConnectorTypes
<1>2. CASE Disconnect
  BY <1>2, EmptySeq DEF Disconnect, TypeOK, sched, world, history
<1>3. CASE Reconnect
  BY <1>3 DEF Reconnect, TypeOK, sched, world, history
<1>4. CASE ChargerReboots
  BY <1>4, EmptySeq DEF ChargerReboots, TypeOK, sched, world, history
<1>5. CASE BootNotification
  BY <1>5 DEF BootNotification, ResetHash, TypeOK, world, history
<1>6. CASE PlugReport
  BY <1>6 DEF PlugReport, TypeOK, sched, charger, history
<1>7. CASE Tick
  <2>1. clock' \in 0..(2 * MaxSlot)
    <3>1. clock \in 0..(2 * MaxSlot) /\ clock < 2 * MaxSlot /\ clock' = clock + 1
      BY <1>7 DEF Tick, TypeOK
    <3> QED
      BY <3>1, BoundTypes
  <2> QED
    BY <1>7, <2>1 DEF Tick, TypeOK, sched, charger, history
<1>8. CASE \E c \in {"start", "stop", "profile"} : CooldownExpires(c)
  BY <1>8 DEF CooldownExpires, TypeOK, sched, charger, world, history
<1> QED
  BY <1>1, <1>2, <1>3, <1>4, <1>5, <1>6, <1>7, <1>8 DEF World

LEMMA CrashTypes == ASSUME TypeOK, Crash PROVE TypeOK'
<1>1. current' \in Sched
  BY DEF Crash, TypeOK, Live, Sched
<1>2. pc' \in [Procs -> Pcs] /\ loc' \in [Procs -> Locals] /\ line' \in Seq(Procs)
  BY ConstTypes, EmptySeq DEF Crash, Pcs
<1>3. crashes' \in 0..MaxCrash
  <2>1. crashes \in 0..MaxCrash /\ crashes < MaxCrash /\ crashes' = crashes + 1
    BY DEF Crash, TypeOK
  <2> QED
    BY <2>1, BoundTypes
<1> QED
  BY <1>1, <1>2, <1>3 DEF Crash, TypeOK

LEMMA NextTypes == ASSUME TypeInv, Next PROVE TypeOK'
<1>1. CASE \E p \in Procs : Step(p)
  BY <1>1, StepTypes
<1>2. CASE LoopBegins
  BY <1>2, LoopBeginsTypes DEF TypeInv
<1>3. CASE \E t \in Timers : ApplyPendingMode(t)
  BY <1>3, ApplyPendingModeTypes DEF TypeInv
<1>4. CASE User
  BY <1>4, RequestModeChangeTypes, SlotOpsTypes, WebCallTypes DEF User, TypeInv
<1>5. CASE World
  BY <1>5, WorldTypes DEF TypeInv
<1>6. CASE Crash
  BY <1>6, CrashTypes DEF TypeInv
<1> QED
  BY <1>1, <1>2, <1>3, <1>4, <1>5, <1>6 DEF Next

\* Return leads to the start of a call or to idle, never into the middle of a call,
\* and concerns no other goroutine.
LEMMA ReturnMoves ==
  ASSUME TypeOK, NEW p \in Procs, Return(p)
  PROVE  /\ pc'[p] \in Calls \cup {"idle"}
         /\ \A q \in Procs \ {p} : pc'[q] = pc[q] /\ loc'[q] = loc[q]
  BY DEF Return, Proceed, NextPc, Calls, TypeOK

LEMMA ProceedMoves ==
  ASSUME TypeOK, NEW p \in Procs, NEW calls, NEW pin, Proceed(p, calls, pin)
  PROVE  /\ pc'[p] \in Calls \cup {"idle"}
         /\ \A q \in Procs \ {p} : pc'[q] = pc[q] /\ loc'[q] = loc[q]
  BY DEF Proceed, NextPc, Calls, TypeOK

\* A schedule object that is replaced changes pointers only.
LEMMA DetachedFields ==
  ASSUME TypeOK, NEW q \in Procs
  PROVE  /\ Detached[q].cmd = loc[q].cmd
         /\ Detached[q].calls = loc[q].calls
         /\ Detached[q].data = loc[q].data
         /\ Detached[q].slots = loc[q].slots
<1>1. loc[q] \in Locals
  BY LocalTypes
<1> QED
  BY <1>1 DEF Detached, Locals

LEMMA StepCommand == ASSUME TypeInv, NEW p \in Procs, Step(p) PROVE CommandChosen'
<1> USE DEF TypeInv
<1> SUFFICES ASSUME NEW q \in Procs, pc'[q] \in {"ctl_cool", "ctl_send", "ctl_sent"}
             PROVE  loc'[q].cmd \in {"start", "stop"}
  BY DEF CommandChosen
<1>1. CASE Control(p)
  BY <1>1 DEF Control, Goto, CommandChosen, TypeOK
<1>2. CASE ControlStatus(p)
  <2>1. CASE Return(p)
    BY <2>1, ReturnMoves DEF Calls, CommandChosen
  <2>2. CASE Wanted(p) # "none" /\ loc' = [loc EXCEPT ![p].cmd = Wanted(p)] /\ Goto(p, "ctl_cool")
    <3>1. Wanted(p) \in {"start", "stop"}
      BY <2>2 DEF Wanted
    <3> QED
      <4>1. loc'[p].cmd = Wanted(p) /\ \A o \in Procs \ {p} : loc'[o] = loc[o] /\ pc'[o] = pc[o]
        BY <2>2 DEF Goto, TypeOK, Locals
      <4> QED
        BY <3>1, <4>1 DEF CommandChosen
  <2> QED
    BY <1>2, <2>1, <2>2 DEF ControlStatus
<1>3. CASE ControlCooldown(p)
  BY <1>3, ReturnMoves DEF ControlCooldown, Goto, Calls, CommandChosen, TypeOK
<1>4. CASE ControlSend(p)
  BY <1>4 DEF ControlSend, Goto, CommandChosen, TypeOK
<1>5. CASE ControlAccepted(p) \/ ControlFailed(p) \/ SaveWrite(p) \/ NotifyImmediate(p)
  BY <1>5, ReturnMoves DEF ControlAccepted, ControlFailed, SaveWrite, NotifyImmediate, Calls, CommandChosen
<1>6. CASE Recompute(p) \/ RecomputePlan(p)
  BY <1>6, ReturnMoves DEF Recompute, RecomputePlan, Goto, Calls, CommandChosen, TypeOK
<1>7. CASE RecomputeWrite(p) \/ Clear(p)
  <2>1. pc \in [Procs -> Pcs] /\ loc \in [Procs -> Locals]
    BY DEF TypeOK
  <2>2. PICK l \in {"save", "rc_apply", "cl_status"} : pc' = [pc EXCEPT ![p] = l]
    BY <1>7 DEF RecomputeWrite, Clear, Goto
  <2>3. \A o \in Procs \ {p} : loc'[o].cmd = loc[o].cmd
    BY <1>7, DetachedFields, DetachedType DEF RecomputeWrite, Clear
  <2> QED
    BY <2>1, <2>2, <2>3 DEF CommandChosen
<1>8. CASE ApplyProfile(p) \/ ProfileInstalled(p) \/ ProfileAnswered(p) \/ ProfileFailed(p)
  BY <1>8 DEF ApplyProfile, ProfileInstalled, ProfileAnswered, ProfileFailed, Goto, CommandChosen, TypeOK
<1>9. CASE Save(p) \/ ClearStatus(p) \/ ClearSent(p)
  BY <1>9 DEF Save, ClearStatus, ClearSent, Goto, CommandChosen, TypeOK
<1> QED
  BY <1>1, <1>2, <1>3, <1>4, <1>5, <1>6, <1>7, <1>8, <1>9 DEF Step

LEMMA NextCommand == ASSUME TypeInv, Next PROVE CommandChosen'
<1> USE DEF TypeInv
<1>1. CASE \E p \in Procs : Step(p)
  BY <1>1, StepCommand
<1>2. ASSUME NEW p \in Procs, NEW calls, NEW pin, Proceed(p, calls, pin) PROVE CommandChosen'
  BY <1>2, ProceedMoves DEF CommandChosen, Calls
<1>3. CASE LoopBegins
  BY <1>2, <1>3, ConstTypes DEF LoopBegins, LoopBoot, RecomputeTick, ControlTick, Notified
<1>4. CASE \E t \in Timers : ApplyPendingMode(t)
  BY <1>2, <1>4, ConstTypes DEF ApplyPendingMode
<1>5. CASE User
  <2>1. CASE \E m \in Modes : RequestModeChange(m)
    BY <2>1 DEF RequestModeChange, CommandChosen
  <2>2. CASE \E w \in Webs, s \in Slots : CancelSlot(w, s) \/ RestoreSlot(w, s)
    BY <2>2, ConstTypes DEF CancelSlot, RestoreSlot, SavePc, CommandChosen, TypeOK
  <2>3. CASE \E w \in Webs : SetConfig(w) \/ DeleteSchedule(w)
    BY <1>2, <2>3, ConstTypes DEF SetConfig, DeleteSchedule
  <2> QED
    BY <1>5, <2>1, <2>2, <2>3 DEF User
<1>6. CASE World
  <2>1. pc' = pc /\ loc' = loc
    BY <1>6 DEF World, PlugIn, Unplug, CarSuspends, CarResumes, RelayStart, RelayStop, Connector,
                Disconnect, Reconnect, ChargerReboots, BootNotification, PlugReport, Tick,
                CooldownExpires
  <2> QED
    BY <2>1 DEF CommandChosen
<1>7. CASE Crash
  BY <1>7 DEF Crash, CommandChosen
<1> QED
  BY <1>1, <1>3, <1>4, <1>5, <1>6, <1>7 DEF Next

LEMMA TypesHold == Spec => []TypeInv
<1>1. Init => TypeInv
  BY InitTypes DEF Init, CommandChosen, TypeInv
<1>2. TypeInv /\ [Next]_vars => TypeInv'
  <2>1. CASE Next
    BY <2>1, NextTypes, NextCommand DEF TypeInv
  <2>2. CASE UNCHANGED vars
    BY <2>2 DEF vars, TypeInv, CommandChosen, TypeOK
  <2> QED
    BY <2>1, <2>2
<1> QED
  BY <1>1, <1>2, PTL DEF Spec

\* Every variable keeps its type: in particular requests under way belong to
\* goroutines, cooldowns to types of commands, and the proxy's queue to its bound.
THEOREM TypeCorrect == Spec => []TypeOK
<1>1. TypeInv => TypeOK
  BY DEF TypeInv
<1> QED
  BY <1>1, TypesHold, PTL

-----------------------------------------------------------------------------
(* "Only the last requested mode applies", however calls overlap.          *)

ModeInv == IF pendingMode = "" THEN lastRequest \subseteq {mode} ELSE lastRequest \subseteq {pendingMode}

LEMMA NextMode == ASSUME TypeInv, ModeInv, Next PROVE ModeInv'
<1>1. ASSUME NEW p \in Procs, Step(p) PROVE ModeInv'
  <2>1. CASE Control(p) \/ ControlStatus(p) \/ ControlCooldown(p) \/ ControlSend(p) \/ ControlAccepted(p)
               \/ ControlFailed(p)
    BY <2>1 DEF ModeInv, Control, ControlStatus, ControlCooldown, ControlSend, ControlAccepted,
                ControlFailed, sched, history
  <2>2. CASE Recompute(p) \/ RecomputePlan(p) \/ RecomputeWrite(p) \/ ApplyProfile(p)
               \/ ProfileInstalled(p) \/ ProfileAnswered(p) \/ ProfileFailed(p)
    BY <2>2 DEF ModeInv, Recompute, RecomputePlan, RecomputeWrite, ApplyProfile, ProfileInstalled,
                ProfileAnswered, ProfileFailed, sched, history
  <2>3. CASE Save(p) \/ SaveWrite(p) \/ Clear(p) \/ ClearStatus(p) \/ ClearSent(p) \/ NotifyImmediate(p)
    BY <2>3 DEF ModeInv, Save, SaveWrite, Clear, ClearStatus, ClearSent, NotifyImmediate, sched, history
  <2> QED
    BY <1>1, <2>1, <2>2, <2>3 DEF Step
<1>2. CASE LoopBegins
  BY <1>2 DEF ModeInv, LoopBegins, LoopBoot, RecomputeTick, ControlTick, Notified, sched, history
<1>3. CASE \E t \in Timers : ApplyPendingMode(t)
  BY <1>3 DEF ModeInv, ApplyPendingMode, history
<1>4. CASE User
  <2>1. CASE \E m \in Modes : RequestModeChange(m)
    <3>1. \A m \in Modes : m # ""
      BY ControlAssumption DEF ControlAssumption, AllModes
    <3> QED
      BY <2>1, <3>1 DEF ModeInv, RequestModeChange, Requested
  <2>2. CASE \E w \in Webs : \/ \E s \in Slots : CancelSlot(w, s) \/ RestoreSlot(w, s)
                             \/ SetConfig(w) \/ DeleteSchedule(w)
    BY <2>2 DEF ModeInv, CancelSlot, RestoreSlot, SetConfig, DeleteSchedule, sched, history
  <2> QED
    BY <1>4, <2>1, <2>2 DEF User
<1>5. CASE World
  BY <1>5 DEF ModeInv, World, PlugIn, Unplug, CarSuspends, CarResumes, RelayStart, RelayStop, Connector,
              Disconnect, Reconnect, ChargerReboots, BootNotification, PlugReport, Tick,
              CooldownExpires, sched, history
<1>6. CASE Crash
  BY <1>6 DEF ModeInv, Crash
<1> QED
  BY <1>1, <1>2, <1>3, <1>4, <1>5, <1>6 DEF Next

\* The mode setting ends up as the last one requested (RequestModeChange replaces
\* the pending mode, applyPendingMode takes and stores it), also when calls of the
\* loop, of several timer callbacks and of web requests overlap.
THEOREM LastModeApplies == Spec => []LastRequestWins
<1>1. Init => ModeInv
  BY DEF Init, ModeInv
<1>2. TypeInv /\ ModeInv /\ [Next]_vars => ModeInv'
  BY NextMode DEF vars, ModeInv
<1>3. ModeInv => LastRequestWins
  BY DEF ModeInv, LastRequestWins
<1> QED
  BY <1>1, <1>2, <1>3, TypesHold, PTL DEF Spec

-----------------------------------------------------------------------------
(* What each kind of step leaves alone.                                    *)

Undisturbed(q) ==
  /\ pc'[q] = pc[q]
  /\ loc'[q].cmd = loc[q].cmd
  /\ loc'[q].calls = loc[q].calls
  /\ loc'[q].data = loc[q].data
  /\ loc'[q].slots = loc[q].slots

\* A step inside a call is one of a goroutine that runs; the others' control and
\* what they have read stay (their pointers may be detached).
LEMMA StepFootprint ==
  ASSUME TypeOK, NEW p \in Procs, Step(p)
  PROVE  pc[p] # "idle" /\ \A q \in Procs \ {p} : Undisturbed(q)
<1>1. CASE RecomputeWrite(p) \/ Clear(p)
  <2>1. pc[p] # "idle" /\ \A q \in Procs \ {p} : pc'[q] = pc[q]
    BY <1>1 DEF RecomputeWrite, Clear, Goto, TypeOK
  <2>2. \A q \in Procs \ {p} : loc'[q] = Detached[q]
    BY <1>1, DetachedType DEF RecomputeWrite, Clear
  <2> QED
    BY <2>1, <2>2, DetachedFields DEF Undisturbed
<1>2. CASE Control(p) \/ ControlSend(p) \/ ApplyProfile(p) \/ ProfileInstalled(p) \/ ProfileAnswered(p)
             \/ ProfileFailed(p) \/ Save(p) \/ ClearStatus(p) \/ ClearSent(p)
  BY <1>2 DEF Control, ControlSend, ApplyProfile, ProfileInstalled, ProfileAnswered, ProfileFailed,
              Save, ClearStatus, ClearSent, Goto, Undisturbed, TypeOK
<1>3. CASE ControlStatus(p) \/ ControlCooldown(p) \/ Recompute(p) \/ RecomputePlan(p)
  BY <1>3, ReturnMoves DEF ControlStatus, ControlCooldown, Recompute, RecomputePlan, Goto, Undisturbed, TypeOK
<1>4. CASE ControlAccepted(p) \/ ControlFailed(p) \/ SaveWrite(p) \/ NotifyImmediate(p)
  BY <1>4, ReturnMoves DEF ControlAccepted, ControlFailed, SaveWrite, NotifyImmediate, Undisturbed
<1> QED
  BY <1>1, <1>2, <1>3, <1>4 DEF Step

\* A step that begins a call.
Begin(p) ==
  \/ p = Loop /\ LoopBegins
  \/ p \in Timers /\ ApplyPendingMode(p)
  \/ p \in Webs /\ (SetConfig(p) \/ DeleteSchedule(p))
  \/ p \in Webs /\ \E s \in Slots : CancelSlot(p, s) \/ RestoreSlot(p, s)

LEMMA BeginFootprint ==
  ASSUME TypeOK, Serial, NEW p \in Procs, Begin(p)
  PROVE  /\ pc[p] = "boot" \/ Quiet
         /\ pc'[p] \in Calls \cup {"idle", "save"}
         /\ \A q \in Procs \ {p} : Undisturbed(q)
<1>1. CASE p = Loop /\ LoopBegins
  BY <1>1, ProceedMoves DEF LoopBegins, LoopBoot, RecomputeTick, ControlTick, Notified, CanBegin, Undisturbed
<1>2. CASE p \in Timers /\ ApplyPendingMode(p)
  BY <1>2, ProceedMoves DEF ApplyPendingMode, CanBegin, Undisturbed
<1>3. CASE p \in Webs /\ (SetConfig(p) \/ DeleteSchedule(p))
  BY <1>3, ProceedMoves DEF SetConfig, DeleteSchedule, CanBegin, Undisturbed
<1>4. CASE p \in Webs /\ \E s \in Slots : CancelSlot(p, s) \/ RestoreSlot(p, s)
  BY <1>4 DEF CancelSlot, RestoreSlot, SavePc, CanBegin, Undisturbed, TypeOK
<1> QED
  BY <1>1, <1>2, <1>3, <1>4 DEF Begin

LEMMA WorldFootprint == World => pc' = pc /\ loc' = loc
  BY DEF World, PlugIn, Unplug, CarSuspends, CarResumes, RelayStart, RelayStop, Connector, Disconnect,
         Reconnect, ChargerReboots, BootNotification, PlugReport, Tick, CooldownExpires

\* The next-state relation, by kind of step.
LEMMA NextKinds ==
  ASSUME Next
  PROVE  \/ \E p \in Procs : Step(p) \/ Begin(p)
         \/ \E m \in Modes : RequestModeChange(m)
         \/ World
         \/ Crash
<1>1. CASE LoopBegins
  BY <1>1, ConstTypes DEF Begin
<1>2. CASE \E t \in Timers : ApplyPendingMode(t)
  BY <1>2, ConstTypes DEF Begin
<1>3. CASE User
  BY <1>3, ConstTypes DEF Begin, User
<1> QED
  BY <1>1, <1>2, <1>3 DEF Next

-----------------------------------------------------------------------------
(* Instances in which calls do not overlap.                                *)

OneBusy == \A p, q \in Procs : pc[p] # "idle" /\ pc[q] # "idle" => p = q

LEMMA NextOneBusy == ASSUME TypeInv, Serial, OneBusy, Next PROVE OneBusy'
<1>1. ASSUME NEW p \in Procs, pc[p] # "idle" \/ Quiet, \A q \in Procs \ {p} : pc'[q] = pc[q]
      PROVE  OneBusy'
  BY <1>1 DEF OneBusy, Quiet
<1>2. CASE \E p \in Procs : Step(p)
  BY <1>1, <1>2, StepFootprint DEF Undisturbed, TypeInv
<1>3. CASE \E p \in Procs : Begin(p)
  <2>1. PICK p \in Procs : Begin(p)
    BY <1>3
  <2> QED
    BY <1>1, <2>1, BeginFootprint DEF Undisturbed, TypeInv
<1>4. CASE \E m \in Modes : RequestModeChange(m)
  BY <1>4 DEF RequestModeChange, OneBusy
<1>5. CASE World
  BY <1>5, WorldFootprint DEF OneBusy
<1>6. CASE Crash
  BY <1>6 DEF Crash, OneBusy
<1> QED
  BY <1>2, <1>3, <1>4, <1>5, <1>6, NextKinds

\* What later proofs start from: types, and one goroutine at a time.
SerialInv == TypeInv /\ OneBusy

LEMMA SerialHolds == ASSUME Serial PROVE Spec => []SerialInv
<1>1. Init => OneBusy
  BY DEF Init, OneBusy
<1>2. TypeInv /\ OneBusy /\ [Next]_vars => OneBusy'
  BY NextOneBusy DEF vars, OneBusy
<1> QED
  BY <1>1, <1>2, TypesHold, PTL DEF Spec, SerialInv

-----------------------------------------------------------------------------
(* What is stored is what a restart needs.                                 *)

\* Where the schedule in memory may have changed and is not yet stored.
Unsaved == {"rc_apply", "rc_sent", "rc_delivered", "save", "save_write", "cl_status", "cl_sent"}

SaveInv ==
  /\ (\A p \in Procs : pc[p] \notin Unsaved) => Live(persisted) = Live(current)
  /\ \A p \in Procs : pc[p] = "save_write" => loc[p].data = current

LEMMA StepSaveInv == ASSUME SerialInv, SaveInv, NEW p \in Procs, Step(p) PROVE SaveInv'
<1> USE DEF SerialInv, TypeInv
<1>1. \A q \in Procs \ {p} : pc[q] = "idle" /\ pc'[q] = "idle"
  BY StepFootprint DEF OneBusy, Undisturbed
<1>2. pc[p] \notin Unsaved => Live(persisted) = Live(current)
  BY <1>1 DEF SaveInv, Unsaved
<1>3. SUFFICES /\ pc'[p] \notin Unsaved => Live(persisted)' = Live(current)'
               /\ pc'[p] = "save_write" => loc'[p].data = current'
  BY <1>1 DEF SaveInv
<1>4. CASE RecomputeWrite(p) \/ Clear(p)
  BY <1>4 DEF RecomputeWrite, Clear, Goto, Unsaved, TypeOK
<1>5. CASE Save(p)
  <2>1. pc'[p] = "save_write"
    BY <1>5 DEF Save, Goto, TypeOK
  <2>2. loc'[p].data = current /\ current' = current
    <3>1. loc[p] \in Locals /\ loc' = [loc EXCEPT ![p].data = current] /\ loc \in [Procs -> Locals]
      BY <1>5 DEF Save, TypeOK
    <3> QED
      BY <1>5, <3>1 DEF Save, sched, Locals
  <2> QED
    BY <2>1, <2>2 DEF Unsaved
<1>6. CASE SaveWrite(p)
  <2>1. persisted' = current' /\ clock' = clock
    BY <1>6 DEF SaveWrite, SaveInv, world
  <2>2. pc'[p] # "save_write"
    BY <1>6, ReturnMoves DEF SaveWrite, Calls
  <2> QED
    BY <2>1, <2>2
<1>7. CASE ApplyProfile(p) \/ ProfileInstalled(p) \/ ProfileAnswered(p) \/ ProfileFailed(p)
             \/ ClearStatus(p) \/ ClearSent(p)
  BY <1>7 DEF ApplyProfile, ProfileInstalled, ProfileAnswered, ProfileFailed, ClearStatus, ClearSent,
     Goto, Unsaved, TypeOK
<1>8. CASE Control(p) \/ ControlStatus(p) \/ ControlCooldown(p) \/ ControlSend(p) \/ ControlAccepted(p)
             \/ ControlFailed(p) \/ Recompute(p) \/ RecomputePlan(p) \/ NotifyImmediate(p)
  <2>1. pc[p] \notin Unsaved
    BY <1>8 DEF Control, ControlStatus, ControlCooldown, ControlSend, ControlAccepted, ControlFailed,
       Recompute, RecomputePlan, NotifyImmediate, Unsaved
  <2>2. pc'[p] # "save_write"
    BY <1>8, ReturnMoves DEF Control, ControlStatus, ControlCooldown, ControlSend, ControlAccepted,
       ControlFailed, Recompute, RecomputePlan, NotifyImmediate, Goto, Calls, TypeOK
  <2>3. persisted' = persisted /\ current' = current /\ clock' = clock
    BY <1>8 DEF Control, ControlStatus, ControlCooldown, ControlSend, ControlAccepted, ControlFailed,
       Recompute, RecomputePlan, NotifyImmediate, sched, world
  <2> QED
    BY <1>2, <2>1, <2>2, <2>3 DEF Live, Ended
<1> QED
  BY <1>4, <1>5, <1>6, <1>7, <1>8 DEF Step

\* Two schedules with the same live part keep the same live part as time passes.
LEMMA LiveTick ==
  ASSUME TypeOK, Tick, Live(persisted) = Live(current) PROVE Live(persisted)' = Live(current)'
<1>1. clock \in Int /\ clock' = clock + 1 /\ persisted' = persisted /\ current' = current
  <2>1. clock \in 0..(2 * MaxSlot)
    BY DEF TypeOK
  <2> QED
    BY <2>1 DEF Tick, sched
<1>2. \A t \in Slots : t \in Int
  BY BoundTypes DEF Slots
<1>3. persisted.on \subseteq Slots /\ persisted.off \subseteq Slots
        /\ current.on \subseteq Slots /\ current.off \subseteq Slots
  BY DEF TypeOK, Sched
<1>4. ASSUME NEW t \in Slots, ~Ended(t)' PROVE ~Ended(t)
  BY <1>1, <1>2, <1>4 DEF Ended
<1>5. /\ {t \in persisted.on : ~Ended(t)} = {t \in current.on : ~Ended(t)}
      /\ {t \in persisted.off : ~Ended(t)} = {t \in current.off : ~Ended(t)}
  BY DEF Live
<1>6. /\ {t \in persisted.on : ~Ended(t)'} = {t \in current.on : ~Ended(t)'}
      /\ {t \in persisted.off : ~Ended(t)'} = {t \in current.off : ~Ended(t)'}
  BY <1>3, <1>4, <1>5
<1> QED
  BY <1>1, <1>6 DEF Live, Ended

LEMMA NextSaveInv == ASSUME SerialInv, Serial, SaveInv, Next PROVE SaveInv'
<1> USE DEF SerialInv, TypeInv
<1>1. CASE \E p \in Procs : Step(p)
  BY <1>1, StepSaveInv
<1>2. ASSUME NEW p \in Procs, Begin(p) PROVE SaveInv'
  <2>1. \A q \in Procs : pc[q] \notin Unsaved
    BY <1>2, BeginFootprint DEF OneBusy, Quiet, Unsaved
  <2>2. \A q \in Procs : pc'[q] # "save_write"
    BY <1>2, <2>1, BeginFootprint DEF Undisturbed, Unsaved, Calls
  <2>3. CASE p \in Webs /\ \E s \in Slots : CancelSlot(p, s) \/ RestoreSlot(p, s)
    BY <2>2, <2>3 DEF CancelSlot, RestoreSlot, SavePc, SaveInv, Unsaved, TypeOK
  <2>4. CASE ~(p \in Webs /\ \E s \in Slots : CancelSlot(p, s) \/ RestoreSlot(p, s))
    <3>1. persisted' = persisted /\ current' = current /\ clock' = clock
      BY <1>2, <2>4 DEF Begin, LoopBegins, LoopBoot, RecomputeTick, ControlTick, Notified,
         ApplyPendingMode, SetConfig, DeleteSchedule, sched, world
    <3> QED
      BY <2>1, <2>2, <3>1 DEF SaveInv, Live, Ended
  <2> QED
    BY <2>3, <2>4
<1>3. CASE \E m \in Modes : RequestModeChange(m)
  BY <1>3 DEF RequestModeChange, SaveInv, Live, Ended, world
<1>4. CASE World
  <2>1. persisted' = persisted /\ current' = current
    BY <1>4 DEF World, PlugIn, Unplug, CarSuspends, CarResumes, RelayStart, RelayStop, Connector,
       Disconnect, Reconnect, ChargerReboots, BootNotification, PlugReport, Tick, CooldownExpires, sched
  <2>2. CASE Tick
    BY <1>4, <2>1, <2>2, LiveTick, WorldFootprint DEF SaveInv
  <2>3. CASE ~Tick
    <3>1. clock' = clock
      BY <1>4, <2>3 DEF World, PlugIn, Unplug, CarSuspends, CarResumes, RelayStart, RelayStop, Connector,
         Disconnect, Reconnect, ChargerReboots, BootNotification, PlugReport, CooldownExpires, world
    <3> QED
      BY <1>4, <2>1, <3>1, WorldFootprint DEF SaveInv, Live, Ended
  <2> QED
    BY <2>2, <2>3
<1>5. CASE Crash
  BY <1>5 DEF Crash, SaveInv, Live, Ended
<1> QED
  BY <1>1, <1>2, <1>3, <1>4, <1>5, NextKinds

LEMMA SavesHold == ASSUME Serial PROVE Spec => []SaveInv
<1>1. Init => SaveInv
  BY DEF Init, SaveInv
<1>2. SerialInv /\ SaveInv /\ [Next]_vars => SaveInv'
  BY NextSaveInv DEF vars, SaveInv, Live, Ended
<1> QED
  BY <1>1, <1>2, SerialHolds, PTL DEF Spec

\* As long as calls do not overlap, a restart between two of them restores the
\* schedule that was in memory: saveCurrent has stored every change, and pruning
\* at load drops only slots that have ended.
THEOREM ScheduleSaved == ASSUME Serial PROVE Spec => []PersistedIsCurrent
<1>1. SaveInv => PersistedIsCurrent
  BY DEF SaveInv, PersistedIsCurrent, Quiet, Unsaved
<1> QED
  BY <1>1, SavesHold, PTL

-----------------------------------------------------------------------------
(* Recompute keeps the slot in progress.                                   *)

Disjoint(sch) == sch.on \cap sch.off = {}

\* What recompute remembers stays true until it assigns its schedule.
SlotInv ==
  /\ Disjoint(current) /\ Disjoint(persisted)
  /\ \A p \in Procs :
       /\ pc[p] = "save_write" => Disjoint(loc[p].data)
       /\ pc[p] = "rc_plan" => Held(p) = current
       /\ pc[p] = "rc_plan" /\ ~ClockMidCall => loc[p].slots = activeSlot(current)
       /\ pc[p] = "rc_plan" => loc[p].slots \subseteq current.on
       /\ pc[p] = "rc_write" => Disjoint(loc[p].data) /\ loc[p].data.on \cap current.off = {}
       /\ pc[p] = "rc_write" /\ ~ClockMidCall => activeSlot(current) \subseteq loc[p].data.on

LEMMA StepSlotInv == ASSUME SerialInv, SlotInv, NEW p \in Procs, Step(p) PROVE SlotInv'
<1> USE DEF SerialInv, TypeInv
<1>1. \A q \in Procs \ {p} : pc[q] = "idle" /\ pc'[q] = "idle"
  BY StepFootprint DEF OneBusy, Undisturbed
<1>2. SUFFICES
        /\ Disjoint(current)' /\ Disjoint(persisted)'
        /\ pc'[p] = "save_write" => Disjoint(loc[p].data)'
        /\ pc'[p] = "rc_plan" => Held(p)' = current'
        /\ pc'[p] = "rc_plan" /\ ~ClockMidCall => loc'[p].slots = activeSlot(current)'
        /\ pc'[p] = "rc_plan" => loc'[p].slots \subseteq current'.on
        /\ pc'[p] = "rc_write" => Disjoint(loc[p].data)' /\ loc'[p].data.on \cap current'.off = {}
        /\ pc'[p] = "rc_write" /\ ~ClockMidCall => activeSlot(current)' \subseteq loc'[p].data.on
  BY <1>1 DEF SlotInv
<1>3. current \in Sched /\ persisted \in Sched /\ loc[p] \in Locals /\ loc[p].data \in Sched
  BY LocalTypes DEF TypeOK
<1>4. clock' = clock
  BY DEF Step, Control, ControlStatus, ControlCooldown, ControlSend, ControlAccepted, ControlFailed,
     Recompute, RecomputePlan, RecomputeWrite, ApplyProfile, ProfileInstalled, ProfileAnswered,
     ProfileFailed, Save, SaveWrite, Clear, ClearStatus, ClearSent, NotifyImmediate, world
<1>5. CASE Recompute(p)
  <2>1. current' = current /\ persisted' = persisted
    BY <1>5 DEF Recompute, sched
  <2>2. CASE Return(p)
    BY <2>1, <2>2, ReturnMoves DEF Calls, SlotInv, Disjoint
  <2>3. CASE loc' = [loc EXCEPT ![p].held = current, ![p].alias = TRUE, ![p].slots = activeSlot(current)]
               /\ Goto(p, "rc_plan")
    <3>1. loc'[p].alias /\ loc'[p].slots = activeSlot(current) /\ pc'[p] = "rc_plan"
      BY <1>3, <2>3 DEF Goto, Locals, TypeOK
    <3> QED
      BY <1>4, <2>1, <3>1 DEF SlotInv, Disjoint, Held, activeSlot, InWindow
  <2> QED
    BY <1>5, <2>2, <2>3 DEF Recompute
<1>6. CASE RecomputePlan(p)
  <2>1. current' = current /\ persisted' = persisted
    BY <1>6 DEF RecomputePlan, sched
  <2>2. CASE Return(p)
    BY <2>1, <2>2, ReturnMoves DEF Calls, SlotInv, Disjoint
  <2>3. CASE \E plan : loc' = [loc EXCEPT ![p].data = Merged(p, plan), ![p].slots = {}]
                       /\ Goto(p, "rc_write")
    <3>1. PICK plan : loc' = [loc EXCEPT ![p].data = Merged(p, plan), ![p].slots = {}]
                        /\ Goto(p, "rc_write")
      BY <2>3
    <3>2. loc'[p].data = Merged(p, plan) /\ pc'[p] = "rc_write"
      BY <1>3, <3>1 DEF Goto, Locals, TypeOK
    <3>3. /\ Held(p) = current
          /\ ~ClockMidCall => loc[p].slots = activeSlot(current)
          /\ loc[p].slots \subseteq current.on
          /\ Disjoint(current)
      BY <1>6 DEF RecomputePlan, SlotInv
    <3>4. Disjoint(loc[p].data)' /\ loc'[p].data.on \cap current.off = {}
      BY <3>2, <3>3 DEF Merged, Disjoint
    <3>5. ~ClockMidCall => activeSlot(current) \subseteq loc'[p].data.on
      BY <3>2, <3>3 DEF Merged, Disjoint
    <3> QED
      BY <1>4, <2>1, <3>2, <3>3, <3>4, <3>5 DEF SlotInv, Disjoint, activeSlot, InWindow
  <2> QED
    BY <1>6, <2>2, <2>3 DEF RecomputePlan
<1>7. CASE RecomputeWrite(p)
  <2>1. current' = loc[p].data /\ persisted' = persisted /\ pc'[p] \in {"save", "rc_apply"}
    BY <1>7 DEF RecomputeWrite, Goto, TypeOK
  <2> QED
    BY <1>7, <2>1 DEF RecomputeWrite, SlotInv, Disjoint
<1>8. CASE Clear(p)
  <2>1. current' = NoSchedule /\ persisted' = persisted /\ pc'[p] \in {"save", "cl_status"}
    BY <1>8 DEF Clear, Goto, TypeOK
  <2> QED
    BY <2>1 DEF NoSchedule, SlotInv, Disjoint
<1>9. CASE Save(p)
  <2>1. current' = current /\ persisted' = persisted /\ pc'[p] = "save_write"
    BY <1>9 DEF Save, Goto, sched, TypeOK
  <2>2. loc'[p].data = current
    <3>1. loc' = [loc EXCEPT ![p].data = current] /\ loc \in [Procs -> Locals]
      BY <1>9 DEF Save, TypeOK
    <3> QED
      BY <1>3, <3>1 DEF Locals
  <2> QED
    BY <2>1, <2>2 DEF SlotInv, Disjoint
<1>10. CASE SaveWrite(p)
  <2>1. current' = current /\ persisted' = loc[p].data /\ pc[p] = "save_write"
    BY <1>10 DEF SaveWrite
  <2>2. pc'[p] \in Calls \cup {"idle"}
    BY <1>10, ReturnMoves DEF SaveWrite
  <2> QED
    BY <2>1, <2>2 DEF SlotInv, Disjoint, Calls
<1>11. CASE \/ Control(p) \/ ControlStatus(p) \/ ControlCooldown(p) \/ ControlSend(p) \/ ControlAccepted(p)
            \/ ControlFailed(p) \/ NotifyImmediate(p)
  <2>1. current' = current /\ persisted' = persisted
    BY <1>11 DEF Control, ControlStatus, ControlCooldown, ControlSend, ControlAccepted, ControlFailed,
       NotifyImmediate, sched
  <2>2. pc'[p] \notin {"save_write", "rc_plan", "rc_write"}
    BY <1>11, ReturnMoves DEF Control, ControlStatus, ControlCooldown, ControlSend, ControlAccepted,
       ControlFailed, NotifyImmediate, Goto, Calls, TypeOK
  <2> QED
    BY <2>1, <2>2 DEF SlotInv, Disjoint
<1>12. CASE \/ ApplyProfile(p) \/ ProfileInstalled(p) \/ ProfileAnswered(p) \/ ProfileFailed(p)
            \/ ClearStatus(p) \/ ClearSent(p)
  <2>1. current' = current /\ persisted' = persisted
    BY <1>12 DEF ApplyProfile, ProfileInstalled, ProfileAnswered, ProfileFailed, ClearStatus, ClearSent, sched
  <2>2. pc'[p] \notin {"save_write", "rc_plan", "rc_write"}
    BY <1>12 DEF ApplyProfile, ProfileInstalled, ProfileAnswered, ProfileFailed, ClearStatus, ClearSent,
       Goto, TypeOK
  <2> QED
    BY <2>1, <2>2 DEF SlotInv, Disjoint
<1> QED
  BY <1>5, <1>6, <1>7, <1>8, <1>9, <1>10, <1>11, <1>12 DEF Step

LEMMA NextSlotInv == ASSUME SerialInv, Serial, SlotInv, Next PROVE SlotInv'
<1> USE DEF SerialInv, TypeInv
<1>1. CASE \E p \in Procs : Step(p)
  BY <1>1, StepSlotInv
<1>2. ASSUME NEW p \in Procs, Begin(p) PROVE SlotInv'
  <2>1. \A q \in Procs : pc'[q] \notin {"save_write", "rc_plan", "rc_write"}
    BY <1>2, BeginFootprint DEF OneBusy, Quiet, Undisturbed, Calls
  <2>2. CASE p \in Webs /\ \E s \in Slots : CancelSlot(p, s) \/ RestoreSlot(p, s)
    BY <2>1, <2>2 DEF CancelSlot, RestoreSlot, SlotInv, Disjoint
  <2>3. CASE ~(p \in Webs /\ \E s \in Slots : CancelSlot(p, s) \/ RestoreSlot(p, s))
    <3>1. persisted' = persisted /\ current' = current
      BY <1>2, <2>3 DEF Begin, LoopBegins, LoopBoot, RecomputeTick, ControlTick, Notified,
         ApplyPendingMode, SetConfig, DeleteSchedule, sched
    <3> QED
      BY <2>1, <3>1 DEF SlotInv, Disjoint
  <2> QED
    BY <2>2, <2>3
<1>3. CASE \E m \in Modes : RequestModeChange(m)
  BY <1>3 DEF RequestModeChange, SlotInv, Disjoint, Held, activeSlot, InWindow, world
<1>4. CASE World
  <2>1. persisted' = persisted /\ current' = current
    BY <1>4 DEF World, PlugIn, Unplug, CarSuspends, CarResumes, RelayStart, RelayStop, Connector,
       Disconnect, Reconnect, ChargerReboots, BootNotification, PlugReport, Tick, CooldownExpires, sched
  <2>2. pc' = pc /\ loc' = loc
    BY <1>4, WorldFootprint
  <2>3. CASE Tick
    <3>1. ClockMidCall \/ Quiet
      BY <2>3 DEF Tick
    <3> QED
      BY <2>1, <2>2, <3>1 DEF SlotInv, Disjoint, Held, Quiet
  <2>4. CASE ~Tick
    <3>1. clock' = clock
      BY <1>4, <2>4 DEF World, PlugIn, Unplug, CarSuspends, CarResumes, RelayStart, RelayStop, Connector,
         Disconnect, Reconnect, ChargerReboots, BootNotification, PlugReport, CooldownExpires, world
    <3> QED
      BY <2>1, <2>2, <3>1 DEF SlotInv, Disjoint, Held, activeSlot, InWindow
  <2> QED
    BY <2>3, <2>4
<1>5. CASE Crash
  BY <1>5 DEF Crash, SlotInv, Disjoint, Live
<1> QED
  BY <1>1, <1>2, <1>3, <1>4, <1>5, NextKinds

LEMMA SlotsHold == ASSUME Serial PROVE Spec => []SlotInv
<1>1. ASSUME Init PROVE SlotInv
  <2>1. \A p \in Procs : pc[p] \in {"boot", "idle"}
    BY <1>1 DEF Init
  <2>2. Disjoint(current) /\ Disjoint(persisted)
    BY <1>1 DEF Init, Disjoint, NoSchedule
  <2> QED
    BY <2>1, <2>2 DEF SlotInv
<1>2. SerialInv /\ SlotInv /\ [Next]_vars => SlotInv'
  BY NextSlotInv DEF vars, SlotInv, Disjoint, Held, activeSlot, InWindow
<1> QED
  BY <1>1, <1>2, SerialHolds, PTL DEF Spec

\* The steps that replace or change the schedule.
LEMMA ScheduleWriters ==
  ASSUME Next, current' # current
  PROVE  \/ \E p \in Procs : RecomputeWrite(p) \/ Clear(p)
         \/ \E w \in Webs, s \in Slots : CancelSlot(w, s) \/ RestoreSlot(w, s)
         \/ Crash
<1>1. ASSUME NEW p \in Procs, Step(p) PROVE RecomputeWrite(p) \/ Clear(p)
  <2>1. ~(Control(p) \/ ControlStatus(p) \/ ControlCooldown(p) \/ ControlSend(p) \/ ControlAccepted(p)
            \/ ControlFailed(p) \/ Recompute(p) \/ RecomputePlan(p))
    BY DEF Control, ControlStatus, ControlCooldown, ControlSend, ControlAccepted, ControlFailed,
           Recompute, RecomputePlan, sched
  <2>2. ~(ApplyProfile(p) \/ ProfileInstalled(p) \/ ProfileAnswered(p) \/ ProfileFailed(p) \/ Save(p)
            \/ SaveWrite(p) \/ ClearStatus(p) \/ ClearSent(p) \/ NotifyImmediate(p))
    BY DEF ApplyProfile, ProfileInstalled, ProfileAnswered, ProfileFailed, Save, SaveWrite, ClearStatus,
           ClearSent, NotifyImmediate, sched
  <2> QED
    BY <1>1, <2>1, <2>2 DEF Step
<1>2. CASE \E p \in Procs : Begin(p)
  BY <1>2 DEF Begin, LoopBegins, LoopBoot, RecomputeTick, ControlTick, Notified, ApplyPendingMode,
     SetConfig, DeleteSchedule, sched
<1>3. CASE \E m \in Modes : RequestModeChange(m)
  BY <1>3 DEF RequestModeChange
<1>4. CASE World
  BY <1>4 DEF World, PlugIn, Unplug, CarSuspends, CarResumes, RelayStart, RelayStop, Connector,
     Disconnect, Reconnect, ChargerReboots, BootNotification, PlugReport, Tick, CooldownExpires, sched
<1> QED
  BY <1>1, <1>2, <1>3, <1>4, NextKinds

\* As long as calls do not overlap and no slot begins during one, recompute keeps
\* the slot in progress; only CancelSlot and ClearSchedule end it early.
THEOREM SlotInProgressKept == ASSUME Serial, ~ClockMidCall PROVE Spec => ActiveSlotKept
<1> DEFINE Kept == \/ activeSlot(current) \subseteq current'.on
                   \/ crashes' # crashes
                   \/ \E p \in Procs : Clear(p)
                   \/ \E w \in Webs, s \in Slots : CancelSlot(w, s)
<1>1. ASSUME SerialInv, SlotInv, [Next]_vars PROVE [Kept]_vars
  <2>1. SUFFICES ASSUME Next PROVE Kept
    BY <1>1
  <2>2. activeSlot(current) \subseteq current.on
    BY DEF activeSlot
  <2>3. CASE current' = current
    BY <2>2, <2>3
  <2>4. CASE \E p \in Procs : RecomputeWrite(p)
    BY <1>1, <2>4 DEF RecomputeWrite, SlotInv
  <2>5. CASE \E w \in Webs, s \in Slots : RestoreSlot(w, s)
    BY <2>2, <2>5 DEF RestoreSlot
  <2>6. CASE Crash
    <3>1. crashes \in 0..MaxCrash /\ crashes' = crashes + 1
      BY <1>1, <2>6 DEF SerialInv, TypeInv, TypeOK, Crash
    <3> QED
      BY <3>1, BoundTypes
  <2> QED
    BY <2>1, <2>3, <2>4, <2>5, <2>6, ScheduleWriters
<1> QED
  BY <1>1, SerialHolds, SlotsHold, PTL DEF Spec, ActiveSlotKept

-----------------------------------------------------------------------------
(* A cancellation outlives recomputes, saves and restarts.                  *)

\* Cancelled slots that no schedule has left out since.
Remembered == cancelled \ lapsed

Off(sch, s) == s \notin sch.on /\ (s \in sch.off \/ Ended(s))

\* Does a web request still have to save?
Saving == \E w \in Webs : pc[w] \in {"save", "save_write"}

\* The schedule in memory, the one about to replace it and the stored one carry the
\* cancellations; the stored one may lack that of a request which has not saved.
CancelInv ==
  /\ \A s \in Remembered : Off(current, s)
  /\ \A p \in Procs : pc[p] = "rc_write" => Remembered \cap loc[p].data.on = {}
  /\ ~Saving => \A s \in Remembered : s \in persisted.off \/ Ended(s)

LEMMA EndedStays ==
  ASSUME TypeOK, NEW s \in Slots, Ended(s), clock' = clock \/ Tick PROVE Ended(s)'
<1>1. clock \in Int /\ clock' \in Int /\ clock' >= clock /\ s \in Int
  <2>1. clock \in 0..(2 * MaxSlot) /\ s \in 1..MaxSlot
    BY DEF TypeOK, Slots
  <2>2. clock \in Int /\ s \in Int
    BY <2>1, BoundTypes
  <2> QED
    BY <2>2 DEF Tick
<1> QED
  BY <1>1 DEF Ended

\* Steps that leave the schedules and the cancellations alone.
LEMMA CancelInvKept ==
  ASSUME TypeOK, CancelInv, UNCHANGED <<current, persisted, cancelled, lapsed>>,
         clock' = clock \/ Tick,
         \A p \in Procs : pc'[p] = "rc_write" => pc[p] = "rc_write" /\ loc'[p].data = loc[p].data,
         Saving => Saving' \/ \A s \in Remembered : s \in persisted.off \/ Ended(s)
  PROVE  CancelInv'
<1>1. Remembered' = Remembered /\ Remembered \subseteq Slots
  BY DEF Remembered, TypeOK
<1>2. \A s \in Remembered : Off(current, s)'
  BY <1>1, EndedStays DEF CancelInv, Off
<1>3. \A p \in Procs : pc'[p] = "rc_write" => Remembered \cap loc'[p].data.on = {}
  BY DEF CancelInv
<1>4. ~Saving' => \A s \in Remembered : s \in persisted.off \/ Ended(s)'
  BY <1>1, EndedStays DEF CancelInv
<1> QED
  BY <1>1, <1>2, <1>3, <1>4 DEF CancelInv

LEMMA StepCancelInv ==
  ASSUME SerialInv, SaveInv, SlotInv, CancelInv, NEW p \in Procs, Step(p)
  PROVE  CancelInv'
<1> USE DEF SerialInv, TypeInv
<1>1. \A q \in Procs \ {p} : pc[q] = "idle" /\ pc'[q] = "idle"
  BY StepFootprint DEF OneBusy, Undisturbed
<1>2. clock' = clock
  BY DEF Step, Control, ControlStatus, ControlCooldown, ControlSend, ControlAccepted, ControlFailed,
     Recompute, RecomputePlan, RecomputeWrite, ApplyProfile, ProfileInstalled, ProfileAnswered,
     ProfileFailed, Save, SaveWrite, Clear, ClearStatus, ClearSent, NotifyImmediate, world
<1>3. current \in Sched /\ persisted \in Sched /\ loc[p] \in Locals /\ loc[p].data \in Sched
  BY LocalTypes DEF TypeOK
<1>4. Saving => p \in Webs /\ pc[p] \in {"save", "save_write"}
  BY <1>1, ConstTypes DEF Saving
<1>5. CASE RecomputePlan(p)
  <2>1. UNCHANGED <<current, persisted, cancelled, lapsed>> /\ pc[p] = "rc_plan"
    BY <1>5 DEF RecomputePlan, sched, history
  <2>2. ~Saving
    BY <1>4, <2>1
  <2>3. CASE Return(p)
    <3>1. pc'[p] # "rc_write"
      BY <2>3, ReturnMoves DEF Calls
    <3> QED
      BY <1>1, <1>2, <2>1, <2>2, <3>1, CancelInvKept
  <2>4. CASE \E plan \in SUBSET {s \in Slots : ~Ended(s)} :
               loc' = [loc EXCEPT ![p].data = Merged(p, plan), ![p].slots = {}] /\ Goto(p, "rc_write")
    <3>1. PICK plan \in SUBSET {s \in Slots : ~Ended(s)} :
            loc' = [loc EXCEPT ![p].data = Merged(p, plan), ![p].slots = {}] /\ Goto(p, "rc_write")
      BY <2>4
    <3>2. loc'[p].data = Merged(p, plan)
      BY <1>3, <3>1 DEF Locals, TypeOK
    <3>3. Held(p) = current /\ loc[p].slots \subseteq current.on
      BY <2>1 DEF SlotInv
    <3>4. loc'[p].data.on = (plan \cup loc[p].slots) \ current.off
      BY <3>2, <3>3 DEF Merged
    <3>5. Remembered \cap loc'[p].data.on = {}
      BY <3>3, <3>4 DEF CancelInv, Off
    <3>6. Remembered' = Remembered /\ \A s \in Remembered : Ended(s)' <=> Ended(s)
      BY <1>2, <2>1 DEF Remembered, Ended
    <3> QED
      BY <1>1, <2>1, <2>2, <3>5, <3>6 DEF CancelInv, Off
  <2> QED
    BY <1>5, <2>3, <2>4 DEF RecomputePlan
<1>6. CASE RecomputeWrite(p)
  <2>1. /\ current' = loc[p].data /\ UNCHANGED <<persisted, cancelled>> /\ pc[p] = "rc_write"
        /\ lapsed' = lapsed \cup (cancelled \ (loc[p].data.on \cup loc[p].data.off))
        /\ pc'[p] # "rc_write"
    BY <1>6 DEF RecomputeWrite, Goto, TypeOK
  <2>2. ~Saving /\ \A q \in Procs : pc'[q] # "rc_write"
    BY <1>1, <1>4, <2>1
  <2>3. /\ Remembered' \subseteq Remembered
        /\ \A s \in Remembered' : s \in loc[p].data.on \cup loc[p].data.off
    BY <2>1 DEF Remembered
  <2>4. \A s \in Remembered' : s \notin loc[p].data.on /\ s \in loc[p].data.off
    BY <2>1, <2>3 DEF CancelInv
  <2>5. \A s \in Remembered' : s \in persisted.off \/ Ended(s)'
    BY <1>2, <2>2, <2>3 DEF CancelInv, Ended
  <2> QED
    BY <2>1, <2>2, <2>4, <2>5 DEF CancelInv, Off
<1>7. CASE Clear(p)
  <2>1. cancelled' = {}
    BY <1>7 DEF Clear
  <2>2. Remembered' = {}
    BY <2>1 DEF Remembered
  <2> QED
    BY <2>2 DEF CancelInv
<1>8. CASE SaveWrite(p)
  <2>1. /\ UNCHANGED <<current, cancelled, lapsed>> /\ persisted' = current /\ pc[p] = "save_write"
    BY <1>8 DEF SaveWrite, SaveInv, history
  <2>2. pc'[p] # "rc_write"
    BY <1>8, ReturnMoves DEF SaveWrite, Calls
  <2>3. Remembered' = Remembered /\ \A s \in Remembered : Ended(s)' <=> Ended(s)
    BY <1>2, <2>1 DEF Remembered, Ended
  <2> QED
    BY <1>1, <2>1, <2>2, <2>3 DEF CancelInv, Off
<1>9. CASE Save(p)
  <2>1. /\ UNCHANGED <<current, persisted, cancelled, lapsed>> /\ pc[p] = "save"
        /\ pc'[p] = "save_write"
    BY <1>9 DEF Save, Goto, sched, history, TypeOK
  <2>2. Saving => Saving'
    BY <1>4, <2>1 DEF Saving
  <2> QED
    BY <1>1, <1>2, <2>1, <2>2, CancelInvKept
<1>10. CASE \/ Control(p) \/ ControlStatus(p) \/ ControlCooldown(p) \/ ControlSend(p) \/ ControlAccepted(p)
            \/ ControlFailed(p) \/ Recompute(p) \/ NotifyImmediate(p)
  <2>1. UNCHANGED <<current, persisted, cancelled, lapsed>> /\ pc[p] \notin {"save", "save_write"}
    BY <1>10 DEF Control, ControlStatus, ControlCooldown, ControlSend, ControlAccepted, ControlFailed,
       Recompute, NotifyImmediate, sched, history
  <2>2. pc'[p] # "rc_write"
    BY <1>10, ReturnMoves DEF Control, ControlStatus, ControlCooldown, ControlSend, ControlAccepted,
       ControlFailed, Recompute, NotifyImmediate, Goto, Calls, TypeOK
  <2> QED
    BY <1>1, <1>2, <1>4, <2>1, <2>2, CancelInvKept
<1>11. CASE \/ ApplyProfile(p) \/ ProfileInstalled(p) \/ ProfileAnswered(p) \/ ProfileFailed(p)
            \/ ClearStatus(p) \/ ClearSent(p)
  <2>1. UNCHANGED <<current, persisted, cancelled, lapsed>> /\ pc[p] \notin {"save", "save_write"}
    BY <1>11 DEF ApplyProfile, ProfileInstalled, ProfileAnswered, ProfileFailed, ClearStatus, ClearSent,
       sched, history
  <2>2. pc'[p] # "rc_write"
    BY <1>11 DEF ApplyProfile, ProfileInstalled, ProfileAnswered, ProfileFailed, ClearStatus, ClearSent,
       Goto, TypeOK
  <2> QED
    BY <1>1, <1>2, <1>4, <2>1, <2>2, CancelInvKept
<1> QED
  BY <1>5, <1>6, <1>7, <1>8, <1>9, <1>10, <1>11 DEF Step

LEMMA NextCancelInv ==
  ASSUME SerialInv, Serial, SaveInv, SlotInv, CancelInv, Next PROVE CancelInv'
<1> USE DEF SerialInv, TypeInv
<1>1. CASE \E p \in Procs : Step(p)
  BY <1>1, StepCancelInv
<1>2. ASSUME NEW p \in Procs, Begin(p) PROVE CancelInv'
  <2>1. \A q \in Procs : pc[q] \in {"idle", "boot"}
    BY <1>2, BeginFootprint DEF OneBusy, Quiet
  <2>2. \A q \in Procs : pc'[q] # "rc_write"
    BY <1>2, <2>1, BeginFootprint DEF Undisturbed, Calls
  <2>3. ~Saving
    BY <2>1, ConstTypes DEF Saving
  <2>4. CASE p \in Webs /\ \E s \in Slots : CancelSlot(p, s)
    <3>1. PICK s \in Slots : CancelSlot(p, s)
      BY <2>4
    <3>2. /\ current' = [on |-> current.on \ {s}, off |-> current.off \cup {s}]
          /\ cancelled' = cancelled \cup {s} /\ lapsed' = lapsed \ {s} /\ clock' = clock
          /\ pc'[p] = "save"
      BY <3>1 DEF CancelSlot, SavePc, world, TypeOK
    <3>3. Saving'
      BY <2>4, <3>2 DEF Saving
    <3>4. ASSUME NEW t \in Remembered' PROVE Off(current, t)'
      <4>1. t = s \/ t \in Remembered
        BY <3>2 DEF Remembered
      <4> QED
        BY <3>2, <4>1 DEF CancelInv, Off, Ended
    <3> QED
      BY <2>2, <3>3, <3>4 DEF CancelInv
  <2>5. CASE p \in Webs /\ \E s \in Slots : RestoreSlot(p, s)
    <3>1. PICK s \in Slots : RestoreSlot(p, s)
      BY <2>5
    <3>2. /\ current' = [on |-> current.on \cup {s}, off |-> current.off \ {s}]
          /\ cancelled' = cancelled \ {s} /\ lapsed' = lapsed \ {s} /\ clock' = clock
          /\ pc'[p] = "save"
      BY <3>1 DEF RestoreSlot, SavePc, world, TypeOK
    <3>3. Saving'
      BY <2>5, <3>2 DEF Saving
    <3>4. ASSUME NEW t \in Remembered' PROVE Off(current, t)'
      <4>1. t # s /\ t \in Remembered
        BY <3>2 DEF Remembered
      <4> QED
        BY <3>2, <4>1 DEF CancelInv, Off, Ended
    <3> QED
      BY <2>2, <3>3, <3>4 DEF CancelInv
  <2>6. CASE ~(p \in Webs /\ \E s \in Slots : CancelSlot(p, s) \/ RestoreSlot(p, s))
    <3>1. UNCHANGED <<current, persisted, cancelled, lapsed, clock>>
      BY <1>2, <2>6 DEF Begin, LoopBegins, LoopBoot, RecomputeTick, ControlTick, Notified,
         ApplyPendingMode, SetConfig, DeleteSchedule, sched, world, history
    <3> QED
      BY <2>2, <2>3, <3>1, CancelInvKept
  <2> QED
    BY <2>4, <2>5, <2>6
<1>3. CASE \E m \in Modes : RequestModeChange(m)
  <2>1. UNCHANGED <<current, persisted, cancelled, lapsed, clock, pc, loc>>
    BY <1>3 DEF RequestModeChange, world
  <2> QED
    BY <2>1, CancelInvKept DEF Saving
<1>4. CASE World
  <2>1. UNCHANGED <<current, persisted, cancelled, lapsed>>
    BY <1>4 DEF World, PlugIn, Unplug, CarSuspends, CarResumes, RelayStart, RelayStop, Connector,
       Disconnect, Reconnect, ChargerReboots, BootNotification, PlugReport, Tick, CooldownExpires,
       sched, history
  <2>2. clock' = clock \/ Tick
    BY <1>4 DEF World, PlugIn, Unplug, CarSuspends, CarResumes, RelayStart, RelayStop, Connector,
       Disconnect, Reconnect, ChargerReboots, BootNotification, PlugReport, CooldownExpires, world
  <2>3. pc' = pc /\ loc' = loc
    BY <1>4, WorldFootprint
  <2> QED
    BY <2>1, <2>2, <2>3, CancelInvKept DEF Saving
<1>5. CASE Crash
  <2>1. /\ current' = Live(persisted) /\ UNCHANGED <<persisted, lapsed, clock>>
        /\ cancelled' = IF Saving THEN cancelled \cap persisted.off ELSE cancelled
        /\ \A q \in Procs : pc'[q] # "rc_write"
    BY <1>5 DEF Crash, Saving
  <2>2. \A s \in Remembered' : s \in persisted.off \/ Ended(s)
    <3>1. CASE Saving
      BY <2>1, <3>1 DEF Remembered
    <3>2. CASE ~Saving
      BY <2>1, <3>2 DEF Remembered, CancelInv
    <3> QED
      BY <3>1, <3>2
  <2>3. \A s : Ended(s)' <=> Ended(s)
    BY <2>1 DEF Ended
  <2>4. ASSUME NEW s \in Remembered' PROVE Off(current', s)
    <3>1. /\ current'.on = {t \in persisted.on : ~Ended(t)}
          /\ current'.off = {t \in persisted.off : ~Ended(t)}
      BY <2>1 DEF Live
    <3>2. Disjoint(persisted)
      BY DEF SlotInv
    <3> QED
      BY <2>2, <3>1, <3>2 DEF Disjoint, Off
  <2> QED
    BY <2>1, <2>2, <2>3, <2>4 DEF CancelInv, Off
<1> QED
  BY <1>1, <1>2, <1>3, <1>4, <1>5, NextKinds

\* As long as calls do not overlap, a slot that the user has cancelled stays off
\* through every recompute, save and crash until the user restores it, clears the
\* schedule, or recompute replaces the schedule by one without that slot: only from
\* such a schedule on may it be planned as active again (recompute's cancellations,
\* saveCurrent, loadPersistedSchedule).
THEOREM CancellationsKept == ASSUME Serial PROVE Spec => []CancellationHolds
<1>1. ASSUME Init PROVE CancelInv
  <2>1. Remembered = {} /\ \A p \in Procs : pc[p] \in {"boot", "idle"}
    BY <1>1 DEF Init, Remembered
  <2> QED
    BY <2>1 DEF CancelInv
<1>2. SerialInv /\ SaveInv /\ SlotInv /\ CancelInv /\ [Next]_vars => CancelInv'
  <2>1. SUFFICES ASSUME SerialInv, CancelInv, UNCHANGED vars PROVE CancelInv'
    BY NextCancelInv
  <2>2. UNCHANGED <<current, persisted, cancelled, lapsed, clock, pc, loc>>
    BY <2>1 DEF vars
  <2> QED
    BY <2>1, <2>2, CancelInvKept DEF Saving, SerialInv, TypeInv
<1>3. CancelInv => CancellationHolds
  BY DEF CancelInv, CancellationHolds, Remembered, Off
<1> QED
  BY <1>1, <1>2, <1>3, SerialHolds, SavesHold, SlotsHold, PTL DEF Spec

-----------------------------------------------------------------------------
(* Off and force leave no automatic schedule.                              *)

InRecompute == {"recompute", "rc_plan", "rc_write", "rc_apply", "rc_sent", "rc_delivered"}

ManualInv ==
  /\ \A p \in Procs : "recompute" \notin loc[p].calls
  /\ mode # "schedule" =>
       /\ \A p \in Procs : pc[p] \notin InRecompute
       /\ \/ current = NoSchedule /\ lastProfileHash = {}
          \/ \E p \in Procs : pc[p] = "clear"

\* The calls a goroutine still has to make once it has begun the first one.
LEMMA ProceedCalls ==
  ASSUME TypeOK, NEW p \in Procs, NEW calls \in SUBSET Calls, NEW pin, Proceed(p, calls, pin)
  PROVE  pc'[p] = NextPc(calls) /\ loc'[p].calls = calls \ {NextPc(calls)}
<1>1. Fresh \in Locals
  BY ConstTypes
<1> QED
  BY <1>1 DEF Proceed, TypeOK, Locals

\* Only a call that returns goes on to the next one.
LEMMA CallsKept ==
  ASSUME TypeOK, NEW p \in Procs, Step(p), ~Return(p) PROVE loc'[p].calls = loc[p].calls
<1>1. loc \in [Procs -> Locals] /\ loc[p] \in Locals
  BY LocalTypes DEF TypeOK
<1>2. CASE Control(p)
  BY <1>1, <1>2 DEF Control, Locals
<1>3. CASE ControlStatus(p)
  <2>1. PICK cmd : loc' = [loc EXCEPT ![p].cmd = cmd]
    BY <1>3 DEF ControlStatus
  <2> QED
    BY <1>1, <2>1 DEF Locals
<1>4. CASE Recompute(p)
  <2>1. PICK s : loc' = [loc EXCEPT ![p].held = current, ![p].alias = TRUE, ![p].slots = s]
    BY <1>4 DEF Recompute
  <2> QED
    BY <1>1, <2>1 DEF Locals
<1>5. CASE RecomputePlan(p)
  <2>1. PICK plan : loc' = [loc EXCEPT ![p].data = Merged(p, plan), ![p].slots = {}]
    BY <1>5 DEF RecomputePlan
  <2> QED
    BY <1>1, <2>1 DEF Locals
<1>6. CASE RecomputeWrite(p)
  <2>1. loc'[p].calls = Detached[p].calls
    BY <1>6, DetachedType DEF RecomputeWrite, Locals
  <2> QED
    BY <2>1, DetachedFields
<1>7. CASE Clear(p)
  BY <1>7, DetachedFields DEF Clear
<1>8. CASE ApplyProfile(p)
  <2>1. CASE loc' = [loc EXCEPT ![p].slots = ScheduleHash(Held(p)), ![p].alias = FALSE]
    BY <1>1, <2>1 DEF Locals
  <2>2. CASE loc' = [loc EXCEPT ![p].alias = FALSE]
    BY <1>1, <2>2 DEF Locals
  <2> QED
    BY <1>8, <2>1, <2>2 DEF ApplyProfile
<1>9. CASE ProfileAnswered(p) \/ ProfileFailed(p)
  BY <1>1, <1>9 DEF ProfileAnswered, ProfileFailed, Locals
<1>10. CASE Save(p)
  BY <1>1, <1>10 DEF Save, Locals
<1> QED
  BY <1>2, <1>3, <1>4, <1>5, <1>6, <1>7, <1>8, <1>9, <1>10 DEF Step, ControlCooldown, ControlSend,
     ControlAccepted, ControlFailed, ProfileInstalled, SaveWrite, ClearStatus, ClearSent, NotifyImmediate

LEMMA StepManualInv ==
  ASSUME SerialInv, ManualInv, NEW p \in Procs, Step(p) PROVE ManualInv'
<1> USE DEF SerialInv, TypeInv
<1>1. \A q \in Procs \ {p} : pc[q] = "idle" /\ pc'[q] = "idle" /\ loc'[q].calls = loc[q].calls
  BY StepFootprint DEF OneBusy, Undisturbed
<1>2. mode' = mode
  BY DEF Step, Control, ControlStatus, ControlCooldown, ControlSend, ControlAccepted, ControlFailed,
     Recompute, RecomputePlan, RecomputeWrite, ApplyProfile, ProfileInstalled, ProfileAnswered,
     ProfileFailed, Save, SaveWrite, Clear, ClearStatus, ClearSent, NotifyImmediate, sched
<1>3. SUFFICES
        /\ "recompute" \notin loc'[p].calls
        /\ mode # "schedule" =>
             pc'[p] \notin InRecompute /\ (pc'[p] = "clear" \/ (current' = NoSchedule /\ lastProfileHash' = {}))
  BY <1>1, <1>2 DEF ManualInv
<1>4. "recompute" \notin loc[p].calls /\ loc[p].calls \in SUBSET Calls /\ loc[p] \in Locals
  BY LocalTypes DEF ManualInv
<1>5. mode # "schedule" => pc[p] \notin InRecompute /\ (pc[p] = "clear" \/ (current = NoSchedule /\ lastProfileHash = {}))
  BY <1>1 DEF ManualInv
<1>6. Return(p) => /\ "recompute" \notin loc'[p].calls
                   /\ pc'[p] \notin InRecompute
  BY <1>4, ProceedCalls DEF Return, NextPc, InRecompute
<1>7. CASE Clear(p)
  <2>1. loc'[p].calls = loc[p].calls
    BY <1>7, DetachedFields DEF Clear
  <2>2. pc'[p] \notin InRecompute
    BY <1>7 DEF Clear, Goto, InRecompute, TypeOK
  <2> QED
    BY <1>4, <1>7, <2>1, <2>2 DEF Clear, ClearedHash
<1>8. CASE pc[p] \in InRecompute
  <2>1. mode = "schedule"
    BY <1>5, <1>8
  <2>2. "recompute" \notin loc'[p].calls
    BY <1>4, <1>6, CallsKept
  <2> QED
    BY <2>1, <2>2
<1>9. CASE /\ pc[p] \notin InRecompute
           /\ ~Clear(p)
  <2>1. current' = current /\ lastProfileHash' = lastProfileHash /\ pc[p] # "clear"
    BY <1>9 DEF InRecompute, Step, Control, ControlStatus, ControlCooldown, ControlSend, ControlAccepted,
       ControlFailed, Recompute, RecomputePlan, RecomputeWrite, ApplyProfile, ProfileInstalled,
       ProfileAnswered, ProfileFailed, Save, SaveWrite, ClearStatus, ClearSent, NotifyImmediate, sched
  <2>2. CASE Return(p)
    BY <1>5, <1>6, <2>1, <2>2
  <2>3. CASE ~Return(p)
    <3>1. Control(p) \/ ControlStatus(p) \/ ControlCooldown(p) \/ ControlSend(p) \/ Save(p)
            \/ ClearStatus(p) \/ ClearSent(p)
      BY <1>9, <2>3 DEF InRecompute, Step, ControlAccepted, ControlFailed, Recompute, RecomputePlan,
         RecomputeWrite, ApplyProfile, ProfileInstalled, ProfileAnswered, ProfileFailed, SaveWrite,
         NotifyImmediate
    <3>2. pc'[p] \notin InRecompute
      BY <2>3, <3>1 DEF Control, ControlStatus, ControlCooldown, ControlSend, Save, ClearStatus, ClearSent,
         Goto, InRecompute, TypeOK
    <3>3. loc'[p].calls = loc[p].calls
      BY <2>3, CallsKept
    <3> QED
      BY <1>4, <1>5, <2>1, <3>2, <3>3
  <2> QED
    BY <2>2, <2>3
<1> QED
  BY <1>7, <1>8, <1>9

\* Calls begun in off and force: no recompute, except by SetConfig.
LEMMA BeginManualInv ==
  ASSUME SerialInv, Serial, "config" \notin UserOps, ManualInv, NEW p \in Procs, Begin(p)
  PROVE  ManualInv'
<1> USE DEF SerialInv, TypeInv
<1>1. \A q \in Procs \ {p} : pc[q] = "idle" /\ pc'[q] = "idle" /\ loc'[q].calls = loc[q].calls
  BY BeginFootprint DEF OneBusy, Quiet, Undisturbed
<1>2. pc[p] \in {"boot", "idle"}
  BY BeginFootprint DEF Quiet
<1>3. /\ \A q \in Procs : "recompute" \notin loc[q].calls
      /\ mode # "schedule" => current = NoSchedule /\ lastProfileHash = {}
  BY <1>1, <1>2 DEF ManualInv
<1>4. SUFFICES
        /\ "recompute" \notin loc'[p].calls
        /\ mode' # "schedule" =>
             pc'[p] \notin InRecompute /\ (pc'[p] = "clear" \/ (current' = NoSchedule /\ lastProfileHash' = {}))
  BY <1>1, <1>3 DEF ManualInv, InRecompute
<1>5. ASSUME NEW calls \in SUBSET Calls, NEW pin, Proceed(p, calls, pin)
      PROVE  /\ "recompute" \in calls /\ "clear" \notin calls => pc'[p] = "recompute"
             /\ "recompute" \notin calls => pc'[p] \notin InRecompute
             /\ "clear" \in calls => pc'[p] = "clear"
             /\ ~("recompute" \in calls /\ "clear" \in calls) => "recompute" \notin loc'[p].calls
  BY <1>5, ProceedCalls DEF NextPc, InRecompute
<1>6. CASE p = Loop /\ LoopBegins
  <2>1. current' = current /\ lastProfileHash' = lastProfileHash /\ mode' = mode
    BY <1>6 DEF LoopBegins, LoopBoot, RecomputeTick, ControlTick, Notified, sched
  <2>2. \E calls \in SUBSET Calls :
          /\ Proceed(p, calls, "")
          /\ "clear" \notin calls
          /\ mode # "schedule" => "recompute" \notin calls
    <3>1. CASE LoopBoot
      <4> DEFINE calls == IF mode = "schedule" /\ current = NoSchedule THEN {"recompute"} ELSE {}
      <4>1. Proceed(p, calls, "")
        BY <1>6, <3>1 DEF LoopBoot
      <4>2. calls \in SUBSET Calls /\ "clear" \notin calls /\ (mode # "schedule" => "recompute" \notin calls)
        BY DEF Calls
      <4> QED
        BY <4>1, <4>2
    <3>2. CASE RecomputeTick
      <4>1. Proceed(p, {"recompute"}, "") /\ mode = "schedule" /\ {"recompute"} \in SUBSET Calls
        BY <1>6, <3>2 DEF RecomputeTick, Calls
      <4> QED
        BY <4>1
    <3>3. CASE ControlTick
      <4>1. Proceed(p, {"control"}, "") /\ {"control"} \in SUBSET Calls
        BY <1>6, <3>3 DEF ControlTick, Calls
      <4> QED
        BY <4>1
    <3>4. CASE Notified
      <4> DEFINE calls == {"control"} \cup (IF mode = "schedule" THEN {"recompute"} ELSE {})
      <4>1. Proceed(p, calls, "")
        BY <1>6, <3>4 DEF Notified
      <4>2. calls \in SUBSET Calls /\ "clear" \notin calls /\ (mode # "schedule" => "recompute" \notin calls)
        BY DEF Calls
      <4> QED
        BY <4>1, <4>2
    <3> QED
      BY <1>6, <3>1, <3>2, <3>3, <3>4 DEF LoopBegins
  <2> QED
    BY <1>3, <1>5, <2>1, <2>2
<1>7. CASE p \in Timers /\ ApplyPendingMode(p)
  <2> DEFINE calls == {"control", "notify"} \cup (IF pendingMode \in {"off", "force"} THEN {"clear"} ELSE {})
  <2>1. calls \in SUBSET Calls /\ Proceed(p, calls, pendingMode) /\ mode' = pendingMode
    BY <1>7 DEF ApplyPendingMode, Calls
  <2>2. pendingMode \in AllModes
    BY <1>7 DEF ApplyPendingMode, TypeOK
  <2>3. "recompute" \notin calls /\ (pendingMode # "schedule" => "clear" \in calls)
    BY <2>2 DEF AllModes
  <2> HIDE DEF calls
  <2> QED
    BY <1>5, <2>1, <2>3
<1>8. CASE p \in Webs /\ DeleteSchedule(p)
  <2> DEFINE calls == {"clear"}
  <2>1. Proceed(p, calls, "") /\ calls \in SUBSET Calls
    BY <1>8 DEF DeleteSchedule, Calls
  <2>2. "clear" \in calls /\ "recompute" \notin calls
    OBVIOUS
  <2> HIDE DEF calls
  <2> QED
    BY <1>5, <2>1, <2>2
<1>9. CASE p \in Webs /\ \E s \in Slots : CancelSlot(p, s) \/ RestoreSlot(p, s)
  <2>1. mode' = mode /\ mode = "schedule"
    BY <1>3, <1>9 DEF CancelSlot, RestoreSlot, NoSchedule
  <2>2. loc'[p].calls = {"control"}
    <3>1. loc \in [Procs -> Locals] /\ loc[p] \in Locals /\ loc' = [loc EXCEPT ![p].calls = {"control"}]
      BY <1>9, LocalTypes DEF CancelSlot, RestoreSlot, TypeOK
    <3> QED
      BY <3>1 DEF Locals
  <2> QED
    BY <2>1, <2>2
<1> QED
  BY <1>6, <1>7, <1>8, <1>9 DEF Begin, SetConfig

LEMMA NextManualInv ==
  ASSUME SerialInv, Serial, "config" \notin UserOps, MaxCrash = 0, ManualInv, Next
  PROVE  ManualInv'
<1>1. CASE \E p \in Procs : Step(p)
  BY <1>1, StepManualInv
<1>2. CASE \E p \in Procs : Begin(p)
  BY <1>2, BeginManualInv
<1>3. CASE \E m \in Modes : RequestModeChange(m)
  BY <1>3 DEF RequestModeChange, ManualInv
<1>4. CASE World
  <2>1. mode' = mode /\ current' = current /\ lastProfileHash' \in {lastProfileHash, {}}
    BY <1>4 DEF World, PlugIn, Unplug, CarSuspends, CarResumes, RelayStart, RelayStop, Connector,
       Disconnect, Reconnect, ChargerReboots, BootNotification, ResetHash, PlugReport, Tick,
       CooldownExpires, sched
  <2> QED
    BY <1>4, <2>1, WorldFootprint DEF ManualInv
<1>5. ~Crash
  <2>1. crashes \in 0..0
    BY DEF SerialInv, TypeInv, TypeOK
  <2> QED
    BY <2>1 DEF Crash
<1> QED
  BY <1>1, <1>2, <1>3, <1>4, <1>5, NextKinds

\* As long as calls do not overlap, the process does not die and the configuration
\* is not replaced, a change to off or force leaves neither a schedule nor a
\* recorded profile behind (applyPendingMode calls ClearSchedule).
THEOREM ManualModesCleared ==
  ASSUME Serial, "config" \notin UserOps, MaxCrash = 0
  PROVE  Spec => []ManualModeHasNoSchedule
<1>1. ASSUME Init PROVE ManualInv
  <2>1. \A p \in Procs : loc[p].calls = {}
    BY <1>1 DEF Init, Fresh
  <2> QED
    BY <1>1, <2>1 DEF Init, ManualInv
<1>2. SerialInv /\ ManualInv /\ [Next]_vars => ManualInv'
  BY NextManualInv DEF vars, ManualInv
<1>3. ManualInv => ManualModeHasNoSchedule
  BY DEF ManualInv, ManualModeHasNoSchedule, Quiet
<1> QED
  BY <1>1, <1>2, <1>3, SerialHolds, PTL DEF Spec
-----------------------------------------------------------------------------
(* The recorded profile is the charger's.                                  *)

\* Where a goroutine waits for the charger's answer.
Awaiting == {"ctl_sent", "rc_sent", "rc_delivered", "cl_sent"}

\* At most one request is under way, and none with a charger that restarted; between
\* the installation of a profile and its answer the record may be behind, unless
\* the charger restarts in between and forgets the profile.
ProfileInv ==
  /\ line = <<>> \/ \E p \in Procs : pc[p] \in Awaiting /\ line = <<p>>
  /\ booting => line = <<>> /\ ~online
  /\ \A p \in Procs : pc[p] \in {"cl_status", "cl_sent"} => lastProfileHash = {}
  /\ \A p \in Procs : pc[p] = "rc_delivered" => line = <<>> \/ chProfile = loc[p].slots
  /\ ~booting /\ lastProfileHash # {} =>
       \/ chProfile = lastProfileHash
       \/ \E p \in Procs : pc[p] = "rc_delivered" /\ line = <<p>>

\* A queue with one request.
LEMMA OneRequest ==
  ASSUME NEW p
  PROVE  /\ Append(<<>>, p) = <<p>> /\ <<p>> # <<>>
         /\ Head(<<p>>) = p /\ Tail(<<p>>) = <<>> /\ Len(<<p>>) = 1 /\ <<p>>[1] = p
OBVIOUS

\* What a step of the only goroutine that runs finds in the queue.
LEMMA OnlyRequest ==
  ASSUME SerialInv, ProfileInv, NEW p \in Procs, Step(p)
  PROVE  /\ \A q \in Procs \ {p} : pc[q] = "idle" /\ pc'[q] = "idle"
         /\ line = <<>> \/ (line = <<p>> /\ pc[p] \in Awaiting)
         /\ Served(p) => line = <<p>> /\ Tail(line) = <<>>
         /\ "lose" \notin Faults /\ Fails(p) => line = <<>> /\ line' = <<>>
         /\ line = <<>> /\ Request(p) =>
              line' = <<>> \/ (online /\ line' = <<p>>)
<1>1. \A q \in Procs \ {p} : pc[q] = "idle" /\ pc'[q] = "idle"
  BY StepFootprint DEF SerialInv, TypeInv, OneBusy, Undisturbed
<1>2. line = <<>> \/ (line = <<p>> /\ pc[p] \in Awaiting)
  BY <1>1 DEF ProfileInv, Awaiting
<1>3. Served(p) => line = <<p>> /\ Tail(line) = <<>>
  BY <1>2, OneRequest DEF Served
<1>4. ASSUME "lose" \notin Faults, Fails(p)  PROVE line = <<>> /\ line' = <<>>
  <2>1. ~InLine(p) /\ line' = line
    BY <1>4 DEF Fails
  <2>2. line # <<p>>
    <3>1. ASSUME line = <<p>>  PROVE InLine(p)
      <4>1. 1 \in 1 .. Len(line) /\ line[1] = p
        BY <3>1, OneRequest
      <4> QED  BY <4>1 DEF InLine
    <3> QED  BY <2>1, <3>1
  <2> QED  BY <1>2, <2>1, <2>2
<1>5. ASSUME line = <<>>, Request(p)  PROVE line' = <<>> \/ (online /\ line' = <<p>>)
  BY <1>5, OneRequest DEF Request
<1> QED  BY <1>1, <1>2, <1>3, <1>4, <1>5

LEMMA StepProfileInv ==
  ASSUME SerialInv, ProfileInv, "lose" \notin Faults, NEW p \in Procs, Step(p)
  PROVE  ProfileInv'
<1> USE DEF SerialInv, TypeInv
<1>1. \A q \in Procs \ {p} : pc[q] = "idle" /\ pc'[q] = "idle"
  BY OnlyRequest
<1>2. line = <<>> \/ (line = <<p>> /\ pc[p] \in Awaiting)
  BY OnlyRequest
<1>3. booting' = booting /\ online' = online
  BY DEF Step, Control, ControlStatus, ControlCooldown, ControlSend, ControlAccepted, ControlFailed,
     Recompute, RecomputePlan, RecomputeWrite, ApplyProfile, ProfileInstalled, ProfileAnswered,
     ProfileFailed, Save, SaveWrite, Clear, ClearStatus, ClearSent, NotifyImmediate, charger
<1>4. SUFFICES
        /\ line' = <<>> \/ (pc'[p] \in Awaiting /\ line' = <<p>>)
        /\ booting => line' = <<>>
        /\ pc'[p] \in {"cl_status", "cl_sent"} => lastProfileHash' = {}
        /\ pc'[p] = "rc_delivered" => line' = <<>> \/ chProfile' = loc'[p].slots
        /\ ~booting /\ lastProfileHash' # {} =>
             chProfile' = lastProfileHash' \/ (pc'[p] = "rc_delivered" /\ line' = <<p>>)
  <2>1. booting' => ~online'
    BY <1>3 DEF ProfileInv
  <2> QED  BY <1>1, <1>3, <2>1 DEF ProfileInv
<1>5. /\ booting => line = <<>> /\ ~online
      /\ pc[p] \in {"cl_status", "cl_sent"} => lastProfileHash = {}
      /\ pc[p] = "rc_delivered" => line = <<>> \/ chProfile = loc[p].slots
      /\ ~booting /\ lastProfileHash # {} =>
           chProfile = lastProfileHash \/ (pc[p] = "rc_delivered" /\ line = <<p>>)
  BY <1>1 DEF ProfileInv
<1>6. CASE \/ Control(p) \/ ControlStatus(p) \/ ControlCooldown(p) \/ Recompute(p) \/ RecomputePlan(p)
           \/ RecomputeWrite(p) \/ Save(p) \/ SaveWrite(p) \/ NotifyImmediate(p)
  <2>1. line' = line /\ chProfile' = chProfile /\ lastProfileHash' = lastProfileHash
    BY <1>6 DEF Control, ControlStatus, ControlCooldown, Recompute, RecomputePlan, RecomputeWrite,
       Save, SaveWrite, NotifyImmediate, charger, sched
  <2>2. pc[p] \notin Awaiting
    BY <1>6 DEF Control, ControlStatus, ControlCooldown, Recompute, RecomputePlan, RecomputeWrite,
       Save, SaveWrite, NotifyImmediate, Awaiting
  <2>3. pc'[p] \notin {"cl_status", "cl_sent", "rc_delivered"}
    BY <1>6, ReturnMoves DEF Control, ControlStatus, ControlCooldown, Recompute, RecomputePlan,
       RecomputeWrite, Save, SaveWrite, NotifyImmediate, Goto, Calls, TypeOK
  <2> QED  BY <1>2, <1>5, <2>1, <2>2, <2>3 DEF Awaiting
<1>7. CASE ControlSend(p)
  <2>1. chProfile' = chProfile /\ lastProfileHash' = lastProfileHash /\ Request(p)
        /\ pc[p] = "ctl_send" /\ pc'[p] = "ctl_sent"
    BY <1>7 DEF ControlSend, charger, sched, Goto, TypeOK
  <2>2. line = <<>> /\ (line' = <<>> \/ (online /\ line' = <<p>>))
    BY <1>2, <2>1, OnlyRequest DEF Awaiting
  <2> QED  BY <1>5, <2>1, <2>2 DEF Awaiting
<1>8. CASE ControlAccepted(p) \/ ControlFailed(p)
  <2>1. chProfile' = chProfile /\ lastProfileHash' = lastProfileHash
        /\ pc[p] = "ctl_sent" /\ pc'[p] \in Calls \cup {"idle"}
    BY <1>8, ReturnMoves DEF ControlAccepted, ControlFailed, charger, sched
  <2>2. line' = <<>>
    BY <1>8, OnlyRequest DEF ControlAccepted, ControlFailed
  <2> QED  BY <1>5, <2>1, <2>2 DEF Calls
<1>9. CASE ApplyProfile(p)
  <2>1. chProfile' = chProfile /\ lastProfileHash' = lastProfileHash /\ pc[p] = "rc_apply"
    BY <1>9 DEF ApplyProfile, charger, sched
  <2>2. line = <<>>
    BY <1>2, <2>1 DEF Awaiting
  <2>3. \/ Request(p) /\ pc'[p] = "rc_sent"
        \/ line' = line /\ pc'[p] = "save"
    BY <1>9 DEF ApplyProfile, Goto, TypeOK
  <2>4. line' = <<>> \/ (online /\ line' = <<p>> /\ pc'[p] = "rc_sent")
    BY <2>2, <2>3, OnlyRequest
  <2> QED  BY <1>5, <2>1, <2>3, <2>4 DEF Awaiting
<1>10. CASE ProfileInstalled(p)
  <2>1. /\ chProfile' = loc[p].slots /\ loc' = loc /\ line' = line /\ lastProfileHash' = lastProfileHash
        /\ pc'[p] = "rc_delivered" /\ Served(p)
    BY <1>10 DEF ProfileInstalled, Goto, TypeOK, sched
  <2>2. line = <<p>> /\ line # <<>>
    BY <2>1, OnlyRequest, OneRequest
  <2> QED  BY <1>5, <2>1, <2>2 DEF Awaiting
<1>11. CASE ProfileAnswered(p)
  <2>1. /\ chProfile' = chProfile /\ lastProfileHash' = loc[p].slots /\ line' = Tail(line)
        /\ pc[p] = "rc_delivered" /\ pc'[p] = "save" /\ Served(p)
    BY <1>11 DEF ProfileAnswered, Goto, TypeOK, charger
  <2>2. line' = <<>> /\ line # <<>>
    BY <2>1, OnlyRequest, OneRequest
  <2> QED  BY <1>5, <2>1, <2>2
<1>12. CASE ProfileFailed(p)
  <2>1. /\ chProfile' = chProfile /\ lastProfileHash' = lastProfileHash
        /\ pc'[p] = "save" /\ Fails(p)
    BY <1>12 DEF ProfileFailed, Goto, TypeOK, charger, sched
  <2>2. line' = <<>> /\ line = <<>>
    BY <2>1, OnlyRequest
  <2>3. line # <<p>>
    BY <2>2, OneRequest
  <2> QED  BY <1>5, <2>1, <2>2, <2>3
<1>13. CASE Clear(p)
  <2>1. /\ chProfile' = chProfile /\ lastProfileHash' = {} /\ line' = line /\ pc[p] = "clear"
        /\ pc'[p] # "rc_delivered"
    BY <1>13 DEF Clear, ClearedHash, Goto, TypeOK, charger
  <2>2. line = <<>>
    BY <1>2, <2>1 DEF Awaiting
  <2> QED  BY <2>1, <2>2
<1>14. CASE ClearStatus(p)
  <2>1. /\ chProfile' = chProfile /\ lastProfileHash' = lastProfileHash /\ pc[p] = "cl_status"
        /\ pc'[p] # "rc_delivered"
    BY <1>14 DEF ClearStatus, Goto, TypeOK, charger, sched
  <2>2. line = <<>>
    BY <1>2, <2>1 DEF Awaiting
  <2>3. \/ Request(p) /\ pc'[p] = "cl_sent"
        \/ line' = line
    BY <1>14 DEF ClearStatus, Goto, TypeOK
  <2>4. line' = <<>> \/ (online /\ line' = <<p>> /\ pc'[p] = "cl_sent")
    BY <2>2, <2>3, OnlyRequest
  <2> QED  BY <1>5, <2>1, <2>4 DEF Awaiting
<1>15. CASE ClearSent(p)
  <2>1. lastProfileHash' = lastProfileHash /\ pc[p] = "cl_sent" /\ pc'[p] = "save"
    BY <1>15 DEF ClearSent, Goto, TypeOK, sched
  <2>2. line' = <<>>
    BY <1>15, OnlyRequest DEF ClearSent
  <2> QED  BY <1>5, <2>1, <2>2
<1> QED
  BY <1>6, <1>7, <1>8, <1>9, <1>10, <1>11, <1>12, <1>13, <1>14, <1>15 DEF Step

LEMMA NextProfileInv ==
  ASSUME SerialInv, Serial, ProfileInv, Faults \cap {"lose", "offline"} = {}, Next
  PROVE  ProfileInv'
<1> USE DEF SerialInv, TypeInv
<1>1. CASE \E p \in Procs : Step(p)
  BY <1>1, StepProfileInv
<1>2. ASSUME NEW p \in Procs, Begin(p)  PROVE ProfileInv'
  <2>1. \A q \in Procs : pc[q] \in {"idle", "boot"}
    BY <1>2, BeginFootprint DEF OneBusy, Quiet
  <2>2. line = <<>>
    BY <2>1 DEF ProfileInv, Awaiting
  <2>3. \A q \in Procs : pc'[q] \notin {"cl_status", "cl_sent", "rc_delivered"}
    BY <1>2, <2>1, BeginFootprint DEF Undisturbed, Calls
  <2>4. UNCHANGED <<line, booting, online, lastProfileHash, chProfile>>
    BY <1>2 DEF Begin, LoopBegins, LoopBoot, RecomputeTick, ControlTick, Notified, ApplyPendingMode,
       SetConfig, DeleteSchedule, CancelSlot, RestoreSlot, sched, charger
  <2> QED  BY <2>1, <2>2, <2>3, <2>4 DEF ProfileInv
<1>3. CASE \E m \in Modes : RequestModeChange(m)
  BY <1>3 DEF RequestModeChange, ProfileInv, charger
<1>4. CASE World
  <2>1. pc' = pc /\ loc' = loc
    BY <1>4, WorldFootprint
  <2>2. CASE Disconnect
    BY <2>2 DEF Disconnect
  <2>3. CASE ChargerReboots
    BY <2>1, <2>3 DEF ChargerReboots, ProfileInv, sched
  <2>4. CASE BootNotification
    BY <2>1, <2>4 DEF BootNotification, ResetHash, ProfileInv
  <2>5. CASE Reconnect
    BY <2>1, <2>5 DEF Reconnect, ProfileInv, sched
  <2>6. CASE PlugIn \/ Unplug \/ CarSuspends \/ CarResumes \/ RelayStart \/ RelayStop \/ PlugReport \/ Tick
               \/ \E c \in {"start", "stop", "profile"} : CooldownExpires(c)
    <3>1. UNCHANGED <<line, booting, online, lastProfileHash, chProfile>>
      BY <2>6 DEF PlugIn, Unplug, CarSuspends, CarResumes, RelayStart, RelayStop, Connector,
         PlugReport, Tick, CooldownExpires, sched, charger
    <3> QED  BY <2>1, <3>1 DEF ProfileInv
  <2> QED  BY <1>4, <2>2, <2>3, <2>4, <2>5, <2>6 DEF World
<1>5. CASE Crash
  BY <1>5 DEF Crash, ProfileInv
<1> QED
  BY <1>1, <1>2, <1>3, <1>4, <1>5, NextKinds

\* As long as calls do not overlap and no answer is lost, lastProfileHash names the
\* profile in the charger, so that applyProfile skips only what the charger has:
\* whatever is planned, cleared and cancelled, and however often the charger and the
\* program restart, also between the installation of a profile and its answer.
THEOREM ProfileRecorded ==
  ASSUME Serial, Faults \cap {"lose", "offline"} = {}
  PROVE  Spec => []ProfileAsRecorded
<1>1. Init => ProfileInv
  BY DEF Init, ProfileInv
<1>2. SerialInv /\ ProfileInv /\ [Next]_vars => ProfileInv'
  BY NextProfileInv DEF vars, ProfileInv
<1>3. ProfileInv => ProfileAsRecorded
  BY DEF ProfileInv, ProfileAsRecorded, Quiet
<1> QED
  BY <1>1, <1>2, <1>3, SerialHolds, PTL DEF Spec
=============================================================================
