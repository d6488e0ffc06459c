---------------------------- MODULE OcppSessions ----------------------------
(***************************************************************************)
(* The OCPP central system's bookkeeping of charging transactions          *)
(* (internal/ocpp/handler.go, server.go, connector.go and the tables       *)
(* charging_sessions and connector_state of internal/store).               *)
(*                                                                         *)
(* A charger with one connector calls StatusNotification, StartTransaction,*)
(* StopTransaction and MeterValues.  Each call is served by a handler      *)
(* goroutine; every SQL write of a handler commits on its own and ends a   *)
(* step here, so handlers interleave between statements.  With one         *)
(* goroutine the charger has one call outstanding at a time; with two, a   *)
(* call that the charger gave up on (timeout, websocket reconnect) still   *)
(* runs while the next one is served.  Confirmations may be lost, and the  *)
(* charger repeats unconfirmed transaction messages.  The process may      *)
(* crash and restart between any two statements.                           *)
(*                                                                         *)
(* Energy is counted in units of the charger's import register; the cost   *)
(* of a session and the kWh/Wh scaling carry no control and are left out.  *)
(***************************************************************************)
EXTENDS Integers, FiniteSetsExt

CONSTANTS
  Goroutines,   \* handler goroutines that may run at the same time
  Statuses,     \* connector statuses the charger reports in this instance
  MaxTxn,       \* bound: transaction ids the model hands out
  MaxMeter,     \* bound: highest register value
  MaxCrash,     \* bound: process crashes
  MayLose,      \* may a confirmation get lost on its way to the charger?
  MayGiveUp     \* may the charger drop a StopTransaction it could not deliver?

OcppStatus == {"Available", "Preparing", "Charging", "SuspendedEV",
               "SuspendedEVSE", "Finishing", "Faulted"}

ASSUME OcppAssumption ==
  /\ Goroutines # {}
  /\ Statuses \subseteq OcppStatus
  /\ "Available" \in Statuses
  /\ MaxTxn \in Nat \ {0}
  /\ MaxMeter \in Nat
  /\ MaxCrash \in Nat
  /\ MayLose \in BOOLEAN
  /\ MayGiveUp \in BOOLEAN

TxnIds    == 1..MaxTxn
NoReading == -1                       \* no Energy.Active.Import.Register sample
Starting  == -1                       \* charger's view: StartTransaction unconfirmed
Readings  == {NoReading} \cup (0..MaxMeter)
NoState   == "norow"                  \* connector_state has no row yet
DbStatus  == Statuses \cup {"", NoState}

VARIABLES
  \* the charger (external)
  chStatus,     \* its connector status
  chTxn,        \* its transaction: 0 none, Starting, or the id it was given
  chStart,      \* register value when that transaction began
  meter,        \* its import register
  unacked,      \* StopTransaction not confirmed yet: [txn, meter], txn = 0 if none
  \* the process's memory
  conn,         \* Connector: [status, txn, energy]
  nextTxnID,    \* Server.nextTxnID
  pc, loc,      \* per handler goroutine: next statement and local variables
  \* the database
  sessions,     \* charging_sessions by transaction id
  rows,         \* rows inserted so far (rowids are 1..rows)
  cs,           \* connector_state: [status, txn]
  logged,       \* latest register value among a transaction's MeterValues events
  \* history
  stopMarks,    \* "stop" chart markers inserted per transaction
  socCount,     \* calls of socUpdater per transaction
  confirmed,    \* transaction ids a confirmation carried to the charger
  reissued,     \* an id was confirmed for two different transactions
  unmarked,     \* the charger's status changed since the last plug/unplug marker
  phantom,      \* a plug/unplug marker was inserted without such a change
  crashes

chargerVars == <<chStatus, chTxn, chStart, meter, unacked>>
dbVars      == <<sessions, rows, cs, logged>>
histVars    == <<stopMarks, socCount, confirmed, reissued, unmarked, phantom>>
vars == <<chargerVars, conn, nextTxnID, pc, loc, dbVars, histVars, crashes>>

Pcs == {"idle", "st_upsert", "fin_read", "fin_active", "fin_energy", "fin_stop",
        "fin_after", "tx_insert", "tx_upsert", "sp_upsert", "sp_active", "sp_stop", "sp_after"}

NoLocals == [st |-> "", txn |-> 0, meter |-> 0, prevTxn |-> 0, prevSt |-> "",
             energy |-> 0, closed |-> FALSE]

Locals == [st : DbStatus, txn : 0..MaxTxn, meter : 0..MaxMeter,
           prevTxn : 0..MaxTxn, prevSt : DbStatus,
           energy : -MaxMeter..MaxMeter, closed : BOOLEAN]

NoRow == [status |-> "absent", row |-> 0, start |-> 0, stop |-> 0, energy |-> 0]

Row == [status : {"absent", "active", "completed"}, row : Nat,
        start : 0..MaxMeter, stop : 0..MaxMeter, energy : -MaxMeter..MaxMeter]

TypeOK ==
  /\ chStatus \in Statuses
  /\ chTxn \in {Starting} \cup (0..MaxTxn)
  /\ chStart \in 0..MaxMeter
  /\ meter \in 0..MaxMeter
  /\ unacked \in [txn : 0..MaxTxn, meter : 0..MaxMeter]
  /\ conn \in [status : DbStatus, txn : 0..MaxTxn, energy : Readings]
  /\ nextTxnID \in 1..(MaxTxn + 1)
  /\ pc \in [Goroutines -> Pcs]
  /\ loc \in [Goroutines -> Locals]
  /\ sessions \in [TxnIds -> Row]
  /\ rows \in Nat
  /\ cs \in [status : DbStatus, txn : 0..MaxTxn]
  /\ logged \in [TxnIds -> Readings]
  /\ stopMarks \in [TxnIds -> Nat]
  /\ socCount \in [TxnIds -> Nat]
  /\ confirmed \in SUBSET TxnIds
  /\ reissued \in BOOLEAN
  /\ unmarked \in BOOLEAN
  /\ phantom \in BOOLEAN
  /\ crashes \in 0..MaxCrash

Init ==
  /\ chStatus = "Available"
  /\ chTxn = 0
  /\ chStart = 0
  /\ meter = 0
  /\ unacked = [txn |-> 0, meter |-> 0]
  /\ conn = [status |-> "Available", txn |-> 0, energy |-> NoReading]
  /\ nextTxnID = 1
  /\ pc = [g \in Goroutines |-> "idle"]
  /\ loc = [g \in Goroutines |-> NoLocals]
  /\ sessions = [t \in TxnIds |-> NoRow]
  /\ rows = 0
  /\ cs = [status |-> NoState, txn |-> 0]
  /\ logged = [t \in TxnIds |-> NoReading]
  /\ stopMarks = [t \in TxnIds |-> 0]
  /\ socCount = [t \in TxnIds |-> 0]
  /\ confirmed = {}
  /\ reissued = FALSE
  /\ unmarked = FALSE
  /\ phantom = FALSE
  /\ crashes = 0

-----------------------------------------------------------------------------
(* Queries and statements of the store.                                    *)

\* ActiveSession: SELECT ... WHERE status = 'active' LIMIT 1 returns the active
\* row SQLite meets first, the one with the least rowid.
IsActiveSession(t) ==
  /\ sessions[t].status = "active"
  /\ \A u \in TxnIds : sessions[u].status = "active" => sessions[t].row <= sessions[u].row

\* A mutant: the UPDATE without its status guard.
StopSessionUnguarded(t, stop, energy) ==
  [sessions EXCEPT ![t].status = "completed", ![t].stop = stop, ![t].energy = energy]

\* StopSession: UPDATE ... WHERE transaction_id = t AND status = 'active'.
StopSession(t, stop, energy) ==
  IF sessions[t].status = "active"
  THEN [sessions EXCEPT ![t].status = "completed", ![t].stop = stop, ![t].energy = energy]
  ELSE sessions

\* prev.Status as the handlers see it: a missing row reads as the empty string.
PrevStatus == IF cs.status = NoState THEN "" ELSE cs.status

\* currentEnergyKWh: the in-memory sample if there is one, else the newest
\* MeterValues event of the transaction.
currentEnergy(t) == IF conn.energy # NoReading THEN conn.energy ELSE logged[t]

isStopStatus(st) == st \in {"SuspendedEV", "SuspendedEVSE", "Finishing", "Faulted"}

Goto(g, label) == pc' = [pc EXCEPT ![g] = label]

\* The handler returns.
Return(g) ==
  /\ pc' = [pc EXCEPT ![g] = "idle"]
  /\ loc' = [loc EXCEPT ![g] = NoLocals]

-----------------------------------------------------------------------------
(* OnStatusNotification and finalizeSessionOnStop.                         *)

\* A mutant: every Preparing or Available report inserts a marker.
EmitsMarkerAlways(prev, st) ==
  \/ st = "Preparing"
  \/ st = "Available" /\ prev # ""

\* A plug/unplug chart marker is inserted (and the plug hook fired) only when
\* the reported status differs from the persisted one.
EmitsMarker(prev, st) ==
  /\ prev # st
  /\ \/ st = "Preparing"
     \/ st = "Available" /\ prev # ""

\* UpdateStatus in memory, read the persisted row, insert the marker.
StatusBegin(g) ==
  /\ pc[g] = "idle"
  /\ conn' = [conn EXCEPT !.status = chStatus]
  /\ loc' = [loc EXCEPT ![g].st = chStatus, ![g].prevTxn = cs.txn]
  /\ IF EmitsMarker(PrevStatus, chStatus)
     THEN phantom' = (phantom \/ ~unmarked) /\ unmarked' = FALSE
     ELSE UNCHANGED <<phantom, unmarked>>
  /\ Goto(g, "st_upsert")
  /\ UNCHANGED <<chargerVars, nextTxnID, dbVars, stopMarks, socCount, confirmed, reissued, crashes>>

\* A mutant: the row is overwritten without carrying the transaction over.
StatusRowDropsTxn(g) == [status |-> loc[g].st, txn |-> 0]

\* The row a StatusNotification writes keeps the transaction read before.
StatusRow(g) == [status |-> loc[g].st, txn |-> loc[g].prevTxn]

\* Persist the row, then finalize on a stop status.
StatusUpsert(g) ==
  /\ pc[g] = "st_upsert"
  /\ cs' = StatusRow(g)
  /\ IF isStopStatus(loc[g].st)
     THEN Goto(g, "fin_read") /\ UNCHANGED loc
     ELSE Return(g)
  /\ UNCHANGED <<chargerVars, conn, nextTxnID, sessions, rows, logged, histVars, crashes>>

\* finalizeSessionOnStop: the open transaction, from connector_state.
FinalizeRead(g) ==
  /\ pc[g] = "fin_read"
  /\ IF cs.txn # 0
     THEN loc' = [loc EXCEPT ![g].txn = cs.txn] /\ Goto(g, "fin_active")
     ELSE Return(g)
  /\ UNCHANGED <<chargerVars, conn, nextTxnID, dbVars, histVars, crashes>>

\* It must be the active session; its MeterStart is kept in loc.meter.
FinalizeActive(g) ==
  /\ pc[g] = "fin_active"
  /\ IF IsActiveSession(loc[g].txn)
     THEN loc' = [loc EXCEPT ![g].meter = sessions[loc[g].txn].start] /\ Goto(g, "fin_energy")
     ELSE Return(g)
  /\ UNCHANGED <<chargerVars, conn, nextTxnID, dbVars, histVars, crashes>>

\* A mutant: the "energy <= 0" early return is missing.
BillableAnyEnergy(start, reading) == reading # NoReading

\* There must be a reading, and it must have advanced.
Billable(start, reading) == reading # NoReading /\ reading - start > 0

FinalizeEnergy(g) ==
  /\ pc[g] = "fin_energy"
  /\ LET reading == currentEnergy(loc[g].txn)
     IN  IF Billable(loc[g].meter, reading)
         THEN /\ loc' = [loc EXCEPT ![g].meter = reading, ![g].energy = reading - loc[g].meter]
              /\ Goto(g, "fin_stop")
         ELSE Return(g)
  /\ UNCHANGED <<chargerVars, conn, nextTxnID, dbVars, histVars, crashes>>

\* StopSession; an error (no active row any more) ends the handler.
FinalizeStop(g) ==
  /\ pc[g] = "fin_stop"
  /\ sessions' = StopSession(loc[g].txn, loc[g].meter, loc[g].energy)
  /\ IF sessions[loc[g].txn].status = "active"
     THEN Goto(g, "fin_after") /\ loc' = [loc EXCEPT ![g].closed = TRUE]
     ELSE Return(g)
  /\ UNCHANGED <<chargerVars, conn, nextTxnID, rows, cs, logged, histVars, crashes>>

\* The stop marker and the SoC estimate.
FinalizeAfter(g) ==
  /\ pc[g] = "fin_after"
  /\ stopMarks' = [stopMarks EXCEPT ![loc[g].txn] = @ + 1]
  /\ socCount' = [socCount EXCEPT ![loc[g].txn] = @ + 1]
  /\ Return(g)
  /\ UNCHANGED <<chargerVars, conn, nextTxnID, dbVars, confirmed, reissued, unmarked, phantom, crashes>>

-----------------------------------------------------------------------------
(* OnStartTransaction.                                                     *)

\* allocateTxnID and Connector.StartTransaction.
StartBegin(g) ==
  /\ pc[g] = "idle"
  /\ chTxn = Starting
  /\ unacked.txn = 0
  /\ nextTxnID <= MaxTxn
  /\ nextTxnID' = nextTxnID + 1
  /\ conn' = [conn EXCEPT !.txn = nextTxnID]
  /\ loc' = [loc EXCEPT ![g].txn = nextTxnID, ![g].meter = chStart]
  /\ Goto(g, "tx_insert")
  /\ UNCHANGED <<chargerVars, dbVars, histVars, crashes>>

\* A mutant: the meterStart of the request is not stored.
NewRowNoStart(g) ==
  [status |-> "active", row |-> rows + 1, start |-> 0, stop |-> 0, energy |-> 0]

NewRow(g) ==
  [status |-> "active", row |-> rows + 1, start |-> loc[g].meter, stop |-> 0, energy |-> 0]

\* StartSession inserts the row; the persisted connector row is read.
StartInsert(g) ==
  /\ pc[g] = "tx_insert"
  /\ rows' = rows + 1
  /\ sessions' = [sessions EXCEPT ![loc[g].txn] = NewRow(g)]
  /\ loc' = [loc EXCEPT ![g].prevSt = PrevStatus]
  /\ Goto(g, "tx_upsert")
  /\ UNCHANGED <<chargerVars, conn, nextTxnID, cs, logged, histVars, crashes>>

\* Persist the transaction and confirm it; the confirmation may be lost.
StartUpsert(g) ==
  /\ pc[g] = "tx_upsert"
  /\ cs' = [status |-> loc[g].prevSt, txn |-> loc[g].txn]
  /\ \/ /\ chTxn = Starting
        /\ chTxn' = loc[g].txn
        /\ confirmed' = confirmed \cup {loc[g].txn}
        /\ reissued' = (reissued \/ loc[g].txn \in confirmed)
     \/ /\ MayLose \/ chTxn # Starting
        /\ UNCHANGED <<chTxn, confirmed, reissued>>
  /\ Return(g)
  /\ UNCHANGED <<chStatus, chStart, meter, unacked, conn, nextTxnID, sessions, rows, logged,
                 stopMarks, socCount, unmarked, phantom, crashes>>

-----------------------------------------------------------------------------
(* OnStopTransaction.                                                      *)

\* A mutant: a StopTransaction that matches no connector is answered at once.
StopBeginUnknownReturns(g) ==
  /\ pc[g] = "idle"
  /\ unacked.txn # 0
  /\ IF conn.txn = unacked.txn
     THEN /\ conn' = [conn EXCEPT !.txn = 0]
          /\ loc' = [loc EXCEPT ![g].txn = unacked.txn, ![g].meter = unacked.meter,
                                ![g].prevSt = PrevStatus]
          /\ Goto(g, "sp_upsert")
     ELSE UNCHANGED <<conn, loc, pc>>
  /\ UNCHANGED <<chargerVars, nextTxnID, dbVars, histVars, crashes>>

\* Find the connector with the transaction in memory, clear it, read its row.
StopBegin(g) ==
  /\ pc[g] = "idle"
  /\ unacked.txn # 0
  /\ IF conn.txn = unacked.txn
     THEN /\ conn' = [conn EXCEPT !.txn = 0]
          /\ loc' = [loc EXCEPT ![g].txn = unacked.txn, ![g].meter = unacked.meter,
                                ![g].prevSt = PrevStatus]
          /\ Goto(g, "sp_upsert")
     ELSE /\ UNCHANGED conn
          /\ loc' = [loc EXCEPT ![g].txn = unacked.txn, ![g].meter = unacked.meter]
          /\ Goto(g, "sp_active")
  /\ UNCHANGED <<chargerVars, nextTxnID, dbVars, histVars, crashes>>

\* Clear the transaction in connector_state, keeping the status read before.
StopUpsert(g) ==
  /\ pc[g] = "sp_upsert"
  /\ cs' = [status |-> loc[g].prevSt, txn |-> 0]
  /\ Goto(g, "sp_active")
  /\ UNCHANGED <<chargerVars, conn, nextTxnID, loc, sessions, rows, logged, histVars, crashes>>

\* A mutant: the energy is computed whatever ActiveSession returns.
StopEnergyAlways(g) == loc[g].meter - sessions[loc[g].txn].start

\* The energy is computed only if ActiveSession is this transaction's.
StopEnergy(g) ==
  IF IsActiveSession(loc[g].txn) THEN loc[g].meter - sessions[loc[g].txn].start ELSE 0

StopActive(g) ==
  /\ pc[g] = "sp_active"
  /\ loc' = [loc EXCEPT ![g].energy = StopEnergy(g)]
  /\ Goto(g, "sp_stop")
  /\ UNCHANGED <<chargerVars, conn, nextTxnID, dbVars, histVars, crashes>>

StopClose(g) ==
  /\ pc[g] = "sp_stop"
  /\ sessions' = StopSession(loc[g].txn, loc[g].meter, loc[g].energy)
  /\ loc' = [loc EXCEPT ![g].closed = (sessions[loc[g].txn].status = "active")]
  /\ Goto(g, "sp_after")
  /\ UNCHANGED <<chargerVars, conn, nextTxnID, rows, cs, logged, histVars, crashes>>

\* A mutant: the marker is inserted even when StopSession found no active row.
EmitsStopMarkerAlways(g) == TRUE

EmitsStopMarker(g) == loc[g].closed

\* Marker if this call closed the session, SoC update if it computed an energy,
\* then the confirmation, which may be lost.
StopAfter(g) ==
  /\ pc[g] = "sp_after"
  /\ stopMarks' = IF EmitsStopMarker(g) THEN [stopMarks EXCEPT ![loc[g].txn] = @ + 1] ELSE stopMarks
  /\ socCount' = IF loc[g].energy > 0 THEN [socCount EXCEPT ![loc[g].txn] = @ + 1] ELSE socCount
  /\ \/ unacked.txn = loc[g].txn /\ unacked' = [txn |-> 0, meter |-> 0]
     \/ (MayLose \/ unacked.txn # loc[g].txn) /\ UNCHANGED unacked
  /\ Return(g)
  /\ UNCHANGED <<chStatus, chTxn, chStart, meter, conn, nextTxnID, dbVars, confirmed, reissued,
                 unmarked, phantom, crashes>>

-----------------------------------------------------------------------------
(* OnMeterValues: the event is recorded, then the connector's measurement. *)
(* The charger queues transaction messages in order, so samples wait for   *)
(* an unconfirmed StartTransaction or StopTransaction.                     *)
MeterValues ==
  /\ \E g \in Goroutines : pc[g] = "idle"
  /\ chTxn # Starting
  /\ unacked.txn = 0
  /\ conn' = [conn EXCEPT !.energy = meter]
  /\ logged' = IF chTxn > 0 THEN [logged EXCEPT ![chTxn] = meter] ELSE logged
  /\ UNCHANGED <<chargerVars, nextTxnID, pc, loc, sessions, rows, cs, histVars, crashes>>

-----------------------------------------------------------------------------
(* The charger (external): what the handlers rely on it to do.             *)

\* The connector changes state; it leaves Available before it charges, and a
\* cable is pulled only once the transaction has ended.
ChargerStatus(st) ==
  /\ st # chStatus
  /\ st = "Available" => chTxn = 0
  /\ st = "Charging" => chTxn # 0
  /\ chStatus' = st
  /\ unmarked' = TRUE
  /\ UNCHANGED <<chTxn, chStart, meter, unacked, conn, nextTxnID, pc, loc, dbVars,
                 stopMarks, socCount, confirmed, reissued, phantom, crashes>>

ChargerStart ==
  /\ chTxn = 0
  /\ chStatus # "Available"
  /\ chTxn' = Starting
  /\ chStart' = meter
  /\ UNCHANGED <<chStatus, meter, unacked, conn, nextTxnID, pc, loc, dbVars, histVars, crashes>>

ChargerDelivers ==
  /\ chTxn # 0
  /\ chStatus = "Charging"
  /\ meter < MaxMeter
  /\ meter' = meter + 1
  /\ UNCHANGED <<chStatus, chTxn, chStart, unacked, conn, nextTxnID, pc, loc, dbVars, histVars, crashes>>

ChargerStop ==
  /\ chTxn > 0
  /\ unacked.txn = 0
  /\ unacked' = [txn |-> chTxn, meter |-> meter]
  /\ chTxn' = 0
  /\ UNCHANGED <<chStatus, chStart, meter, conn, nextTxnID, pc, loc, dbVars, histVars, crashes>>

\* The charger drops a StopTransaction after its retries are used up.
ChargerGivesUp ==
  /\ MayGiveUp
  /\ unacked.txn # 0
  /\ unacked' = [txn |-> 0, meter |-> 0]
  /\ UNCHANGED <<chStatus, chTxn, chStart, meter, conn, nextTxnID, pc, loc, dbVars, histVars, crashes>>

-----------------------------------------------------------------------------
(* The process dies and NewServer runs: the counter restarts at            *)
(* MAX(transaction_id) + 1 and connector_state is hydrated into memory.    *)
IsMaxTxn(m) ==
  /\ m # 0 => sessions[m].status # "absent"
  /\ \A t \in TxnIds : sessions[t].status # "absent" => t <= m

\* A mutant: the counter restarts at the greatest id in use.
RestartTxnIDNoIncrement(m) == m

RestartTxnID(m) == m + 1

Crash ==
  /\ crashes < MaxCrash
  /\ crashes' = crashes + 1
  /\ pc' = [g \in Goroutines |-> "idle"]
  /\ loc' = [g \in Goroutines |-> NoLocals]
  /\ \E m \in 0..MaxTxn : IsMaxTxn(m) /\ nextTxnID' = RestartTxnID(m)
  /\ conn' = [status |-> IF cs.status = NoState THEN "Available" ELSE cs.status,
              txn |-> cs.txn, energy |-> NoReading]
  /\ UNCHANGED <<chargerVars, dbVars, histVars>>

-----------------------------------------------------------------------------
Handler(g) ==
  \/ StatusUpsert(g)
  \/ FinalizeRead(g)
  \/ FinalizeActive(g)
  \/ FinalizeEnergy(g)
  \/ FinalizeStop(g)
  \/ FinalizeAfter(g)
  \/ StartInsert(g)
  \/ StartUpsert(g)
  \/ StopUpsert(g)
  \/ StopActive(g)
  \/ StopClose(g)
  \/ StopAfter(g)

Receive(g) ==
  \/ StatusBegin(g)
  \/ StartBegin(g)
  \/ StopBegin(g)

Charger ==
  \/ \E st \in Statuses : ChargerStatus(st)
  \/ ChargerStart
  \/ ChargerDelivers
  \/ ChargerStop
  \/ ChargerGivesUp

Next ==
  \/ \E g \in Goroutines : Receive(g)
  \/ \E g \in Goroutines : Handler(g)
  \/ MeterValues
  \/ Charger
  \/ Crash

Spec == Init /\ [][Next]_vars

\* A handler that runs keeps running, and a charger with an unconfirmed
\* StopTransaction keeps repeating it whenever it may call.
Fairness ==
  /\ \A g \in Goroutines : WF_vars(Handler(g))
  /\ \A g \in Goroutines : SF_vars(StopBegin(g))

FairSpec == Spec /\ Fairness

-----------------------------------------------------------------------------
(* Properties.                                                             *)

Quiet == \A g \in Goroutines : pc[g] = "idle"

\* A transaction id that reached the charger is never given to another
\* transaction, whatever crashes and restarts lie between (the counter of
\* NewServer restarts at MAX(transaction_id) + 1).
IdsNeverReissued == ~reissued

\* The chart gets at most one "stop" marker per transaction, whichever of
\* finalizeSessionOnStop, StopTransaction and its repetitions come, in any order.
StopMarkOnce == \A t \in TxnIds : stopMarks[t] <= 1

\* A completed session is final: no later StatusNotification, repeated
\* StopTransaction or restart rewrites its reading, energy or status.
CompletedIsFinal ==
  [][\A t \in TxnIds : sessions[t].status = "completed" => sessions'[t] = sessions[t]]_vars

\* The SoC estimate grows at most once per transaction (socUpdater).
SoCOnce == \A t \in TxnIds : socCount[t] <= 1

\* Between calls, memory, connector_state and the charger agree on the open
\* transaction: the scheduler, the finalizer and a restart act on the same one.
TransactionTracked ==
  Quiet => /\ conn.txn = cs.txn
           /\ chTxn > 0 => conn.txn = chTxn

\* An open transaction of the charger has an open or finalized session row with
\* the register value the transaction began at.
OpenTransactionHasSession ==
  chTxn > 0 => sessions[chTxn].status # "absent" /\ sessions[chTxn].start = chStart

\* A session is never credited with more energy than the register advanced
\* since it began, nor with a negative amount.
NeverOvercounted ==
  \A t \in TxnIds : sessions[t].status = "completed" =>
    0 <= sessions[t].energy /\ sessions[t].energy <= meter - sessions[t].start

\* A session that is closed carries the energy between its two readings.
StopRecordsEnergy ==
  \A t \in TxnIds : sessions[t].status = "completed" =>
    sessions[t].energy = sessions[t].stop - sessions[t].start

\* No energy is billed twice: together the completed sessions carry at most
\* what the register shows.
NoDoubleBilling ==
  MapThenSumSet(LAMBDA t : sessions[t].energy,
                {t \in TxnIds : sessions[t].status = "completed"}) <= meter

\* "Chart markers only fire on real transitions": a plug or unplug marker is
\* inserted only if the charger's status changed since the previous one.
NoPhantomMarker == ~phantom

\* The table implements the ledger a bill may rely on: whichever handler, retry or
\* restart writes a row, it opens an entry once and closes an open one once, within
\* the register (StartSession, StopSession and the handlers that compute energies).
Entry(t) == [status |-> sessions[t].status, start |-> sessions[t].start, energy |-> sessions[t].energy]

Ledger == INSTANCE SessionLedger
          WITH Entries <- TxnIds, MaxRegister <- MaxMeter,
               register <- meter, ledger <- [t \in TxnIds |-> Entry(t)]

LedgerSpec == Ledger!Spec

\* A transaction the charger ended is eventually closed in the database, also
\* when confirmations are lost and the process restarts in between.
StopEventuallyCloses ==
  \A t \in TxnIds : unacked.txn = t ~> sessions[t].status = "completed"
=============================================================================
