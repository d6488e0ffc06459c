------------------------- MODULE OcppSessionsProofs -------------------------
(* Theorems about OcppSessions, for any number of handler goroutines, ids, *)
(* register values and crashes.                                            *)
EXTENDS OcppSessions, FiniteSetTheorems, WellFoundedInduction, TLAPS

\* A handler past its first lookup has a transaction.
HasTxn ==
  \A g \in Goroutines : pc[g] \notin {"idle", "st_upsert", "fin_read"} => loc[g].txn \in TxnIds

TypeInv == TypeOK /\ HasTxn

\* The initial locals and the absent row are well-typed.
LEMMA ConstTypes ==
  /\ NoLocals \in Locals
  /\ NoRow \in Row
  /\ 0 \in 0..MaxMeter
  /\ 0 \in 0..MaxTxn
  /\ MaxTxn \in Nat
  /\ MaxMeter \in Nat
  BY OcppAssumption DEF OcppAssumption, NoLocals, Locals, NoRow, Row, DbStatus

\* The fields of a handler's locals.
LEMMA LocalTypes ==
  ASSUME TypeOK, NEW g \in Goroutines
  PROVE  /\ loc[g] \in Locals
         /\ loc[g].st \in DbStatus /\ loc[g].prevSt \in DbStatus
         /\ loc[g].txn \in 0..MaxTxn /\ loc[g].prevTxn \in 0..MaxTxn
         /\ loc[g].meter \in 0..MaxMeter
         /\ loc[g].energy \in -MaxMeter..MaxMeter
         /\ loc[g].closed \in BOOLEAN
<1>1. loc[g] \in Locals
  BY DEF TypeOK
<1> QED
  BY <1>1 DEF Locals

\* Counting one more leaves a table of counters well-typed.
LEMMA CountType ==
  ASSUME NEW f \in [TxnIds -> Nat], NEW t \in TxnIds PROVE [f EXCEPT ![t] = @ + 1] \in [TxnIds -> Nat]
  OBVIOUS

\* StopSession returns a well-typed table.
LEMMA StopSessionType ==
  ASSUME sessions \in [TxnIds -> Row], NEW t,
         NEW stop \in 0..MaxMeter, NEW energy \in -MaxMeter..MaxMeter
  PROVE  StopSession(t, stop, energy) \in [TxnIds -> Row]
<1>1. ASSUME NEW u \in TxnIds
      PROVE  [sessions[u] EXCEPT !.status = "completed", !.stop = stop, !.energy = energy] \in Row
  BY DEF Row
<1> QED
  BY <1>1 DEF StopSession

\* The initial state is well-typed.
LEMMA InitTypes == Init => TypeOK
<1> USE OcppAssumption, ConstTypes DEF OcppAssumption
<1> SUFFICES ASSUME Init PROVE TypeOK
  OBVIOUS
<1>1. conn \in [status : DbStatus, txn : 0..MaxTxn, energy : Readings]
  BY DEF Init, DbStatus, Readings
<1>2. cs \in [status : DbStatus, txn : 0..MaxTxn]
  BY DEF Init, DbStatus
<1>3. unacked \in [txn : 0..MaxTxn, meter : 0..MaxMeter]
  BY DEF Init
<1>4. logged \in [TxnIds -> Readings]
  BY DEF Init, Readings
<1>5. pc \in [Goroutines -> Pcs] /\ loc \in [Goroutines -> Locals]
  BY DEF Init, Pcs
<1>6. sessions \in [TxnIds -> Row] /\ stopMarks \in [TxnIds -> Nat] /\ socCount \in [TxnIds -> Nat]
  BY DEF Init
<1>7. nextTxnID \in 1..(MaxTxn + 1) /\ chTxn \in {Starting} \cup (0..MaxTxn) /\ rows \in Nat
  BY DEF Init
<1>8. confirmed \in SUBSET TxnIds /\ crashes \in 0..MaxCrash /\ meter \in 0..MaxMeter
        /\ chStart \in 0..MaxMeter /\ chStatus \in Statuses
  BY DEF Init
<1>9. reissued \in BOOLEAN /\ unmarked \in BOOLEAN /\ phantom \in BOOLEAN
  BY DEF Init
<1> QED
  BY <1>1, <1>2, <1>3, <1>4, <1>5, <1>6, <1>7, <1>8, <1>9 DEF TypeOK

LEMMA StatusBeginTypes == ASSUME TypeInv, NEW g \in Goroutines, StatusBegin(g) PROVE TypeOK'
<1> USE OcppAssumption, ConstTypes DEF OcppAssumption, TypeInv
<1>1. conn' \in [status : DbStatus, txn : 0..MaxTxn, energy : Readings]
  BY DEF StatusBegin, TypeOK, DbStatus
<1>2. loc' \in [Goroutines -> Locals]
  <2>1. loc[g] \in Locals /\ chStatus \in DbStatus /\ cs.txn \in 0..MaxTxn
    BY DEF TypeOK, DbStatus
  <2>2. [loc[g] EXCEPT !.st = chStatus, !.prevTxn = cs.txn] \in Locals
    BY <2>1 DEF Locals
  <2> QED
    BY <2>2 DEF StatusBegin, TypeOK
<1>3. pc' \in [Goroutines -> Pcs]
  BY DEF StatusBegin, TypeOK, Goto, Return, Pcs
<1>4. phantom' \in BOOLEAN /\ unmarked' \in BOOLEAN
  BY DEF StatusBegin, TypeOK
<1> QED
  BY <1>1, <1>2, <1>3, <1>4 DEF StatusBegin, TypeOK, chargerVars, dbVars, histVars

LEMMA StatusUpsertTypes == ASSUME TypeInv, NEW g \in Goroutines, StatusUpsert(g) PROVE TypeOK'
<1> USE OcppAssumption, ConstTypes DEF OcppAssumption, TypeInv
<1>1. cs' \in [status : DbStatus, txn : 0..MaxTxn]
  BY DEF StatusUpsert, TypeOK, StatusRow, DbStatus, Locals
<1>2. loc' \in [Goroutines -> Locals]
  BY DEF StatusUpsert, TypeOK, Return
<1>3. pc' \in [Goroutines -> Pcs]
  BY DEF StatusUpsert, TypeOK, Goto, Return, Pcs
<1> QED
  BY <1>1, <1>2, <1>3 DEF StatusUpsert, TypeOK, chargerVars, dbVars, histVars

LEMMA FinalizeReadTypes == ASSUME TypeInv, NEW g \in Goroutines, FinalizeRead(g) PROVE TypeOK'
<1> USE OcppAssumption, ConstTypes DEF OcppAssumption, TypeInv
<1>1. loc' \in [Goroutines -> Locals]
  <2>1. [loc[g] EXCEPT !.txn = cs.txn] \in Locals
    BY LocalTypes DEF TypeOK, Locals
  <2> QED
    BY <2>1 DEF FinalizeRead, TypeOK, Return
<1>2. pc' \in [Goroutines -> Pcs]
  BY DEF FinalizeRead, TypeOK, Goto, Return, Pcs
<1> QED
  BY <1>1, <1>2 DEF FinalizeRead, TypeOK, chargerVars, dbVars, histVars

LEMMA FinalizeActiveTypes == ASSUME TypeInv, NEW g \in Goroutines, FinalizeActive(g) PROVE TypeOK'
<1> USE OcppAssumption, ConstTypes DEF OcppAssumption, TypeInv
<1>1. loc' \in [Goroutines -> Locals]
  <2>1. loc[g].txn \in TxnIds /\ sessions[loc[g].txn] \in Row /\ loc[g] \in Locals
    BY LocalTypes DEF FinalizeActive, HasTxn, TypeOK
  <2>2. [loc[g] EXCEPT !.meter = sessions[loc[g].txn].start] \in Locals
    BY <2>1 DEF Locals, Row
  <2> QED
    BY <2>2 DEF FinalizeActive, TypeOK, Return
<1>2. pc' \in [Goroutines -> Pcs]
  BY DEF FinalizeActive, TypeOK, Goto, Return, Pcs
<1> QED
  BY <1>1, <1>2 DEF FinalizeActive, TypeOK, chargerVars, dbVars, histVars

LEMMA FinalizeEnergyTypes == ASSUME TypeInv, NEW g \in Goroutines, FinalizeEnergy(g) PROVE TypeOK'
<1> USE OcppAssumption, ConstTypes DEF OcppAssumption, TypeInv
<1>1. loc' \in [Goroutines -> Locals]
  <2> DEFINE r == currentEnergy(loc[g].txn)
             e == r - loc[g].meter
  <2>1. CASE Billable(loc[g].meter, r)
    <3>1. loc[g].txn \in TxnIds /\ r \in 0..MaxMeter /\ loc[g] \in Locals
      BY <2>1, LocalTypes DEF FinalizeEnergy, Billable, HasTxn, TypeOK, currentEnergy, Readings, NoReading
    <3>2. e \in -MaxMeter..MaxMeter
      BY <3>1 DEF Locals
    <3>3. loc' = [loc EXCEPT ![g].meter = r, ![g].energy = e] /\ loc \in [Goroutines -> Locals]
      BY <2>1 DEF FinalizeEnergy, TypeOK
    <3> HIDE DEF r, e
    <3>4. [loc[g] EXCEPT !.meter = r, !.energy = e] \in Locals
      BY <3>1, <3>2 DEF Locals
    <3> QED
      BY <3>3, <3>4
  <2> QED
    BY <2>1 DEF FinalizeEnergy, TypeOK, Return
<1>2. pc' \in [Goroutines -> Pcs]
  BY DEF FinalizeEnergy, TypeOK, Goto, Return, Pcs
<1> QED
  BY <1>1, <1>2 DEF FinalizeEnergy, TypeOK, chargerVars, dbVars, histVars

LEMMA FinalizeStopTypes == ASSUME TypeInv, NEW g \in Goroutines, FinalizeStop(g) PROVE TypeOK'
<1> USE OcppAssumption, ConstTypes DEF OcppAssumption, TypeInv
<1>1. loc' \in [Goroutines -> Locals]
  <2>1. [loc[g] EXCEPT !.closed = TRUE] \in Locals
    BY LocalTypes DEF Locals
  <2> QED
    BY <2>1 DEF FinalizeStop, TypeOK, Return
<1>2. sessions' \in [TxnIds -> Row]
  BY LocalTypes, StopSessionType DEF FinalizeStop, TypeOK
<1>3. pc' \in [Goroutines -> Pcs]
  BY DEF FinalizeStop, TypeOK, Goto, Return, Pcs
<1> QED
  BY <1>1, <1>2, <1>3 DEF FinalizeStop, TypeOK, chargerVars, dbVars, histVars

LEMMA FinalizeAfterTypes == ASSUME TypeInv, NEW g \in Goroutines, FinalizeAfter(g) PROVE TypeOK'
<1> USE OcppAssumption, ConstTypes DEF OcppAssumption, TypeInv
<1>1. loc' \in [Goroutines -> Locals]
  BY DEF FinalizeAfter, TypeOK, Return
<1>2. stopMarks' \in [TxnIds -> Nat] /\ socCount' \in [TxnIds -> Nat]
  <2> DEFINE t == loc[g].txn
  <2>1. stopMarks \in [TxnIds -> Nat] /\ socCount \in [TxnIds -> Nat]
    BY DEF TypeOK
  <2>2. /\ stopMarks' \in {stopMarks, [stopMarks EXCEPT ![t] = @ + 1]}
        /\ socCount' \in {socCount, [socCount EXCEPT ![t] = @ + 1]}
    BY DEF FinalizeAfter
  <2>3. t \in TxnIds
    BY DEF FinalizeAfter, HasTxn
  <2> QED
    BY <2>1, <2>2, <2>3, CountType
<1>3. pc' \in [Goroutines -> Pcs]
  BY DEF FinalizeAfter, TypeOK, Goto, Return, Pcs
<1> QED
  BY <1>1, <1>2, <1>3 DEF FinalizeAfter, TypeOK, chargerVars, dbVars, histVars

LEMMA StartBeginTypes == ASSUME TypeInv, NEW g \in Goroutines, StartBegin(g) PROVE TypeOK'
<1> USE OcppAssumption, ConstTypes DEF OcppAssumption, TypeInv
<1>1. conn' \in [status : DbStatus, txn : 0..MaxTxn, energy : Readings]
  <2>1. nextTxnID \in 0..MaxTxn
    BY DEF StartBegin, TypeOK
  <2>2. conn \in [status : DbStatus, txn : 0..MaxTxn, energy : Readings]
    BY DEF TypeOK
  <2> QED
    BY <2>1, <2>2 DEF StartBegin
<1>2. loc' \in [Goroutines -> Locals]
  <2>1. nextTxnID \in 0..MaxTxn /\ chStart \in 0..MaxMeter /\ loc \in [Goroutines -> Locals]
    BY DEF StartBegin, TypeOK
  <2>2. [loc[g] EXCEPT !.txn = nextTxnID, !.meter = chStart] \in Locals
    BY <2>1, LocalTypes DEF Locals
  <2> QED
    BY <2>1, <2>2 DEF StartBegin
<1>3. pc' \in [Goroutines -> Pcs]
  BY DEF StartBegin, TypeOK, Goto, Return, Pcs
<1>4. nextTxnID' \in 1..(MaxTxn + 1)
  BY DEF StartBegin, TypeOK
<1> QED
  BY <1>1, <1>2, <1>3, <1>4 DEF StartBegin, TypeOK, chargerVars, dbVars, histVars

LEMMA StartInsertTypes == ASSUME TypeInv, NEW g \in Goroutines, StartInsert(g) PROVE TypeOK'
<1> USE OcppAssumption, ConstTypes DEF OcppAssumption, TypeInv
<1>1. sessions' \in [TxnIds -> Row]
  <2>1. NewRow(g) \in Row
    BY LocalTypes DEF NewRow, Row, TypeOK
  <2> QED
    BY <2>1 DEF StartInsert, TypeOK
<1>2. rows' \in Nat
  BY DEF StartInsert, TypeOK
<1>3. loc' \in [Goroutines -> Locals]
  <2>1. loc[g] \in Locals /\ PrevStatus \in DbStatus
    BY DEF TypeOK, PrevStatus, DbStatus
  <2>2. [loc[g] EXCEPT !.prevSt = PrevStatus] \in Locals
    BY <2>1 DEF Locals
  <2> QED
    BY <2>2 DEF StartInsert, TypeOK
<1>4. pc' \in [Goroutines -> Pcs]
  BY DEF StartInsert, TypeOK, Goto, Return, Pcs
<1> QED
  BY <1>1, <1>2, <1>3, <1>4 DEF StartInsert, TypeOK, chargerVars, dbVars, histVars

LEMMA StartUpsertTypes == ASSUME TypeInv, NEW g \in Goroutines, StartUpsert(g) PROVE TypeOK'
<1> USE OcppAssumption, ConstTypes DEF OcppAssumption, TypeInv
<1>1. cs' \in [status : DbStatus, txn : 0..MaxTxn]
  BY DEF StartUpsert, TypeOK, Locals
<1>2. chTxn' \in {Starting} \cup (0..MaxTxn)
  BY DEF StartUpsert, TypeOK, Locals
<1>3. confirmed' \in SUBSET TxnIds /\ reissued' \in BOOLEAN
  BY DEF StartUpsert, TypeOK, HasTxn, TxnIds, Locals
<1>4. loc' \in [Goroutines -> Locals]
  BY DEF StartUpsert, TypeOK, Return
<1>5. pc' \in [Goroutines -> Pcs]
  BY DEF StartUpsert, TypeOK, Goto, Return, Pcs
<1> QED
  BY <1>1, <1>2, <1>3, <1>4, <1>5 DEF StartUpsert, TypeOK, chargerVars, dbVars, histVars

LEMMA StopBeginTypes == ASSUME TypeInv, NEW g \in Goroutines, StopBegin(g) PROVE TypeOK'
<1> USE OcppAssumption, ConstTypes DEF OcppAssumption, TypeInv
<1>1. conn' \in [status : DbStatus, txn : 0..MaxTxn, energy : Readings]
  BY DEF StopBegin, TypeOK, TxnIds
<1>2. loc' \in [Goroutines -> Locals]
  <2>1. unacked.txn \in 0..MaxTxn /\ unacked.meter \in 0..MaxMeter /\ PrevStatus \in DbStatus
          /\ loc \in [Goroutines -> Locals]
    BY DEF TypeOK, PrevStatus, DbStatus
  <2>2. [loc[g] EXCEPT !.txn = unacked.txn, !.meter = unacked.meter] \in Locals
    BY <2>1, LocalTypes DEF Locals
  <2>3. [loc[g] EXCEPT !.txn = unacked.txn, !.meter = unacked.meter, !.prevSt = PrevStatus] \in Locals
    BY <2>1, LocalTypes DEF Locals
  <2> QED
    BY <2>1, <2>2, <2>3 DEF StopBegin
<1>3. pc' \in [Goroutines -> Pcs]
  BY DEF StopBegin, TypeOK, Goto, Return, Pcs
<1> QED
  BY <1>1, <1>2, <1>3 DEF StopBegin, TypeOK, chargerVars, dbVars, histVars

LEMMA StopUpsertTypes == ASSUME TypeInv, NEW g \in Goroutines, StopUpsert(g) PROVE TypeOK'
<1> USE OcppAssumption, ConstTypes DEF OcppAssumption, TypeInv
<1>1. cs' \in [status : DbStatus, txn : 0..MaxTxn]
  BY DEF StopUpsert, TypeOK, Locals
<1>2. pc' \in [Goroutines -> Pcs]
  BY DEF StopUpsert, TypeOK, Goto, Return, Pcs
<1> QED
  BY <1>1, <1>2 DEF StopUpsert, TypeOK, chargerVars, dbVars, histVars

LEMMA StopActiveTypes == ASSUME TypeInv, NEW g \in Goroutines, StopActive(g) PROVE TypeOK'
<1> USE OcppAssumption, ConstTypes DEF OcppAssumption, TypeInv
<1>1. loc' \in [Goroutines -> Locals]
  <2>1. StopEnergy(g) \in -MaxMeter..MaxMeter
    <3>1. CASE IsActiveSession(loc[g].txn)
      <4>1. loc[g].txn \in TxnIds
        BY LocalTypes DEF HasTxn, StopActive, TxnIds
      <4>2. sessions[loc[g].txn].start \in 0..MaxMeter /\ loc[g].meter \in 0..MaxMeter
        BY <4>1, LocalTypes DEF TypeOK, Row
      <4> QED
        BY <3>1, <4>2 DEF StopEnergy
    <3> QED
      BY <3>1 DEF StopEnergy
  <2>2. loc \in [Goroutines -> Locals] /\ loc[g] \in Locals
    BY DEF TypeOK
  <2>3. [loc[g] EXCEPT !.energy = StopEnergy(g)] \in Locals
    BY <2>1, <2>2 DEF Locals
  <2> QED
    BY <2>2, <2>3 DEF StopActive
<1>2. pc' \in [Goroutines -> Pcs]
  BY DEF StopActive, TypeOK, Goto, Return, Pcs
<1> QED
  BY <1>1, <1>2 DEF StopActive, TypeOK, chargerVars, dbVars, histVars

LEMMA StopCloseTypes == ASSUME TypeInv, NEW g \in Goroutines, StopClose(g) PROVE TypeOK'
<1> USE OcppAssumption, ConstTypes DEF OcppAssumption, TypeInv
<1>1. sessions' \in [TxnIds -> Row]
  BY LocalTypes, StopSessionType DEF StopClose, TypeOK
<1>2. loc' \in [Goroutines -> Locals]
  BY DEF StopClose, TypeOK, Locals
<1>3. pc' \in [Goroutines -> Pcs]
  BY DEF StopClose, TypeOK, Goto, Return, Pcs
<1> QED
  BY <1>1, <1>2, <1>3 DEF StopClose, TypeOK, chargerVars, dbVars, histVars

LEMMA StopAfterTypes == ASSUME TypeInv, NEW g \in Goroutines, StopAfter(g) PROVE TypeOK'
<1> USE OcppAssumption, ConstTypes DEF OcppAssumption, TypeInv
<1>1. stopMarks' \in [TxnIds -> Nat] /\ socCount' \in [TxnIds -> Nat]
  <2> DEFINE t == loc[g].txn
  <2>1. stopMarks \in [TxnIds -> Nat] /\ socCount \in [TxnIds -> Nat]
    BY DEF TypeOK
  <2>2. /\ stopMarks' \in {stopMarks, [stopMarks EXCEPT ![t] = @ + 1]}
        /\ socCount' \in {socCount, [socCount EXCEPT ![t] = @ + 1]}
    BY DEF StopAfter
  <2>3. t \in TxnIds
    BY DEF StopAfter, HasTxn
  <2> QED
    BY <2>1, <2>2, <2>3, CountType
<1>2. unacked' \in [txn : 0..MaxTxn, meter : 0..MaxMeter]
  BY DEF StopAfter, TypeOK
<1>3. loc' \in [Goroutines -> Locals]
  BY DEF StopAfter, TypeOK, Return
<1>4. pc' \in [Goroutines -> Pcs]
  BY DEF StopAfter, TypeOK, Goto, Return, Pcs
<1> QED
  BY <1>1, <1>2, <1>3, <1>4 DEF StopAfter, TypeOK, chargerVars, dbVars, histVars

\* A step of one handler leaves the others where they are.
LEMMA HandlerFrame ==
  ASSUME pc \in [Goroutines -> Pcs], loc \in [Goroutines -> Locals],
         NEW g \in Goroutines, NEW h \in Goroutines, h # g, Receive(g) \/ Handler(g)
  PROVE  pc'[h] = pc[h] /\ loc'[h] = loc[h]
<1> USE DEF Goto, Return
<1>1. CASE Receive(g)
  BY <1>1 DEF Receive, StatusBegin, StartBegin, StopBegin
<1>2. CASE \/ StatusUpsert(g) \/ FinalizeRead(g) \/ FinalizeActive(g) \/ FinalizeEnergy(g)
           \/ FinalizeStop(g) \/ FinalizeAfter(g)
  BY <1>2 DEF StatusUpsert, FinalizeRead, FinalizeActive, FinalizeEnergy, FinalizeStop, FinalizeAfter
<1>3. CASE StartInsert(g) \/ StartUpsert(g) \/ StopUpsert(g)
  BY <1>3 DEF StartInsert, StartUpsert, StopUpsert
<1>4. CASE StopActive(g) \/ StopClose(g) \/ StopAfter(g)
  BY <1>4 DEF StopActive, StopClose, StopAfter
<1> QED
  BY <1>1, <1>2, <1>3, <1>4 DEF Handler

\* Steps of the charger, a MeterValues call and a crash keep the types.
LEMMA OtherTypes == ASSUME TypeInv, MeterValues \/ Charger \/ Crash \/ UNCHANGED vars PROVE TypeOK'
<1> USE OcppAssumption, ConstTypes DEF OcppAssumption, TypeInv, TypeOK
<1>1. CASE MeterValues
  <2>1. conn' \in [status : DbStatus, txn : 0..MaxTxn, energy : Readings]
    BY <1>1 DEF MeterValues, Readings
  <2>2. logged' \in [TxnIds -> Readings]
    BY <1>1 DEF MeterValues, Readings
  <2> QED
    BY <1>1, <2>1, <2>2 DEF MeterValues, chargerVars, histVars
<1>2. CASE Charger
  <2>1. ASSUME NEW st \in Statuses, ChargerStatus(st) PROVE TypeOK'
    BY <2>1 DEF ChargerStatus, dbVars
  <2>2. CASE ChargerStart
    BY <2>2 DEF ChargerStart, dbVars, histVars
  <2>3. CASE ChargerDelivers
    <3>1. meter' \in 0..MaxMeter
      BY <2>3 DEF ChargerDelivers
    <3> QED
      BY <2>3, <3>1 DEF ChargerDelivers, dbVars, histVars
  <2>4. CASE ChargerStop
    <3>1. unacked' \in [txn : 0..MaxTxn, meter : 0..MaxMeter]
      BY <2>4 DEF ChargerStop, Starting
    <3> QED
      BY <2>4, <3>1 DEF ChargerStop, dbVars, histVars
  <2>5. CASE ChargerGivesUp
    BY <2>5 DEF ChargerGivesUp, dbVars, histVars
  <2> QED
    BY <1>2, <2>1, <2>2, <2>3, <2>4, <2>5 DEF Charger
<1>3. CASE Crash
  <2>1. conn' \in [status : DbStatus, txn : 0..MaxTxn, energy : Readings]
    BY <1>3 DEF Crash, DbStatus, Readings
  <2>2. nextTxnID' \in 1..(MaxTxn + 1)
    BY <1>3 DEF Crash, RestartTxnID
  <2>3. pc' \in [Goroutines -> Pcs] /\ loc' \in [Goroutines -> Locals]
    BY <1>3 DEF Crash, Pcs
  <2>4. crashes' \in 0..MaxCrash
    BY <1>3 DEF Crash
  <2> QED
    BY <1>3, <2>1, <2>2, <2>3, <2>4 DEF Crash, chargerVars, dbVars, histVars
<1>4. CASE UNCHANGED vars
  BY <1>4 DEF vars, chargerVars, dbVars, histVars
<1> QED
  BY <1>1, <1>2, <1>3, <1>4

\* A handler that is not at its first statements has a transaction, because the
\* step that takes it there set one.
LEMMA HasTxnStep == ASSUME TypeInv, [Next]_vars PROVE HasTxn'
<1> USE OcppAssumption DEF TypeInv, HasTxn
<1> SUFFICES ASSUME NEW h \in Goroutines, pc'[h] \notin {"idle", "st_upsert", "fin_read"}
             PROVE  loc'[h].txn \in TxnIds
  OBVIOUS
<1>0. pc \in [Goroutines -> Pcs] /\ loc \in [Goroutines -> Locals]
  BY DEF TypeOK
<1>1. ASSUME NEW g \in Goroutines, Receive(g) \/ Handler(g) PROVE loc'[h].txn \in TxnIds
  <2>1. CASE h # g
    <3>1. pc'[h] = pc[h] /\ loc'[h] = loc[h]
      BY <1>0, <1>1, <2>1, HandlerFrame
    <3> QED
      BY <3>1
  <2>2. CASE h = g
    <3> USE <1>0, <2>2 DEF Goto, Return
    <3>1. CASE StatusBegin(g)
      BY <3>1 DEF StatusBegin
    <3>2. CASE StatusUpsert(g)
      BY <3>2 DEF StatusUpsert
    <3>3. CASE FinalizeRead(g)
      <4>1. cs.txn \in 0..MaxTxn
        BY DEF TypeOK
      <4> QED
        BY <3>3, <4>1 DEF FinalizeRead, TxnIds, Locals, OcppAssumption
    <3>4. CASE FinalizeActive(g)
      BY <3>4 DEF FinalizeActive, Locals
    <3>5. CASE FinalizeEnergy(g)
      BY <3>5 DEF FinalizeEnergy, Locals
    <3>6. CASE FinalizeStop(g)
      BY <3>6 DEF FinalizeStop, Locals
    <3>7. CASE FinalizeAfter(g)
      BY <3>7 DEF FinalizeAfter
    <3>8. CASE StartBegin(g)
      <4>1. nextTxnID \in TxnIds
        BY <3>8 DEF StartBegin, TypeOK, TxnIds, OcppAssumption
      <4> QED
        BY <3>8, <4>1 DEF StartBegin, Locals
    <3>9. CASE StartInsert(g)
      BY <3>9 DEF StartInsert, Locals
    <3>10. CASE StartUpsert(g)
      BY <3>10 DEF StartUpsert
    <3>11. CASE StopBegin(g)
      <4>1. unacked.txn \in TxnIds
        BY <3>11 DEF StopBegin, TypeOK, TxnIds, OcppAssumption
      <4> QED
        BY <3>11, <4>1 DEF StopBegin, Locals
    <3>12. CASE StopUpsert(g)
      BY <3>12 DEF StopUpsert
    <3>13. CASE StopActive(g)
      BY <3>13 DEF StopActive, Locals
    <3>14. CASE StopClose(g)
      BY <3>14 DEF StopClose, Locals
    <3>15. CASE StopAfter(g)
      BY <3>15 DEF StopAfter
    <3> QED
      BY <1>1, <3>1, <3>2, <3>3, <3>4, <3>5, <3>6, <3>7, <3>8, <3>9, <3>10, <3>11, <3>12, <3>13, <3>14, <3>15
         DEF Receive, Handler
  <2> QED
    BY <2>1, <2>2
<1>2. CASE MeterValues \/ Charger \/ UNCHANGED vars
  <2>1. pc' = pc /\ loc' = loc
    BY <1>2 DEF MeterValues, Charger, ChargerStatus, ChargerStart, ChargerDelivers, ChargerStop,
                ChargerGivesUp, vars
  <2> QED
    BY <2>1
<1>3. CASE Crash
  BY <1>3 DEF Crash
<1> QED
  BY <1>1, <1>2, <1>3 DEF Next

\* Every step keeps the types.
LEMMA TypeStep == ASSUME TypeInv, [Next]_vars PROVE TypeInv'
<1>1. ASSUME NEW g \in Goroutines, Receive(g) \/ Handler(g) PROVE TypeOK'
  BY <1>1, StatusBeginTypes, StatusUpsertTypes, FinalizeReadTypes, FinalizeActiveTypes, FinalizeEnergyTypes, FinalizeStopTypes, FinalizeAfterTypes, StartBeginTypes, 
     StartInsertTypes, StartUpsertTypes, StopBeginTypes, StopUpsertTypes, StopActiveTypes, StopCloseTypes, StopAfterTypes
     DEF Receive, Handler
<1> QED
  BY <1>1, OtherTypes, HasTxnStep DEF Next, TypeInv

\* Every variable stays in its range, and a handler past its first lookup has a
\* transaction.
THEOREM TypeCorrect == Spec => []TypeOK
<1>1. Init => TypeInv
  BY InitTypes DEF TypeInv, HasTxn, Init
<1>2. TypeInv /\ [Next]_vars => TypeInv'
  BY TypeStep
<1>3. TypeInv => TypeOK
  BY DEF TypeInv
<1> QED
  BY <1>1, <1>2, <1>3, PTL DEF Spec

-----------------------------------------------------------------------------
(* Transaction ids.  A handler of StartTransaction owns its id from          *)
(* allocateTxnID to its last statement: nobody else carries it, and the id   *)
(* has a row exactly from its StartInsert on.                                *)
Starts(g) == pc[g] \in {"tx_insert", "tx_upsert"}

OwnedId(g) ==
  /\ Starts(g) => loc[g].txn < nextTxnID /\ loc[g].txn \notin confirmed
  /\ pc[g] = "tx_insert" => sessions[loc[g].txn].status = "absent"
  /\ pc[g] = "tx_upsert" => sessions[loc[g].txn].status # "absent"

IdInv ==
  /\ ~reissued
  /\ \A t \in TxnIds : sessions[t].status # "absent" => t < nextTxnID
  /\ \A t \in confirmed : sessions[t].status # "absent"
  /\ \A g \in Goroutines : OwnedId(g)
  /\ \A g, h \in Goroutines : g # h /\ Starts(g) /\ Starts(h) => loc[g].txn # loc[h].txn

\* Closing a session keeps every row that is there, there, and leaves a
\* completed row as it is.
LEMMA StopSessionKeeps ==
  ASSUME TypeOK, NEW t, NEW stop, NEW energy, NEW u \in TxnIds
  PROVE  LET s == StopSession(t, stop, energy)
         IN  /\ s[u].status = "absent" <=> sessions[u].status = "absent"
             /\ sessions[u].status = "completed" => s[u] = sessions[u]
<1>1. sessions \in [TxnIds -> Row] /\ sessions[u] \in Row
  BY DEF TypeOK
<1>2. CASE u = t /\ sessions[t].status = "active"
  BY <1>1, <1>2 DEF StopSession, Row
<1>3. CASE ~(u = t /\ sessions[t].status = "active")
  BY <1>1, <1>3 DEF StopSession
<1> QED
  BY <1>2, <1>3

\* The steps that touch neither ids, rows nor confirmations, and take no handler
\* into or out of StartTransaction.
LEMMA IdFrame ==
  ASSUME TypeInv, IdInv,
         UNCHANGED <<nextTxnID, confirmed, reissued>>,
         \A u \in TxnIds : (sessions'[u].status = "absent") <=> (sessions[u].status = "absent"),
         \A h \in Goroutines : Starts(h)' => pc'[h] = pc[h] /\ loc'[h].txn = loc[h].txn
  PROVE  IdInv'
<1>1. confirmed \subseteq TxnIds /\ \A h \in Goroutines : Starts(h) => loc[h].txn \in TxnIds
  BY DEF TypeInv, TypeOK, HasTxn, Starts
<1> QED
  BY <1>1 DEF IdInv, OwnedId, Starts

\* Every step keeps the ids' invariant.
LEMMA IdStep == ASSUME TypeInv, IdInv, [Next]_vars PROVE IdInv'
<1> USE DEF TypeInv
<1>0. pc \in [Goroutines -> Pcs] /\ loc \in [Goroutines -> Locals] /\ sessions \in [TxnIds -> Row]
        /\ confirmed \subseteq TxnIds
  BY DEF TypeOK
<1>1. ASSUME NEW g \in Goroutines, Receive(g) \/ Handler(g) PROVE IdInv'
  <2>0. \A h \in Goroutines : h # g => pc'[h] = pc[h] /\ loc'[h] = loc[h]
    BY <1>0, <1>1, HandlerFrame
  <2> USE <1>0, <2>0
  <2>1. CASE StatusBegin(g)
    <3>1. pc'[g] \notin {"tx_insert", "tx_upsert"}
      BY <2>1 DEF StatusBegin, Goto, Return
    <3> QED
      BY <2>1, <3>1, IdFrame DEF StatusBegin, Starts, dbVars, histVars
  <2>2. CASE StatusUpsert(g)
    <3>1. pc'[g] \notin {"tx_insert", "tx_upsert"}
      BY <2>2 DEF StatusUpsert, Goto, Return
    <3> QED
      BY <2>2, <3>1, IdFrame DEF StatusUpsert, Starts, dbVars, histVars
  <2>3. CASE FinalizeRead(g)
    <3>1. pc'[g] \notin {"tx_insert", "tx_upsert"}
      BY <2>3 DEF FinalizeRead, Goto, Return
    <3> QED
      BY <2>3, <3>1, IdFrame DEF FinalizeRead, Starts, dbVars, histVars
  <2>4. CASE FinalizeActive(g)
    <3>1. pc'[g] \notin {"tx_insert", "tx_upsert"}
      BY <2>4 DEF FinalizeActive, Goto, Return
    <3> QED
      BY <2>4, <3>1, IdFrame DEF FinalizeActive, Starts, dbVars, histVars
  <2>5. CASE FinalizeEnergy(g)
    <3>1. pc'[g] \notin {"tx_insert", "tx_upsert"}
      BY <2>5 DEF FinalizeEnergy, Goto, Return
    <3> QED
      BY <2>5, <3>1, IdFrame DEF FinalizeEnergy, Starts, dbVars, histVars
  <2>6. CASE FinalizeStop(g)
    <3>1. pc'[g] \notin {"tx_insert", "tx_upsert"}
      BY <2>6 DEF FinalizeStop, Goto, Return
    <3>2. \A u \in TxnIds : (sessions'[u].status = "absent") <=> (sessions[u].status = "absent")
      BY <2>6, StopSessionKeeps DEF FinalizeStop
    <3> QED
      BY <2>6, <3>1, <3>2, IdFrame DEF FinalizeStop, Starts, histVars
  <2>7. CASE FinalizeAfter(g)
    <3>1. pc'[g] \notin {"tx_insert", "tx_upsert"}
      BY <2>7 DEF FinalizeAfter, Goto, Return
    <3> QED
      BY <2>7, <3>1, IdFrame DEF FinalizeAfter, Starts, dbVars, histVars
  <2>8. CASE StartBegin(g)
    <3>1. nextTxnID \in TxnIds /\ nextTxnID' = nextTxnID + 1
      BY <2>8, OcppAssumption DEF StartBegin, TypeOK, TxnIds, OcppAssumption
    <3>2. pc'[g] = "tx_insert" /\ loc'[g].txn = nextTxnID
      BY <2>8 DEF StartBegin, Goto, Locals
    <3>3. UNCHANGED <<sessions, confirmed, reissued>>
      BY <2>8 DEF StartBegin, dbVars, histVars
    <3>4. \A h \in Goroutines : Starts(h) => loc[h].txn \in TxnIds
      BY DEF HasTxn, Starts
    <3> USE <3>1, <3>2, <3>3, <3>4 DEF TxnIds
    <3>5. sessions[nextTxnID].status = "absent" /\ nextTxnID \notin confirmed
      BY DEF IdInv
    <3>6. \A t \in TxnIds : sessions'[t].status # "absent" => t < nextTxnID'
      BY DEF IdInv
    <3>7. \A h \in Goroutines : OwnedId(h)'
      BY <3>5 DEF IdInv, OwnedId, Starts
    <3>8. \A h \in Goroutines : h # g /\ Starts(h) => loc[h].txn # nextTxnID
      BY DEF IdInv, OwnedId
    <3>9. \A h, k \in Goroutines : h # k /\ Starts(h)' /\ Starts(k)' => loc'[h].txn # loc'[k].txn
      BY <3>8 DEF IdInv, Starts
    <3> QED
      BY <3>6, <3>7, <3>9 DEF IdInv
  <2>9. CASE StartInsert(g)
    <3>1. loc[g].txn \in TxnIds /\ pc[g] = "tx_insert"
      BY <2>9 DEF StartInsert, HasTxn
    <3>2. sessions' = [sessions EXCEPT ![loc[g].txn] = NewRow(g)] /\ NewRow(g).status = "active"
      BY <2>9 DEF StartInsert, NewRow
    <3>3. pc'[g] = "tx_upsert" /\ loc'[g].txn = loc[g].txn
      BY <2>9 DEF StartInsert, Goto, Locals
    <3>4. UNCHANGED <<nextTxnID, confirmed, reissued>>
      BY <2>9 DEF StartInsert, histVars
    <3>5. \A h \in Goroutines : h # g /\ Starts(h) => loc[h].txn \in TxnIds /\ loc[h].txn # loc[g].txn
      BY <3>1 DEF IdInv, HasTxn, Starts
    <3>6. \A h \in Goroutines : OwnedId(h)'
      BY <3>1, <3>2, <3>3, <3>4, <3>5 DEF IdInv, OwnedId, Starts
    <3>7. \A h \in Goroutines : Starts(h)' = Starts(h) /\ (Starts(h) => loc'[h].txn = loc[h].txn)
      BY <3>1, <3>3 DEF Starts
    <3>8. \A t \in TxnIds : sessions'[t].status # "absent" => t < nextTxnID'
      BY <3>1, <3>2, <3>4 DEF IdInv, OwnedId, Starts
    <3>9. \A t \in confirmed : sessions'[t].status # "absent"
      BY <3>1, <3>2 DEF IdInv
    <3> QED
      BY <3>4, <3>6, <3>7, <3>8, <3>9 DEF IdInv
  <2>10. CASE StartUpsert(g)
    <3>1. loc[g].txn \in TxnIds /\ pc[g] = "tx_upsert" /\ pc'[g] = "idle"
      BY <2>10 DEF StartUpsert, HasTxn, Return
    <3>2. sessions[loc[g].txn].status # "absent" /\ loc[g].txn \notin confirmed
      BY <3>1 DEF IdInv, OwnedId, Starts
    <3>3. UNCHANGED <<nextTxnID, sessions>>
      BY <2>10 DEF StartUpsert
    <3>4. /\ confirmed' \in {confirmed, confirmed \cup {loc[g].txn}}
          /\ reissued' \in {reissued, reissued \/ loc[g].txn \in confirmed}
      BY <2>10 DEF StartUpsert
    <3>5. ~reissued'
      BY <3>2, <3>4 DEF IdInv
    <3>6. \A h \in Goroutines : Starts(h)' => Starts(h) /\ h # g /\ pc'[h] = pc[h] /\ loc'[h] = loc[h]
      BY <3>1 DEF Starts
    <3>7. \A h \in Goroutines : Starts(h) /\ h # g => loc[h].txn # loc[g].txn
      BY <3>1 DEF IdInv, Starts
    <3>8. \A h \in Goroutines : OwnedId(h)'
      BY <3>1, <3>3, <3>4, <3>6, <3>7 DEF IdInv, OwnedId, Starts
    <3>9. \A t \in confirmed' : sessions'[t].status # "absent"
      BY <3>2, <3>3, <3>4 DEF IdInv
    <3> QED
      BY <3>3, <3>5, <3>6, <3>8, <3>9 DEF IdInv
  <2>11. CASE StopBegin(g)
    <3>1. pc'[g] \notin {"tx_insert", "tx_upsert"}
      BY <2>11 DEF StopBegin, Goto, Return
    <3> QED
      BY <2>11, <3>1, IdFrame DEF StopBegin, Starts, dbVars, histVars
  <2>12. CASE StopUpsert(g)
    <3>1. pc'[g] \notin {"tx_insert", "tx_upsert"}
      BY <2>12 DEF StopUpsert, Goto, Return
    <3> QED
      BY <2>12, <3>1, IdFrame DEF StopUpsert, Starts, dbVars, histVars
  <2>13. CASE StopActive(g)
    <3>1. pc'[g] \notin {"tx_insert", "tx_upsert"}
      BY <2>13 DEF StopActive, Goto, Return
    <3> QED
      BY <2>13, <3>1, IdFrame DEF StopActive, Starts, dbVars, histVars
  <2>14. CASE StopClose(g)
    <3>1. pc'[g] \notin {"tx_insert", "tx_upsert"}
      BY <2>14 DEF StopClose, Goto, Return
    <3>2. \A u \in TxnIds : (sessions'[u].status = "absent") <=> (sessions[u].status = "absent")
      BY <2>14, StopSessionKeeps DEF StopClose
    <3> QED
      BY <2>14, <3>1, <3>2, IdFrame DEF StopClose, Starts, histVars
  <2>15. CASE StopAfter(g)
    <3>1. pc'[g] \notin {"tx_insert", "tx_upsert"}
      BY <2>15 DEF StopAfter, Goto, Return
    <3> QED
      BY <2>15, <3>1, IdFrame DEF StopAfter, Starts, dbVars, histVars
  <2> QED
    BY <1>1, <2>1, <2>2, <2>3, <2>4, <2>5, <2>6, <2>7, <2>8, <2>9, <2>10, <2>11, <2>12, <2>13, <2>14, <2>15 DEF Receive, Handler
<1>2. CASE MeterValues \/ Charger \/ UNCHANGED vars
  <2>1. UNCHANGED <<pc, loc, sessions, nextTxnID, confirmed, reissued>>
    BY <1>2 DEF MeterValues, Charger, ChargerStatus, ChargerStart, ChargerDelivers, ChargerStop,
                ChargerGivesUp, vars, dbVars, histVars
  <2> QED
    BY <2>1, IdFrame
<1>3. CASE Crash
  <2>1. \A g \in Goroutines : ~Starts(g)'
    BY <1>3 DEF Crash, Starts
  <2>2. UNCHANGED <<sessions, confirmed, reissued>>
    BY <1>3 DEF Crash, dbVars, histVars
  <2>3. \A t \in TxnIds : sessions'[t].status # "absent" => t < nextTxnID'
    <3>1. PICK m \in 0..MaxTxn : IsMaxTxn(m) /\ nextTxnID' = m + 1
      BY <1>3 DEF Crash, RestartTxnID
    <3> QED
      BY <2>2, <3>1, OcppAssumption DEF IsMaxTxn, TxnIds, OcppAssumption
  <2>4. \A g \in Goroutines : OwnedId(g)'
    BY <2>1 DEF OwnedId, Starts
  <2> QED
    BY <2>1, <2>2, <2>3, <2>4 DEF IdInv
<1> QED
  BY <1>1, <1>2, <1>3 DEF Next

LEMMA IdInvariant == Spec => [](TypeInv /\ IdInv)
<1>1. Init => TypeInv /\ IdInv
  BY InitTypes DEF TypeInv, HasTxn, Init, IdInv, OwnedId, Starts, NoRow
<1>2. TypeInv /\ IdInv /\ [Next]_vars => (TypeInv /\ IdInv)'
  BY TypeStep, IdStep
<1> QED
  BY <1>1, <1>2, PTL DEF Spec

\* No transaction id is confirmed to the charger twice, for any number of
\* concurrent handlers and restarts (NewServer restarts the counter at
\* MAX(transaction_id) + 1 and every confirmed id has its row by then).
THEOREM IdsUnique == Spec => []IdsNeverReissued
<1>1. TypeInv /\ IdInv => IdsNeverReissued
  BY DEF IdInv, IdsNeverReissued
<1> QED
  BY <1>1, IdInvariant, PTL

\* What a step does to completed rows.
LEMMA CompletedKept ==
  ASSUME TypeInv, IdInv, [Next]_vars, NEW t \in TxnIds, sessions[t].status = "completed"
  PROVE  sessions'[t] = sessions[t]
<1> USE DEF TypeInv
<1>1. ASSUME NEW g \in Goroutines, StartInsert(g) PROVE sessions'[t] = sessions[t]
  <2>1. pc[g] = "tx_insert" /\ sessions' = [sessions EXCEPT ![loc[g].txn] = NewRow(g)]
    BY <1>1 DEF StartInsert
  <2>2. t # loc[g].txn
    BY <2>1 DEF IdInv, OwnedId
  <2> QED
    BY <2>1, <2>2 DEF TypeOK
<1>2. ASSUME NEW g \in Goroutines, FinalizeStop(g) \/ StopClose(g) PROVE sessions'[t] = sessions[t]
  BY <1>2, StopSessionKeeps DEF FinalizeStop, StopClose
<1>3. CASE \/ MeterValues \/ Charger \/ Crash \/ UNCHANGED vars
           \/ \E g \in Goroutines : Receive(g)
  BY <1>3 DEF MeterValues, Charger, ChargerStatus, ChargerStart, ChargerDelivers, ChargerStop,
              ChargerGivesUp, Crash, vars, dbVars, Receive, StatusBegin, StartBegin, StopBegin
<1>4. ASSUME NEW g \in Goroutines, Handler(g) PROVE sessions'[t] = sessions[t]
  BY <1>1, <1>2, <1>4 DEF Handler, StatusUpsert, FinalizeRead, FinalizeActive, FinalizeEnergy, FinalizeAfter,
                          StartUpsert, StopUpsert,
                          StopActive, StopAfter, dbVars
<1> QED
  BY <1>3, <1>4 DEF Next

\* A completed session is never changed again, whichever handlers run together.
THEOREM CompletedFinal == Spec => CompletedIsFinal
<1>1. TypeInv /\ IdInv /\ [Next]_vars =>
        [\A t \in TxnIds : sessions[t].status = "completed" => sessions'[t] = sessions[t]]_vars
  BY CompletedKept
<1> QED
  BY <1>1, IdInvariant, PTL DEF Spec, CompletedIsFinal

-----------------------------------------------------------------------------
(* Stop markers.  The handler whose StopSession closed the row owes the one  *)
(* marker of its transaction; until it is inserted nobody else does.         *)
Owes(g) == pc[g] \in {"fin_after", "sp_after"} /\ loc[g].closed

MarkInv ==
  /\ \A t \in TxnIds : stopMarks[t] <= 1
  /\ \A t \in TxnIds : stopMarks[t] > 0 => sessions[t].status = "completed"
  /\ \A g \in Goroutines : pc[g] = "fin_after" => loc[g].closed
  /\ \A g \in Goroutines : Owes(g) => /\ sessions[loc[g].txn].status = "completed"
                                      /\ stopMarks[loc[g].txn] = 0
  /\ \A g, h \in Goroutines : g # h /\ Owes(g) /\ Owes(h) => loc[g].txn # loc[h].txn

\* The steps that insert no marker and after which no other handler owes one.
LEMMA MarkFrame ==
  ASSUME TypeInv, IdInv, MarkInv, [Next]_vars,
         UNCHANGED stopMarks,
         \A h \in Goroutines : pc'[h] \in {"fin_after", "sp_after"} =>
                                  pc'[h] = pc[h] /\ loc'[h] = loc[h]
  PROVE  MarkInv'
<1>1. \A t \in TxnIds : sessions[t].status = "completed" => sessions'[t].status = "completed"
  BY CompletedKept
<1>2. \A h \in Goroutines : pc[h] \in {"fin_after", "sp_after"} => loc[h].txn \in TxnIds
  BY DEF TypeInv, HasTxn
<1> QED
  BY <1>1, <1>2 DEF MarkInv, Owes

\* FinalizeStop and StopClose: the handler that finds the row active owes the marker.
LEMMA MarkClose ==
  ASSUME TypeInv, IdInv, MarkInv, [Next]_vars, NEW g \in Goroutines, FinalizeStop(g) \/ StopClose(g)
  PROVE  MarkInv'
<1> DEFINE t == loc[g].txn
<1> USE DEF TypeInv
<1>0. pc \in [Goroutines -> Pcs] /\ loc \in [Goroutines -> Locals] /\ sessions \in [TxnIds -> Row]
  BY DEF TypeOK
<1>1. \A h \in Goroutines : h # g => pc'[h] = pc[h] /\ loc'[h] = loc[h]
  BY <1>0, HandlerFrame DEF Handler
<1>2. t \in TxnIds
  BY DEF HasTxn, FinalizeStop, StopClose
<1>3. stopMarks' = stopMarks
  BY DEF FinalizeStop, StopClose, histVars
<1>4. \A u \in TxnIds : sessions[u].status = "completed" => sessions'[u].status = "completed"
  BY CompletedKept
<1>5. \A h \in Goroutines : pc[h] \in {"fin_after", "sp_after"} => loc[h].txn \in TxnIds
  BY DEF HasTxn
<1>6. CASE sessions[t].status = "active"
  <2>1. sessions'[t].status = "completed"
    BY <1>0, <1>2, <1>6 DEF FinalizeStop, StopClose, StopSession, Row
  <2>2. loc'[g].txn = t /\ (pc'[g] = "fin_after" => loc'[g].closed)
    BY <1>0, <1>6 DEF FinalizeStop, StopClose, Goto, Locals
  <2>3. \A h \in Goroutines : Owes(h) => loc[h].txn # t
    BY <1>6 DEF MarkInv
  <2>4. stopMarks[t] = 0
    <3>1. ~(stopMarks[t] > 0) /\ stopMarks[t] \in Nat
      BY <1>2, <1>6 DEF MarkInv, TypeOK
    <3> QED
      BY <3>1
  <2>5. \A h \in Goroutines : Owes(h)' => h = g \/ Owes(h)
    BY <1>1 DEF Owes
  <2> HIDE DEF t
  <2>6. \A h \in Goroutines : Owes(h)' => /\ sessions'[loc'[h].txn].status = "completed"
                                          /\ stopMarks'[loc'[h].txn] = 0
    BY <1>1, <1>2, <1>3, <1>4, <1>5, <2>1, <2>2, <2>4, <2>5 DEF MarkInv, Owes
  <2>7. \A h, k \in Goroutines : h # k /\ Owes(h)' /\ Owes(k)' => loc'[h].txn # loc'[k].txn
    BY <1>1, <2>2, <2>3, <2>5 DEF MarkInv
  <2>8. \A h \in Goroutines : pc'[h] = "fin_after" => loc'[h].closed
    BY <1>1, <2>2 DEF MarkInv
  <2>9. \A u \in TxnIds : stopMarks'[u] <= 1 /\ (stopMarks'[u] > 0 => sessions'[u].status = "completed")
    BY <1>3, <1>4 DEF MarkInv
  <2> QED
    BY <2>6, <2>7, <2>8, <2>9 DEF MarkInv
<1>7. CASE sessions[t].status # "active"
  <2>1. ~Owes(g)' /\ pc'[g] # "fin_after"
    BY <1>0, <1>7 DEF FinalizeStop, StopClose, Goto, Return, Owes, NoLocals, Locals
  <2>2. \A h \in Goroutines : Owes(h)' => Owes(h) /\ h # g
    BY <1>1, <2>1 DEF Owes
  <2>3. \A h \in Goroutines : pc'[h] = "fin_after" => loc'[h].closed
    BY <1>1, <2>1 DEF MarkInv
  <2> QED
    BY <1>1, <1>3, <1>4, <1>5, <2>2, <2>3 DEF MarkInv, Owes
<1> QED
  BY <1>6, <1>7

\* FinalizeAfter and StopAfter: the marker that was owed is inserted.
LEMMA MarkInsert ==
  ASSUME TypeInv, IdInv, MarkInv, [Next]_vars, NEW g \in Goroutines, FinalizeAfter(g) \/ StopAfter(g)
  PROVE  MarkInv'
<1> DEFINE t == loc[g].txn
<1> USE DEF TypeInv
<1>0. pc \in [Goroutines -> Pcs] /\ loc \in [Goroutines -> Locals] /\ stopMarks \in [TxnIds -> Nat]
  BY DEF TypeOK
<1>1. \A h \in Goroutines : h # g => pc'[h] = pc[h] /\ loc'[h] = loc[h]
  BY <1>0, HandlerFrame DEF Handler
<1>2. t \in TxnIds
  BY DEF HasTxn, FinalizeAfter, StopAfter
<1>3. sessions' = sessions
  BY DEF FinalizeAfter, StopAfter, dbVars
<1>4. \A h \in Goroutines : pc[h] \in {"fin_after", "sp_after"} => loc[h].txn \in TxnIds
  BY DEF HasTxn
<1>5. pc'[g] = "idle"
  BY <1>0 DEF FinalizeAfter, StopAfter, Return
<1>6. \A h \in Goroutines : Owes(h)' => Owes(h) /\ h # g
  BY <1>1, <1>5 DEF Owes
<1>7. stopMarks' = IF Owes(g) THEN [stopMarks EXCEPT ![t] = @ + 1] ELSE stopMarks
  BY DEF FinalizeAfter, StopAfter, EmitsStopMarker, Owes, MarkInv
<1>8. \A h \in Goroutines : pc'[h] = "fin_after" => loc'[h].closed
  BY <1>1, <1>5 DEF MarkInv
<1>9. CASE Owes(g)
  <2>1. \A h \in Goroutines : Owes(h)' => loc'[h].txn # t /\ loc'[h].txn \in TxnIds
    BY <1>1, <1>4, <1>6, <1>9 DEF MarkInv, Owes
  <2>2. stopMarks[t] = 0 /\ sessions[t].status = "completed"
    BY <1>9 DEF MarkInv
  <2> HIDE DEF t
  <2>3. \A u \in TxnIds : stopMarks'[u] = IF u = t THEN 1 ELSE stopMarks[u]
    BY <1>0, <1>2, <1>7, <1>9, <2>2
  <2> QED
    BY <1>1, <1>2, <1>3, <1>6, <1>8, <2>1, <2>2, <2>3 DEF MarkInv
<1>10. CASE ~Owes(g)
  BY <1>1, <1>3, <1>6, <1>7, <1>8, <1>10 DEF MarkInv
<1> QED
  BY <1>9, <1>10

\* Every step keeps the markers' invariant.
LEMMA MarkStep == ASSUME TypeInv, IdInv, MarkInv, [Next]_vars PROVE MarkInv'
<1>0. pc \in [Goroutines -> Pcs] /\ loc \in [Goroutines -> Locals]
  BY DEF TypeInv, TypeOK
<1>1. ASSUME NEW g \in Goroutines, Receive(g) \/ Handler(g) PROVE MarkInv'
  <2>1. CASE FinalizeStop(g) \/ StopClose(g)
    BY <2>1, MarkClose
  <2>2. CASE FinalizeAfter(g) \/ StopAfter(g)
    BY <2>2, MarkInsert
  <2>3. CASE \/ Receive(g) \/ StatusUpsert(g) \/ FinalizeRead(g) \/ FinalizeActive(g) \/ FinalizeEnergy(g)
             \/ StartInsert(g) \/ StartUpsert(g) \/ StopUpsert(g) \/ StopActive(g)
    <3>1. pc'[g] \notin {"fin_after", "sp_after"}
      <4>1. CASE Receive(g)
        BY <1>0, <4>1 DEF Receive, StatusBegin, StartBegin, StopBegin, Goto
      <4>2. CASE StatusUpsert(g) \/ FinalizeRead(g) \/ FinalizeActive(g) \/ FinalizeEnergy(g)
        BY <1>0, <4>2 DEF StatusUpsert, FinalizeRead, FinalizeActive, FinalizeEnergy, Goto, Return
      <4>3. CASE StartInsert(g) \/ StartUpsert(g) \/ StopUpsert(g) \/ StopActive(g)
        BY <1>0, <4>3 DEF StartInsert, StartUpsert, StopUpsert, StopActive, Goto, Return
      <4> QED
        BY <2>3, <4>1, <4>2, <4>3
    <3>2. stopMarks' = stopMarks
      BY <2>3 DEF Receive, StatusBegin, StartBegin, StopBegin, StatusUpsert, FinalizeRead,
                  FinalizeActive, FinalizeEnergy, StartInsert,
                  StartUpsert, StopUpsert, StopActive, histVars
    <3> QED
      BY <1>0, <1>1, <3>1, <3>2, HandlerFrame, MarkFrame
  <2> QED
    BY <1>1, <2>1, <2>2, <2>3 DEF Handler
<1>2. CASE MeterValues \/ Charger \/ UNCHANGED vars
  <2>1. UNCHANGED <<pc, loc, stopMarks>>
    BY <1>2 DEF MeterValues, Charger, ChargerStatus, ChargerStart, ChargerDelivers, ChargerStop,
                ChargerGivesUp, vars, histVars
  <2> QED
    BY <2>1, MarkFrame
<1>3. CASE Crash
  <2>1. stopMarks' = stopMarks /\ \A h \in Goroutines : pc'[h] = "idle"
    BY <1>3 DEF Crash, histVars
  <2> QED
    BY <2>1, MarkFrame
<1> QED
  BY <1>1, <1>2, <1>3 DEF Next

\* At most one stop marker per transaction, for any number of handlers racing
\* finalizeSessionOnStop and OnStopTransaction.
THEOREM OneStopMark == Spec => []StopMarkOnce
<1>1. Init => MarkInv
  BY DEF Init, MarkInv, Owes
<1>2. TypeInv /\ IdInv /\ MarkInv /\ [Next]_vars => MarkInv'
  BY MarkStep
<1>3. MarkInv => StopMarkOnce
  BY DEF MarkInv, StopMarkOnce
<1> QED
  BY <1>1, <1>2, <1>3, IdInvariant, PTL DEF Spec

-----------------------------------------------------------------------------
(* Energy.  A reading a handler carries was taken from the register, and it  *)
(* is never less than the register value its session began at.               *)
Present(t) == sessions[t].status # "absent"

EnergyLocal(g) ==
  /\ loc[g].meter <= meter
  /\ pc[g] \in {"sp_upsert", "sp_active", "sp_stop"} =>
       Present(loc[g].txn) /\ sessions[loc[g].txn].start <= loc[g].meter
  /\ pc[g] \in {"fin_energy", "fin_stop"} => Present(loc[g].txn)
  /\ pc[g] = "fin_energy" => loc[g].meter = sessions[loc[g].txn].start
  /\ pc[g] \in {"sp_stop", "fin_stop"} =>
       0 <= loc[g].energy /\ loc[g].energy <= meter - sessions[loc[g].txn].start

EnergyInv ==
  /\ chStart <= meter
  /\ conn.energy <= meter
  /\ \A t \in TxnIds : logged[t] <= meter
  /\ chTxn > 0 => Present(chTxn)
  /\ unacked.txn # 0 => /\ Present(unacked.txn)
                        /\ sessions[unacked.txn].start <= unacked.meter
                        /\ unacked.meter <= meter
  /\ \A t \in TxnIds : Present(t) => sessions[t].start <= meter
  /\ \A g \in Goroutines : EnergyLocal(g)
  /\ NeverOvercounted

\* A row stays, with the register value it began at; the register never goes back.
LEMMA RowsKept ==
  ASSUME TypeInv, IdInv, [Next]_vars
  PROVE  /\ \A t \in TxnIds : Present(t) => Present(t)' /\ sessions'[t].start = sessions[t].start
         /\ meter <= meter'
<1> USE DEF TypeInv
<1>0. sessions \in [TxnIds -> Row] /\ meter \in 0..MaxMeter /\ MaxMeter \in Nat
  BY ConstTypes DEF TypeOK
<1>1. ASSUME NEW g \in Goroutines, StartInsert(g), NEW t \in TxnIds, Present(t)
      PROVE  sessions'[t] = sessions[t]
  <2>1. sessions' = [sessions EXCEPT ![loc[g].txn] = NewRow(g)] /\ t # loc[g].txn
    BY <1>1 DEF StartInsert, IdInv, OwnedId, Present
  <2> QED
    BY <2>1, <1>0
<1>2. ASSUME NEW g \in Goroutines, FinalizeStop(g) \/ StopClose(g), NEW t \in TxnIds, Present(t)
      PROVE  Present(t)' /\ sessions'[t].start = sessions[t].start
  <2>1. PICK u, stop, energy : sessions' = StopSession(u, stop, energy)
    BY <1>2 DEF FinalizeStop, StopClose
  <2> QED
    BY <2>1, <1>0, <1>2 DEF StopSession, Row, Present
<1>3. CASE ChargerDelivers
  BY <1>0, <1>3 DEF ChargerDelivers, dbVars, Present
<1>4. CASE \/ MeterValues \/ (Charger /\ ~ChargerDelivers) \/ Crash \/ UNCHANGED vars
           \/ \E g \in Goroutines : Receive(g)
  <2>1. UNCHANGED <<sessions, meter>>
    BY <1>4 DEF MeterValues, Charger, ChargerStatus, ChargerStart, ChargerStop, ChargerGivesUp, Crash,
                vars, dbVars, chargerVars, Receive, StatusBegin, StartBegin, StopBegin
  <2> QED
    BY <1>0, <2>1 DEF Present
<1>5. ASSUME NEW g \in Goroutines, Handler(g)
      PROVE  /\ \A t \in TxnIds : Present(t) => Present(t)' /\ sessions'[t].start = sessions[t].start
             /\ meter <= meter'
  <2>1. meter' = meter
    BY <1>5 DEF Handler, StatusUpsert, FinalizeRead, FinalizeActive, FinalizeEnergy, FinalizeStop,
                FinalizeAfter, StartInsert, StartUpsert, StopUpsert, StopActive, StopClose, StopAfter,
                chargerVars
  <2>2. CASE StartInsert(g)
    BY <1>0, <1>1, <2>1, <2>2 DEF Present
  <2>3. CASE FinalizeStop(g) \/ StopClose(g)
    BY <1>0, <1>2, <2>1, <2>3
  <2>4. CASE ~(StartInsert(g) \/ FinalizeStop(g) \/ StopClose(g))
    <3>1. sessions' = sessions
      BY <1>5, <2>4 DEF Handler, StatusUpsert, FinalizeRead, FinalizeActive, FinalizeEnergy,
                        FinalizeAfter, StartUpsert, StopUpsert, StopActive, StopAfter, dbVars
    <3> QED
      BY <1>0, <2>1, <3>1 DEF Present
  <2> QED
    BY <2>2, <2>3, <2>4
<1> QED
  BY <1>3, <1>4, <1>5 DEF Next, Charger

\* What a handler carried before a step still holds after it.
LEMMA EnergyLocalKept ==
  ASSUME TypeInv, IdInv, EnergyInv, [Next]_vars, NEW h \in Goroutines,
         pc'[h] = pc[h], loc'[h] = loc[h]
  PROVE  EnergyLocal(h)'
<1>1. /\ loc[h].meter \in Int /\ loc[h].energy \in Int /\ meter \in Int /\ meter' \in Int
      /\ \A t \in TxnIds : sessions[t].start \in Int
  BY TypeStep, LocalTypes, ConstTypes DEF TypeInv, TypeOK, Row
<1>2. EnergyLocal(h)
  BY DEF EnergyInv
<1>3. pc[h] \in {"sp_upsert", "sp_active", "sp_stop", "fin_energy", "fin_stop"} => loc[h].txn \in TxnIds
  BY DEF TypeInv, HasTxn
<1>4. meter <= meter'
  BY RowsKept
<1>5. loc[h].txn \in TxnIds /\ Present(loc[h].txn) =>
        Present(loc[h].txn)' /\ sessions'[loc[h].txn].start = sessions[loc[h].txn].start
  BY RowsKept
<1> QED
  BY <1>1, <1>2, <1>3, <1>4, <1>5 DEF EnergyLocal, Present

\* The readings outside the handlers: the charger's, the connector's, the log's.
LEMMA EnergyOutside ==
  ASSUME TypeInv, IdInv, EnergyInv, [Next]_vars
  PROVE  /\ chStart' <= meter'
         /\ conn'.energy <= meter'
         /\ \A t \in TxnIds : logged'[t] <= meter'
<1> USE DEF TypeInv
<1>0. /\ chStart \in Int /\ meter \in Int /\ meter' \in Int /\ logged \in [TxnIds -> Int]
      /\ conn \in [status : DbStatus, txn : 0..MaxTxn, energy : Int] /\ 0 <= meter
  BY TypeStep, ConstTypes DEF TypeOK, Readings, NoReading
<1>1. meter <= meter'
  BY RowsKept
<1>2. chStart' \in {chStart, meter}
  BY DEF Next, vars, chargerVars, MeterValues, Charger, ChargerStatus, ChargerStart, ChargerDelivers,
         ChargerStop, ChargerGivesUp, Crash, Receive, StatusBegin, StartBegin, StopBegin, Handler,
         StatusUpsert, FinalizeRead, FinalizeActive, FinalizeEnergy, FinalizeStop, FinalizeAfter,
         StartInsert, StartUpsert, StopUpsert, StopActive, StopClose, StopAfter
<1>3. conn'.energy \in {conn.energy, meter, NoReading}
  <2>1. CASE \E g \in Goroutines : Receive(g)
    BY <1>0, <2>1 DEF Receive, StatusBegin, StartBegin, StopBegin
  <2>2. CASE MeterValues
    BY <1>0, <2>2 DEF MeterValues
  <2>3. CASE Crash
    BY <2>3 DEF Crash
  <2>4. CASE Charger \/ UNCHANGED vars \/ \E g \in Goroutines : Handler(g)
    BY <2>4 DEF Charger, ChargerStatus, ChargerStart, ChargerDelivers, ChargerStop, ChargerGivesUp, vars,
       Handler, StatusUpsert, FinalizeRead, FinalizeActive, FinalizeEnergy, FinalizeStop, FinalizeAfter,
       StartInsert, StartUpsert, StopUpsert, StopActive, StopClose, StopAfter
  <2> QED
    BY <2>1, <2>2, <2>3, <2>4 DEF Next
<1>4. ASSUME NEW t \in TxnIds PROVE logged'[t] \in {logged[t], meter}
  <2>1. CASE MeterValues
    BY <1>0, <2>1 DEF MeterValues
  <2>2. CASE ~MeterValues
    <3>1. logged' = logged
      BY <2>2 DEF Next, vars, dbVars, Charger, ChargerStatus, ChargerStart, ChargerDelivers, ChargerStop,
         ChargerGivesUp, Crash, Receive, StatusBegin, StartBegin, StopBegin, Handler, StatusUpsert,
         FinalizeRead, FinalizeActive, FinalizeEnergy, FinalizeStop, FinalizeAfter, StartInsert,
         StartUpsert, StopUpsert, StopActive, StopClose, StopAfter
    <3> QED
      BY <3>1
  <2> QED
    BY <2>1, <2>2
<1> QED
  BY <1>0, <1>1, <1>2, <1>3, <1>4 DEF EnergyInv, NoReading

\* The charger's transaction and its unconfirmed StopTransaction have rows.
LEMMA EnergyCharger ==
  ASSUME TypeInv, IdInv, EnergyInv, [Next]_vars
  PROVE  /\ chTxn' > 0 => Present(chTxn)'
         /\ unacked'.txn # 0 => /\ Present(unacked.txn)'
                                /\ sessions'[unacked'.txn].start <= unacked'.meter
                                /\ unacked'.meter <= meter'
<1> USE DEF TypeInv
<1>0. /\ chTxn \in {Starting} \cup (0..MaxTxn) /\ meter \in Int /\ meter' \in Int /\ MaxTxn \in Nat
      /\ unacked \in [txn : 0..MaxTxn, meter : Int]
      /\ \A t \in TxnIds : sessions[t].start \in Int
  BY TypeStep, ConstTypes DEF TypeOK, Row
<1>1. meter <= meter'
  BY RowsKept
<1>2. \A t \in TxnIds : Present(t) => Present(t)' /\ sessions'[t].start = sessions[t].start
  BY RowsKept
<1>3. chTxn > 0 => chTxn \in TxnIds
  BY <1>0 DEF TxnIds, Starting
<1>4. unacked.txn # 0 => unacked.txn \in TxnIds
  BY <1>0 DEF TxnIds
<1>5. ASSUME NEW g \in Goroutines, StartUpsert(g), chTxn' # chTxn PROVE Present(chTxn)'
  <2>1. chTxn' = loc[g].txn /\ loc[g].txn \in TxnIds /\ Present(loc[g].txn) /\ sessions' = sessions
    BY <1>5 DEF StartUpsert, HasTxn, IdInv, OwnedId, Present
  <2> QED
    BY <2>1 DEF Present
<1>6. \/ chTxn' = chTxn
      \/ chTxn' \in {Starting, 0}
      \/ \E g \in Goroutines : StartUpsert(g)
  BY DEF Next, vars, chargerVars, MeterValues, Charger, ChargerStatus, ChargerStart, ChargerDelivers,
         ChargerStop, ChargerGivesUp, Crash, Receive, StatusBegin, StartBegin, StopBegin, Handler,
         StatusUpsert, FinalizeRead, FinalizeActive, FinalizeEnergy, FinalizeStop, FinalizeAfter,
         StartInsert, StopUpsert, StopActive, StopClose, StopAfter
<1>7. chTxn' > 0 => Present(chTxn)'
  BY <1>2, <1>3, <1>5, <1>6 DEF EnergyInv, Starting, Present
<1>8. \/ unacked' = unacked
      \/ unacked' = [txn |-> 0, meter |-> 0]
      \/ ChargerStop
  BY DEF Next, vars, chargerVars, MeterValues, Charger, ChargerStatus, ChargerStart, ChargerDelivers,
         ChargerGivesUp, Crash, Receive, StatusBegin, StartBegin, StopBegin, Handler,
         StatusUpsert, FinalizeRead, FinalizeActive, FinalizeEnergy, FinalizeStop, FinalizeAfter,
         StartInsert, StartUpsert, StopUpsert, StopActive, StopClose, StopAfter
<1>9. CASE ChargerStop
  <2>1. unacked'.txn = chTxn /\ unacked'.meter = meter /\ sessions' = sessions /\ meter' = meter /\ chTxn > 0
    BY <1>9 DEF ChargerStop, dbVars
  <2> QED
    BY <1>0, <1>3, <1>7, <2>1 DEF EnergyInv, Present
<1>10. CASE unacked' = unacked
  BY <1>0, <1>1, <1>2, <1>4, <1>7, <1>10 DEF EnergyInv, Present
<1> QED
  BY <1>7, <1>8, <1>9, <1>10

\* The handler that takes a step carries sound readings afterwards.
LEMMA EnergyHandler ==
  ASSUME TypeInv, IdInv, EnergyInv, [Next]_vars, NEW g \in Goroutines, Receive(g) \/ Handler(g)
  PROVE  EnergyLocal(g)'
<1> USE DEF TypeInv
<1>0. /\ pc \in [Goroutines -> Pcs] /\ loc \in [Goroutines -> Locals] /\ loc[g] \in Locals
      /\ meter \in 0..MaxMeter /\ MaxMeter \in Nat /\ loc[g].meter \in Int /\ loc[g].energy \in Int
      /\ \A t \in TxnIds : sessions[t] \in Row /\ sessions[t].start \in Int
  BY ConstTypes, LocalTypes DEF TypeOK, Row
<1>1. EnergyLocal(g) /\ NoLocals.meter = 0
  BY DEF EnergyInv, NoLocals
<1>2. CASE StatusBegin(g) \/ StatusUpsert(g) \/ FinalizeRead(g)
  <2>1. pc'[g] \in {"st_upsert", "fin_read", "fin_active", "idle"} /\ loc'[g].meter \in {loc[g].meter, 0}
    BY <1>0, <1>1, <1>2 DEF StatusBegin, StatusUpsert, FinalizeRead, Goto, Return, Locals
  <2>2. meter' = meter
    BY <1>2 DEF StatusBegin, StatusUpsert, FinalizeRead, chargerVars
  <2> QED
    BY <1>0, <1>1, <2>1, <2>2 DEF EnergyLocal
<1>3. CASE FinalizeAfter(g) \/ StartUpsert(g) \/ StopAfter(g)
  <2>1. pc'[g] = "idle" /\ loc'[g].meter = 0 /\ meter' = meter
    BY <1>0, <1>1, <1>3 DEF FinalizeAfter, StartUpsert, StopAfter, Return, chargerVars
  <2> QED
    BY <1>0, <2>1 DEF EnergyLocal
<1>4. CASE FinalizeActive(g)
  <2>1. loc[g].txn \in TxnIds /\ meter' = meter /\ sessions' = sessions
    BY <1>4 DEF FinalizeActive, HasTxn, chargerVars, dbVars
  <2>2. CASE IsActiveSession(loc[g].txn)
    <3>1. /\ pc'[g] = "fin_energy" /\ loc'[g].txn = loc[g].txn
          /\ loc'[g].meter = sessions[loc[g].txn].start
      BY <1>0, <1>4, <2>2 DEF FinalizeActive, Goto, Locals
    <3>2. Present(loc[g].txn)
      BY <2>2 DEF IsActiveSession, Present
    <3> QED
      BY <2>1, <3>1, <3>2 DEF EnergyLocal, EnergyInv, Present
  <2>3. CASE ~IsActiveSession(loc[g].txn)
    <3>1. pc'[g] = "idle" /\ loc'[g].meter = 0
      BY <1>0, <1>1, <1>4, <2>3 DEF FinalizeActive, Return
    <3> QED
      BY <1>0, <2>1, <3>1 DEF EnergyLocal
  <2> QED
    BY <2>2, <2>3
<1>5. CASE FinalizeEnergy(g)
  <2> DEFINE r == currentEnergy(loc[g].txn)
  <2>1. /\ loc[g].txn \in TxnIds /\ meter' = meter /\ sessions' = sessions
        /\ Present(loc[g].txn) /\ loc[g].meter = sessions[loc[g].txn].start
    BY <1>1, <1>5 DEF FinalizeEnergy, HasTxn, chargerVars, dbVars, EnergyLocal
  <2>2. r \in Int /\ r <= meter
    BY <1>0, <2>1 DEF currentEnergy, EnergyInv, TypeOK, Readings, NoReading
  <2>3. CASE Billable(loc[g].meter, r)
    <3>1. /\ pc'[g] = "fin_stop" /\ loc'[g].txn = loc[g].txn
          /\ loc'[g].meter = r /\ loc'[g].energy = r - loc[g].meter
      BY <1>0, <1>5, <2>3 DEF FinalizeEnergy, Goto, Locals
    <3>2. r - loc[g].meter > 0
      BY <2>3 DEF Billable
    <3> HIDE DEF r
    <3> QED
      BY <1>0, <2>1, <2>2, <3>1, <3>2 DEF EnergyLocal, Present
  <2>4. CASE ~Billable(loc[g].meter, r)
    <3>1. pc'[g] = "idle" /\ loc'[g].meter = 0
      BY <1>0, <1>1, <1>5, <2>4 DEF FinalizeEnergy, Return
    <3> QED
      BY <1>0, <2>1, <3>1 DEF EnergyLocal
  <2> QED
    BY <2>3, <2>4
<1>6. CASE FinalizeStop(g) \/ StopClose(g)
  <2>1. pc'[g] \in {"idle", "fin_after", "sp_after"} /\ loc'[g].meter \in {loc[g].meter, 0} /\ meter' = meter
    BY <1>0, <1>1, <1>6 DEF FinalizeStop, StopClose, Goto, Return, Locals, chargerVars
  <2> QED
    BY <1>0, <1>1, <2>1 DEF EnergyLocal
<1>7. CASE StartBegin(g)
  <2>1. pc'[g] = "tx_insert" /\ loc'[g].meter = chStart /\ meter' = meter
    BY <1>0, <1>7 DEF StartBegin, Goto, Locals, chargerVars
  <2> QED
    BY <2>1 DEF EnergyLocal, EnergyInv
<1>8. CASE StartInsert(g)
  <2>1. pc'[g] = "tx_upsert" /\ loc'[g].meter = loc[g].meter /\ meter' = meter
    BY <1>0, <1>8 DEF StartInsert, Goto, Locals, chargerVars
  <2> QED
    BY <1>1, <2>1 DEF EnergyLocal
<1>9. CASE StopBegin(g)
  <2>1. /\ pc'[g] \in {"sp_upsert", "sp_active"} /\ loc'[g].txn = unacked.txn /\ loc'[g].meter = unacked.meter
        /\ meter' = meter /\ sessions' = sessions /\ unacked.txn # 0
    BY <1>0, <1>9 DEF StopBegin, Goto, Locals, chargerVars, dbVars
  <2> QED
    BY <2>1 DEF EnergyLocal, EnergyInv, Present
<1>10. CASE StopUpsert(g)
  <2>1. pc'[g] = "sp_active" /\ pc[g] = "sp_upsert" /\ UNCHANGED <<loc, meter, sessions>>
    BY <1>0, <1>10 DEF StopUpsert, Goto, chargerVars
  <2> QED
    BY <1>1, <2>1 DEF EnergyLocal, Present
<1>11. CASE StopActive(g)
  <2> DEFINE t == loc[g].txn
             e == StopEnergy(g)
  <2>1. /\ pc'[g] = "sp_stop" /\ loc'[g].txn = t /\ loc'[g].meter = loc[g].meter /\ loc'[g].energy = e
        /\ UNCHANGED <<meter, sessions>> /\ t \in TxnIds
    BY <1>0, <1>11 DEF StopActive, Goto, Locals, chargerVars, dbVars, HasTxn
  <2>2. Present(t) /\ sessions[t].start <= loc[g].meter /\ loc[g].meter <= meter
    BY <1>1, <1>11 DEF EnergyLocal, StopActive
  <2>3. e \in {0, loc[g].meter - sessions[t].start}
    BY DEF StopEnergy
  <2> HIDE DEF t, e
  <2>4. 0 <= e /\ e <= meter - sessions[t].start
    BY <1>0, <2>1, <2>2, <2>3
  <2> QED
    BY <2>1, <2>2, <2>4 DEF EnergyLocal, Present
<1> QED
  BY <1>2, <1>3, <1>4, <1>5, <1>6, <1>7, <1>8, <1>9, <1>10, <1>11 DEF Receive, Handler

\* Every row began at a value the register had reached, and no completed row is
\* credited with more than the register advanced since.
LEMMA EnergyRows ==
  ASSUME TypeInv, IdInv, EnergyInv, [Next]_vars
  PROVE  /\ \A t \in TxnIds : Present(t)' => sessions'[t].start <= meter'
         /\ NeverOvercounted'
<1> USE DEF TypeInv
<1>0. /\ sessions \in [TxnIds -> Row] /\ sessions' \in [TxnIds -> Row]
      /\ meter \in Int /\ meter' \in Int /\ meter <= meter'
      /\ \A t \in TxnIds : /\ sessions[t].start \in Int /\ sessions[t].energy \in Int
                           /\ sessions'[t].start \in Int /\ sessions'[t].energy \in Int
  BY TypeStep, RowsKept, ConstTypes DEF TypeOK, Row
<1> SUFFICES ASSUME NEW t \in TxnIds
             PROVE  /\ Present(t)' => sessions'[t].start <= meter'
                    /\ sessions'[t].status = "completed" =>
                         0 <= sessions'[t].energy /\ sessions'[t].energy <= meter' - sessions'[t].start
  BY DEF NeverOvercounted
<1>1. CASE sessions'[t] = sessions[t]
  BY <1>0, <1>1 DEF EnergyInv, NeverOvercounted, Present
<1>2. ASSUME NEW g \in Goroutines, StartInsert(g), sessions'[t] # sessions[t]
      PROVE  sessions'[t].status = "active" /\ sessions'[t].start <= meter'
  <2>1. sessions' = [sessions EXCEPT ![loc[g].txn] = NewRow(g)] /\ loc[g].meter <= meter /\ meter' = meter
    BY <1>2 DEF StartInsert, EnergyInv, EnergyLocal, chargerVars
  <2>2. sessions'[t] = NewRow(g)
    BY <1>0, <1>2, <2>1
  <2> QED
    BY <2>1, <2>2 DEF NewRow
<1>3. ASSUME NEW g \in Goroutines, FinalizeStop(g) \/ StopClose(g), sessions'[t] # sessions[t]
      PROVE  /\ sessions'[t].start <= meter'
             /\ 0 <= sessions'[t].energy /\ sessions'[t].energy <= meter' - sessions'[t].start
  <2>1. sessions' = StopSession(loc[g].txn, loc[g].meter, loc[g].energy) /\ meter' = meter
    BY <1>3 DEF FinalizeStop, StopClose, chargerVars
  <2>2. t = loc[g].txn /\ sessions[t].status = "active"
    BY <1>0, <1>3, <2>1 DEF StopSession
  <2>3. sessions'[t].start = sessions[t].start /\ sessions'[t].energy = loc[g].energy
    BY <1>0, <2>1, <2>2 DEF StopSession, Row
  <2>4. 0 <= loc[g].energy /\ loc[g].energy <= meter - sessions[t].start
    BY <1>3, <2>2 DEF EnergyInv, EnergyLocal, FinalizeStop, StopClose
  <2>5. sessions[t].start <= meter
    BY <2>2 DEF EnergyInv, Present
  <2> QED
    BY <2>1, <2>3, <2>4, <2>5
<1>4. \/ sessions' = sessions
      \/ \E g \in Goroutines : StartInsert(g) \/ FinalizeStop(g) \/ StopClose(g)
  BY DEF Next, vars, dbVars, MeterValues, Charger, ChargerStatus, ChargerStart, ChargerDelivers,
         ChargerStop, ChargerGivesUp, Crash, Receive, StatusBegin, StartBegin, StopBegin, Handler,
         StatusUpsert, FinalizeRead, FinalizeActive, FinalizeEnergy, FinalizeAfter,
         StartUpsert, StopUpsert, StopActive, StopAfter
<1> QED
  BY <1>1, <1>2, <1>3, <1>4

\* Every step keeps the energies' invariant.
LEMMA EnergyStep == ASSUME TypeInv, IdInv, EnergyInv, [Next]_vars PROVE EnergyInv'
<1>0. pc \in [Goroutines -> Pcs] /\ loc \in [Goroutines -> Locals] /\ MaxMeter \in Nat /\ meter' \in 0..MaxMeter
  BY TypeStep, ConstTypes DEF TypeInv, TypeOK
<1>1. ASSUME NEW h \in Goroutines PROVE EnergyLocal(h)'
  <2>1. ASSUME NEW g \in Goroutines, Receive(g) \/ Handler(g) PROVE EnergyLocal(h)'
    <3>1. CASE h = g
      BY <2>1, <3>1, EnergyHandler
    <3>2. CASE h # g
      BY <1>0, <2>1, <3>2, HandlerFrame, EnergyLocalKept
    <3> QED
      BY <3>1, <3>2
  <2>2. CASE MeterValues \/ Charger \/ UNCHANGED vars
    <3>1. pc' = pc /\ loc' = loc
      BY <2>2 DEF MeterValues, Charger, ChargerStatus, ChargerStart, ChargerDelivers, ChargerStop,
                  ChargerGivesUp, vars
    <3> QED
      BY <3>1, EnergyLocalKept
  <2>3. CASE Crash
    <3>1. pc'[h] = "idle" /\ loc'[h] = NoLocals
      BY <2>3 DEF Crash
    <3>2. NoLocals.meter = 0
      BY DEF NoLocals
    <3> QED
      BY <1>0, <3>1, <3>2 DEF EnergyLocal
  <2> QED
    BY <2>1, <2>2, <2>3 DEF Next
<1> QED
  BY <1>1, EnergyOutside, EnergyCharger, EnergyRows DEF EnergyInv

LEMMA EnergyInvariant == Spec => [](TypeInv /\ IdInv /\ EnergyInv)
<1>1. Init => EnergyInv
  <2> SUFFICES ASSUME Init PROVE EnergyInv
    OBVIOUS
  <2>1. \A g \in Goroutines : EnergyLocal(g)
    <3>1. NoLocals.meter = 0
      BY DEF NoLocals
    <3> QED
      BY <3>1 DEF Init, EnergyLocal
  <2>2. NeverOvercounted /\ \A t \in TxnIds : ~Present(t)
    BY DEF Init, NoRow, NeverOvercounted, Present
  <2> QED
    BY <2>1, <2>2 DEF Init, EnergyInv, NoReading
<1>2. TypeInv /\ IdInv /\ EnergyInv /\ [Next]_vars => EnergyInv'
  BY EnergyStep
<1> QED
  BY <1>1, <1>2, IdInvariant, PTL DEF Spec

\* The bill: no session is credited with more energy than the register advanced
\* since it began, for any number of concurrent handlers, crashes, lost
\* confirmations and repeated messages.
THEOREM BilledWithinRegister == Spec => []NeverOvercounted
<1>1. EnergyInv => NeverOvercounted
  BY DEF EnergyInv
<1> QED
  BY <1>1, EnergyInvariant, PTL

-----------------------------------------------------------------------------
(* Refinement: the entries of the table follow the ledger.                  *)

\* The steps that write no row and let the register stand do not touch the ledger.
LEMMA LedgerStutter ==
  ASSUME UNCHANGED <<sessions, meter>>
  PROVE  UNCHANGED <<meter, [t \in TxnIds |-> Entry(t)]>>
BY DEF Entry

\* StartSession opens a fresh entry.
LEMMA LedgerOpens ==
  ASSUME TypeInv, IdInv, EnergyInv, NEW g \in Goroutines, StartInsert(g)
  PROVE  Ledger!Next
<1> DEFINE u == loc[g].txn
<1>1. sessions \in [TxnIds -> Row] /\ u \in TxnIds /\ loc[g].meter \in 0..MaxMeter
      /\ meter \in 0..MaxMeter /\ MaxMeter \in Nat
  BY ConstTypes DEF TypeInv, TypeOK, HasTxn, StartInsert, Locals
<1>2. sessions[u].status = "absent" /\ loc[g].meter <= meter
  BY DEF IdInv, OwnedId, EnergyInv, EnergyLocal, StartInsert
<1>3. sessions' = [sessions EXCEPT ![u] = NewRow(g)] /\ meter' = meter
  BY DEF StartInsert, chargerVars
<1>4. loc[g].meter \in 0..meter
  BY <1>1, <1>2
<1>5. [t \in TxnIds |-> Entry(t)]' =
        [[t \in TxnIds |-> Entry(t)] EXCEPT ![u] = [status |-> "active", start |-> loc[g].meter, energy |-> 0]]
  BY <1>1, <1>3 DEF Entry, NewRow
<1>6. Ledger!Open(u)
  BY <1>1, <1>2, <1>3, <1>4, <1>5 DEF Ledger!Open, Entry
<1> QED
  BY <1>1, <1>6 DEF Ledger!Next

\* StopSession credits and closes an open entry, or finds none and changes nothing.
LEMMA LedgerCloses ==
  ASSUME TypeInv, IdInv, EnergyInv, NEW g \in Goroutines, FinalizeStop(g) \/ StopClose(g)
  PROVE  Ledger!Next \/ UNCHANGED <<meter, [t \in TxnIds |-> Entry(t)]>>
<1> DEFINE u == loc[g].txn
           e == loc[g].energy
<1>1. /\ sessions \in [TxnIds -> Row] /\ u \in TxnIds
      /\ meter \in 0..MaxMeter /\ MaxMeter \in Nat /\ e \in Int
  BY ConstTypes, LocalTypes DEF TypeInv, TypeOK, HasTxn, FinalizeStop, StopClose, Locals
<1>2. sessions' = StopSession(u, loc[g].meter, e) /\ meter' = meter
  BY DEF FinalizeStop, StopClose, chargerVars
<1>3. CASE sessions[u].status # "active"
  BY <1>2, <1>3, LedgerStutter DEF StopSession
<1>4. CASE sessions[u].status = "active"
  <2>1. 0 <= e /\ e <= meter - sessions[u].start
    BY DEF EnergyInv, EnergyLocal, FinalizeStop, StopClose
  <2>2. sessions[u].start \in Int
    BY <1>1 DEF Row
  <2>3. e \in 0..(meter - sessions[u].start)
    BY <1>1, <2>1, <2>2
  <2>4. [t \in TxnIds |-> Entry(t)]' =
          [[t \in TxnIds |-> Entry(t)] EXCEPT ![u].status = "completed", ![u].energy = e]
    <3> DEFINE f == [[t \in TxnIds |-> Entry(t)] EXCEPT ![u].status = "completed", ![u].energy = e]
    <3>1. sessions' = [sessions EXCEPT ![u].status = "completed", ![u].stop = loc[g].meter, ![u].energy = e]
      BY <1>2, <1>4 DEF StopSession
    <3>2. ASSUME NEW t \in TxnIds, t # u PROVE Entry(t)' = f[t]
      BY <1>1, <3>1, <3>2 DEF Entry
    <3>3. ASSUME NEW t \in TxnIds, t = u PROVE Entry(t)' = f[t]
      <4> DEFINE closed == [status |-> "completed", start |-> sessions[t].start, energy |-> e]
      <4>1. sessions'[t] = [sessions[t] EXCEPT !.status = "completed", !.stop = loc[g].meter, !.energy = e]
        BY <1>1, <3>1, <3>3
      <4>2. sessions[t] \in Row
        BY <1>1
      <4>3. Entry(t)' = closed
        BY <4>1, <4>2 DEF Entry, Row
      <4>4. f[t] = closed
        BY <1>1, <3>3 DEF Entry
      <4> QED
        BY <4>3, <4>4
    <3>4. f = [t \in TxnIds |-> f[t]]
      OBVIOUS
    <3>5. [t \in TxnIds |-> Entry(t)]' = [t \in TxnIds |-> Entry(t)']
      OBVIOUS
    <3> HIDE DEF f
    <3>6. \A t \in TxnIds : Entry(t)' = f[t]
      BY <3>2, <3>3
    <3>7. [t \in TxnIds |-> Entry(t)'] = [t \in TxnIds |-> f[t]]
      BY <3>6
    <3> QED
      BY <3>4, <3>5, <3>7 DEF f
  <2>5. Ledger!Close(u)
    BY <1>1, <1>2, <1>4, <2>3, <2>4 DEF Ledger!Close, Entry
  <2> QED
    BY <1>1, <2>5 DEF Ledger!Next
<1> QED
  BY <1>3, <1>4

\* Every step of the handlers, the charger and a restart is a step of the ledger
\* or leaves it alone.
LEMMA LedgerStep ==
  ASSUME TypeInv, IdInv, EnergyInv, [Next]_vars
  PROVE  [Ledger!Next]_<<meter, [t \in TxnIds |-> Entry(t)]>>
<1>1. CASE ChargerDelivers
  <2>1. meter \in 0..MaxMeter /\ MaxMeter \in Nat
    BY ConstTypes DEF TypeInv, TypeOK
  <2>2. meter < MaxMeter /\ meter' = meter + 1 /\ sessions' = sessions
    BY <1>1 DEF ChargerDelivers, dbVars
  <2>3. meter' \in (meter + 1)..MaxMeter
    BY <2>1, <2>2
  <2>4. Ledger!Advance
    BY <2>2, <2>3 DEF Ledger!Advance, Entry
  <2> QED
    BY <2>4 DEF Ledger!Next
<1>2. CASE \E g \in Goroutines : StartInsert(g)
  BY <1>2, LedgerOpens
<1>3. CASE \E g \in Goroutines : FinalizeStop(g) \/ StopClose(g)
  BY <1>3, LedgerCloses
<1>4. CASE /\ ~ChargerDelivers
           /\ ~\E g \in Goroutines : StartInsert(g) \/ FinalizeStop(g) \/ StopClose(g)
  <2>1. UNCHANGED <<sessions, meter>>
    BY <1>4 DEF Next, vars, dbVars, chargerVars, MeterValues, Charger, ChargerStatus, ChargerStart,
                ChargerStop, ChargerGivesUp, Crash, Receive, StatusBegin, StartBegin, StopBegin, Handler,
                StatusUpsert, FinalizeRead, FinalizeActive, FinalizeEnergy, FinalizeAfter,
                StartUpsert, StopUpsert, StopActive, StopAfter
  <2> QED
    BY <2>1, LedgerStutter
<1> QED
  BY <1>1, <1>2, <1>3, <1>4

\* The handlers implement the ledger: entries are opened and closed once and
\* credited within the register, for any concurrency, crashes and losses.
THEOREM ImplementsLedger == Spec => LedgerSpec
<1>1. Init => Ledger!Init
  BY DEF Init, Ledger!Init, Ledger!NoEntry, Entry, NoRow
<1>2. TypeInv /\ IdInv /\ EnergyInv /\ [Next]_vars =>
        [Ledger!Next]_<<meter, [t \in TxnIds |-> Entry(t)]>>
  BY LedgerStep
<1> QED
  BY <1>1, <1>2, EnergyInvariant, PTL DEF Spec, LedgerSpec, Ledger!Spec

-----------------------------------------------------------------------------
(* One call at a time.  OCPP allows the charger one outstanding call, so as  *)
(* long as no call is given up while its handler still runs, handlers do not *)
(* overlap: only one goroutine serves the charger.                           *)
CallsDoNotOverlap == \A g, h \in Goroutines : g = h

\* A handler past the first statements of StopTransaction.
Stops(g) == pc[g] \in {"sp_upsert", "sp_active", "sp_stop", "sp_after"}

\* What each statement of OnStatusNotification does to its own counter and locals.
LEMMA StatusSteps ==
  ASSUME TypeInv, NEW g \in Goroutines
  PROVE  /\ StatusBegin(g) =>
              /\ pc[g] = "idle" /\ pc'[g] = "st_upsert"
              /\ loc'[g].st = chStatus /\ loc'[g].prevTxn = cs.txn
              /\ conn'.txn = conn.txn /\ conn'.energy = conn.energy
         /\ StatusUpsert(g) =>
              /\ pc[g] = "st_upsert" /\ pc'[g] \in {"fin_read", "idle"}
              /\ cs'.txn = loc[g].prevTxn /\ cs'.status = loc[g].st
<1> USE DEF TypeInv, TypeOK, Locals
<1>1. loc[g] \in Locals
  BY DEF Locals
<1>2. StatusBegin(g) => /\ pc[g] = "idle" /\ pc'[g] = "st_upsert"
                        /\ loc'[g].st = chStatus /\ loc'[g].prevTxn = cs.txn
                        /\ conn'.txn = conn.txn /\ conn'.energy = conn.energy
  BY DEF StatusBegin, Goto
<1>3. StatusUpsert(g) => /\ pc[g] = "st_upsert" /\ pc'[g] \in {"fin_read", "idle"}
                         /\ cs'.txn = loc[g].prevTxn /\ cs'.status = loc[g].st
  BY DEF StatusUpsert, StatusRow, Goto, Return
<1> QED
  BY <1>2, <1>3

\* The same for finalizeSessionOnStop.
LEMMA FinalizeSteps ==
  ASSUME TypeInv, NEW g \in Goroutines
  PROVE  /\ FinalizeRead(g) => pc[g] = "fin_read" /\ pc'[g] \in {"fin_active", "idle"}
         /\ FinalizeActive(g) => pc[g] = "fin_active" /\ pc'[g] \in {"fin_energy", "idle"}
         /\ FinalizeEnergy(g) => pc[g] = "fin_energy" /\ pc'[g] \in {"fin_stop", "idle"}
         /\ FinalizeStop(g) =>
              /\ pc[g] = "fin_stop"
              /\ sessions' = StopSession(loc[g].txn, loc[g].meter, loc[g].energy)
              /\ IF sessions[loc[g].txn].status = "active"
                 THEN pc'[g] = "fin_after" /\ loc'[g].txn = loc[g].txn
                 ELSE pc'[g] = "idle"
         /\ FinalizeAfter(g) => pc[g] = "fin_after" /\ pc'[g] = "idle"
<1> USE DEF TypeInv, TypeOK, Locals, Goto, Return
<1>1. FinalizeRead(g) => pc[g] = "fin_read" /\ pc'[g] \in {"fin_active", "idle"}
  BY DEF FinalizeRead
<1>2. FinalizeActive(g) => pc[g] = "fin_active" /\ pc'[g] \in {"fin_energy", "idle"}
  BY DEF FinalizeActive
<1>3. FinalizeEnergy(g) => pc[g] = "fin_energy" /\ pc'[g] \in {"fin_stop", "idle"}
  BY DEF FinalizeEnergy
<1>4. FinalizeStop(g) => /\ pc[g] = "fin_stop"
                         /\ sessions' = StopSession(loc[g].txn, loc[g].meter, loc[g].energy)
                         /\ IF sessions[loc[g].txn].status = "active"
                            THEN pc'[g] = "fin_after" /\ loc'[g].txn = loc[g].txn
                            ELSE pc'[g] = "idle"
  BY DEF FinalizeStop
<1>5. FinalizeAfter(g) => pc[g] = "fin_after" /\ pc'[g] = "idle"
  BY DEF FinalizeAfter
<1> QED
  BY <1>1, <1>2, <1>3, <1>4, <1>5

\* The same for OnStartTransaction.
LEMMA StartSteps ==
  ASSUME TypeInv, NEW g \in Goroutines
  PROVE  /\ StartBegin(g) =>
              /\ pc[g] = "idle" /\ pc'[g] = "tx_insert"
              /\ loc'[g].txn = nextTxnID /\ loc'[g].meter = chStart
              /\ conn'.txn = nextTxnID /\ conn'.energy = conn.energy
              /\ chTxn = Starting /\ unacked.txn = 0 /\ nextTxnID' = nextTxnID + 1
         /\ StartInsert(g) =>
              /\ pc[g] = "tx_insert" /\ pc'[g] = "tx_upsert"
              /\ loc'[g].txn = loc[g].txn /\ loc'[g].meter = loc[g].meter
              /\ loc'[g].prevSt = PrevStatus
              /\ loc[g].txn \in TxnIds
              /\ sessions' = [sessions EXCEPT ![loc[g].txn] = NewRow(g)]
              /\ sessions'[loc[g].txn] = NewRow(g)
         /\ StartUpsert(g) =>
              /\ pc[g] = "tx_upsert" /\ pc'[g] = "idle"
              /\ cs'.txn = loc[g].txn /\ cs'.status = loc[g].prevSt
              /\ \/ chTxn = Starting /\ chTxn' = loc[g].txn
                 \/ (MayLose \/ chTxn # Starting) /\ chTxn' = chTxn
<1> USE DEF TypeInv, TypeOK, Locals, Goto, Return
<1>1. StartBegin(g) => /\ pc[g] = "idle" /\ pc'[g] = "tx_insert"
                       /\ loc'[g].txn = nextTxnID /\ loc'[g].meter = chStart
                       /\ conn'.txn = nextTxnID /\ conn'.energy = conn.energy
                       /\ chTxn = Starting /\ unacked.txn = 0 /\ nextTxnID' = nextTxnID + 1
  BY DEF StartBegin
<1>2. StartInsert(g) => /\ pc[g] = "tx_insert" /\ pc'[g] = "tx_upsert"
                        /\ loc'[g].txn = loc[g].txn /\ loc'[g].meter = loc[g].meter
                        /\ loc'[g].prevSt = PrevStatus
                        /\ loc[g].txn \in TxnIds
                        /\ sessions' = [sessions EXCEPT ![loc[g].txn] = NewRow(g)]
                        /\ sessions'[loc[g].txn] = NewRow(g)
  BY DEF StartInsert, HasTxn
<1>3. StartUpsert(g) => /\ pc[g] = "tx_upsert" /\ pc'[g] = "idle"
                        /\ cs'.txn = loc[g].txn /\ cs'.status = loc[g].prevSt
                        /\ \/ chTxn = Starting /\ chTxn' = loc[g].txn
                           \/ (MayLose \/ chTxn # Starting) /\ chTxn' = chTxn
  BY DEF StartUpsert
<1> QED
  BY <1>1, <1>2, <1>3

\* The same for OnStopTransaction.
LEMMA StopSteps ==
  ASSUME TypeInv, NEW g \in Goroutines
  PROVE  /\ StopBegin(g) =>
              /\ pc[g] = "idle" /\ unacked.txn # 0
              /\ loc'[g].txn = unacked.txn /\ loc'[g].meter = unacked.meter
              /\ conn'.energy = conn.energy
              /\ \/ pc'[g] = "sp_upsert" /\ conn'.txn = 0 /\ loc'[g].prevSt = PrevStatus
                 \/ pc'[g] = "sp_active" /\ conn' = conn
         /\ StopUpsert(g) =>
              /\ pc[g] = "sp_upsert" /\ pc'[g] = "sp_active"
              /\ cs'.txn = 0 /\ cs'.status = loc[g].prevSt
         /\ StopActive(g) =>
              /\ pc[g] = "sp_active" /\ pc'[g] = "sp_stop"
              /\ loc'[g].txn = loc[g].txn /\ loc'[g].meter = loc[g].meter
              /\ loc'[g].energy = StopEnergy(g)
         /\ StopClose(g) =>
              /\ pc[g] = "sp_stop" /\ pc'[g] = "sp_after"
              /\ loc'[g].txn = loc[g].txn /\ loc'[g].meter = loc[g].meter /\ loc'[g].energy = loc[g].energy
              /\ sessions' = StopSession(loc[g].txn, loc[g].meter, loc[g].energy)
         /\ StopAfter(g) =>
              /\ pc[g] = "sp_after" /\ pc'[g] = "idle"
              /\ \/ unacked.txn = loc[g].txn /\ unacked' = [txn |-> 0, meter |-> 0]
                 \/ (MayLose \/ unacked.txn # loc[g].txn) /\ unacked' = unacked
<1> USE DEF TypeInv, TypeOK, Locals, Goto, Return
<1>1. StopBegin(g) => /\ pc[g] = "idle" /\ unacked.txn # 0
                      /\ loc'[g].txn = unacked.txn /\ loc'[g].meter = unacked.meter
                      /\ conn'.energy = conn.energy
                      /\ \/ pc'[g] = "sp_upsert" /\ conn'.txn = 0 /\ loc'[g].prevSt = PrevStatus
                         \/ pc'[g] = "sp_active" /\ conn' = conn
  BY DEF StopBegin
<1>2. StopUpsert(g) => /\ pc[g] = "sp_upsert" /\ pc'[g] = "sp_active"
                       /\ cs'.txn = 0 /\ cs'.status = loc[g].prevSt
  BY DEF StopUpsert
<1>3. StopActive(g) => /\ pc[g] = "sp_active" /\ pc'[g] = "sp_stop"
                       /\ loc'[g].txn = loc[g].txn /\ loc'[g].meter = loc[g].meter
                       /\ loc'[g].energy = StopEnergy(g)
  BY DEF StopActive
<1>4. StopClose(g) =>
        /\ pc[g] = "sp_stop" /\ pc'[g] = "sp_after"
        /\ loc'[g].txn = loc[g].txn /\ loc'[g].meter = loc[g].meter /\ loc'[g].energy = loc[g].energy
        /\ sessions' = StopSession(loc[g].txn, loc[g].meter, loc[g].energy)
  BY DEF StopClose
<1>5. StopAfter(g) => /\ pc[g] = "sp_after" /\ pc'[g] = "idle"
                      /\ \/ unacked.txn = loc[g].txn /\ unacked' = [txn |-> 0, meter |-> 0]
                         \/ (MayLose \/ unacked.txn # loc[g].txn) /\ unacked' = unacked
  BY DEF StopAfter
<1> QED
  BY <1>1, <1>2, <1>3, <1>4, <1>5

-----------------------------------------------------------------------------
(* The open transaction.  Memory, connector_state and the charger name the  *)
(* same one, except between the two statements that change it.              *)
TrackLocal(g) ==
  /\ Starts(g) => unacked.txn = 0 /\ chTxn = Starting /\ conn.txn = loc[g].txn /\ loc[g].meter = chStart
  /\ pc[g] = "tx_upsert" => sessions[loc[g].txn].start = loc[g].meter
  /\ pc[g] = "sp_upsert" => chTxn <= 0 /\ conn.txn = 0
  /\ pc[g] = "st_upsert" => loc[g].prevTxn = cs.txn
  /\ ~Starts(g) /\ pc[g] # "sp_upsert" => conn.txn = cs.txn

TrackInv ==
  /\ unacked.txn # 0 => chTxn <= 0
  /\ chTxn > 0 => cs.txn = chTxn /\ chTxn \in TxnIds /\ Present(chTxn) /\ sessions[chTxn].start = chStart
  /\ \A g \in Goroutines : TrackLocal(g)

\* A step of the only handler.
LEMMA TrackHandler ==
  ASSUME TypeInv, IdInv, TrackInv, NEW g \in Goroutines, \A h \in Goroutines : h = g,
         Receive(g) \/ Handler(g), [Next]_vars
  PROVE  TrackInv'
<1> USE DEF TrackLocal, Starts, Starting
<1>0. /\ TrackLocal(g)
      /\ TypeOK /\ chTxn \in {-1} \cup (0..MaxTxn) /\ MaxTxn \in Nat
      /\ sessions \in [TxnIds -> Row]
  BY ConstTypes DEF TrackInv, TypeInv, TypeOK
<1>1. SUFFICES /\ unacked'.txn # 0 => chTxn' <= 0
               /\ chTxn' > 0 => cs'.txn = chTxn' /\ chTxn' \in TxnIds /\ Present(chTxn)' /\ sessions'[chTxn'].start = chStart'
               /\ TrackLocal(g)'
  BY DEF TrackInv
<1>2. CASE StatusBegin(g)
  BY <1>0, <1>2, StatusSteps DEF StatusBegin, chargerVars, dbVars, TrackInv, Present
<1>3. CASE StatusUpsert(g)
  BY <1>0, <1>3, StatusSteps DEF StatusUpsert, chargerVars, TrackInv, Present
<1>4. CASE FinalizeRead(g)
  BY <1>0, <1>4, FinalizeSteps DEF FinalizeRead, chargerVars, dbVars, TrackInv, Present
<1>5. CASE FinalizeActive(g)
  BY <1>0, <1>5, FinalizeSteps DEF FinalizeActive, chargerVars, dbVars, TrackInv, Present
<1>6. CASE FinalizeEnergy(g)
  BY <1>0, <1>6, FinalizeSteps DEF FinalizeEnergy, chargerVars, dbVars, TrackInv, Present
<1>7. CASE FinalizeStop(g)
  BY <1>0, <1>7, FinalizeSteps, RowsKept DEF FinalizeStop, chargerVars, TrackInv
<1>8. CASE FinalizeAfter(g)
  BY <1>0, <1>8, FinalizeSteps DEF FinalizeAfter, chargerVars, dbVars, TrackInv, Present
<1>9. CASE StartBegin(g)
  BY <1>0, <1>9, StartSteps DEF StartBegin, chargerVars, dbVars, TrackInv, Present
<1>10. CASE StartInsert(g)
  <2>1. /\ pc'[g] = "tx_upsert" /\ pc[g] = "tx_insert" /\ loc'[g].txn = loc[g].txn /\ loc'[g].meter = loc[g].meter
        /\ sessions'[loc[g].txn].start = loc[g].meter
    <3>1. NewRow(g).start = loc[g].meter
      BY DEF NewRow
    <3> QED
      BY <1>10, <3>1, StartSteps
  <2>2. UNCHANGED <<chTxn, chStart, unacked, conn, cs>>
    BY <1>10 DEF StartInsert, chargerVars
  <2> QED
    BY <1>0, <2>1, <2>2
<1>11. CASE StartUpsert(g)
  <2>1. /\ pc[g] = "tx_upsert" /\ pc'[g] = "idle" /\ cs'.txn = loc[g].txn
        /\ chTxn' = loc[g].txn \/ chTxn' = chTxn
    BY <1>11, StartSteps
  <2>2. loc[g].txn \in TxnIds /\ sessions[loc[g].txn].status # "absent"
    BY <2>1 DEF IdInv, OwnedId, TypeInv, HasTxn
  <2>3. UNCHANGED <<chStart, unacked, conn, sessions>>
    BY <1>11 DEF StartUpsert
  <2> QED
    BY <1>0, <2>1, <2>2, <2>3 DEF Present
<1>12. CASE StopBegin(g)
  BY <1>0, <1>12, StopSteps DEF StopBegin, chargerVars, dbVars, TrackInv, Present
<1>13. CASE StopUpsert(g)
  BY <1>0, <1>13, StopSteps DEF StopUpsert, chargerVars, TrackInv, Present
<1>14. CASE StopActive(g)
  BY <1>0, <1>14, StopSteps DEF StopActive, chargerVars, dbVars, TrackInv, Present
<1>15. CASE StopClose(g)
  BY <1>0, <1>15, StopSteps, RowsKept DEF StopClose, chargerVars, TrackInv
<1>16. CASE StopAfter(g)
  BY <1>0, <1>16, StopSteps DEF StopAfter, dbVars, TrackInv, Present
<1> QED
  BY <1>1, <1>2, <1>3, <1>4, <1>5, <1>6, <1>7, <1>8, <1>9, <1>10, <1>11, <1>12, <1>13, <1>14, <1>15, <1>16 DEF Receive, Handler

\* A step outside the handlers.
LEMMA TrackOther ==
  ASSUME TypeInv, TrackInv, MeterValues \/ Charger \/ Crash \/ UNCHANGED vars
  PROVE  TrackInv'
<1> USE DEF TrackLocal, Starts, Starting, TrackInv, Present
<1>0. /\ chTxn \in {-1} \cup (0..MaxTxn) /\ MaxTxn \in Nat
      /\ conn \in [status : DbStatus, txn : 0..MaxTxn, energy : Readings]
  BY ConstTypes DEF TypeInv, TypeOK
<1>1. CASE MeterValues
  BY <1>0, <1>1 DEF MeterValues, chargerVars
<1>2. CASE Charger
  BY <1>0, <1>2 DEF Charger, ChargerStatus, ChargerStart, ChargerDelivers, ChargerStop, ChargerGivesUp, dbVars
<1>3. CASE Crash
  BY <1>0, <1>3 DEF Crash, chargerVars, dbVars
<1>4. CASE UNCHANGED vars
  BY <1>4 DEF vars, chargerVars, dbVars
<1> QED
  BY <1>1, <1>2, <1>3, <1>4

\* The invariant of the open transaction, over crashes, losses and give-ups.
LEMMA TrackInvariant == ASSUME CallsDoNotOverlap PROVE Spec => [](TypeInv /\ IdInv /\ TrackInv)
<1>1. Init => TrackInv
  BY DEF Init, TrackInv, TrackLocal, Starts
<1>2. TypeInv /\ IdInv /\ TrackInv /\ [Next]_vars => TrackInv'
  <2> SUFFICES ASSUME TypeInv, IdInv, TrackInv, [Next]_vars PROVE TrackInv'
    OBVIOUS
  <2>1. ASSUME NEW g \in Goroutines, Receive(g) \/ Handler(g) PROVE TrackInv'
    BY <2>1, TrackHandler DEF CallsDoNotOverlap
  <2> QED
    BY <2>1, TrackOther DEF Next
<1> QED
  BY <1>1, <1>2, IdInvariant, PTL DEF Spec

\* Between calls the connector's transaction in memory is the one in
\* connector_state, and the charger's if it has one: for any crashes, lost
\* confirmations and dropped StopTransactions, when handlers do not overlap.
THEOREM TransactionIsTracked == ASSUME CallsDoNotOverlap PROVE Spec => []TransactionTracked
<1>1. TypeInv /\ TrackInv => TransactionTracked
  BY OcppAssumption DEF OcppAssumption, TrackInv, TrackLocal, TransactionTracked, Quiet, Starts
<1> QED
  BY <1>1, TrackInvariant, PTL

\* A transaction the charger was given has its row in charging_sessions, with the
\* register value it began at (StartSession commits before the confirmation).
THEOREM OpenTransactionIsRecorded == ASSUME CallsDoNotOverlap PROVE Spec => []OpenTransactionHasSession
<1>1. TrackInv => OpenTransactionHasSession
  BY DEF TrackInv, OpenTransactionHasSession, Present
<1> QED
  BY <1>1, TrackInvariant, PTL

-----------------------------------------------------------------------------
(* The SoC estimate.  A handler that is about to call socUpdater is the one  *)
(* that closed the session.                                                  *)

\* Closing writes the reading and the energy into the open row it names, and
\* into no other row.
LEMMA ClosingWrites ==
  ASSUME sessions \in [TxnIds -> Row], NEW t \in TxnIds, NEW stop, NEW energy,
         sessions' = StopSession(t, stop, energy)
  PROVE  /\ sessions[t].status = "active" =>
              /\ sessions'[t].status = "completed" /\ sessions'[t].start = sessions[t].start
              /\ sessions'[t].stop = stop /\ sessions'[t].energy = energy
         /\ sessions[t].status # "active" => sessions' = sessions
         /\ \A u \in TxnIds : u # t => sessions'[u] = sessions[u]
<1>1. CASE sessions[t].status = "active"
  <2>1. sessions'[t] = [sessions[t] EXCEPT !.status = "completed", !.stop = stop, !.energy = energy]
    BY <1>1 DEF StopSession
  <2>2. sessions[t] \in Row
    OBVIOUS
  <2>3. \A u \in TxnIds : u # t => sessions'[u] = sessions[u]
    BY <1>1 DEF StopSession
  <2> QED
    BY <1>1, <2>1, <2>2, <2>3 DEF Row
<1>2. CASE sessions[t].status # "active"
  BY <1>2 DEF StopSession
<1> QED
  BY <1>1, <1>2

\* A handler is about to call socUpdater for its transaction.
SocDue(g) == pc[g] = "fin_after" \/ (pc[g] = "sp_after" /\ loc[g].energy > 0)

SocLocal(g) ==
  /\ SocDue(g) => sessions[loc[g].txn].status = "completed" /\ socCount[loc[g].txn] = 0
  /\ pc[g] = "sp_stop" /\ loc[g].energy > 0 => sessions[loc[g].txn].status = "active"

SocInv ==
  /\ \A t \in TxnIds : socCount[t] <= 1 /\ (socCount[t] > 0 => sessions[t].status = "completed")
  /\ \A g \in Goroutines : SocLocal(g)

\* A step of the only handler.
LEMMA SocHandler ==
  ASSUME TypeInv, IdInv, SocInv, NEW g \in Goroutines, \A h \in Goroutines : h = g,
         Receive(g) \/ Handler(g), [Next]_vars
  PROVE  SocInv'
<1> USE DEF SocLocal, SocDue
<1> DEFINE t == loc[g].txn
<1>0. /\ SocLocal(g) /\ TypeOK
      /\ sessions \in [TxnIds -> Row] /\ socCount \in [TxnIds -> Nat]
      /\ pc[g] \notin {"idle", "st_upsert", "fin_read"} => t \in TxnIds
      /\ \A u \in TxnIds : socCount[u] <= 1 /\ (socCount[u] > 0 => sessions[u].status = "completed")
  BY DEF SocInv, TypeInv, TypeOK, HasTxn
<1>1. SUFFICES /\ \A u \in TxnIds : socCount'[u] <= 1 /\ (socCount'[u] > 0 => sessions'[u].status = "completed")
               /\ SocLocal(g)'
  BY DEF SocInv
<1>2. CASE socCount' = socCount
  <2>1. \A u \in TxnIds : socCount'[u] <= 1 /\ (socCount'[u] > 0 => sessions'[u].status = "completed")
    BY <1>0, <1>2, CompletedKept
  <2>2. CASE StatusBegin(g) \/ StatusUpsert(g)
    BY <2>1, <2>2, StatusSteps
  <2>3. CASE FinalizeRead(g) \/ FinalizeActive(g) \/ FinalizeEnergy(g) \/ FinalizeAfter(g)
    BY <2>1, <2>3, FinalizeSteps
  <2>4. CASE FinalizeStop(g)
    BY <1>0, <1>2, <2>4, FinalizeSteps, ClosingWrites
  <2>5. CASE StartBegin(g) \/ StartInsert(g) \/ StartUpsert(g)
    BY <2>1, <2>5, StartSteps
  <2>6. CASE StopBegin(g) \/ StopUpsert(g)
    BY <2>1, <2>6, StopSteps
  <2>7. CASE StopActive(g)
    <3>1. StopEnergy(g) > 0 => IsActiveSession(t)
      BY DEF StopEnergy
    <3>2. pc'[g] = "sp_stop" /\ loc'[g].txn = t /\ loc'[g].energy = StopEnergy(g) /\ sessions' = sessions
      BY <2>1, <2>7, StopSteps DEF StopActive, dbVars
    <3> QED
      BY <2>1, <3>1, <3>2 DEF IsActiveSession
  <2>8. CASE StopClose(g)
    BY <1>0, <1>2, <2>8, StopSteps, ClosingWrites
  <2>9. CASE StopAfter(g)
    BY <2>1, <2>9, StopSteps
  <2> QED
    BY <2>1, <2>2, <2>3, <2>4, <2>5, <2>6, <2>7, <2>8, <2>9 DEF Receive, Handler
<1>3. CASE socCount' # socCount
  <2>1. FinalizeAfter(g) \/ (StopAfter(g) /\ loc[g].energy > 0)
    BY <1>3 DEF Receive, Handler, StatusBegin, StartBegin, StopBegin, StatusUpsert, FinalizeRead, FinalizeActive,
       FinalizeEnergy, FinalizeStop, StartInsert, StartUpsert, StopUpsert, StopActive, StopClose, StopAfter, histVars
  <2>2. /\ SocDue(g) /\ pc'[g] = "idle" /\ sessions' = sessions
        /\ socCount' = [socCount EXCEPT ![t] = @ + 1]
    BY <2>1, FinalizeSteps, StopSteps DEF FinalizeAfter, StopAfter, dbVars
  <2>3. t \in TxnIds /\ socCount[t] = 0 /\ sessions[t].status = "completed"
    BY <1>0, <2>2
  <2> QED
    BY <1>0, <2>2, <2>3
<1> QED
  BY <1>2, <1>3

\* A step outside the handlers.
LEMMA SocOther ==
  ASSUME TypeInv, IdInv, SocInv, MeterValues \/ Charger \/ Crash \/ UNCHANGED vars
  PROVE  SocInv'
<1> USE DEF SocInv, SocLocal, SocDue
<1>1. UNCHANGED <<socCount, sessions>>
  BY DEF MeterValues, Charger, ChargerStatus, ChargerStart, ChargerDelivers, ChargerStop, ChargerGivesUp,
         Crash, vars, dbVars, histVars
<1>2. CASE Crash
  BY <1>1, <1>2 DEF Crash
<1>3. CASE ~Crash
  <2>1. UNCHANGED <<pc, loc>>
    BY <1>3 DEF MeterValues, Charger, ChargerStatus, ChargerStart, ChargerDelivers, ChargerStop, ChargerGivesUp, vars
  <2> QED
    BY <1>1, <2>1
<1> QED
  BY <1>2, <1>3

\* socUpdater is called at most once per transaction, whichever of the finalizer,
\* StopTransaction and its repetitions come, over crashes and lost confirmations:
\* the one that computes an energy has found the session open.
THEOREM SoCUpdatedOnce == ASSUME CallsDoNotOverlap PROVE Spec => []SoCOnce
<1>1. Init => SocInv
  BY DEF Init, SocInv, SocLocal, SocDue
<1>2. TypeInv /\ IdInv /\ SocInv /\ [Next]_vars => SocInv'
  <2> SUFFICES ASSUME TypeInv, IdInv, SocInv, [Next]_vars PROVE SocInv'
    OBVIOUS
  <2>1. ASSUME NEW g \in Goroutines, Receive(g) \/ Handler(g) PROVE SocInv'
    BY <2>1, SocHandler DEF CallsDoNotOverlap
  <2> QED
    BY <2>1, SocOther DEF Next
<1>3. SocInv => SoCOnce
  BY DEF SocInv, SoCOnce
<1> QED
  BY <1>1, <1>2, <1>3, IdInvariant, PTL DEF Spec

-----------------------------------------------------------------------------
(* Plug and unplug markers.                                                  *)

\* When no status change is pending, the persisted status (or
\* the one about to be persisted) is the charger's.
MarkerLocal(g) ==
  /\ pc[g] \in {"tx_upsert", "sp_upsert"} => loc[g].prevSt = PrevStatus
  /\ ~unmarked => IF pc[g] = "st_upsert"
                  THEN loc[g].st = chStatus
                  ELSE cs.status = chStatus \/ (chStatus = "Available" /\ PrevStatus = "")

MarkerInv == ~phantom /\ \A g \in Goroutines : MarkerLocal(g)

\* The steps that leave the statuses alone and take no handler between them.
LEMMA MarkerFrame ==
  ASSUME MarkerInv, UNCHANGED <<chStatus, cs, unmarked, phantom>>,
         NEW g \in Goroutines, \A h \in Goroutines : h = g,
         pc[g] # "st_upsert", pc'[g] # "st_upsert",
         pc'[g] \in {"tx_upsert", "sp_upsert"} => loc'[g].prevSt = PrevStatus
  PROVE  MarkerInv'
BY DEF MarkerInv, MarkerLocal, PrevStatus

\* No reported status is a missing row or the empty string.
LEMMA RealStatus == ASSUME TypeInv PROVE chStatus # NoState /\ chStatus # ""
BY OcppAssumption DEF TypeInv, TypeOK, OcppAssumption, OcppStatus, NoState

\* A step of the only handler.
LEMMA MarkerHandler ==
  ASSUME TypeInv, MarkerInv, NEW g \in Goroutines, \A h \in Goroutines : h = g,
         Receive(g) \/ Handler(g)
  PROVE  MarkerInv'
<1>0. MarkerLocal(g) /\ ~phantom /\ chStatus # NoState /\ chStatus # ""
  BY RealStatus DEF MarkerInv
<1>1. CASE StatusBegin(g)
  <2>1. /\ pc[g] = "idle" /\ pc'[g] = "st_upsert" /\ loc'[g].st = chStatus
        /\ chStatus' = chStatus /\ cs' = cs
    BY <1>1, StatusSteps DEF StatusBegin, chargerVars, dbVars
  <2>2. ~unmarked => ~EmitsMarker(PrevStatus, chStatus)
    BY <1>0, <2>1 DEF MarkerLocal, EmitsMarker, PrevStatus
  <2>3. ~phantom'
    BY <1>0, <1>1, <2>2 DEF StatusBegin
  <2>4. MarkerLocal(g)'
    BY <2>1 DEF MarkerLocal
  <2> QED
    BY <2>3, <2>4 DEF MarkerInv
<1>2. CASE StatusUpsert(g)
  <2>1. /\ pc[g] = "st_upsert" /\ pc'[g] \in {"fin_read", "idle"} /\ cs'.status = loc[g].st
        /\ UNCHANGED <<chStatus, unmarked, phantom>>
    BY <1>2, StatusSteps DEF StatusUpsert, chargerVars, histVars
  <2> QED
    BY <1>0, <2>1 DEF MarkerLocal, MarkerInv
<1>3. CASE StartUpsert(g) \/ StopUpsert(g)
  <2>1. /\ pc[g] \in {"tx_upsert", "sp_upsert"} /\ pc'[g] \in {"idle", "sp_active"} /\ cs'.status = loc[g].prevSt
        /\ UNCHANGED <<chStatus, unmarked, phantom>>
    BY <1>3, StartSteps, StopSteps DEF StartUpsert, StopUpsert, chargerVars, histVars
  <2>2. cs'.status = PrevStatus /\ "" # NoState
    BY <1>0, <2>1 DEF MarkerLocal, NoState
  <2>3. MarkerLocal(g)'
    BY <1>0, <2>1, <2>2 DEF MarkerLocal, PrevStatus
  <2> QED
    BY <1>0, <2>1, <2>3 DEF MarkerInv
<1>4. CASE StartBegin(g) \/ StartInsert(g)
  <2>1. /\ pc[g] # "st_upsert" /\ pc'[g] \in {"tx_insert", "tx_upsert"} /\ (pc'[g] = "tx_upsert" => loc'[g].prevSt = PrevStatus)
    BY <1>4, StartSteps
  <2>2. UNCHANGED <<chStatus, cs, unmarked, phantom>>
    BY <1>4 DEF StartBegin, StartInsert, chargerVars, dbVars, histVars
  <2> QED
    BY <2>1, <2>2, MarkerFrame
<1>5. CASE StopBegin(g) \/ StopActive(g) \/ StopClose(g) \/ StopAfter(g)
  <2>1. /\ pc[g] # "st_upsert" /\ pc'[g] # "st_upsert" /\ pc'[g] # "tx_upsert"
        /\ pc'[g] = "sp_upsert" => loc'[g].prevSt = PrevStatus
    BY <1>5, StopSteps
  <2>2. UNCHANGED <<chStatus, cs, unmarked, phantom>>
    BY <1>5 DEF StopBegin, StopActive, StopClose, StopAfter, chargerVars, dbVars, histVars
  <2> QED
    BY <2>1, <2>2, MarkerFrame
<1>6. CASE FinalizeRead(g) \/ FinalizeActive(g) \/ FinalizeEnergy(g) \/ FinalizeStop(g) \/ FinalizeAfter(g)
  <2>1. pc[g] # "st_upsert" /\ pc'[g] \notin {"st_upsert", "tx_upsert", "sp_upsert"}
    BY <1>6, FinalizeSteps
  <2>2. UNCHANGED <<chStatus, cs, unmarked, phantom>>
    BY <1>6 DEF FinalizeRead, FinalizeActive, FinalizeEnergy, FinalizeStop, FinalizeAfter, chargerVars, dbVars, histVars
  <2> QED
    BY <2>1, <2>2, MarkerFrame
<1> QED
  BY <1>1, <1>2, <1>3, <1>4, <1>5, <1>6 DEF Receive, Handler

\* A step outside the handlers, without a restart.
LEMMA MarkerOther ==
  ASSUME MarkerInv, MeterValues \/ Charger \/ UNCHANGED vars
  PROVE  MarkerInv'
<1>1. CASE \E st \in Statuses : ChargerStatus(st)
  <2>1. unmarked' = TRUE /\ UNCHANGED <<phantom, pc, loc, cs>>
    BY <1>1 DEF ChargerStatus, dbVars
  <2> QED
    BY <2>1 DEF MarkerInv, MarkerLocal, PrevStatus
<1>2. CASE MeterValues \/ (Charger /\ ~\E st \in Statuses : ChargerStatus(st)) \/ UNCHANGED vars
  <2>1. UNCHANGED <<chStatus, cs, unmarked, phantom, pc, loc>>
    BY <1>2 DEF MeterValues, Charger, ChargerStart, ChargerDelivers, ChargerStop, ChargerGivesUp, vars,
                chargerVars, dbVars, histVars
  <2> QED
    BY <2>1 DEF MarkerInv, MarkerLocal, PrevStatus
<1> QED
  BY <1>1, <1>2

\* A plug or unplug marker is inserted only on a real status change, also when
\* confirmations are lost or a StopTransaction is dropped, while the process does
\* not restart (a crash between the marker and UpsertConnectorState repeats it).
THEOREM NoPhantomMarkers == ASSUME CallsDoNotOverlap, MaxCrash = 0 PROVE Spec => []NoPhantomMarker
<1>1. Init => MarkerInv
  BY DEF Init, MarkerInv, MarkerLocal, PrevStatus, NoState
<1>2. TypeInv /\ MarkerInv /\ [Next]_vars => MarkerInv'
  <2> SUFFICES ASSUME TypeInv, MarkerInv, [Next]_vars PROVE MarkerInv'
    OBVIOUS
  <2>1. ASSUME NEW g \in Goroutines, Receive(g) \/ Handler(g) PROVE MarkerInv'
    BY <2>1, MarkerHandler DEF CallsDoNotOverlap
  <2>2. ~Crash
    BY DEF Crash, TypeInv, TypeOK
  <2> QED
    BY <2>1, <2>2, MarkerOther DEF Next
<1>3. MarkerInv => NoPhantomMarker
  BY DEF MarkerInv, NoPhantomMarker
<1> QED
  BY <1>1, <1>2, <1>3, IdInvariant, PTL DEF Spec

-----------------------------------------------------------------------------
(* Reliable delivery.                                                        *)

\* A charger whose messages all arrive, and a process that does not restart.
Reliable == MaxCrash = 0 /\ ~MayLose /\ ~MayGiveUp

\* The open session is the transaction the charger is in, has just ended or is
\* being given, and a closed one carries the energy between its readings.
ReliableLocal(g) ==
  /\ Stops(g) => unacked.txn = loc[g].txn /\ unacked.meter = loc[g].meter
  /\ pc[g] = "sp_after" => sessions[loc[g].txn].status # "active"
  /\ pc[g] = "fin_stop" => loc[g].energy = loc[g].meter - sessions[loc[g].txn].start
  /\ pc[g] = "sp_stop" /\ sessions[loc[g].txn].status = "active" =>
       loc[g].energy = loc[g].meter - sessions[loc[g].txn].start

OpenIsCurrent ==
  \A t \in TxnIds : sessions[t].status = "active" =>
    \/ chTxn = t \/ unacked.txn = t
    \/ \E g \in Goroutines : pc[g] = "tx_upsert" /\ loc[g].txn = t

ReliableInv ==
  /\ OpenIsCurrent
  /\ \A g \in Goroutines : ReliableLocal(g)
  /\ StopRecordsEnergy

\* The steps that write no row and take no transaction from the charger.
LEMMA ReliableFrame ==
  ASSUME ReliableInv, UNCHANGED <<sessions, chTxn, unacked>>,
         NEW g \in Goroutines, \A h \in Goroutines : h = g,
         pc[g] # "tx_upsert", ReliableLocal(g)'
  PROVE  ReliableInv'
BY DEF ReliableInv, OpenIsCurrent, StopRecordsEnergy

\* FinalizeStop and StopClose close a session with the energy between its readings.
LEMMA ReliableClose ==
  ASSUME TypeInv, ReliableInv, NEW g \in Goroutines, \A h \in Goroutines : h = g,
         pc[g] \in {"fin_stop", "sp_stop"}, pc'[g] # "tx_upsert",
         sessions' = StopSession(loc[g].txn, loc[g].meter, loc[g].energy),
         UNCHANGED <<chTxn, unacked>>
  PROVE  OpenIsCurrent' /\ StopRecordsEnergy' /\ sessions'[loc[g].txn].status # "active"
<1> DEFINE t == loc[g].txn
<1>0. sessions \in [TxnIds -> Row] /\ t \in TxnIds /\ ReliableLocal(g)
  BY DEF TypeInv, TypeOK, HasTxn, ReliableInv
<1>1. /\ sessions[t].status = "active" =>
           /\ sessions'[t].status = "completed" /\ sessions'[t].start = sessions[t].start
           /\ sessions'[t].stop = loc[g].meter /\ sessions'[t].energy = loc[g].energy
      /\ sessions[t].status # "active" => sessions' = sessions
      /\ \A u \in TxnIds : u # t => sessions'[u] = sessions[u]
  BY <1>0, ClosingWrites
<1>2. sessions[t].status = "active" => loc[g].energy = loc[g].meter - sessions[t].start
  BY <1>0 DEF ReliableLocal
<1>3. ASSUME NEW u \in TxnIds
      PROVE  /\ sessions'[u].status = "active" => sessions[u].status = "active"
             /\ sessions'[u].status = "completed" => sessions'[u].energy = sessions'[u].stop - sessions'[u].start
  <2>1. CASE u = t
    BY <1>0, <1>1, <1>2, <2>1 DEF ReliableInv, StopRecordsEnergy
  <2>2. CASE u # t
    BY <1>1, <2>2 DEF ReliableInv, StopRecordsEnergy
  <2> QED
    BY <2>1, <2>2
<1>4. sessions'[t].status # "active"
  BY <1>1
<1> QED
  BY <1>3, <1>4 DEF ReliableInv, OpenIsCurrent, StopRecordsEnergy

\* A step of the only handler.
LEMMA ReliableHandler ==
  ASSUME Reliable, TypeInv, IdInv, EnergyInv, TrackInv, ReliableInv,
         NEW g \in Goroutines, \A h \in Goroutines : h = g, Receive(g) \/ Handler(g)
  PROVE  ReliableInv'
<1> USE DEF Stops
<1> DEFINE t == loc[g].txn
<1>0. /\ ReliableLocal(g) /\ TrackLocal(g) /\ EnergyLocal(g)
      /\ sessions \in [TxnIds -> Row]
      /\ pc[g] \notin {"idle", "st_upsert", "fin_read"} => t \in TxnIds
  BY DEF ReliableInv, TrackInv, EnergyInv, TypeInv, TypeOK, HasTxn
<1>1. CASE StatusBegin(g) \/ StatusUpsert(g)
  <2>1. pc[g] # "tx_upsert" /\ pc'[g] \in {"idle", "st_upsert", "fin_read"}
    BY <1>1, StatusSteps
  <2>2. UNCHANGED <<sessions, chTxn, unacked>>
    BY <1>1 DEF StatusBegin, StatusUpsert, chargerVars, dbVars
  <2> QED
    BY <2>1, <2>2, ReliableFrame DEF ReliableLocal
<1>2. CASE FinalizeRead(g) \/ FinalizeActive(g) \/ FinalizeAfter(g)
  <2>1. pc[g] # "tx_upsert" /\ pc'[g] \in {"fin_active", "fin_energy", "idle"}
    BY <1>2, FinalizeSteps
  <2>2. UNCHANGED <<sessions, chTxn, unacked>>
    BY <1>2 DEF FinalizeRead, FinalizeActive, FinalizeAfter, chargerVars, dbVars
  <2> QED
    BY <2>1, <2>2, ReliableFrame DEF ReliableLocal
<1>3. CASE FinalizeEnergy(g)
  <2>1. pc[g] = "fin_energy" /\ pc'[g] \in {"fin_stop", "idle"} /\ UNCHANGED <<sessions, chTxn, unacked>>
    BY <1>3, FinalizeSteps DEF FinalizeEnergy, chargerVars, dbVars
  <2>2. pc'[g] = "fin_stop" => /\ loc'[g].txn = t
                               /\ loc'[g].energy = loc'[g].meter - loc[g].meter
    BY <1>3 DEF FinalizeEnergy, Goto, Return, Locals, TypeInv, TypeOK
  <2>3. loc[g].meter = sessions[t].start
    BY <1>0, <2>1 DEF EnergyLocal
  <2> QED
    BY <2>1, <2>2, <2>3, ReliableFrame DEF ReliableLocal
<1>4. CASE FinalizeStop(g)
  <2>1. /\ pc[g] = "fin_stop" /\ pc'[g] \in {"fin_after", "idle"}
        /\ sessions' = StopSession(loc[g].txn, loc[g].meter, loc[g].energy) /\ UNCHANGED <<chTxn, unacked>>
    BY <1>4, FinalizeSteps DEF FinalizeStop, chargerVars
  <2>2. OpenIsCurrent' /\ StopRecordsEnergy'
    BY <2>1, ReliableClose
  <2> QED
    BY <2>1, <2>2 DEF ReliableInv, ReliableLocal
<1>5. CASE StartBegin(g)
  <2>1. pc[g] # "tx_upsert" /\ pc'[g] = "tx_insert" /\ UNCHANGED <<sessions, chTxn, unacked>>
    BY <1>5, StartSteps DEF StartBegin, chargerVars, dbVars
  <2> QED
    BY <2>1, ReliableFrame DEF ReliableLocal
<1>6. CASE StartInsert(g)
  <2>1. /\ pc[g] = "tx_insert" /\ pc'[g] = "tx_upsert" /\ loc'[g].txn = t /\ t \in TxnIds
        /\ sessions' = [sessions EXCEPT ![t] = NewRow(g)] /\ UNCHANGED <<chTxn, unacked>>
    BY <1>6, StartSteps DEF StartInsert, chargerVars
  <2>2. \A u \in TxnIds : u # t => sessions'[u] = sessions[u]
    BY <1>0, <2>1
  <2>3. sessions'[t].status # "completed"
    BY <1>0, <2>1 DEF NewRow
  <2>4. OpenIsCurrent'
    BY <2>1, <2>2 DEF ReliableInv, OpenIsCurrent
  <2>5. StopRecordsEnergy'
    BY <2>2, <2>3 DEF ReliableInv, StopRecordsEnergy
  <2> QED
    BY <2>1, <2>4, <2>5 DEF ReliableInv, ReliableLocal
<1>7. CASE StartUpsert(g)
  <2>1. pc[g] = "tx_upsert" /\ pc'[g] = "idle" /\ chTxn' = t
    BY <1>0, <1>7, StartSteps DEF TrackLocal, Starts, Reliable
  <2>2. UNCHANGED <<sessions, unacked>>
    BY <1>7 DEF StartUpsert
  <2>3. chTxn = -1
    BY <1>0, <2>1 DEF TrackLocal, Starts, Starting
  <2>4. OpenIsCurrent'
    BY <2>1, <2>2, <2>3 DEF ReliableInv, OpenIsCurrent, TxnIds
  <2> QED
    BY <2>1, <2>2, <2>4 DEF ReliableInv, ReliableLocal, StopRecordsEnergy
<1>8. CASE StopBegin(g) \/ StopUpsert(g)
  <2>1. /\ pc[g] \in {"idle", "sp_upsert"} /\ pc'[g] \in {"sp_upsert", "sp_active"}
        /\ UNCHANGED <<sessions, chTxn, unacked>>
    BY <1>8, StopSteps DEF StopBegin, StopUpsert, chargerVars, dbVars
  <2>2. unacked.txn = loc'[g].txn /\ unacked.meter = loc'[g].meter
    BY <1>0, <1>8, StopSteps DEF StopUpsert, ReliableLocal
  <2> QED
    BY <2>1, <2>2, ReliableFrame DEF ReliableLocal
<1>9. CASE StopActive(g)
  <2>1. /\ pc[g] = "sp_active" /\ pc'[g] = "sp_stop" /\ UNCHANGED <<sessions, chTxn, unacked>>
        /\ loc'[g].txn = t /\ loc'[g].meter = loc[g].meter /\ loc'[g].energy = StopEnergy(g)
    BY <1>9, StopSteps DEF StopActive, chargerVars, dbVars
  <2>2. ASSUME sessions[t].status = "active" PROVE IsActiveSession(t)
    <3>1. unacked.txn = t /\ t \in TxnIds
      BY <1>0, <2>1 DEF ReliableLocal
    <3>2. chTxn \notin TxnIds
      BY <3>1 DEF TrackInv, TxnIds
    <3>3. \A u \in TxnIds : sessions[u].status = "active" => u = t
      BY <2>1, <3>1, <3>2 DEF ReliableInv, OpenIsCurrent
    <3>4. sessions[t].row \in Nat
      BY <1>0, <3>1 DEF Row
    <3> QED
      BY <2>2, <3>3, <3>4 DEF IsActiveSession
  <2>3. ReliableLocal(g)'
    BY <1>0, <2>1, <2>2 DEF ReliableLocal, StopEnergy
  <2> QED
    BY <2>1, <2>3, ReliableFrame
<1>10. CASE StopClose(g)
  <2>1. /\ pc[g] = "sp_stop" /\ pc'[g] = "sp_after"
        /\ loc'[g].txn = t /\ loc'[g].meter = loc[g].meter
        /\ sessions' = StopSession(loc[g].txn, loc[g].meter, loc[g].energy) /\ UNCHANGED <<chTxn, unacked>>
    BY <1>10, StopSteps DEF StopClose, chargerVars
  <2>2. OpenIsCurrent' /\ StopRecordsEnergy' /\ sessions'[t].status # "active"
    BY <2>1, ReliableClose
  <2>3. ReliableLocal(g)'
    BY <1>0, <2>1, <2>2 DEF ReliableLocal
  <2> QED
    BY <2>2, <2>3 DEF ReliableInv
<1>11. CASE StopAfter(g)
  <2>1. /\ pc[g] = "sp_after" /\ pc'[g] = "idle" /\ UNCHANGED <<sessions, chTxn>>
        /\ unacked' \in {unacked, [txn |-> 0, meter |-> 0]}
    BY <1>11, StopSteps DEF StopAfter, dbVars
  <2>2. unacked.txn = t /\ sessions[t].status # "active"
    BY <1>0, <2>1 DEF ReliableLocal
  <2>3. OpenIsCurrent'
    BY <2>1, <2>2 DEF ReliableInv, OpenIsCurrent
  <2> QED
    BY <2>1, <2>3 DEF ReliableInv, ReliableLocal, StopRecordsEnergy
<1> QED
  BY <1>1, <1>2, <1>3, <1>4, <1>5, <1>6, <1>7, <1>8, <1>9, <1>10, <1>11 DEF Receive, Handler

\* A step outside the handlers.
LEMMA ReliableOther ==
  ASSUME Reliable, TypeInv, TrackInv, ReliableInv, MeterValues \/ Charger \/ UNCHANGED vars
  PROVE  ReliableInv'
<1>0. /\ sessions' = sessions /\ UNCHANGED <<pc, loc>>
  BY DEF MeterValues, Charger, ChargerStatus, ChargerStart, ChargerDelivers, ChargerStop, ChargerGivesUp, vars, dbVars
<1>1. StopRecordsEnergy'
  BY <1>0 DEF ReliableInv, StopRecordsEnergy
<1>2. CASE UNCHANGED <<chTxn, unacked>>
  BY <1>0, <1>1, <1>2 DEF ReliableInv, ReliableLocal, OpenIsCurrent, Stops
<1>3. CASE ChargerStart
  <2>1. chTxn = 0 /\ unacked' = unacked
    BY <1>3 DEF ChargerStart
  <2> QED
    BY <1>0, <1>1, <2>1 DEF ReliableInv, ReliableLocal, OpenIsCurrent, Stops, TxnIds
<1>4. CASE ChargerStop
  <2>1. unacked.txn = 0 /\ unacked'.txn = chTxn /\ chTxn > 0
    BY <1>4 DEF ChargerStop
  <2>2. \A g \in Goroutines : ~Stops(g)
    <3>1. \A g \in Goroutines : Stops(g) => loc[g].txn \in TxnIds
      BY DEF TypeInv, HasTxn, Stops
    <3> QED
      BY <2>1, <3>1 DEF ReliableInv, ReliableLocal, TxnIds
  <2>3. OpenIsCurrent'
    BY <1>0, <2>1 DEF ReliableInv, OpenIsCurrent, TxnIds
  <2> QED
    BY <1>0, <1>1, <2>2, <2>3 DEF ReliableInv, ReliableLocal, Stops
<1> QED
  BY <1>2, <1>3, <1>4 DEF Reliable, MeterValues, Charger, ChargerStatus, ChargerDelivers, ChargerGivesUp, vars, chargerVars

\* The invariant of the open session under reliable delivery.
LEMMA ReliableInvariant ==
  ASSUME CallsDoNotOverlap, Reliable
  PROVE  Spec => [](TypeInv /\ IdInv /\ EnergyInv /\ TrackInv /\ ReliableInv)
<1>1. Init => ReliableInv
  BY DEF Init, ReliableInv, ReliableLocal, OpenIsCurrent, StopRecordsEnergy, Stops, NoRow
<1>2. TypeInv /\ IdInv /\ EnergyInv /\ TrackInv /\ ReliableInv /\ [Next]_vars => ReliableInv'
  <2> SUFFICES ASSUME TypeInv, IdInv, EnergyInv, TrackInv, ReliableInv, [Next]_vars PROVE ReliableInv'
    OBVIOUS
  <2>1. ASSUME NEW g \in Goroutines, Receive(g) \/ Handler(g) PROVE ReliableInv'
    BY <2>1, ReliableHandler DEF CallsDoNotOverlap
  <2>2. ~Crash
    BY DEF Crash, TypeInv, TypeOK, Reliable
  <2> QED
    BY <2>1, <2>2, ReliableOther DEF Next
<1> QED
  BY <1>1, <1>2, TrackInvariant, EnergyInvariant, PTL DEF Spec

\* A closed session carries exactly the difference of its two readings, whichever
\* of finalizeSessionOnStop and StopTransaction closed it: ActiveSession returns
\* the transaction the charger stops, because no other session is open.
THEOREM StopsRecordEnergy == ASSUME CallsDoNotOverlap, Reliable PROVE Spec => []StopRecordsEnergy
<1>1. ReliableInv => StopRecordsEnergy
  BY DEF ReliableInv
<1> QED
  BY <1>1, ReliableInvariant, PTL

-----------------------------------------------------------------------------
(* Intervals.  The sessions' readings follow each other on the register: a   *)
(* session that was closed ended before any later one began.                 *)
Completed(t) == sessions[t].status = "completed"

\* The open session is the newest.
OpenIsNewest == \A t, u \in TxnIds : sessions[t].status = "active" /\ Present(u) => u <= t

SessionsApart ==
  \A t, u \in TxnIds : t < u /\ Completed(t) /\ Present(u) => sessions[t].stop <= sessions[u].start

\* While the charger waits for its id, every reading the process may still close
\* a session with is from before the transaction began.
OldReadings ==
  chTxn = Starting =>
    /\ conn.energy <= chStart
    /\ unacked.txn # 0 => unacked.meter <= chStart
    /\ \A t \in TxnIds : logged[t] <= chStart /\ (Completed(t) => sessions[t].stop <= chStart)
    /\ \A g \in Goroutines : pc[g] = "fin_stop" => loc[g].meter <= chStart

ApartInv ==
  /\ OpenIsNewest
  /\ SessionsApart
  /\ \A t \in TxnIds : Completed(t) => sessions[t].stop <= meter
  /\ OldReadings
  /\ \A g \in Goroutines : pc[g] = "tx_insert" => nextTxnID = loc[g].txn + 1

\* The steps that write no row.
LEMMA ApartFrame ==
  ASSUME ApartInv, UNCHANGED <<sessions, meter, nextTxnID>>, OldReadings',
         \A g \in Goroutines : pc'[g] = "tx_insert" => pc[g] = "tx_insert" /\ loc'[g].txn = loc[g].txn
  PROVE  ApartInv'
BY DEF ApartInv, OpenIsNewest, SessionsApart, Completed, Present

\* Closing the open session: it is the newest, and its reading is no later than
\* the register, nor than the start the charger waits to have recorded.
LEMMA ApartClose ==
  ASSUME TypeInv, ApartInv, NEW g \in Goroutines, \A h \in Goroutines : h = g,
         pc[g] \in {"fin_stop", "sp_stop"}, pc'[g] \notin {"tx_insert", "fin_stop"},
         sessions' = StopSession(loc[g].txn, loc[g].meter, loc[g].energy),
         loc[g].meter <= meter, chTxn = Starting => loc[g].meter <= chStart,
         UNCHANGED <<chTxn, chStart, meter, unacked, conn, logged, nextTxnID>>
  PROVE  ApartInv'
<1> DEFINE t == loc[g].txn
<1>0. sessions \in [TxnIds -> Row] /\ t \in TxnIds
  BY DEF TypeInv, TypeOK, HasTxn
<1>1. /\ sessions[t].status = "active" =>
           /\ sessions'[t].status = "completed" /\ sessions'[t].start = sessions[t].start
           /\ sessions'[t].stop = loc[g].meter
      /\ sessions[t].status # "active" => sessions' = sessions
      /\ \A u \in TxnIds : u # t => sessions'[u] = sessions[u]
  BY <1>0, ClosingWrites
<1>2. ASSUME NEW u \in TxnIds
      PROVE  /\ Present(u)' <=> Present(u)
             /\ sessions'[u].start = sessions[u].start
             /\ sessions'[u].status = "active" => sessions[u].status = "active"
             /\ Completed(u)' => \/ Completed(u) /\ sessions'[u].stop = sessions[u].stop
                                 \/ u = t /\ sessions[t].status = "active" /\ sessions'[u].stop = loc[g].meter
  <2>1. CASE u = t
    BY <1>0, <1>1, <2>1 DEF Completed, Present
  <2>2. CASE u # t
    BY <1>1, <2>2 DEF Completed, Present
  <2> QED
    BY <2>1, <2>2
<1>3. OpenIsNewest'
  BY <1>2 DEF ApartInv, OpenIsNewest
<1>4. SessionsApart'
  <2> SUFFICES ASSUME NEW x \in TxnIds, NEW y \in TxnIds, x < y, Completed(x)', Present(y)'
               PROVE  sessions'[x].stop <= sessions'[y].start
    BY DEF SessionsApart
  <2>1. Present(y) /\ sessions'[y].start = sessions[y].start
    BY <1>2
  <2>2. CASE Completed(x) /\ sessions'[x].stop = sessions[x].stop
    BY <2>1, <2>2 DEF ApartInv, SessionsApart
  <2>3. CASE x = t /\ sessions[t].status = "active"
    <3>1. y <= x
      BY <1>0, <2>1, <2>3 DEF ApartInv, OpenIsNewest
    <3> QED
      BY <3>1 DEF TxnIds
  <2> QED
    BY <1>2, <2>2, <2>3
<1>5. \A u \in TxnIds : Completed(u)' => sessions'[u].stop <= meter'
  BY <1>2 DEF ApartInv
<1>6. OldReadings'
  BY <1>2 DEF ApartInv, OldReadings
<1> QED
  BY <1>3, <1>4, <1>5, <1>6 DEF ApartInv

\* A step of the only handler.
LEMMA ApartHandler ==
  ASSUME Reliable, TypeInv, IdInv, EnergyInv, TrackInv, ReliableInv, ApartInv,
         NEW g \in Goroutines, \A h \in Goroutines : h = g, Receive(g) \/ Handler(g)
  PROVE  ApartInv'
<1> DEFINE t == loc[g].txn
<1>0. /\ ReliableLocal(g) /\ TrackLocal(g) /\ EnergyLocal(g)
      /\ sessions \in [TxnIds -> Row]
      /\ pc[g] \notin {"idle", "st_upsert", "fin_read"} => t \in TxnIds
      /\ OldReadings
  BY DEF ReliableInv, TrackInv, EnergyInv, TypeInv, TypeOK, HasTxn, ApartInv
<1>1. CASE StatusBegin(g) \/ StatusUpsert(g)
  <2>1. pc'[g] \in {"idle", "st_upsert", "fin_read"} /\ conn'.energy = conn.energy
    BY <1>1, StatusSteps DEF StatusUpsert
  <2>2. UNCHANGED <<sessions, chTxn, chStart, unacked, logged, meter, nextTxnID>>
    BY <1>1 DEF StatusBegin, StatusUpsert, chargerVars, dbVars
  <2> QED
    BY <1>0, <2>1, <2>2, ApartFrame DEF OldReadings, Completed
<1>2. CASE FinalizeRead(g) \/ FinalizeActive(g) \/ FinalizeAfter(g)
  <2>1. pc'[g] \in {"fin_active", "fin_energy", "idle"}
    BY <1>2, FinalizeSteps
  <2>2. UNCHANGED <<sessions, chTxn, chStart, unacked, logged, meter, nextTxnID, conn>>
    BY <1>2 DEF FinalizeRead, FinalizeActive, FinalizeAfter, chargerVars, dbVars
  <2> QED
    BY <1>0, <2>1, <2>2, ApartFrame DEF OldReadings, Completed
<1>3. CASE FinalizeEnergy(g)
  <2>1. /\ pc[g] = "fin_energy" /\ pc'[g] \in {"fin_stop", "idle"}
        /\ UNCHANGED <<sessions, chTxn, chStart, unacked, logged, meter, nextTxnID, conn>>
    BY <1>3, FinalizeSteps DEF FinalizeEnergy, chargerVars, dbVars
  <2>2. pc'[g] = "fin_stop" => loc'[g].meter = currentEnergy(t)
    BY <1>3 DEF FinalizeEnergy, Goto, Return, Locals, TypeInv, TypeOK
  <2>3. currentEnergy(t) \in {conn.energy, logged[t]}
    BY DEF currentEnergy
  <2> QED
    BY <1>0, <2>1, <2>2, <2>3, ApartFrame DEF OldReadings, Completed
<1>4. CASE FinalizeStop(g)
  <2>1. /\ pc[g] = "fin_stop" /\ pc'[g] \in {"fin_after", "idle"}
        /\ sessions' = StopSession(loc[g].txn, loc[g].meter, loc[g].energy)
        /\ UNCHANGED <<chTxn, chStart, meter, unacked, conn, logged, nextTxnID>>
    BY <1>4, FinalizeSteps DEF FinalizeStop, chargerVars
  <2> QED
    BY <1>0, <2>1, ApartClose DEF OldReadings, EnergyLocal
<1>5. CASE StartBegin(g)
  <2>1. /\ pc'[g] = "tx_insert" /\ loc'[g].txn = nextTxnID /\ nextTxnID' = nextTxnID + 1 /\ conn'.energy = conn.energy
        /\ UNCHANGED <<sessions, chTxn, chStart, unacked, logged, meter>>
    BY <1>5, StartSteps DEF StartBegin, chargerVars, dbVars
  <2>2. OldReadings'
    BY <1>0, <2>1 DEF OldReadings, Completed
  <2> QED
    BY <2>1, <2>2 DEF ApartInv, OpenIsNewest, SessionsApart, Completed, Present
<1>6. CASE StartInsert(g)
  <2>1. /\ pc[g] = "tx_insert" /\ pc'[g] = "tx_upsert" /\ t \in TxnIds
        /\ sessions' = [sessions EXCEPT ![t] = NewRow(g)]
        /\ UNCHANGED <<chTxn, chStart, unacked, logged, meter, nextTxnID, conn>>
    BY <1>6, StartSteps DEF StartInsert, chargerVars
  <2>2. /\ \A u \in TxnIds : u # t => sessions'[u] = sessions[u]
        /\ sessions'[t].status = "active" /\ sessions'[t].start = chStart
    BY <1>0, <2>1 DEF NewRow, TrackLocal, Starts
  <2>3. /\ chTxn = Starting /\ unacked.txn = 0 /\ nextTxnID = t + 1
    BY <1>0, <2>1 DEF TrackLocal, Starts, ApartInv
  <2>4. \A u \in TxnIds : sessions[u].status # "active"
    BY <2>1, <2>3 DEF ReliableInv, OpenIsCurrent, TxnIds, Starting
  <2>5. \A u \in TxnIds : Present(u) => u < t
    <3>1. \A u \in TxnIds : Present(u) => u < nextTxnID
      BY DEF IdInv, Present
    <3>2. t \notin {u \in TxnIds : Present(u)}
      BY <2>1 DEF IdInv, OwnedId, Present
    <3> QED
      BY <2>1, <2>3, <3>1, <3>2 DEF TxnIds
  <2>6. OpenIsNewest'
    BY <2>1, <2>2, <2>4, <2>5 DEF OpenIsNewest, Present, TxnIds
  <2>7. SessionsApart'
    <3> SUFFICES ASSUME NEW x \in TxnIds, NEW y \in TxnIds, x < y, Completed(x)', Present(y)'
                 PROVE  sessions'[x].stop <= sessions'[y].start
      BY DEF SessionsApart
    <3>1. x # t /\ Completed(x) /\ sessions'[x] = sessions[x]
      BY <2>2 DEF Completed
    <3>2. CASE y = t
      BY <1>0, <2>2, <2>3, <3>1, <3>2 DEF OldReadings
    <3>3. CASE y # t
      BY <2>2, <3>1, <3>3 DEF ApartInv, SessionsApart, Present
    <3> QED
      BY <3>2, <3>3
  <2>8. \A u \in TxnIds : Completed(u)' => Completed(u) /\ sessions'[u] = sessions[u]
    BY <2>2 DEF Completed
  <2>9. OldReadings'
    BY <1>0, <2>1, <2>8 DEF OldReadings
  <2> QED
    BY <2>1, <2>6, <2>7, <2>8, <2>9 DEF ApartInv
<1>7. CASE StartUpsert(g)
  <2>1. pc[g] = "tx_upsert" /\ pc'[g] = "idle" /\ chTxn' = t
    BY <1>0, <1>7, StartSteps DEF TrackLocal, Starts, Reliable
  <2>2. UNCHANGED <<sessions, meter, nextTxnID>> /\ t # Starting
    BY <1>0, <1>7, <2>1 DEF StartUpsert, TxnIds, Starting
  <2> QED
    BY <2>1, <2>2, ApartFrame DEF OldReadings
<1>8. CASE StopBegin(g) \/ StopUpsert(g) \/ StopActive(g)
  <2>1. /\ pc'[g] \in {"sp_upsert", "sp_active", "sp_stop"} /\ conn'.energy = conn.energy
        /\ UNCHANGED <<sessions, chTxn, chStart, unacked, logged, meter, nextTxnID>>
    BY <1>8, StopSteps DEF StopBegin, StopUpsert, StopActive, chargerVars, dbVars
  <2> QED
    BY <1>0, <2>1, ApartFrame DEF OldReadings, Completed
<1>9. CASE StopClose(g)
  <2>1. /\ pc[g] = "sp_stop" /\ pc'[g] = "sp_after"
        /\ sessions' = StopSession(loc[g].txn, loc[g].meter, loc[g].energy)
        /\ UNCHANGED <<chTxn, chStart, meter, unacked, conn, logged, nextTxnID>>
    BY <1>9, StopSteps DEF StopClose, chargerVars
  <2>2. unacked.txn # 0 /\ unacked.meter = loc[g].meter
    BY <1>0, <2>1 DEF ReliableLocal, Stops, TxnIds
  <2> QED
    BY <1>0, <2>1, <2>2, ApartClose DEF OldReadings, EnergyLocal
<1>10. CASE StopAfter(g)
  <2>1. /\ pc'[g] = "idle" /\ UNCHANGED <<sessions, chTxn, chStart, meter, conn, logged, nextTxnID>>
        /\ unacked' \in {unacked, [txn |-> 0, meter |-> 0]}
    BY <1>10, StopSteps DEF StopAfter, dbVars
  <2> QED
    BY <1>0, <2>1, ApartFrame DEF OldReadings, Completed
<1> QED
  BY <1>1, <1>2, <1>3, <1>4, <1>5, <1>6, <1>7, <1>8, <1>9, <1>10 DEF Receive, Handler

\* A step outside the handlers.
LEMMA ApartOther ==
  ASSUME Reliable, TypeInv, EnergyInv, TrackInv, ApartInv, MeterValues \/ Charger \/ UNCHANGED vars
  PROVE  ApartInv'
<1>0. UNCHANGED <<sessions, pc, loc, nextTxnID>> /\ OldReadings
  BY DEF MeterValues, Charger, ChargerStatus, ChargerStart, ChargerDelivers, ChargerStop, ChargerGivesUp, vars, dbVars,
         ApartInv
<1>1. CASE MeterValues
  <2>1. chTxn # Starting /\ UNCHANGED <<chTxn, meter>>
    BY <1>1 DEF MeterValues, chargerVars
  <2> QED
    BY <1>0, <2>1, ApartFrame DEF OldReadings
<1>2. CASE ChargerStart
  <2>1. chStart' = meter /\ UNCHANGED <<meter, conn, unacked, logged>>
    BY <1>2 DEF ChargerStart, dbVars
  <2>2. OldReadings'
    BY <1>0, <2>1 DEF OldReadings, ApartInv, Completed, EnergyInv, EnergyLocal
  <2> QED
    BY <1>0, <2>1, <2>2, ApartFrame
<1>3. CASE ChargerStop
  <2>1. chTxn' = 0 /\ meter' = meter
    BY <1>3 DEF ChargerStop
  <2> QED
    BY <1>0, <2>1, ApartFrame DEF OldReadings, Starting
<1>4. CASE ChargerDelivers
  <2>1. meter' = meter + 1 /\ UNCHANGED <<chTxn, chStart, unacked, conn, logged>>
    BY <1>4 DEF ChargerDelivers, dbVars
  <2>2. meter \in Int /\ \A u \in TxnIds : sessions[u].stop \in Int
    BY ConstTypes DEF TypeInv, TypeOK, Row
  <2>3. OldReadings'
    BY <1>0, <2>1 DEF OldReadings, Completed
  <2>4. \A u \in TxnIds : Completed(u)' => sessions'[u].stop <= meter'
    BY <1>0, <2>1, <2>2 DEF ApartInv, Completed
  <2> QED
    BY <1>0, <2>3, <2>4 DEF ApartInv, OpenIsNewest, SessionsApart, Completed, Present
<1>5. CASE (\E st \in Statuses : ChargerStatus(st)) \/ UNCHANGED vars
  <2>1. UNCHANGED <<chTxn, chStart, unacked, conn, logged, meter>>
    BY <1>5 DEF ChargerStatus, vars, chargerVars, dbVars
  <2> QED
    BY <1>0, <2>1, ApartFrame DEF OldReadings, Completed
<1> QED
  BY <1>1, <1>2, <1>3, <1>4, <1>5 DEF Reliable, Charger, ChargerGivesUp

\* The invariant of the intervals.
LEMMA ApartInvariant ==
  ASSUME CallsDoNotOverlap, Reliable
  PROVE  Spec => [](TypeInv /\ EnergyInv /\ ReliableInv /\ ApartInv)
<1>1. Init => ApartInv
  BY DEF Init, ApartInv, OpenIsNewest, SessionsApart, OldReadings, Completed, Present, NoRow, Starting
<1>2. TypeInv /\ IdInv /\ EnergyInv /\ TrackInv /\ ReliableInv /\ ApartInv /\ [Next]_vars => ApartInv'
  <2> SUFFICES ASSUME TypeInv, IdInv, EnergyInv, TrackInv, ReliableInv, ApartInv, [Next]_vars PROVE ApartInv'
    OBVIOUS
  <2>1. ASSUME NEW g \in Goroutines, Receive(g) \/ Handler(g) PROVE ApartInv'
    BY <2>1, ApartHandler DEF CallsDoNotOverlap
  <2>2. ~Crash
    BY DEF Crash, TypeInv, TypeOK, Reliable
  <2> QED
    BY <2>1, <2>2, ApartOther DEF Next
<1> QED
  BY <1>1, <1>2, ReliableInvariant, PTL DEF Spec

\* The register intervals of two sessions never overlap: the earlier one was
\* closed at a reading no later than the one the later session began at.
THEOREM IntervalsDisjoint == ASSUME CallsDoNotOverlap, Reliable PROVE Spec => []SessionsApart
<1>1. ApartInv => SessionsApart
  BY DEF ApartInv
<1> QED
  BY <1>1, ApartInvariant, PTL

-----------------------------------------------------------------------------
(* Sums.  Removing one element after another sums the energies of a set.     *)
Some(s) == CHOOSE x \in s : TRUE

IsEnergySum(f, D) ==
  \A s \in D : f[s] = IF s = {} THEN 0 ELSE sessions[Some(s)].energy + f[s \ {Some(s)}]

\* < on the natural numbers as a relation.
Less == {ss \in Nat \X Nat : ss[1] < ss[2]}

\* A set of natural numbers that is not empty has a least one.
LEMMA LeastNat ==
  ASSUME NEW T, T \subseteq Nat, T # {}
  PROVE  \E x \in T : \A y \in T : x <= y
<1>1. OpToRel(<, Nat) = Less
  BY DEF OpToRel, Less
<1>2. \E x \in T : \A y \in T : ~(<<y, x>> \in Less)
  BY <1>1, NatLessThanWellFounded, WFMin
<1>3. PICK x \in T : \A y \in T : ~(<<y, x>> \in Less)
  BY <1>2
<1>4. ASSUME NEW y \in T PROVE x <= y
  <2>1. x \in Nat /\ y \in Nat
    OBVIOUS
  <2>2. ~(y < x)
    BY <1>3, <2>1 DEF Less
  <2> QED
    BY <2>1, <2>2
<1> QED
  BY <1>4

\* One element less.
LEMMA RemoveSome ==
  ASSUME NEW s, IsFiniteSet(s), s # {}
  PROVE  /\ Some(s) \in s
         /\ IsFiniteSet(s \ {Some(s)})
         /\ Cardinality(s) \in Nat /\ Cardinality(s) # 0
         /\ Cardinality(s \ {Some(s)}) = Cardinality(s) - 1
<1>1. Some(s) \in s
  BY DEF Some
<1> HIDE DEF Some
<1> QED
  BY <1>1, FS_RemoveElement, FS_CardinalityType, FS_EmptySet

\* The recursion has a solution, by the least size of a subset without one.
LEMMA SumExists ==
  ASSUME NEW S, IsFiniteSet(S)
  PROVE  \E f : f = [s \in SUBSET S |->
                       IF s = {} THEN 0 ELSE sessions[Some(s)].energy + f[s \ {Some(s)}]]
<1> DEFINE Upto(n) == {s \in SUBSET S : Cardinality(s) <= n}
           Solved(n) == \E f : IsEnergySum(f, Upto(n))
           T == {n \in Nat : ~Solved(n)}
           N == Cardinality(S)
<1>0. \A s \in SUBSET S : IsFiniteSet(s) /\ Cardinality(s) \in Nat /\ Cardinality(s) <= N
  BY FS_Subset, FS_CardinalityType
<1>1. T = {}
  <2> SUFFICES ASSUME T # {} PROVE FALSE
    OBVIOUS
  <2>1. PICK n \in T : \A m \in T : n <= m
    <3> HIDE DEF Solved
    <3> QED
      BY LeastNat
  <2>2. n # 0
    <3>1. ASSUME n = 0 PROVE Solved(n)
      <4>1. \A s \in Upto(n) : s = {}
        BY <1>0, <3>1, FS_EmptySet
      <4>2. IsEnergySum([s \in {{}} |-> 0], Upto(n))
        BY <4>1 DEF IsEnergySum
      <4> QED
        BY <4>2
    <3> QED
      BY <2>1, <3>1
  <2>3. n \in Nat /\ n - 1 \in Nat /\ n - 1 \notin T
    <3> HIDE DEF Solved
    <3> QED
      BY <2>1, <2>2
  <2>4. PICK f : IsEnergySum(f, Upto(n - 1))
    BY <2>3
  <2> DEFINE h == [s \in SUBSET S |-> IF s = {} THEN 0 ELSE sessions[Some(s)].energy + f[s \ {Some(s)}]]
  <2>5. ASSUME NEW s \in Upto(n), s # {} PROVE h[s \ {Some(s)}] = f[s \ {Some(s)}]
    <3> DEFINE q == s \ {Some(s)}
    <3>1. q \in Upto(n - 1) /\ q \in SUBSET S
      BY <1>0, <2>3, <2>5, RemoveSome
    <3>2. f[q] = IF q = {} THEN 0 ELSE sessions[Some(q)].energy + f[q \ {Some(q)}]
      BY <2>4, <3>1 DEF IsEnergySum
    <3> HIDE DEF q
    <3>3. h[q] = IF q = {} THEN 0 ELSE sessions[Some(q)].energy + f[q \ {Some(q)}]
      BY <3>1
    <3> QED
      BY <3>2, <3>3 DEF q
  <2>6. ASSUME NEW s \in Upto(n)
        PROVE  h[s] = IF s = {} THEN 0 ELSE sessions[Some(s)].energy + h[s \ {Some(s)}]
    <3>1. h[s] = IF s = {} THEN 0 ELSE sessions[Some(s)].energy + f[s \ {Some(s)}]
      OBVIOUS
    <3> HIDE DEF h
    <3> QED
      BY <2>5, <3>1
  <2>7. IsEnergySum(h, Upto(n))
    <3> HIDE DEF h
    <3> QED
      BY <2>6 DEF IsEnergySum
  <2> QED
    BY <2>1, <2>7
<1>2. N \in Nat
  BY FS_CardinalityType
<1>3. PICK f : IsEnergySum(f, Upto(N))
  BY <1>1, <1>2
<1> DEFINE g == [s \in SUBSET S |-> f[s]]
<1>4. \A s \in SUBSET S : s \in Upto(N)
  BY <1>0
<1>5. ASSUME NEW s \in SUBSET S
      PROVE  g[s] = IF s = {} THEN 0 ELSE sessions[Some(s)].energy + g[s \ {Some(s)}]
  BY <1>3, <1>4 DEF IsEnergySum
<1>6. g = [s \in SUBSET S |-> g[s]]
  OBVIOUS
<1> HIDE DEF g
<1>7. g = [s \in SUBSET S |-> IF s = {} THEN 0 ELSE sessions[Some(s)].energy + g[s \ {Some(s)}]]
  BY <1>5, <1>6
<1> QED
  BY <1>7

\* What MapThenSumSet computes.
LEMMA SumOfEnergies ==
  ASSUME NEW S, IsFiniteSet(S)
  PROVE  \E f : /\ IsEnergySum(f, SUBSET S)
                /\ MapThenSumSet(LAMBDA t : sessions[t].energy, S) = f[S]
<1> DEFINE f == CHOOSE it : it = [s \in SUBSET S |->
                  IF s = {} THEN 0 ELSE sessions[CHOOSE x \in s : TRUE].energy + it[s \ {CHOOSE x \in s : TRUE}]]
<1>1. MapThenSumSet(LAMBDA t : sessions[t].energy, S) = f[S]
  BY DEF MapThenSumSet, MapThenFoldSet
<1>2. f = [s \in SUBSET S |-> IF s = {} THEN 0 ELSE sessions[Some(s)].energy + f[s \ {Some(s)}]]
  BY SumExists DEF Some
<1> HIDE DEF f
<1>3. IsEnergySum(f, SUBSET S)
  BY <1>2 DEF IsEnergySum
<1> QED
  BY <1>1, <1>3

\* The register values a set of sessions covers.
Covered(s) == {m \in 1..meter : \E t \in s : sessions[t].start < m /\ m <= sessions[t].stop}

\* Completed sessions carry at most as much energy as the values they cover, by the
\* least size of a set of sessions that carries more.
LEMMA SumWithinCovered ==
  ASSUME TypeInv, EnergyInv, ReliableInv, ApartInv,
         NEW f, IsEnergySum(f, SUBSET {t \in TxnIds : Completed(t)}),
         NEW s \in SUBSET {t \in TxnIds : Completed(t)}
  PROVE  f[s] \in Int /\ f[s] <= Cardinality(Covered(s))
<1> DEFINE C == {t \in TxnIds : Completed(t)}
           Bounded(q) == f[q] \in Int /\ f[q] <= Cardinality(Covered(q))
           Sizes == {n \in Nat : \E q \in SUBSET C : Cardinality(q) = n /\ ~Bounded(q)}
<1>0. MaxTxn \in Nat /\ meter \in Nat
  BY ConstTypes DEF TypeInv, TypeOK
<1>1. \A q \in SUBSET C : IsFiniteSet(q) /\ Cardinality(q) \in Nat
  <2>1. IsFiniteSet(TxnIds)
    BY <1>0, FS_Interval DEF TxnIds
  <2> QED
    BY <2>1, FS_Subset, FS_CardinalityType
<1>2. \A q : IsFiniteSet(Covered(q)) /\ Cardinality(Covered(q)) \in Nat
  <2>1. IsFiniteSet(1..meter)
    BY <1>0, FS_Interval
  <2>2. \A q : Covered(q) \in SUBSET (1..meter)
    BY DEF Covered
  <2> QED
    BY <2>1, <2>2, FS_Subset, FS_CardinalityType
<1>3. ASSUME NEW x \in C
      PROVE  /\ sessions[x].start \in Nat /\ sessions[x].stop \in Nat /\ sessions[x].energy \in Int
             /\ Covered({x}) = (sessions[x].start + 1)..sessions[x].stop
             /\ Cardinality(Covered({x})) = sessions[x].energy
  <2>1. /\ sessions[x].start \in Nat /\ sessions[x].stop \in Nat /\ sessions[x].energy \in Int
    BY ConstTypes DEF TypeInv, TypeOK, Row
  <2>2. sessions[x].stop <= meter /\ sessions[x].energy = sessions[x].stop - sessions[x].start /\ 0 <= sessions[x].energy
    BY DEF ApartInv, ReliableInv, EnergyInv, StopRecordsEnergy, NeverOvercounted, Completed
  <2>3. Covered({x}) = (sessions[x].start + 1)..sessions[x].stop
    BY <1>0, <2>1, <2>2 DEF Covered
  <2>4. Cardinality((sessions[x].start + 1)..sessions[x].stop) = sessions[x].energy
    <3> DEFINE a == sessions[x].start + 1
               b == sessions[x].stop
    <3>1. a \in Int /\ b \in Int
      BY <2>1
    <3> HIDE DEF a, b
    <3>2. Cardinality(a..b) = IF a > b THEN 0 ELSE b - a + 1
      BY <3>1, FS_Interval
    <3> QED
      BY <2>1, <2>2, <3>2 DEF a, b
  <2> QED
    BY <2>1, <2>3, <2>4
<1>4. ASSUME NEW x \in C, NEW y \in C, x # y PROVE Covered({x}) \cap Covered({y}) = {}
  <2>1. /\ \A m \in Covered({x}) : m \in Int /\ sessions[x].start < m /\ m <= sessions[x].stop
        /\ \A m \in Covered({y}) : m \in Int /\ sessions[y].start < m /\ m <= sessions[y].stop
    BY DEF Covered
  <2>2. /\ sessions[x].start \in Nat /\ sessions[x].stop \in Nat
        /\ sessions[y].start \in Nat /\ sessions[y].stop \in Nat
    BY ConstTypes DEF TypeInv, TypeOK, Row
  <2>3. sessions[x].stop <= sessions[y].start \/ sessions[y].stop <= sessions[x].start
    <3>1. x \in Int /\ y \in Int
      BY DEF TxnIds
    <3>2. x < y \/ y < x
      BY <1>4, <3>1
    <3> QED
      BY <3>2 DEF ApartInv, SessionsApart, Completed, Present
  <2>4. \A m \in Int : ~(/\ sessions[x].start < m /\ m <= sessions[x].stop
                         /\ sessions[y].start < m /\ m <= sessions[y].stop)
    BY <2>2, <2>3
  <2> QED
    BY <2>1, <2>4
<1>5. ASSUME NEW n \in Sizes, \A m \in Sizes : n <= m PROVE FALSE
  <2>1. PICK q \in SUBSET C : Cardinality(q) = n /\ ~Bounded(q)
    OBVIOUS
  <2>2. q # {}
    <3>1. ASSUME q = {} PROVE Bounded(q)
      <4>1. f[q] = 0
        BY <3>1 DEF IsEnergySum
      <4> QED
        BY <1>2, <4>1
    <3> QED
      BY <2>1, <3>1
  <2> DEFINE x == Some(q)
             p == q \ {x}
  <2>3. x \in C /\ x \in q /\ p \in SUBSET C /\ n \in Nat /\ n # 0 /\ Cardinality(p) = n - 1
    BY <1>1, <2>1, <2>2, RemoveSome
  <2>4. f[q] = sessions[x].energy + f[p]
    BY <2>2 DEF IsEnergySum
  <2> HIDE DEF x
  <2>5. Bounded(p)
    BY <1>5, <2>3
  <2>6. Covered(q) = Covered({x}) \cup Covered(p)
    BY <2>3 DEF Covered
  <2>7. Covered({x}) \cap Covered(p) = {}
    <3> SUFFICES ASSUME NEW m \in Covered({x}), m \in Covered(p) PROVE FALSE
      OBVIOUS
    <3>1. PICK y \in p : sessions[y].start < m /\ m <= sessions[y].stop
      BY DEF Covered
    <3>2. m \in Covered({y})
      BY <3>1 DEF Covered
    <3> QED
      BY <1>4, <2>3, <3>2
  <2>8. Cardinality(Covered(q)) = sessions[x].energy + Cardinality(Covered(p))
    <3> DEFINE X == Covered({x})
               P == Covered(p)
    <3>0. IsFiniteSet(X) /\ IsFiniteSet(P) /\ X \cap P = {} /\ Covered(q) = X \cup P
      BY <1>2, <2>6, <2>7
    <3>1. Cardinality(Covered(q)) = Cardinality(X) + Cardinality(P) - 0
      <4> HIDE DEF X, P
      <4>1. Cardinality(X \cup P) = Cardinality(X) + Cardinality(P) - Cardinality(X \cap P)
        BY <3>0, FS_Union
      <4> QED
        BY <3>0, <4>1, FS_EmptySet
    <3> QED
      BY <1>2, <1>3, <2>3, <3>1
  <2>9. Bounded(q)
    <3>1. sessions[x].energy \in Int
      BY <1>3, <2>3
    <3> HIDE DEF p, C
    <3> QED
      BY <1>2, <2>4, <2>5, <2>8, <3>1
  <2> QED
    BY <2>1, <2>9
<1>6. Sizes = {}
  <2> HIDE DEF Bounded
  <2>1. Sizes \subseteq Nat
    OBVIOUS
  <2> HIDE DEF Sizes
  <2> QED
    BY <1>5, <2>1, LeastNat
<1> QED
  BY <1>1, <1>6

\* No energy is billed twice: all completed sessions together carry at most what
\* the register shows, because each carries the difference of its readings and
\* their intervals are disjoint parts of the register.
THEOREM NoEnergyBilledTwice == ASSUME CallsDoNotOverlap, Reliable PROVE Spec => []NoDoubleBilling
<1>1. TypeInv /\ EnergyInv /\ ReliableInv /\ ApartInv => NoDoubleBilling
  <2> SUFFICES ASSUME TypeInv, EnergyInv, ReliableInv, ApartInv PROVE NoDoubleBilling
    OBVIOUS
  <2> DEFINE C == {t \in TxnIds : sessions[t].status = "completed"}
  <2>1. meter \in Nat /\ MaxTxn \in Nat
    BY ConstTypes DEF TypeInv, TypeOK
  <2>2. IsFiniteSet(C)
    <3>1. IsFiniteSet(TxnIds) /\ C \in SUBSET TxnIds
      BY <2>1, FS_Interval DEF TxnIds
    <3> HIDE DEF C
    <3> QED
      BY <3>1, FS_Subset
  <2>3. PICK f : IsEnergySum(f, SUBSET C) /\ MapThenSumSet(LAMBDA t : sessions[t].energy, C) = f[C]
    BY <2>2, SumOfEnergies
  <2>4. f[C] \in Int /\ f[C] <= Cardinality(Covered(C))
    BY <2>3, SumWithinCovered DEF Completed
  <2>5. Cardinality(Covered(C)) \in Nat /\ Cardinality(Covered(C)) <= meter
    <3>1. IsFiniteSet(1..meter) /\ Cardinality(1..meter) = meter
      BY <2>1, FS_Interval
    <3>2. Covered(C) \in SUBSET (1..meter)
      BY DEF Covered
    <3> QED
      BY <3>1, <3>2, FS_Subset, FS_CardinalityType
  <2>6. f[C] <= meter
    BY <2>1, <2>4, <2>5
  <2> QED
    BY <2>3, <2>6 DEF NoDoubleBilling
<1> QED
  BY <1>1, ApartInvariant, PTL
=============================================================================
