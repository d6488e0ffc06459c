---------------------------- MODULE SessionLedger ----------------------------
(***************************************************************************)
(* What the session table promises to whoever bills from it, with nothing  *)
(* of how handlers, retries and restarts get there: an entry is opened once *)
(* at the register value its transaction began at, and closed once with an *)
(* energy the register has advanced since; then it is final.               *)
(***************************************************************************)
EXTENDS Integers

CONSTANTS
  Entries,     \* transaction ids
  MaxRegister  \* bound: highest register value

VARIABLES register, ledger

NoEntry == [status |-> "absent", start |-> 0, energy |-> 0]

Init ==
  /\ register = 0
  /\ ledger = [t \in Entries |-> NoEntry]

\* The meter counts up.
Advance ==
  /\ register' \in (register + 1)..MaxRegister
  /\ UNCHANGED ledger

\* A transaction that began at a register value of now or earlier gets a fresh entry.
Open(t) ==
  /\ ledger[t].status = "absent"
  /\ \E start \in 0..register :
       ledger' = [ledger EXCEPT ![t] = [status |-> "active", start |-> start, energy |-> 0]]
  /\ UNCHANGED register

\* An open entry is credited and closed.
Close(t) ==
  /\ ledger[t].status = "active"
  /\ \E energy \in 0..(register - ledger[t].start) :
       ledger' = [ledger EXCEPT ![t].status = "completed", ![t].energy = energy]
  /\ UNCHANGED register

Next ==
  \/ Advance
  \/ \E t \in Entries : Open(t) \/ Close(t)

Spec == Init /\ [][Next]_<<register, ledger>>
=============================================================================
