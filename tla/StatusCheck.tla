----------------------------- MODULE StatusCheck -----------------------------
(***************************************************************************)
(* The checker of stale connectors (internal/ocpp/statuscheck.go).  The    *)
(* cloud proxy drops status notifications; a goroutine that sleeps for the *)
(* configured threshold asks a connected charger for a new one when a      *)
(* connector has been silent for longer than that, and not again within    *)
(* the same time.  The setting may change while it sleeps.                 *)
(*                                                                         *)
(* Times are ages, in minutes, that stop growing at Old: nothing compares  *)
(* beyond.  A connector without a stored time counts as Old.               *)
(***************************************************************************)
EXTENDS Integers, FiniteSetsExt, Functions

CONSTANTS
  Connectors,      \* of the one charger
  Thresholds,      \* settings of the status check interval, 0 = disabled
  IdleInterval,    \* statusCheckIdleInterval
  Old

ASSUME StatusAssumption ==
  /\ Thresholds \subseteq Nat
  /\ IdleInterval \in Nat \ {0}
  /\ Old \in Nat /\ \A t \in Thresholds : t < Old

VARIABLES
  threshold,       \* the setting
  asleep,          \* what is left of the loop's timer
  up,              \* cp.Connected
  silent,          \* last_status_notification of the known connectors, as ages
  lastFire,        \* StatusChecker.lastFire, as an age; Old: none
  unasked          \* history: how long no trigger was sent while there was cause

statusVars == <<threshold, asleep, up, silent, lastFire, unasked>>

Sleep(t) == IF t = 0 THEN IdleInterval ELSE t
Older(age) == Min({Old, age + 1})

StatusInit ==
  /\ threshold \in Thresholds
  /\ asleep = Sleep(threshold)
  /\ up \in BOOLEAN
  /\ \E known \in SUBSET Connectors : silent = [c \in known |-> Old]
  /\ lastFire = Old
  /\ unasked = 0

allowFire == lastFire >= threshold

\* A mutant: a fresh connector vouches for the others.
AllStale(unread) ==
  DOMAIN silent = {} \/ \A c \in DOMAIN silent \ unread : silent[c] > threshold

\* Any stale connector, one that cannot be read, or none known at all.
Stale(unread) ==
  unread # {} \/ DOMAIN silent = {} \/ \E c \in DOMAIN silent : silent[c] > threshold

\* tick, and the timer for the setting as it is now.
Check ==
  /\ asleep = 0
  /\ \E unread \in SUBSET DOMAIN silent :
       IF threshold > 0 /\ up /\ Stale(unread) /\ allowFire
       THEN lastFire' = 0 /\ unasked' = 0
       ELSE UNCHANGED <<lastFire, unasked>>
  /\ asleep' = Sleep(threshold)
  /\ UNCHANGED <<threshold, up, silent>>

MinutePasses ==
  /\ asleep > 0
  /\ asleep' = asleep - 1
  /\ silent' = [c \in DOMAIN silent |-> Older(silent[c])]
  /\ lastFire' = Older(lastFire)
  /\ unasked' = IF threshold > 0 /\ up THEN Min({2 * Old, unasked + 1}) ELSE 0
  /\ UNCHANGED <<threshold, up>>

\* A status notification arrives, asked for or not.
Notified ==
  /\ up
  /\ \E c \in Connectors :
       silent' = [d \in DOMAIN silent \cup {c} |-> IF d = c THEN 0 ELSE silent[d]]
  /\ UNCHANGED <<threshold, asleep, up, lastFire, unasked>>

Connection ==
  /\ up' = ~up
  /\ unasked' = 0
  /\ UNCHANGED <<threshold, asleep, silent, lastFire>>

SetThreshold ==
  /\ threshold' \in Thresholds \ {threshold}
  /\ unasked' = 0
  /\ UNCHANGED <<asleep, up, silent, lastFire>>

StatusNext == Check \/ MinutePasses \/ Notified \/ Connection \/ SetThreshold

StatusSpec == StatusInit /\ [][StatusNext]_statusVars

\* Is there cause to ask, and since when?
Unanswered ==
  Min({unasked} \cup (IF DOMAIN silent = {} THEN {} ELSE {Max(Range(silent))}))

\* While the check is enabled and the charger connected, a connector that falls
\* silent is asked for its status at the latest within the longest sleep that any
\* setting gives plus the threshold in force: the sleep under way is that of an
\* older setting, and the cooldown that an earlier trigger began ends with the
\* threshold.  Counted from a change of the setting or the connection, if later.
SilenceIsAsked ==
  threshold > 0 /\ up => Unanswered <= Max({IdleInterval} \cup Thresholds) + threshold
=============================================================================
