------------------------------ MODULE SocTarget ------------------------------
(***************************************************************************)
(* The car's charge limits (internal/vehicle/renault.go: pollTierB,        *)
(* getSocLevel, SetSocTarget, putSocLevel and the cache behind them).  The *)
(* car holds a floor (socMin) and a target (socTarget) that its owner may  *)
(* change in the MyRenault app.  The slow tier of the poller reads both,   *)
(* rarely, because the endpoint has a strict quota; a page writes the      *)
(* target and, in the same POST, must repeat the floor.  A read is cut at  *)
(* the answer, a write at the call and at the settings, so that one may    *)
(* overtake the other.  0 is an unknown or missing value.                  *)
(***************************************************************************)
EXTENDS Naturals

CONSTANTS Floors, Targets,        \* percentages
          MaxSet, MaxOwner,       \* writes by the page and by the owner
          MaxLoss, MaxReboot      \* calls that fail; restarts

ASSUME LimitAssumption == Floors \subseteq Nat \ {0} /\ Targets \subseteq Nat \ {0}

VARIABLES
  carMin, carTarget,          \* the car
  socMin, socTarget,          \* vehicle.soc_min, vehicle.soc_target
  backedOff, recentlyRead,    \* soc_level_backoff_until, soc_level_read_at
  cachedMin,                  \* Renault.socMin; 0 is not socLevelKnown
  reader, answer,             \* pollTierB, and what the car answered
  writer, request,            \* SetSocTarget, and what it is about to send
  sets, owners, losses, reboots, \* what the bounds count
  floors                      \* history: every floor the owner ever chose

carVars  == <<carMin, carTarget>>
setting  == <<socMin, socTarget, backedOff, recentlyRead>>
counts   == <<sets, owners, losses, reboots>>
socVars  == <<carVars, setting, cachedMin, reader, answer, writer, request,
              counts, floors>>

Floor0  == Floors \union {0}
Target0 == Targets \union {0}
NoAnswer  == [min |-> 0, target |-> 0]
NoRequest == [min |-> 0, target |-> 0, second |-> FALSE]

SocTypeOK ==
  /\ carMin \in Floors /\ carTarget \in Targets /\ floors \subseteq Floors
  /\ socMin \in Floor0 /\ socTarget \in Target0 /\ cachedMin \in Floor0
  /\ backedOff \in BOOLEAN /\ recentlyRead \in BOOLEAN
  /\ reader \in {"idle", "asked", "answered"}
  /\ answer \in [min : Floor0, target : Target0]
  /\ writer \in {"idle", "auth", "floor", "asked", "put", "reauth", "stored"}
  /\ request \in [min : Floor0, target : Target0, second : BOOLEAN]
  /\ sets \in Nat /\ owners \in Nat /\ losses \in Nat /\ reboots \in Nat

\* Before the first read, or after one in an earlier life of the process.
SocInit ==
  /\ carMin \in Floors /\ carTarget \in Targets /\ floors = {carMin}
  /\ \/ socMin = 0 /\ socTarget = 0
     \/ socMin = carMin /\ socTarget = carTarget
  /\ cachedMin = socMin /\ backedOff = FALSE /\ recentlyRead = FALSE
  /\ reader = "idle" /\ answer = NoAnswer
  /\ writer = "idle" /\ request = NoRequest
  /\ sets = 0 /\ owners = 0 /\ losses = 0 /\ reboots = 0

Lost == losses < MaxLoss /\ losses' = losses + 1 /\ UNCHANGED <<sets, owners, reboots>>

\* A mutant: a limit that is known is not replaced.
KeptFirst(new, old) == IF old > 0 THEN old ELSE new

\* A zero never replaces a known limit.
Kept(new, old) == IF new > 0 THEN new ELSE old

\* What getSocLevel may return of the limits: both, or a response that lacks
\* one of them (which uses up a failure).
Whole   == [min |-> carMin, target |-> carTarget]
Partial == {[Whole EXCEPT !.min = 0], [Whole EXCEPT !.target = 0], NoAnswer}

-----------------------------------------------------------------------------
(* pollTierB.                                                               *)

shouldFetchSocLevel == cachedMin = 0 \/ ~recentlyRead

\* A tier that is not due, or backed off, reads nothing.
AskLimits ==
  /\ reader = "idle" /\ shouldFetchSocLevel /\ ~backedOff
  /\ reader' = "asked"
  /\ UNCHANGED <<carVars, setting, cachedMin, answer, writer, request, counts,
                 floors>>

Answered ==
  /\ reader = "asked" /\ reader' = "answered"
  /\ \/ answer' = Whole /\ UNCHANGED counts
     \/ answer' \in Partial /\ Lost
  /\ UNCHANGED <<carVars, setting, cachedMin, writer, request, floors>>

\* 429: the poller stops asking for an hour, restarts included.
RateLimited ==
  /\ reader = "asked" /\ Lost
  /\ reader' = "idle" /\ backedOff' = TRUE
  /\ UNCHANGED <<carVars, socMin, socTarget, recentlyRead, cachedMin, answer,
                 writer, request, floors>>

\* Not supported, forbidden or unreadable: nothing changes.
Unavailable ==
  /\ reader = "asked" /\ Lost /\ reader' = "idle"
  /\ UNCHANGED <<carVars, setting, cachedMin, answer, writer, request, floors>>

StoreLimits ==
  /\ reader = "answered"
  /\ backedOff' = FALSE /\ recentlyRead' = TRUE
  /\ socMin' = Kept(answer.min, socMin)
  /\ socTarget' = Kept(answer.target, socTarget)
  /\ cachedMin' = Kept(answer.min, cachedMin)
  /\ reader' = "idle" /\ answer' = NoAnswer
  /\ UNCHANGED <<carVars, writer, request, counts, floors>>

-----------------------------------------------------------------------------
(* SetSocTarget.                                                            *)

WriterDone == writer' = "idle" /\ request' = NoRequest

SetSocTarget ==
  /\ writer = "idle" /\ sets < MaxSet /\ sets' = sets + 1
  /\ \E v \in Targets : request' = [NoRequest EXCEPT !.target = v]
  /\ writer' = "auth"
  /\ UNCHANGED <<carVars, setting, cachedMin, reader, answer, owners, losses,
                 reboots, floors>>

Authenticated ==
  /\ writer \in {"auth", "reauth"}
  /\ writer' = IF writer = "auth" THEN "floor" ELSE "put"
  /\ UNCHANGED <<carVars, setting, cachedMin, reader, answer, request, counts,
                 floors>>

NotAuthenticated ==
  /\ writer \in {"auth", "reauth"} /\ Lost /\ WriterDone
  /\ UNCHANGED <<carVars, setting, cachedMin, reader, answer, floors>>

\* The floor to repeat: the cached one, else the stored one, else it is read.
KnownFloor == IF cachedMin > 0 THEN cachedMin ELSE socMin

\* A mutant: an unknown floor is sent as it is.
ChooseAnyFloor ==
  /\ writer = "floor"
  /\ request' = [request EXCEPT !.min = KnownFloor]
  /\ writer' = "put"
  /\ UNCHANGED <<carVars, setting, cachedMin, reader, answer, counts, floors>>

ChooseFloor ==
  /\ writer = "floor"
  /\ request' = [request EXCEPT !.min = KnownFloor]
  /\ writer' = IF KnownFloor > 0 THEN "put" ELSE "asked"
  /\ UNCHANGED <<carVars, setting, cachedMin, reader, answer, counts, floors>>

\* The live read ignores the back-off; without a floor the write is refused.
FloorRead ==
  /\ writer = "asked"
  /\ \E a \in {Whole} \union Partial :
       /\ a # Whole => losses < MaxLoss
       /\ losses' = IF a = Whole THEN losses ELSE losses + 1
       /\ cachedMin' = Kept(a.min, cachedMin)
       /\ IF a.min > 0
            THEN request' = [request EXCEPT !.min = a.min] /\ writer' = "put"
            ELSE WriterDone
  /\ UNCHANGED <<carVars, setting, reader, answer, sets, owners, reboots, floors>>

Post == carMin' = request.min /\ carTarget' = request.target

PutOk ==
  /\ writer = "put" /\ Post /\ writer' = "stored"
  /\ UNCHANGED <<setting, cachedMin, reader, answer, request, counts, floors>>

\* The POST fails, or its answer is lost; one new login, one more try.
PutFails ==
  /\ writer = "put" /\ Lost
  /\ Post \/ UNCHANGED carVars
  /\ IF request.second
       THEN WriterDone
       ELSE writer' = "reauth" /\ request' = [request EXCEPT !.second = TRUE]
  /\ UNCHANGED <<setting, cachedMin, reader, answer, floors>>

StoreTarget ==
  /\ writer = "stored"
  /\ socTarget' = request.target /\ socMin' = request.min /\ WriterDone
  /\ UNCHANGED <<carVars, backedOff, recentlyRead, cachedMin, reader, answer,
                 counts, floors>>

-----------------------------------------------------------------------------
(* The rest of the world.                                                   *)

\* The owner uses the MyRenault app.
OwnerSets ==
  /\ owners < MaxOwner /\ owners' = owners + 1
  /\ \/ carMin' \in Floors /\ carTarget' = carTarget
     \/ carTarget' \in Targets /\ carMin' = carMin
  /\ floors' = floors \union {carMin'}
  /\ UNCHANGED <<setting, cachedMin, reader, answer, writer, request, sets,
                 losses, reboots>>

\* socLevelRefresh, socLevelBackoff pass.
ReadingAges ==
  /\ recentlyRead /\ recentlyRead' = FALSE
  /\ UNCHANGED <<carVars, socMin, socTarget, backedOff, cachedMin, reader,
                 answer, writer, request, counts, floors>>

BackoffEnds ==
  /\ backedOff /\ backedOff' = FALSE
  /\ UNCHANGED <<carVars, socMin, socTarget, recentlyRead, cachedMin, reader,
                 answer, writer, request, counts, floors>>

SocRestart ==
  /\ reboots < MaxReboot /\ reboots' = reboots + 1
  /\ cachedMin' = socMin
  /\ reader' = "idle" /\ answer' = NoAnswer /\ WriterDone
  /\ UNCHANGED <<carVars, setting, sets, owners, losses, floors>>

Reading == Answered \/ RateLimited \/ Unavailable \/ StoreLimits
Writing == \/ Authenticated \/ NotAuthenticated \/ ChooseFloor \/ FloorRead
           \/ PutOk \/ PutFails \/ StoreTarget

SocNext ==
  \/ AskLimits \/ Reading \/ SetSocTarget \/ Writing
  \/ OwnerSets \/ ReadingAges \/ BackoffEnds \/ SocRestart

SocSpec == SocInit /\ [][SocNext]_socVars

\* The loop comes back to the slow tier, calls end, and time passes.
SocFairSpec ==
  /\ SocSpec
  /\ WF_socVars(AskLimits) /\ WF_socVars(Reading) /\ WF_socVars(Writing)
  /\ WF_socVars(ReadingAges) /\ WF_socVars(BackoffEnds)

-----------------------------------------------------------------------------
(* What the charge limits promise.                                          *)

\* The floor of the car is always one its owner chose: no write invents one,
\* although every write has to carry one and it may be unknown, stale or
\* missing in a response.
FloorIsReal == carMin \in floors

\* The stored target, which the scheduler plans with, keeps coming back to the
\* car's: a read that was under way during a write, a lost answer or a change
\* in the app leaves it wrong only for a while.
TargetFollows == []<>(socTarget = carTarget)
=============================================================================
