--------------------------- MODULE SocTargetProofs ---------------------------
(***************************************************************************)
(* Proofs about SocTarget, for any limits, any number of writes by the     *)
(* page and by the owner, of failures and of restarts: the variables keep  *)
(* their types, and the car's floor is always one its owner chose.         *)
(***************************************************************************)
EXTENDS SocTarget, TLAPS

LEMMA LimitFacts ==
  /\ Floors \subseteq Nat /\ 0 \notin Floors /\ 0 \in Floor0 /\ Floor0 \subseteq Nat
  /\ Targets \subseteq Nat /\ 0 \notin Targets /\ 0 \in Target0 /\ Target0 \subseteq Nat
  BY LimitAssumption DEF LimitAssumption, Floor0, Target0

LEMMA KeptIsOne == \A new, old : Kept(new, old) \in {new, old}
  BY DEF Kept

Answers  == [min : Floor0, target : Target0]
Requests == [min : Floor0, target : Target0, second : BOOLEAN]

LEMMA NoneTypes == NoAnswer \in Answers /\ NoRequest \in Requests
  BY LimitFacts DEF NoAnswer, NoRequest, Answers, Requests

\* What the car may answer: each limit is its own or missing.
LEMMA AnswerTypes ==
  ASSUME carMin \in Floors, carTarget \in Targets
  PROVE  /\ \A a \in {Whole} \union Partial : a \in Answers /\ a.min \in {carMin, 0}
<1>1. Floors \subseteq Floor0 /\ Targets \subseteq Target0
  BY DEF Floor0, Target0
<1>2. /\ Partial = {[min |-> 0, target |-> carTarget], [min |-> carMin, target |-> 0], NoAnswer}
      /\ Whole = [min |-> carMin, target |-> carTarget]
  BY DEF Partial, Whole
<1>3. /\ NoAnswer.min = 0
      /\ \A x \in Floor0, y \in Target0 : [min |-> x, target |-> y] \in Answers
  BY DEF NoAnswer, Answers
<1>4. NoAnswer \in Answers
  BY NoneTypes
<1> QED
  BY <1>1, <1>2, <1>3, <1>4, LimitFacts

\* The requests a step may make of another.
LEMMA RequestTypes ==
  ASSUME NEW r \in Requests
  PROVE  /\ \A x \in Floor0 :
              LET q == [r EXCEPT !.min = x]
              IN  q \in Requests /\ q.min = x /\ q.target = r.target
         /\ LET q == [r EXCEPT !.second = TRUE]
            IN  q \in Requests /\ q.min = r.min /\ q.target = r.target
         /\ \A v \in Targets :
              LET q == [NoRequest EXCEPT !.target = v]
              IN  q \in Requests /\ q.min = 0 /\ q.target = v
<1>1. ASSUME NEW x \in Floor0
      PROVE  LET q == [r EXCEPT !.min = x]
             IN  q \in Requests /\ q.min = x /\ q.target = r.target
  BY DEF Requests
<1>2. LET q == [r EXCEPT !.second = TRUE]
      IN  q \in Requests /\ q.min = r.min /\ q.target = r.target
  BY DEF Requests
<1>3. ASSUME NEW v \in Targets
      PROVE  LET q == [NoRequest EXCEPT !.target = v]
             IN  q \in Requests /\ q.min = 0 /\ q.target = v
  BY LimitFacts DEF NoRequest, Requests, Target0
<1> QED
  BY <1>1, <1>2, <1>3

-----------------------------------------------------------------------------
(* A request carries a target, and a floor when it is to be sent; every     *)
(* floor that is held anywhere was chosen by the owner.                     *)

Chosen(m) == m = 0 \/ m \in floors

Sound ==
  /\ carMin \in floors
  /\ Chosen(socMin) /\ Chosen(cachedMin) /\ Chosen(answer.min) /\ Chosen(request.min)
  /\ writer # "idle" => request.target # 0
  /\ writer \in {"put", "reauth", "stored"} => request.min # 0

SocIInv == SocTypeOK /\ Sound

LEMMA SocInitSound == SocInit => SocIInv
<1> SUFFICES ASSUME SocInit PROVE SocIInv
  OBVIOUS
<1>1. SocTypeOK
  BY NoneTypes, LimitFacts DEF SocInit, SocTypeOK, Answers, Requests, Floor0, Target0
<1>2. answer.min = 0 /\ request.min = 0
  BY DEF SocInit, NoAnswer, NoRequest
<1>3. Sound
  BY <1>2 DEF SocInit, Sound, Chosen
<1> QED
  BY <1>1, <1>3 DEF SocIInv

\* What the steps of the poller change.
LEMMA ReaderKeeps ==
  ASSUME SocIInv, AskLimits \/ Reading PROVE SocIInv'
<1> USE DEF carVars, setting, counts, SocIInv
<1>0. /\ carMin \in Floors /\ carTarget \in Targets
      /\ socMin \in Floor0 /\ cachedMin \in Floor0 /\ socTarget \in Target0
      /\ answer \in Answers
  BY DEF SocTypeOK, Answers
<1>a. answer.min \in Floor0 /\ answer.target \in Target0
  BY <1>0 DEF Answers
<1>n. NoAnswer \in Answers /\ NoAnswer.min = 0
  BY NoneTypes DEF NoAnswer
<1>1. CASE AskLimits
  <2>1. SocTypeOK'
    BY <1>1 DEF AskLimits, SocTypeOK
  <2>2. Sound'
    BY <1>1 DEF AskLimits, Sound, Chosen
  <2> QED
    BY <2>1, <2>2
<1>2. CASE Answered
  <2>1. answer' \in {Whole} \union Partial
    BY <1>2 DEF Answered
  <2>2. answer' \in Answers /\ answer'.min \in {carMin, 0}
    BY <1>0, <2>1, AnswerTypes
  <2>3. losses' \in Nat /\ sets' = sets /\ owners' = owners /\ reboots' = reboots
    BY <1>2 DEF Answered, Lost, SocTypeOK
  <2>4. SocTypeOK'
    BY <1>2, <2>2, <2>3 DEF Answered, SocTypeOK, Answers
  <2>5. Sound'
    BY <1>2, <2>2 DEF Answered, Sound, Chosen
  <2> QED
    BY <2>4, <2>5
<1>3. CASE RateLimited \/ Unavailable
  <2>1. SocTypeOK'
    <3>1. Lost /\ reader' = "idle" /\ backedOff' \in {TRUE, backedOff}
      BY <1>3 DEF RateLimited, Unavailable
    <3>2. losses' \in Nat /\ sets' = sets /\ owners' = owners /\ reboots' = reboots
      BY <3>1 DEF Lost, SocTypeOK
    <3>3. backedOff' \in BOOLEAN
      BY <3>1 DEF SocTypeOK
    <3>4. UNCHANGED <<carVars, socMin, socTarget, recentlyRead, cachedMin, answer, writer, request,
                      floors>>
      BY <1>3 DEF RateLimited, Unavailable
    <3> QED
      BY <3>1, <3>2, <3>3, <3>4 DEF SocTypeOK
  <2>2. Sound'
    BY <1>3 DEF RateLimited, Unavailable, Sound, Chosen
  <2> QED
    BY <2>1, <2>2
<1>4. CASE StoreLimits
  <2>1. /\ socMin' \in {answer.min, socMin} /\ cachedMin' \in {answer.min, cachedMin}
        /\ socTarget' \in {answer.target, socTarget}
    BY <1>4, KeptIsOne DEF StoreLimits
  <2>2. /\ socMin' \in Floor0 /\ cachedMin' \in Floor0 /\ socTarget' \in Target0
        /\ answer' \in Answers
    BY <1>0, <1>a, <1>n, <1>4, <2>1 DEF StoreLimits
  <2>3. SocTypeOK'
    BY <1>4, <2>2 DEF StoreLimits, SocTypeOK, Answers
  <2>4. Sound'
    BY <1>n, <1>4, <2>1 DEF StoreLimits, Sound, Chosen
  <2> QED
    BY <2>3, <2>4
<1> QED
  BY <1>1, <1>2, <1>3, <1>4 DEF Reading

\* What a page's write changes.
LEMMA WriterKeeps ==
  ASSUME SocIInv, SetSocTarget \/ Writing PROVE SocIInv'
<1> USE DEF carVars, setting, counts, SocIInv
<1>0. /\ carMin \in Floors /\ carTarget \in Targets
      /\ socMin \in Floor0 /\ cachedMin \in Floor0 /\ request \in Requests
  BY DEF SocTypeOK, Requests
<1>n. NoRequest \in Requests /\ NoRequest.min = 0
  BY NoneTypes DEF NoRequest
<1>1. CASE SetSocTarget
  <2>1. request' \in Requests /\ request'.min = 0 /\ request'.target # 0
    BY <1>0, <1>1, RequestTypes, LimitFacts DEF SetSocTarget
  <2>2. SocTypeOK'
    BY <1>1, <2>1 DEF SetSocTarget, SocTypeOK, Requests
  <2>3. Sound'
    BY <1>1, <2>1 DEF SetSocTarget, Sound, Chosen
  <2> QED
    BY <2>2, <2>3
<1>2. CASE Authenticated
  <2>1. SocTypeOK'
    BY <1>2 DEF Authenticated, SocTypeOK
  <2>2. Sound'
    BY <1>2 DEF Authenticated, Sound, Chosen
  <2> QED
    BY <2>1, <2>2
<1>3. CASE NotAuthenticated
  <2>1. SocTypeOK'
    BY <1>n, <1>3 DEF NotAuthenticated, WriterDone, Lost, SocTypeOK, Requests
  <2>2. Sound'
    BY <1>n, <1>3 DEF NotAuthenticated, WriterDone, Sound, Chosen
  <2> QED
    BY <2>1, <2>2
<1>4. CASE ChooseFloor
  <2>1. KnownFloor \in {cachedMin, socMin} /\ KnownFloor \in Floor0
    BY <1>0 DEF KnownFloor
  <2>2. request' \in Requests /\ request'.min = KnownFloor /\ request'.target = request.target
    BY <1>0, <1>4, <2>1, RequestTypes DEF ChooseFloor
  <2>3. writer' \in {"put", "asked"} /\ (writer' = "put" => KnownFloor # 0)
    BY <1>4 DEF ChooseFloor
  <2>4. SocTypeOK'
    BY <1>4, <2>2, <2>3 DEF ChooseFloor, SocTypeOK, Requests
  <2>5. Sound'
    BY <1>4, <2>1, <2>2, <2>3 DEF ChooseFloor, Sound, Chosen
  <2> QED
    BY <2>4, <2>5
<1>5. CASE FloorRead
  <2>1. PICK a \in {Whole} \union Partial :
          /\ losses' = IF a = Whole THEN losses ELSE losses + 1
          /\ cachedMin' = Kept(a.min, cachedMin)
          /\ IF a.min > 0
               THEN request' = [request EXCEPT !.min = a.min] /\ writer' = "put"
               ELSE WriterDone
    BY <1>5 DEF FloorRead
  <2>2. a.min \in {carMin, 0} /\ a.min \in Floor0
    BY <1>0, AnswerTypes DEF Answers
  <2>3. cachedMin' \in {a.min, cachedMin} /\ losses' \in Nat
    BY <2>1, KeptIsOne DEF SocTypeOK
  <2>4. request' \in Requests /\ request'.min \in {a.min, 0}
    <3>1. CASE a.min > 0
      BY <1>0, <2>1, <2>2, <3>1, RequestTypes
    <3>2. CASE ~(a.min > 0)
      BY <1>n, <2>1, <3>2 DEF WriterDone
    <3> QED
      BY <3>1, <3>2
  <2>5. /\ writer' \in {"put", "idle"}
        /\ writer' = "put" => request'.min # 0 /\ request'.target = request.target
    <3>1. CASE a.min > 0
      <4>1. a.min # 0
        BY <2>2, <3>1, LimitFacts
      <4>2. writer' = "put" /\ request' = [request EXCEPT !.min = a.min]
        BY <2>1, <3>1
      <4>3. request'.min = a.min /\ request'.target = request.target
        BY <1>0, <2>2, <4>2, RequestTypes
      <4> QED
        BY <4>1, <4>2, <4>3
    <3>2. CASE ~(a.min > 0)
      BY <2>1, <3>2 DEF WriterDone
    <3> QED
      BY <3>1, <3>2
  <2>6. SocTypeOK'
    BY <1>0, <1>5, <2>2, <2>3, <2>4, <2>5 DEF FloorRead, SocTypeOK, Requests
  <2>7. Sound'
    BY <1>5, <2>2, <2>3, <2>4, <2>5 DEF FloorRead, Sound, Chosen
  <2> QED
    BY <2>6, <2>7
<1>6. CASE PutOk \/ PutFails
  <2>1. writer = "put"
    BY <1>6 DEF PutOk, PutFails
  <2>2. request.min \in Floor0 \ {0} /\ request.target \in Target0 \ {0}
    BY <1>0, <2>1 DEF Sound, Requests
  <2>3. request.min \in Floors /\ request.target \in Targets /\ request.min \in floors
    BY <2>2 DEF Sound, Chosen, Floor0, Target0
  <2>4. carMin' \in {carMin, request.min} /\ carTarget' \in {carTarget, request.target}
    BY <1>6 DEF PutOk, PutFails, Post
  <2>5. /\ request' \in Requests
        /\ writer' # "idle" => request'.min = request.min /\ request'.target = request.target
        /\ request'.min \in {request.min, 0}
    BY <1>0, <1>n, <1>6, RequestTypes DEF PutOk, PutFails, WriterDone
  <2>6. writer' \in {"stored", "reauth", "idle"} /\ losses' \in Nat /\ sets' = sets
        /\ owners' = owners /\ reboots' = reboots
    BY <1>6 DEF PutOk, PutFails, WriterDone, Lost, SocTypeOK
  <2>7. UNCHANGED <<setting, cachedMin, reader, answer, floors>>
    BY <1>6 DEF PutOk, PutFails
  <2>8. SocTypeOK'
    BY <1>0, <2>3, <2>4, <2>5, <2>6, <2>7 DEF SocTypeOK, Requests
  <2>9. Sound'
    BY <2>2, <2>3, <2>4, <2>5, <2>6, <2>7 DEF Sound, Chosen
  <2> QED
    BY <2>8, <2>9
<1>7. CASE StoreTarget
  <2>1. request.min \in Floor0 /\ request.target \in Target0
    BY <1>0 DEF Requests
  <2>2. SocTypeOK'
    BY <1>n, <1>7, <2>1 DEF StoreTarget, WriterDone, SocTypeOK, Requests
  <2>3. Sound'
    BY <1>n, <1>7 DEF StoreTarget, WriterDone, Sound, Chosen
  <2> QED
    BY <2>2, <2>3
<1> QED
  BY <1>1, <1>2, <1>3, <1>4, <1>5, <1>6, <1>7 DEF Writing

\* What the owner, time and a restart change.
LEMMA RestKeeps ==
  ASSUME SocIInv, OwnerSets \/ ReadingAges \/ BackoffEnds \/ SocRestart PROVE SocIInv'
<1> USE DEF carVars, setting, counts, SocIInv
<1>1. CASE OwnerSets
  <2>1. /\ carMin' \in Floors /\ carTarget' \in Targets /\ floors' = floors \union {carMin'}
        /\ floors' \subseteq Floors /\ owners' \in Nat
    BY <1>1 DEF OwnerSets, SocTypeOK
  <2>2. SocTypeOK'
    BY <1>1, <2>1 DEF OwnerSets, SocTypeOK
  <2>3. Sound'
    BY <1>1, <2>1 DEF OwnerSets, Sound, Chosen
  <2> QED
    BY <2>2, <2>3
<1>2. CASE ReadingAges \/ BackoffEnds
  <2>1. SocTypeOK'
    BY <1>2 DEF ReadingAges, BackoffEnds, SocTypeOK
  <2>2. Sound'
    BY <1>2 DEF ReadingAges, BackoffEnds, Sound, Chosen
  <2> QED
    BY <2>1, <2>2
<1>3. CASE SocRestart
  <2>1. NoAnswer \in Answers /\ NoRequest \in Requests /\ NoAnswer.min = 0 /\ NoRequest.min = 0
    BY NoneTypes DEF NoAnswer, NoRequest
  <2>2. SocTypeOK'
    BY <1>3, <2>1 DEF SocRestart, WriterDone, SocTypeOK, Answers, Requests
  <2>3. Sound'
    BY <1>3, <2>1 DEF SocRestart, WriterDone, Sound, Chosen
  <2> QED
    BY <2>2, <2>3
<1> QED
  BY <1>1, <1>2, <1>3

LEMMA SocStep == ASSUME SocIInv, [SocNext]_socVars PROVE SocIInv'
<1>1. CASE UNCHANGED socVars
  BY <1>1 DEF socVars, carVars, setting, counts, SocIInv, SocTypeOK, Sound, Chosen
<1> QED
  BY <1>1, ReaderKeeps, WriterKeeps, RestKeeps DEF SocNext

LEMMA SocInvariant == SocSpec => []SocIInv
<1>1. SocIInv /\ [SocNext]_socVars => SocIInv'
  BY SocStep
<1> QED
  BY <1>1, SocInitSound, PTL DEF SocSpec

\* Every variable keeps its range; in particular no request goes out without a
\* floor and a target (SetSocTarget refuses a write whose floor is unknown).
THEOREM SocTypeCorrect == SocSpec => []SocTypeOK
<1>1. SocIInv => SocTypeOK
  BY DEF SocIInv
<1> QED
  BY <1>1, SocInvariant, PTL

\* No write gives the car a floor its owner never chose, whatever is lost,
\* missing from a response, overtaken by another write or forgotten in a restart
\* (putSocLevel, persistSocLevel).
THEOREM FloorStaysReal == SocSpec => []FloorIsReal
<1>1. SocIInv => FloorIsReal
  BY DEF SocIInv, Sound, FloorIsReal
<1> QED
  BY <1>1, SocInvariant, PTL
==============================================================================
