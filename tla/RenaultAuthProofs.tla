-------------------------- MODULE RenaultAuthProofs --------------------------
(***************************************************************************)
(* Proofs about RenaultAuth, for any number of tokens, devices, failures,  *)
(* expiries and restarts: the variables keep their types, and, with one    *)
(* page at a time, the device that is stored is one Gigya trusts.          *)
(***************************************************************************)
EXTENDS RenaultAuth, TLAPS

Labels == {"idle"} \union Callers \union Starting \union Ending

LEMMA ConstantFacts ==
  /\ MaxDevice \in Nat /\ 0 \in Devices /\ NoToken \in TokenOrNo /\ Tokens \subseteq TokenOrNo
  /\ Devices \subseteq Nat /\ Poller \in Goroutines /\ Pages \subseteq Goroutines
<1>1. MaxDevice \in Nat
  BY DeviceAssumption
<1> QED
  BY <1>1 DEF Devices, TokenOrNo, Goroutines

LEMMA LabelFacts ==
  /\ \A l \in {"idle", "enter", "check", "login", "store", "token", "person", "jwt", "drop",
               "account", "call", "polled", "bootstrap", "challenge", "keep", "sendcode",
               "verify", "lockin", "persist", "mint", "record"} : l \in Labels
  BY DEF Labels, Callers, Starting, Ending

-----------------------------------------------------------------------------
(* Where the goroutines are, and what they remember.                        *)

Places == pc \in [Goroutines -> Labels] /\ arg \in [Goroutines -> Locals]

LEMMA LocalTypes ==
  /\ NoLocals \in Locals /\ NoLocals.dev = 0
  /\ \A r \in Locals :
       /\ r.dev \in Devices /\ r.token \in TokenOrNo /\ r.second \in BOOLEAN
       /\ \A t \in TokenOrNo : [r EXCEPT !["token"] = t] \in Locals
                               /\ [r EXCEPT !["token"] = t].dev = r.dev
       /\ \A d \in Devices : [r EXCEPT !["dev"] = d] \in Locals
                             /\ [r EXCEPT !["dev"] = d].dev = d
       /\ [r EXCEPT !["second"] = TRUE] \in Locals
       /\ [NoLocals EXCEPT !.second = r.second] \in Locals
       /\ \A b, c \in BOOLEAN : [r EXCEPT !.jwt = b, !.account = c] \in Locals
<1>1. NoLocals \in Locals /\ NoLocals.dev = 0
  BY ConstantFacts DEF NoLocals, Locals
<1>2. ASSUME NEW r \in Locals
      PROVE  r.dev \in Devices /\ r.token \in TokenOrNo /\ r.second \in BOOLEAN
  BY DEF Locals
<1>3. ASSUME NEW r \in Locals, NEW t \in TokenOrNo
      PROVE  [r EXCEPT !["token"] = t] \in Locals /\ [r EXCEPT !["token"] = t].dev = r.dev
  BY DEF Locals
<1>4. ASSUME NEW r \in Locals, NEW d \in Devices
      PROVE  [r EXCEPT !["dev"] = d] \in Locals /\ [r EXCEPT !["dev"] = d].dev = d
  BY DEF Locals
<1>5. ASSUME NEW r \in Locals PROVE [r EXCEPT !["second"] = TRUE] \in Locals
  BY DEF Locals
<1>6. ASSUME NEW r \in Locals PROVE [NoLocals EXCEPT !.second = r.second] \in Locals
  BY <1>1, <1>2 DEF Locals
<1>7. ASSUME NEW r \in Locals, NEW b \in BOOLEAN, NEW c \in BOOLEAN
      PROVE  [r EXCEPT !.jwt = b, !.account = c] \in Locals
  BY DEF Locals
<1> QED
  BY <1>1, <1>2, <1>3, <1>4, <1>5, <1>6, <1>7

\* What a goroutine may do to its own place and memory.
LEMMA MoveTypes ==
  ASSUME Places, NEW p \in Goroutines
  PROVE  /\ arg[p] \in Locals
         /\ \A l \in Labels : Goto(p, l) => pc' \in [Goroutines -> Labels] /\ pc'[p] = l
         /\ \A t \in TokenOrNo : Remember(p, "token", t) => 
              arg' \in [Goroutines -> Locals] /\ arg'[p].dev = arg[p].dev
         /\ \A d \in Devices : Remember(p, "dev", d) => 
              arg' \in [Goroutines -> Locals] /\ arg'[p].dev = d
         /\ Remember(p, "second", TRUE) => arg' \in [Goroutines -> Locals]
         /\ Return(p) => Places' /\ pc'[p] = "idle"
         /\ Ready(p) => Places' /\ pc'[p] = "call"
<1>0. arg[p] \in Locals
  BY DEF Places
<1>1. ASSUME NEW l \in Labels, Goto(p, l) PROVE pc' \in [Goroutines -> Labels] /\ pc'[p] = l
  BY <1>1 DEF Goto, Places
<1>2. ASSUME NEW t \in TokenOrNo, Remember(p, "token", t)
      PROVE  arg' \in [Goroutines -> Locals] /\ arg'[p].dev = arg[p].dev
  <2>1. arg' = [arg EXCEPT ![p] = [arg[p] EXCEPT !["token"] = t]]
    BY <1>2 DEF Remember
  <2> QED
    BY <1>0, <2>1, LocalTypes DEF Places
<1>3. ASSUME NEW d \in Devices, Remember(p, "dev", d)
      PROVE  arg' \in [Goroutines -> Locals] /\ arg'[p].dev = d
  <2>1. arg' = [arg EXCEPT ![p] = [arg[p] EXCEPT !["dev"] = d]]
    BY <1>3 DEF Remember
  <2> QED
    BY <1>0, <2>1, LocalTypes DEF Places
<1>4. ASSUME Remember(p, "second", TRUE) PROVE arg' \in [Goroutines -> Locals]
  <2>1. arg' = [arg EXCEPT ![p] = [arg[p] EXCEPT !["second"] = TRUE]]
    BY <1>4 DEF Remember
  <2> QED
    BY <1>0, <2>1, LocalTypes DEF Places
<1>5. ASSUME Return(p) PROVE Places' /\ pc'[p] = "idle"
  BY <1>1, <1>5, LabelFacts, LocalTypes DEF Return, Places
<1>6. ASSUME Ready(p) PROVE Places' /\ pc'[p] = "call"
  BY <1>0, <1>1, <1>6, LabelFacts, LocalTypes DEF Ready, Places
<1> QED
  BY <1>0, <1>1, <1>2, <1>3, <1>4, <1>5, <1>6

-----------------------------------------------------------------------------
(* The other variables.                                                     *)

Fields ==
  /\ session \in TokenOrNo /\ jwt \in TokenOrNo /\ diskSession \in TokenOrNo
  /\ gmid \in Devices /\ diskGmid \in Devices /\ devices \in Devices
  /\ person \in BOOLEAN /\ account \in BOOLEAN /\ tfaRequired \in BOOLEAN
  /\ tfa \in SUBSET Pending
  /\ accepted \subseteq Tokens /\ trusted \subseteq Devices
  /\ enforced \in BOOLEAN /\ linked \in BOOLEAN /\ strayed \in BOOLEAN

Counts == faults \in Nat /\ expiries \in Nat /\ crashes \in Nat /\ targets \in Nat

LEMMA TypeParts == AuthTypeOK <=> Places /\ Fields /\ Counts
  BY DEF AuthTypeOK, Places, Fields, Counts, Labels

LEMMA TypePartsNext == AuthTypeOK' <=> Places' /\ Fields' /\ Counts'
  BY DEF AuthTypeOK, Places, Fields, Counts, Labels

LEMMA FaultTypes == Counts /\ (Fault \/ UNCHANGED budgets) => Counts'
  BY DEF Counts, Fault, budgets

\* A login: a fresh token is accepted, and held.
LEMMA LoginTypes ==
  ASSUME Places, Fields, NEW p \in Goroutines,
         \E t \in Tokens : /\ Fresh(t)
                          /\ accepted' = (accepted \intersect Held) \union {t}
                          /\ session' = t /\ Remember(p, "token", t)
  PROVE  /\ accepted' \subseteq Tokens /\ session' \in TokenOrNo
         /\ arg' \in [Goroutines -> Locals] /\ arg'[p].dev = arg[p].dev
<1>1. PICK t \in Tokens : /\ accepted' = (accepted \intersect Held) \union {t}
                         /\ session' = t /\ Remember(p, "token", t)
  OBVIOUS
<1>2. t \in TokenOrNo
  BY ConstantFacts
<1>3. arg' \in [Goroutines -> Locals] /\ arg'[p].dev = arg[p].dev
  BY <1>1, <1>2, MoveTypes
<1> QED
  BY <1>1, <1>2, <1>3 DEF Fields

\* ensureAuth.
LEMMA EnsureTypes ==
  ASSUME AuthTypeOK, NEW p \in Goroutines, Ensure(p) PROVE AuthTypeOK'
<1> USE DEF memory, disk, gigya, budgets, history
<1>0. Places /\ Fields /\ Counts
  BY TypeParts
<1>l. arg[p] \in Locals /\ arg[p].token \in TokenOrNo /\ arg[p].dev \in Devices
  BY <1>0, MoveTypes, LocalTypes
<1>m. AfterPerson(p) \in {"account", "jwt"}
  BY DEF AfterPerson
<1>1. CASE EnterAuth(p)
  <2>1. CASE Ready(p)
    BY <1>0, <1>1, <2>1, MoveTypes, TypePartsNext DEF EnterAuth, Fields, Counts
  <2>2. CASE ~Ready(p)
    <3>1. /\ arg' = [arg EXCEPT ![p].jwt = (jwt # NoToken), ![p].account = account]
          /\ Goto(p, "check")
      BY <1>1, <2>2 DEF EnterAuth
    <3>2. (jwt # NoToken) \in BOOLEAN /\ account \in BOOLEAN
      BY <1>0 DEF Fields
    <3>3. arg' = [arg EXCEPT ![p] = [arg[p] EXCEPT !.jwt = (jwt # NoToken), !.account = account]]
      BY <1>0, <3>1 DEF Places
    <3>4. [arg[p] EXCEPT !.jwt = (jwt # NoToken), !.account = account] \in Locals
      BY <1>l, <3>2, LocalTypes
    <3>5. arg' \in [Goroutines -> Locals]
      BY <1>0, <3>3, <3>4 DEF Places
    <3>6. Places'
      BY <1>0, <3>1, <3>5, MoveTypes, LabelFacts DEF Places
    <3> QED
      BY <1>0, <1>1, <3>6, TypePartsNext DEF EnterAuth, Fields, Counts
  <2> QED
    BY <2>1, <2>2
<1>2. CASE CheckSession(p)
  <2>1. Places'
    <3>1. (IF session = NoToken THEN gmid ELSE arg[p].dev) \in Devices
      BY <1>0, <1>l DEF Fields
    <3>2. arg' \in [Goroutines -> Locals]
      BY <1>0, <1>2, <3>1, MoveTypes DEF CheckSession
    <3>3. Goto(p, "login") \/ Goto(p, "token")
      BY <1>2 DEF CheckSession
    <3> QED
      BY <1>0, <3>2, <3>3, MoveTypes, LabelFacts DEF Places
  <2> QED
    BY <1>0, <1>2, <2>1, TypePartsNext DEF CheckSession, Fields, Counts
<1>3. CASE LoginOk(p)
  <2>1. /\ accepted' \subseteq Tokens /\ session' \in TokenOrNo
        /\ arg' \in [Goroutines -> Locals]
    BY <1>0, <1>3, LoginTypes DEF LoginOk
  <2>2. Places'
    BY <1>0, <1>3, <2>1, MoveTypes, LabelFacts DEF LoginOk, Places
  <2> QED
    BY <1>0, <1>3, <2>1, <2>2, TypePartsNext DEF LoginOk, Fields, Counts
<1>4. CASE ReadSession(p)
  <2>1. arg' \in [Goroutines -> Locals]
    BY <1>0, <1>4, MoveTypes DEF ReadSession, Fields
  <2>2. \E l \in {"person", "account", "jwt"} : Goto(p, l)
    BY <1>4, <1>m DEF ReadSession
  <2>3. Places'
    BY <1>0, <2>1, <2>2, MoveTypes, LabelFacts DEF Places
  <2> QED
    BY <1>0, <1>4, <2>3, TypePartsNext DEF ReadSession, Fields, Counts
<1>5. CASE PersonOk(p)
  <2>1. \E l \in {"account", "jwt"} : Goto(p, l)
    BY <1>5, <1>m DEF PersonOk
  <2>2. Places'
    BY <1>0, <1>5, <2>1, MoveTypes, LabelFacts DEF PersonOk, Places
  <2> QED
    BY <1>0, <1>5, <2>2, TypePartsNext DEF PersonOk, Fields, Counts
<1>6. CASE JwtOk(p)
  <2>1. Ready(p) \/ (Goto(p, "account") /\ arg' = arg)
    BY <1>6 DEF JwtOk
  <2>2. Places'
    BY <1>0, <2>1, MoveTypes, LabelFacts DEF Places
  <2> QED
    BY <1>0, <1>l, <1>6, <2>2, TypePartsNext DEF JwtOk, Fields, Counts
<1>7. CASE StoreSession(p) \/ JwtRejected(p)
  <2>1. Places'
    BY <1>0, <1>7, MoveTypes, LabelFacts DEF StoreSession, JwtRejected, Places
  <2> QED
    BY <1>0, <1>l, <1>7, <2>1, ConstantFacts, TypePartsNext
       DEF StoreSession, JwtRejected, Fields, Counts
<1>8. CASE LoginChallenged(p) \/ PersonRejected(p) \/ DropStored(p) \/ AccountRejected(p)
  <2>1. Places'
    BY <1>0, <1>8, MoveTypes DEF LoginChallenged, PersonRejected, DropStored, AccountRejected
  <2>2. Fields'
    BY <1>0, <1>8, ConstantFacts
       DEF LoginChallenged, PersonRejected, DropStored, AccountRejected, Fields
  <2> QED
    BY <1>0, <1>8, <2>1, <2>2, TypePartsNext
       DEF LoginChallenged, PersonRejected, DropStored, AccountRejected, Counts
<1>9. CASE JwtLost(p) \/ AuthLost(p)
  <2>1. Places' /\ Counts'
    BY <1>0, <1>9, MoveTypes, FaultTypes DEF JwtLost, AuthLost
  <2>2. Fields'
    BY <1>0, <1>9, ConstantFacts DEF JwtLost, AuthLost, Fields
  <2> QED
    BY <2>1, <2>2, TypePartsNext
<1>10. CASE AccountOk(p)
  <2>1. Places'
    BY <1>0, <1>10, MoveTypes DEF AccountOk
  <2> QED
    BY <1>0, <1>10, <2>1, TypePartsNext DEF AccountOk, Fields, Counts
<1> QED
  BY <1>1, <1>2, <1>3, <1>4, <1>5, <1>6, <1>7, <1>8, <1>9, <1>10 DEF Ensure

\* The API call.
LEMMA UseTypes ==
  ASSUME AuthTypeOK, NEW p \in Goroutines, Use(p) PROVE AuthTypeOK'
<1> USE DEF memory, disk, gigya, budgets, history
<1>0. Places /\ Fields /\ Counts
  BY TypeParts
<1>1. CASE CallOk(p)
  <2>1. Return(p) \/ (Goto(p, "polled") /\ arg' = arg)
    BY <1>1 DEF CallOk
  <2>2. Places'
    BY <1>0, <2>1, MoveTypes, LabelFacts DEF Places
  <2>3. linked' \in BOOLEAN
    BY <1>0, <1>1 DEF CallOk, Fields
  <2> QED
    BY <1>0, <1>1, <2>2, <2>3, TypePartsNext DEF CallOk, Fields, Counts
<1>2. CASE ClearFlag(p)
  <2>1. Places'
    BY <1>0, <1>2, MoveTypes DEF ClearFlag
  <2> QED
    BY <1>0, <1>2, <2>1, TypePartsNext DEF ClearFlag, Fields, Counts
<1>3. CASE CallRejected(p) \/ CallLost(p)
  <2>1. RetryCall(p) \/ GiveUp(p)
    BY <1>3 DEF CallRejected, CallLost
  <2>2. Counts'
    BY <1>0, <1>3, FaultTypes DEF CallRejected, CallLost
  <2>3. CASE RetryCall(p)
    <3>1. Places'
      BY <1>0, <2>3, MoveTypes, LabelFacts DEF RetryCall, Places
    <3>2. Fields'
      BY <1>0, <2>3, ConstantFacts DEF RetryCall, Fields
    <3> QED
      BY <2>2, <3>1, <3>2, TypePartsNext
  <2>4. CASE GiveUp(p)
    <3>1. Places'
      BY <1>0, <2>4, MoveTypes DEF GiveUp
    <3>2. Fields'
      BY <1>0, <2>4 DEF GiveUp, Fields
    <3> QED
      BY <2>2, <3>1, <3>2, TypePartsNext
  <2> QED
    BY <2>1, <2>3, <2>4
<1> QED
  BY <1>1, <1>2, <1>3 DEF Use

\* StartTFA.
LEMMA StartTypes ==
  ASSUME AuthTypeOK, NEW p \in Goroutines, StartTFA(p) PROVE AuthTypeOK'
<1> USE DEF memory, disk, gigya, budgets, history
<1>0. Places /\ Fields /\ Counts
  BY TypeParts
<1>l. arg[p] \in Locals /\ arg[p].token \in TokenOrNo /\ arg[p].dev \in Devices
  BY <1>0, MoveTypes, LocalTypes
<1>1. CASE BootstrapOk(p)
  <2>1. devices + 1 \in Devices
    <3>1. devices \in Nat /\ devices < MaxDevice /\ MaxDevice \in Nat
      BY <1>0, <1>1, ConstantFacts DEF BootstrapOk, Fields
    <3> QED
      BY <3>1 DEF Devices
  <2>2. Places'
    BY <1>0, <1>1, <2>1, MoveTypes, LabelFacts DEF BootstrapOk, Places
  <2>3. Fields'
    BY <1>0, <1>1, <2>1 DEF BootstrapOk, Fields
  <2> QED
    BY <1>0, <1>1, <2>2, <2>3, TypePartsNext DEF BootstrapOk, Counts
<1>2. CASE BootstrapLost(p)
  <2>1. gmid \in Devices
    BY <1>0 DEF Fields
  <2>2. Places' /\ Counts'
    BY <1>0, <1>2, <2>1, MoveTypes, LabelFacts, FaultTypes DEF BootstrapLost, Places
  <2>3. Fields'
    BY <1>0, <1>2 DEF BootstrapLost, Fields
  <2> QED
    BY <2>2, <2>3, TypePartsNext
<1>3. CASE StartWelcomed(p)
  <2>1. /\ accepted' \subseteq Tokens /\ session' \in TokenOrNo
        /\ arg' \in [Goroutines -> Locals]
    BY <1>0, <1>3, LoginTypes DEF StartWelcomed
  <2>2. Places'
    BY <1>0, <1>3, <2>1, MoveTypes, LabelFacts DEF StartWelcomed, Places
  <2> QED
    BY <1>0, <1>3, <2>1, <2>2, ConstantFacts, TypePartsNext DEF StartWelcomed, Fields, Counts
<1>4. CASE KeepSession(p)
  <2>1. diskGmid' \in Devices
    BY <1>0, <1>4 DEF KeepSession, PersistDevice, Fields
  <2>2. Places'
    BY <1>0, <1>4, MoveTypes DEF KeepSession
  <2> QED
    BY <1>0, <1>l, <1>4, <2>1, <2>2, TypePartsNext DEF KeepSession, Fields, Counts
<1>5. CASE StartChallenged(p)
  <2>1. Places'
    BY <1>0, <1>5, MoveTypes, LabelFacts DEF StartChallenged, Places
  <2> QED
    BY <1>0, <1>5, <2>1, TypePartsNext DEF StartChallenged, Fields, Counts
<1>6. CASE CodeSent(p)
  <2>1. tfa' \in SUBSET Pending
    BY <1>0, <1>6 DEF CodeSent, Fields, Pending
  <2>2. Places'
    BY <1>0, <1>6, MoveTypes DEF CodeSent
  <2> QED
    BY <1>0, <1>6, <2>1, <2>2, TypePartsNext DEF CodeSent, Fields, Counts
<1>7. CASE StartLost(p)
  <2>1. Places' /\ Counts'
    BY <1>0, <1>7, MoveTypes, FaultTypes DEF StartLost
  <2>2. Fields'
    BY <1>0, <1>7 DEF StartLost, Fields
  <2> QED
    BY <2>1, <2>2, TypePartsNext
<1> QED
  BY <1>1, <1>2, <1>3, <1>4, <1>5, <1>6, <1>7 DEF StartTFA

\* CompleteTFA.
LEMMA CompleteTypes ==
  ASSUME AuthTypeOK, NEW p \in Goroutines, CompleteTFA(p) PROVE AuthTypeOK'
<1> USE DEF memory, disk, gigya, budgets, history
<1>0. Places /\ Fields /\ Counts
  BY TypeParts
<1>l. arg[p] \in Locals /\ arg[p].token \in TokenOrNo /\ arg[p].dev \in Devices
  BY <1>0, MoveTypes, LocalTypes
<1>t. Trust => trusted' \subseteq Devices
  BY <1>0 DEF Trust, Fields
<1>1. CASE CodeRefused(p) \/ MintRefused(p)
  <2>1. Places'
    BY <1>0, <1>1, MoveTypes DEF CodeRefused, MintRefused
  <2> QED
    BY <1>0, <1>1, <2>1, TypePartsNext DEF CodeRefused, MintRefused, Fields, Counts
<1>2. CASE CodeAccepted(p)
  <2>1. Places'
    BY <1>0, <1>2, MoveTypes, LabelFacts DEF CodeAccepted, Places
  <2>2. strayed' \in BOOLEAN
    BY <1>0, <1>2 DEF CodeAccepted, Fields
  <2>3. trusted' \subseteq Devices
    BY <1>t, <1>2 DEF CodeAccepted
  <2> QED
    BY <1>0, <1>2, <2>1, <2>2, <2>3, TypePartsNext DEF CodeAccepted, Fields, Counts
<1>3. CASE VerifyLost(p)
  <2>1. trusted' \subseteq Devices
    BY <1>0, <1>t, <1>3 DEF VerifyLost, Fields
  <2>2. Places' /\ Counts'
    BY <1>0, <1>3, MoveTypes, FaultTypes DEF VerifyLost
  <2>3. Fields'
    BY <1>0, <1>3, <2>1 DEF VerifyLost, Fields
  <2> QED
    BY <2>2, <2>3, TypePartsNext
<1>4. CASE LockIn(p)
  <2>1. gmid' \in Devices
    BY <1>0, <1>l, <1>4 DEF LockIn, Fields
  <2>2. Places'
    BY <1>0, <1>4, MoveTypes, LabelFacts DEF LockIn, Places
  <2> QED
    BY <1>0, <1>4, <2>1, <2>2, TypePartsNext DEF LockIn, Fields, Counts
<1>5. CASE Persist(p)
  <2>1. diskGmid' \in Devices /\ gmid \in Devices
    BY <1>0, <1>5 DEF Persist, PersistDevice, Fields
  <2>2. Places'
    BY <1>0, <1>5, <2>1, MoveTypes, LabelFacts DEF Persist, Places
  <2> QED
    BY <1>0, <1>5, <2>1, <2>2, TypePartsNext DEF Persist, Fields, Counts
<1>6. CASE MintOk(p)
  <2>1. /\ accepted' \subseteq Tokens /\ session' \in TokenOrNo
        /\ arg' \in [Goroutines -> Locals]
    BY <1>0, <1>6, LoginTypes DEF MintOk
  <2>2. Places'
    BY <1>0, <1>6, <2>1, MoveTypes, LabelFacts DEF MintOk, Places
  <2>3. tfa' \in SUBSET Pending
    BY <1>6 DEF MintOk, NoTfa
  <2> QED
    BY <1>0, <1>6, <2>1, <2>2, <2>3, ConstantFacts, TypePartsNext DEF MintOk, Fields, Counts
<1>7. CASE MintLost(p)
  <2>1. Places' /\ Counts'
    BY <1>0, <1>7, MoveTypes, FaultTypes DEF MintLost
  <2>2. Fields'
    BY <1>0, <1>7 DEF MintLost, Fields
  <2> QED
    BY <2>1, <2>2, TypePartsNext
<1>8. CASE RecordLink(p)
  <2>1. Places'
    BY <1>0, <1>8, MoveTypes DEF RecordLink
  <2>2. linked' \in BOOLEAN
    BY <1>8 DEF RecordLink
  <2> QED
    BY <1>0, <1>l, <1>8, <2>1, <2>2, TypePartsNext DEF RecordLink, Fields, Counts
<1> QED
  BY <1>1, <1>2, <1>3, <1>4, <1>5, <1>6, <1>7, <1>8 DEF CompleteTFA

\* What begins a call, and what happens to the program.
LEMMA BeginTypes ==
  ASSUME AuthTypeOK, NEW p \in Goroutines,
         BeginCall(p) \/ BeginStart(p) \/ BeginComplete(p)
  PROVE  AuthTypeOK'
<1> USE DEF memory, disk, gigya, budgets, history
<1>0. Places /\ Fields /\ Counts
  BY TypeParts
<1>1. CASE BeginCall(p)
  <2>1. Places'
    BY <1>0, <1>1, MoveTypes, LabelFacts DEF BeginCall, Places
  <2>2. Counts'
    BY <1>0, <1>1 DEF BeginCall, Counts
  <2> QED
    BY <1>0, <1>1, <2>1, <2>2, TypePartsNext DEF BeginCall, Fields
<1>2. CASE BeginStart(p)
  <2>1. Places'
    BY <1>0, <1>2, MoveTypes, LabelFacts DEF BeginStart, Places
  <2> QED
    BY <1>0, <1>2, <2>1, TypePartsNext DEF BeginStart, Fields, Counts
<1>3. CASE BeginComplete(p)
  <2>1. PICK t \in tfa :
          IF t.live
          THEN Remember(p, "dev", t.dev) /\ Goto(p, "verify") /\ tfa' = tfa
          ELSE tfa' = NoTfa /\ UNCHANGED <<pc, arg>>
    BY <1>3 DEF BeginComplete
  <2>2. t.dev \in Devices
    BY <1>0 DEF Fields, Pending
  <2>3. tfa' \in SUBSET Pending
    BY <1>0, <2>1 DEF Fields, NoTfa
  <2>4. Places'
    <3>1. CASE t.live
      BY <1>0, <2>1, <2>2, <3>1, MoveTypes, LabelFacts DEF Places
    <3>2. CASE ~t.live
      BY <1>0, <2>1, <3>2 DEF Places
    <3> QED
      BY <3>1, <3>2
  <2> QED
    BY <1>0, <1>3, <2>3, <2>4, TypePartsNext DEF BeginComplete, Fields, Counts
<1> QED
  BY <1>1, <1>2, <1>3

LEMMA WorldTypes ==
  ASSUME AuthTypeOK, SessionExpires \/ JwtExpires \/ TfaExpires \/ Restart
  PROVE  AuthTypeOK'
<1> USE DEF memory, disk, gigya, budgets, history
<1>0. Places /\ Fields /\ Counts
  BY TypeParts
<1>1. CASE SessionExpires
  <2>1. accepted' \subseteq Tokens /\ linked' \in BOOLEAN /\ expiries' \in Nat
    BY <1>0, <1>1 DEF SessionExpires, Fields, Counts
  <2> QED
    BY <1>0, <1>1, <2>1, TypePartsNext DEF SessionExpires, Places, Fields, Counts
<1>2. CASE JwtExpires
  <2>1. expiries' \in Nat
    BY <1>0, <1>2 DEF JwtExpires, Counts
  <2> QED
    BY <1>0, <1>2, <2>1, ConstantFacts, TypePartsNext DEF JwtExpires, Places, Fields, Counts
<1>3. CASE TfaExpires
  <2>1. ASSUME NEW t \in tfa PROVE [t EXCEPT !.live = FALSE] \in Pending
    BY <1>0 DEF Fields, Pending
  <2>2. tfa' \in SUBSET Pending
    BY <1>3, <2>1 DEF TfaExpires
  <2> QED
    BY <1>0, <1>3, <2>2, TypePartsNext DEF TfaExpires, Places, Fields, Counts
<1>4. CASE Restart
  <2>1. Places'
    BY <1>4, LocalTypes, LabelFacts DEF Restart, Places
  <2>2. linked' \in BOOLEAN /\ crashes' \in Nat
    BY <1>0, <1>4 DEF Restart, Fields, Counts
  <2>3. Fields'
    BY <1>0, <1>4, <2>2, ConstantFacts DEF Restart, Fields, NoTfa
  <2> QED
    BY <1>0, <1>4, <2>1, <2>2, <2>3, TypePartsNext DEF Restart, Counts
<1> QED
  BY <1>1, <1>2, <1>3, <1>4

LEMMA AuthTypeStep == ASSUME AuthTypeOK, [AuthNext]_authVars PROVE AuthTypeOK'
<1>1. CASE UNCHANGED authVars
  BY <1>1 DEF authVars, memory, disk, gigya, budgets, history, AuthTypeOK
<1>2. ASSUME NEW p \in Goroutines, BeginCall(p) \/ Continue(p) PROVE AuthTypeOK'
  BY <1>2, BeginTypes, EnsureTypes, UseTypes, StartTypes, CompleteTypes DEF Continue
<1>3. ASSUME NEW p \in Pages, BeginStart(p) \/ BeginComplete(p) PROVE AuthTypeOK'
  BY <1>3, ConstantFacts, BeginTypes
<1> QED
  BY <1>1, <1>2, <1>3, WorldTypes DEF AuthNext

LEMMA AuthInitTypes == AuthInit => AuthTypeOK
<1> SUFFICES ASSUME AuthInit PROVE AuthTypeOK
  OBVIOUS
<1>1. Places
  BY LocalTypes, LabelFacts DEF AuthInit, Places
<1>2. Fields
  BY ConstantFacts DEF AuthInit, Fields, NoTfa
<1>3. Counts
  BY DEF AuthInit, Counts
<1> QED
  BY <1>1, <1>2, <1>3, TypeParts

\* Every variable keeps its range, with any number of pages and of everything
\* that is bounded: no step of the shared login loses a goroutine's place or
\* takes a token that was not minted (ensureAuth, StartTFA, CompleteTFA).
THEOREM AuthTypeCorrect == AuthSpec => []AuthTypeOK
<1>1. AuthTypeOK /\ [AuthNext]_authVars => AuthTypeOK'
  BY AuthTypeStep
<1> QED
  BY <1>1, AuthInitTypes, PTL DEF AuthSpec

-----------------------------------------------------------------------------
(* The stored device.  It is written by KeepSession and by Persist, which   *)
(* both write what is in memory, so what has to be known is the device in   *)
(* memory at those places and how it got there.                             *)

Trusted(d) == d = 0 \/ d \in trusted

Safe ==
  enforced /\ ~strayed =>
    /\ Trusted(diskGmid)
    /\ \A p \in Pages :
         /\ pc[p] = "challenge" => arg[p].dev = gmid
         /\ pc[p] \in {"keep", "lockin", "persist"} => Trusted(gmid)
         /\ pc[p] = "lockin" => Trusted(arg[p].dev)

Delicate == {"challenge", "keep", "lockin", "persist"}

\* A goroutine only moves itself.
LEMMA OthersStay ==
  ASSUME Places, NEW p \in Goroutines, NEW k \in Goroutines, k # p
  PROVE  /\ \A l : Goto(p, l) => pc'[k] = pc[k]
         /\ \A f, v : Remember(p, f, v) => arg'[k] = arg[k]
         /\ Return(p) => pc'[k] = pc[k] /\ arg'[k] = arg[k]
         /\ Ready(p) => pc'[k] = pc[k] /\ arg'[k] = arg[k]
  BY DEF Places, Goto, Remember, Return, Ready

LEMMA OwnPlace ==
  ASSUME Places, NEW p \in Goroutines
  PROVE  /\ \A l \in Labels \ Delicate : Goto(p, l) => pc'[p] \notin Delicate
         /\ Return(p) => pc'[p] \notin Delicate
         /\ Ready(p) => pc'[p] \notin Delicate
  BY MoveTypes DEF Delicate

LEMMA OtherLabels ==
  \A l \in {"enter", "check", "login", "store", "token", "person", "jwt", "drop", "account",
            "call", "polled", "bootstrap", "sendcode", "verify", "mint", "record"} :
    l \in Labels \ Delicate
  BY LabelFacts DEF Delicate

\* ensureAuth and the API call have nothing to do with the device.
LEMMA EnsureKeepsDevice ==
  ASSUME Places, NEW p \in Goroutines, Ensure(p)
  PROVE  /\ UNCHANGED <<gmid, diskGmid, trusted, enforced, strayed>>
         /\ pc'[p] \notin Delicate
         /\ \A k \in Goroutines \ {p} : pc'[k] = pc[k] /\ arg'[k] = arg[k]
<1> USE DEF memory, disk, gigya, budgets, history
<1>1. UNCHANGED <<gmid, diskGmid, trusted, enforced, strayed>>
  BY DEF Ensure, EnterAuth, CheckSession, LoginOk, LoginChallenged, StoreSession, ReadSession,
     PersonOk, PersonRejected, JwtOk, JwtRejected, JwtLost, DropStored, AccountOk,
     AccountRejected, AuthLost
<1>2. \/ \E l \in Labels \ Delicate : Goto(p, l)
      \/ Return(p) \/ Ready(p)
  <2>1. CASE EnterAuth(p) \/ CheckSession(p) \/ LoginOk(p) \/ StoreSession(p) \/ JwtOk(p)
             \/ JwtRejected(p)
    BY <2>1, OtherLabels DEF EnterAuth, CheckSession, LoginOk, StoreSession, JwtOk, JwtRejected
  <2>2. CASE ReadSession(p) \/ PersonOk(p)
    BY <2>2, OtherLabels DEF ReadSession, PersonOk, AfterPerson
  <2>3. CASE LoginChallenged(p) \/ PersonRejected(p) \/ JwtLost(p) \/ DropStored(p)
             \/ AccountOk(p) \/ AccountRejected(p) \/ AuthLost(p)
    BY <2>3 DEF LoginChallenged, PersonRejected, JwtLost, DropStored, AccountOk,
       AccountRejected, AuthLost
  <2> QED
    BY <2>1, <2>2, <2>3 DEF Ensure
<1>3. pc'[p] \notin Delicate
  BY <1>2, OwnPlace
<1>4. ASSUME NEW k \in Goroutines \ {p} PROVE pc'[k] = pc[k] /\ arg'[k] = arg[k]
  <2>1. pc'[k] = pc[k]
    BY <1>2, OthersStay
  <2>2. \/ arg' = arg \/ Return(p) \/ Ready(p)
        \/ (\E f, v : Remember(p, f, v))
        \/ arg' = [arg EXCEPT ![p].jwt = (jwt # NoToken), ![p].account = account]
    BY DEF Ensure, EnterAuth, CheckSession, LoginOk, LoginChallenged, StoreSession, ReadSession,
       PersonOk, PersonRejected, JwtOk, JwtRejected, JwtLost, DropStored, AccountOk,
       AccountRejected, AuthLost
  <2>3. CASE arg' = [arg EXCEPT ![p].jwt = (jwt # NoToken), ![p].account = account]
    <3>1. arg' = [arg EXCEPT ![p] = [arg[p] EXCEPT !.jwt = (jwt # NoToken), !.account = account]]
      BY <2>3 DEF Places
    <3>2. arg'[k] = arg[k]
      BY <3>1 DEF Places
    <3> QED
      BY <2>1, <3>2
  <2> QED
    BY <2>1, <2>2, <2>3, OthersStay
<1> QED
  BY <1>1, <1>3, <1>4

LEMMA UseKeepsDevice ==
  ASSUME Places, NEW p \in Goroutines, BeginCall(p) \/ Use(p)
  PROVE  /\ UNCHANGED <<gmid, diskGmid, trusted, enforced, strayed>>
         /\ pc'[p] \notin Delicate
         /\ \A k \in Goroutines \ {p} : pc'[k] = pc[k] /\ arg'[k] = arg[k]
<1> USE DEF memory, disk, gigya, budgets, history
<1>1. UNCHANGED <<gmid, diskGmid, trusted, enforced, strayed>>
  BY DEF BeginCall, Use, CallOk, CallRejected, CallLost, RetryCall, GiveUp, ClearFlag
<1>2. (\E l \in Labels \ Delicate : Goto(p, l)) \/ Return(p)
  BY OtherLabels DEF BeginCall, Use, CallOk, CallRejected, CallLost, RetryCall, GiveUp, ClearFlag
<1>3. arg' = arg \/ Return(p) \/ Remember(p, "second", TRUE)
  BY DEF BeginCall, Use, CallOk, CallRejected, CallLost, RetryCall, GiveUp, ClearFlag
<1> QED
  BY <1>1, <1>2, <1>3, OwnPlace, OthersStay

\* The page's own steps.
LEMMA PageKeepsSafe ==
  ASSUME AuthTypeOK, Safe, NEW q, Pages = {q}, enforced, ~strayed,
         StartTFA(q) \/ CompleteTFA(q) \/ BeginStart(q) \/ BeginComplete(q)
  PROVE  Safe'
<1> USE DEF memory, disk, gigya, budgets, history
<1>0. Places /\ Fields /\ q \in Goroutines /\ arg[q].dev \in Devices
  BY TypeParts, ConstantFacts, MoveTypes, LocalTypes
<1>s. /\ Trusted(diskGmid)
      /\ pc[q] = "challenge" => arg[q].dev = gmid
      /\ pc[q] \in {"keep", "lockin", "persist"} => Trusted(gmid)
      /\ pc[q] = "lockin" => Trusted(arg[q].dev)
  BY DEF Safe
<1>1. CASE BootstrapOk(q) \/ BootstrapLost(q)
  <2>1. Remember(q, "dev", gmid') /\ pc'[q] = "challenge" /\ gmid' \in Devices
    <3>1. gmid' \in Devices
      BY StartTypes, <1>0, <1>1, TypePartsNext DEF StartTFA, Fields
    <3> QED
      BY <1>0, <1>1, <3>1, MoveTypes, LabelFacts DEF BootstrapOk, BootstrapLost
  <2>2. arg'[q].dev = gmid'
    BY <1>0, <2>1, MoveTypes
  <2>3. UNCHANGED <<diskGmid, trusted>>
    BY <1>1 DEF BootstrapOk, BootstrapLost
  <2> QED
    BY <1>s, <2>1, <2>2, <2>3 DEF Safe, Trusted
<1>2. CASE StartWelcomed(q)
  <2>1. Trusted(gmid)
    BY <1>s, <1>2 DEF StartWelcomed, Welcome, Trusted
  <2>2. pc'[q] = "keep"
    BY <1>0, <1>2, MoveTypes, LabelFacts DEF StartWelcomed
  <2>3. UNCHANGED <<gmid, diskGmid, trusted>>
    BY <1>2 DEF StartWelcomed
  <2> QED
    BY <1>s, <2>1, <2>2, <2>3 DEF Safe, Trusted
<1>3. CASE KeepSession(q) \/ Persist(q)
  <2>1. Trusted(gmid) /\ PersistDevice
    BY <1>s, <1>3 DEF KeepSession, Persist
  <2>2. pc'[q] \notin Delicate
    BY <1>0, <1>3, OwnPlace, OtherLabels DEF KeepSession, Persist
  <2>3. UNCHANGED <<gmid, trusted>>
    BY <1>3 DEF KeepSession, Persist
  <2>4. diskGmid' \in {gmid, diskGmid}
    BY <2>1 DEF PersistDevice
  <2> QED
    BY <1>s, <2>1, <2>2, <2>3, <2>4 DEF Safe, Trusted, Delicate
<1>4. CASE StartChallenged(q) \/ CodeSent(q) \/ StartLost(q) \/ BeginStart(q) \/ BeginComplete(q)
           \/ CodeRefused(q) \/ MintOk(q) \/ MintRefused(q) \/ MintLost(q) \/ RecordLink(q)
  <2>1. UNCHANGED <<gmid, diskGmid, trusted>>
    BY <1>4 DEF StartChallenged, CodeSent, StartLost, BeginStart, BeginComplete, CodeRefused,
       MintOk, MintRefused, MintLost, RecordLink
  <2>2. \/ \E l \in Labels \ Delicate : Goto(q, l)
        \/ Return(q) \/ (pc' = pc /\ pc[q] = "idle")
    BY <1>4, OtherLabels DEF StartChallenged, CodeSent, StartLost, BeginStart, BeginComplete,
       CodeRefused, MintOk, MintRefused, MintLost, RecordLink
  <2>3. pc'[q] \notin Delicate
    BY <1>0, <2>2, OwnPlace DEF Delicate
  <2> QED
    BY <1>s, <2>1, <2>3 DEF Safe, Trusted, Delicate
<1>5. CASE CodeAccepted(q)
  <2>1. CASE ~strayed'
    <3>1. gmid = arg[q].dev /\ UNCHANGED <<gmid, diskGmid, arg>>
      BY <1>5, <2>1 DEF CodeAccepted
    <3>2. trusted' = trusted \union ({gmid} \ {0})
      BY <1>5 DEF CodeAccepted, Trust
    <3>3. pc'[q] = "lockin"
      BY <1>0, <1>5, MoveTypes, LabelFacts DEF CodeAccepted
    <3> QED
      BY <1>s, <3>1, <3>2, <3>3 DEF Safe, Trusted
  <2> QED
    BY <2>1 DEF Safe
<1>6. CASE VerifyLost(q)
  <2>1. trusted \subseteq trusted' /\ UNCHANGED <<gmid, diskGmid>>
    BY <1>6 DEF VerifyLost, Trust
  <2>2. pc'[q] \notin Delicate
    BY <1>0, <1>6, OwnPlace DEF VerifyLost
  <2> QED
    BY <1>s, <2>1, <2>2 DEF Safe, Trusted, Delicate
<1>7. CASE LockIn(q)
  <2>1. Trusted(gmid') /\ UNCHANGED <<diskGmid, trusted>>
    BY <1>s, <1>7 DEF LockIn, Trusted
  <2>2. pc'[q] = "persist"
    BY <1>0, <1>7, MoveTypes, LabelFacts DEF LockIn
  <2> QED
    BY <1>s, <2>1, <2>2 DEF Safe, Trusted
<1> QED
  BY <1>1, <1>2, <1>3, <1>4, <1>5, <1>6, <1>7 DEF StartTFA, CompleteTFA

LEMMA SafeStep ==
  ASSUME AuthTypeOK, Safe, [AuthNext]_authVars, NEW q, Pages = {q}
  PROVE  Safe'
<1> USE DEF memory, disk, gigya, budgets, history
<1>0. Places /\ q \in Goroutines
  BY TypeParts, ConstantFacts
<1>1. CASE ~enforced \/ strayed
  <2>1. enforced' = enforced /\ (strayed => strayed')
    <3>1. ASSUME NEW p \in Goroutines, BeginCall(p) \/ Ensure(p) \/ Use(p)
          PROVE  UNCHANGED <<enforced, strayed>>
      BY <1>0, <3>1, EnsureKeepsDevice, UseKeepsDevice
    <3>2. ASSUME NEW p \in Pages, StartTFA(p) PROVE UNCHANGED <<enforced, strayed>>
      BY <3>2 DEF StartTFA, BootstrapOk, BootstrapLost, StartWelcomed, KeepSession,
         StartChallenged, CodeSent, StartLost
    <3>3. ASSUME NEW p \in Pages, CompleteTFA(p) PROVE enforced' = enforced /\ (strayed => strayed')
      <4>1. CASE CodeAccepted(p)
        BY <4>1 DEF CodeAccepted
      <4>2. CASE ~CodeAccepted(p)
        <5>1. UNCHANGED <<enforced, strayed>>
          BY <3>3, <4>2 DEF CompleteTFA, CodeRefused, VerifyLost, LockIn, Persist, MintOk,
             MintRefused, MintLost, RecordLink
        <5> QED
          BY <5>1
      <4> QED
        BY <4>1, <4>2
    <3>4. ASSUME NEW p \in Pages, BeginStart(p) \/ BeginComplete(p)
          PROVE  UNCHANGED <<enforced, strayed>>
      BY <3>4 DEF BeginStart, BeginComplete
    <3>5. CASE SessionExpires \/ JwtExpires \/ TfaExpires \/ Restart \/ UNCHANGED authVars
      BY <3>5 DEF SessionExpires, JwtExpires, TfaExpires, Restart, authVars
    <3> QED
      BY <3>1, <3>2, <3>3, <3>4, <3>5 DEF AuthNext, Continue
  <2> QED
    BY <1>1, <2>1 DEF Safe
<1>2. CASE enforced /\ ~strayed
  <2>1. ASSUME NEW p \in Goroutines, BeginCall(p) \/ Ensure(p) \/ Use(p) PROVE Safe'
    <3>1. /\ UNCHANGED <<gmid, diskGmid, trusted, enforced, strayed>>
          /\ pc'[p] \notin Delicate
          /\ \A k \in Goroutines \ {p} : pc'[k] = pc[k] /\ arg'[k] = arg[k]
      BY <1>0, <2>1, EnsureKeepsDevice, UseKeepsDevice
    <3>2. CASE p = q
      BY <3>1, <3>2 DEF Safe, Trusted, Delicate
    <3>3. CASE p # q
      <4>1. pc'[q] = pc[q] /\ arg'[q] = arg[q]
        BY <1>0, <3>1, <3>3
      <4> QED
        BY <3>1, <4>1 DEF Safe, Trusted
    <3> QED
      BY <3>2, <3>3
  <2>2. CASE StartTFA(q) \/ CompleteTFA(q) \/ BeginStart(q) \/ BeginComplete(q)
    BY <1>2, <2>2, PageKeepsSafe
  <2>3. CASE SessionExpires \/ JwtExpires \/ TfaExpires \/ UNCHANGED authVars
    <3>1. UNCHANGED <<gmid, diskGmid, trusted, enforced, strayed, pc, arg>>
      BY <2>3 DEF SessionExpires, JwtExpires, TfaExpires, authVars
    <3> QED
      BY <3>1 DEF Safe, Trusted
  <2>4. CASE Restart
    <3>1. UNCHANGED <<diskGmid, trusted, enforced, strayed>> /\ pc'[q] = "idle"
      BY <1>0, <2>4 DEF Restart
    <3> QED
      BY <3>1 DEF Safe, Trusted
  <2> QED
    BY <2>1, <2>2, <2>3, <2>4 DEF AuthNext, Continue
<1> QED
  BY <1>1, <1>2

\* With one page at a time, a device that is stored is one Gigya trusts, whatever
\* fails, expires or restarts in the middle of a verification and whatever the
\* poll loop does meanwhile (persistDevice).  With two pages it does not hold: a
\* StartTFA may replace r.gmid between lockIn and persistDevice of the other.
THEOREM DeviceStaysTrusted ==
  ASSUME NEW q, Pages = {q} PROVE AuthSpec => []DeviceOnDisk
<1>1. AuthInit => Safe
  BY ConstantFacts DEF AuthInit, Safe, Trusted
<1>2. AuthTypeOK /\ Safe /\ [AuthNext]_authVars => Safe'
  BY SafeStep
<1>3. Safe => DeviceOnDisk
  BY DEF Safe, Trusted, DeviceOnDisk
<1> QED
  BY <1>1, <1>2, <1>3, AuthTypeCorrect, PTL DEF AuthSpec
==============================================================================
