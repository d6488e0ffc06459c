----------------------------- MODULE RenaultAuth -----------------------------
(***************************************************************************)
(* How the Renault client logs in (internal/vehicle/renault.go and         *)
(* renault_tfa.go).  The poll loop and the web server's goroutines share   *)
(* one login: a Gigya session, minted by a login that presents a device    *)
(* id, a JWT minted from the session, and the person and account ids.      *)
(* ensureAuth rebuilds whatever is missing; StartTFA and CompleteTFA       *)
(* replace the session and the device under its feet.  Every step that     *)
(* ends in an HTTP call is followed by a step of its own for the answer,   *)
(* so the goroutines interleave at the calls and at every lock and         *)
(* settings write that others can see.  A gmid stands for the pair         *)
(* (gmid, ucid); a session whose lifetime ends is not told to the client.  *)
(***************************************************************************)
EXTENDS Naturals, FiniteSets

CONSTANTS Poller,      \* the goroutine of Renault.loop
          Pages,       \* goroutines of web requests
          MaxToken,    \* login tokens in use at one time
          MaxDevice,   \* device ids Gigya issues
          MaxFault,    \* HTTP calls that fail on the way
          MaxExpiry,   \* sessions that Gigya stops accepting
          MaxCrash,    \* restarts of the process
          MaxTarget    \* SetSocTarget calls

ASSUME PollerAssumption == Poller \notin Pages
ASSUME TokenAssumption  == MaxToken \in Nat
ASSUME DeviceAssumption == MaxDevice \in Nat

VARIABLES
  session, gmid, jwt, person, account, tfa,  \* the fields of Renault
  diskSession, diskGmid, tfaRequired,        \* vehicle.renault_* settings
  accepted, devices, trusted, enforced,      \* Gigya
  pc, arg,                                   \* where each goroutine is
  faults, expiries, crashes, targets,        \* what the bounds count
  linked, strayed                            \* history, for the properties

memory  == <<session, gmid, jwt, person, account, tfa>>
disk    == <<diskSession, diskGmid, tfaRequired>>
gigya   == <<accepted, devices, trusted, enforced>>
budgets == <<faults, expiries, crashes, targets>>
history == <<linked, strayed>>
authVars == <<memory, disk, gigya, pc, arg, budgets, history>>

Goroutines == Pages \union {Poller}
Devices    == 0 .. MaxDevice          \* 0 is the empty gmid
Tokens     == 1 .. MaxToken
NoToken    == 0                       \* the empty string
TokenOrNo  == Tokens \union {NoToken}

Callers  == {"enter", "check", "login", "store", "token", "person", "jwt",
             "drop", "account", "call", "polled"}
Starting == {"bootstrap", "challenge", "keep", "sendcode"}
Ending   == {"verify", "lockin", "persist", "mint", "record"}

\* What a goroutine remembers between two steps: what ensureAuth found under
\* the lock, the session and the device in the call, and whether the API call
\* is the second try.
Locals == [jwt : BOOLEAN, account : BOOLEAN, second : BOOLEAN,
           token : TokenOrNo, dev : Devices]

NoLocals == [jwt |-> FALSE, account |-> FALSE, second |-> FALSE,
             token |-> NoToken, dev |-> 0]

\* The tfaPending of a verification: the device it was started with, and
\* whether it is younger than tfaPendingTTL.
Pending == [dev : Devices, live : BOOLEAN]
NoTfa   == {}

AuthTypeOK ==
  /\ session \in TokenOrNo /\ jwt \in TokenOrNo /\ diskSession \in TokenOrNo
  /\ gmid \in Devices /\ diskGmid \in Devices /\ devices \in Devices
  /\ person \in BOOLEAN /\ account \in BOOLEAN /\ tfaRequired \in BOOLEAN
  /\ tfa \in SUBSET Pending
  /\ accepted \subseteq Tokens /\ trusted \subseteq Devices
  /\ enforced \in BOOLEAN /\ linked \in BOOLEAN /\ strayed \in BOOLEAN
  /\ pc \in [Goroutines -> {"idle"} \union Callers \union Starting \union Ending]
  /\ arg \in [Goroutines -> Locals]
  /\ faults \in Nat /\ expiries \in Nat /\ crashes \in Nat /\ targets \in Nat

\* A program that was never linked.
AuthInit ==
  /\ session = NoToken /\ gmid = 0 /\ jwt = NoToken
  /\ person = FALSE /\ account = FALSE /\ tfa = NoTfa
  /\ diskSession = NoToken /\ diskGmid = 0 /\ tfaRequired = FALSE
  /\ accepted = {} /\ devices = 0 /\ trusted = {} /\ enforced \in BOOLEAN
  /\ pc = [p \in Goroutines |-> "idle"]
  /\ arg = [p \in Goroutines |-> NoLocals]
  /\ faults = 0 /\ expiries = 0 /\ crashes = 0 /\ targets = 0
  /\ linked = FALSE /\ strayed = FALSE

-----------------------------------------------------------------------------
(* Helpers of the steps.                                                    *)

Goto(p, l)         == pc' = [pc EXCEPT ![p] = l]
Remember(p, f, v)  == arg' = [arg EXCEPT ![p][f] = v]
Return(p)          == /\ Goto(p, "idle")
                      /\ arg' = [arg EXCEPT ![p] = NoLocals]
Ready(p)           == /\ Goto(p, "call")
                      /\ arg' = [arg EXCEPT ![p] = [NoLocals EXCEPT !.second = arg[p].second]]

\* An HTTP call that fails on the way, or answers something unreadable.
Fault == /\ faults < MaxFault /\ faults' = faults + 1
         /\ UNCHANGED <<expiries, crashes, targets>>

\* Tokens are opaque, so the first one the program does not hold stands for a
\* fresh one, and sessions it no longer holds need not be remembered.
Held     == {session, diskSession, jwt} \union {arg[p].token : p \in Goroutines}
Fresh(t) == t \notin Held /\ \A u \in Tokens \ Held : t <= u

\* Gigya's answer to accounts.login from a device.
Welcome(d) == ~enforced \/ d \in trusted

-----------------------------------------------------------------------------
(* ensureAuth, and the API call of pollOnce or SetSocTarget that follows.   *)

\* pollOnce or SetSocTarget calls ensureAuth.
BeginCall(p) ==
  /\ pc[p] = "idle" /\ Goto(p, "enter")
  /\ \/ p = Poller /\ targets' = targets
     \/ p # Poller /\ targets < MaxTarget /\ targets' = targets + 1
  /\ UNCHANGED <<memory, disk, gigya, arg, faults, expiries, crashes, history>>

\* Is anything missing?
EnterAuth(p) ==
  /\ pc[p] = "enter"
  /\ IF jwt # NoToken /\ account
       THEN Ready(p)
       ELSE /\ arg' = [arg EXCEPT ![p].jwt = (jwt # NoToken), ![p].account = account]
            /\ Goto(p, "check")
  /\ UNCHANGED <<memory, disk, gigya, budgets, history>>

\* Without a session, log in with the device known now.
CheckSession(p) ==
  /\ pc[p] = "check"
  /\ Goto(p, IF session = NoToken THEN "login" ELSE "token")
  /\ Remember(p, "dev", IF session = NoToken THEN gmid ELSE arg[p].dev)
  /\ UNCHANGED <<memory, disk, gigya, budgets, history>>

LoginOk(p) ==
  /\ pc[p] = "login" /\ Welcome(arg[p].dev)
  /\ \E t \in Tokens :
       /\ Fresh(t)
       /\ accepted' = (accepted \intersect Held) \union {t}
       /\ session' = t /\ Remember(p, "token", t)
  /\ Goto(p, "store")
  /\ UNCHANGED <<gmid, jwt, person, account, tfa, disk, devices, trusted,
                 enforced, budgets, history>>

\* Error 403101: the account wants a code for this device.
LoginChallenged(p) ==
  /\ pc[p] = "login" /\ ~Welcome(arg[p].dev)
  /\ tfaRequired' = TRUE /\ Return(p)
  /\ UNCHANGED <<memory, diskSession, diskGmid, gigya, budgets, history>>

StoreSession(p) ==
  /\ pc[p] = "store" /\ diskSession' = arg[p].token /\ Goto(p, "token")
  /\ UNCHANGED <<memory, diskGmid, tfaRequired, gigya, arg, budgets, history>>

\* What ensureAuth is still missing once the person id is known (it was
\* missing one of the two when it began).
AfterPerson(p) == IF arg[p].jwt THEN "account" ELSE "jwt"

\* The session and the person id are read again.
ReadSession(p) ==
  /\ pc[p] = "token"
  /\ Remember(p, "token", session)
  /\ Goto(p, IF person THEN AfterPerson(p) ELSE "person")
  /\ UNCHANGED <<memory, disk, gigya, budgets, history>>

PersonOk(p) ==
  /\ pc[p] = "person" /\ arg[p].token \in accepted
  /\ person' = TRUE /\ Goto(p, AfterPerson(p))
  /\ UNCHANGED <<session, gmid, jwt, account, tfa, disk, gigya, arg, budgets,
                 history>>

\* A rejected session is reported like any other error: it is kept.
PersonRejected(p) ==
  /\ pc[p] = "person" /\ arg[p].token \notin accepted /\ Return(p)
  /\ UNCHANGED <<memory, disk, gigya, budgets, history>>

JwtOk(p) ==
  /\ pc[p] = "jwt" /\ arg[p].token \in accepted
  /\ jwt' = arg[p].token
  /\ IF arg[p].account THEN Ready(p) ELSE Goto(p, "account") /\ arg' = arg
  /\ UNCHANGED <<session, gmid, person, account, tfa, disk, gigya, budgets,
                 history>>

\* Whatever the error, the session in memory is cleared; the stored one only
\* when Gigya rejected the token.
JwtRejected(p) ==
  /\ pc[p] = "jwt" /\ arg[p].token \notin accepted
  /\ session' = NoToken /\ Goto(p, "drop")
  /\ UNCHANGED <<gmid, jwt, person, account, tfa, disk, gigya, arg, budgets,
                 history>>

JwtLost(p) ==
  /\ pc[p] = "jwt" /\ Fault
  /\ session' = NoToken /\ Return(p)
  /\ UNCHANGED <<gmid, jwt, person, account, tfa, disk, gigya, history>>

DropStored(p) ==
  /\ pc[p] = "drop" /\ diskSession' = NoToken /\ Return(p)
  /\ UNCHANGED <<memory, diskGmid, tfaRequired, gigya, budgets, history>>

AccountOk(p) ==
  /\ pc[p] = "account" /\ jwt # NoToken
  /\ account' = TRUE /\ Ready(p)
  /\ UNCHANGED <<session, gmid, jwt, person, tfa, disk, gigya, budgets, history>>

AccountRejected(p) ==
  /\ pc[p] = "account" /\ jwt = NoToken /\ Return(p)
  /\ UNCHANGED <<memory, disk, gigya, budgets, history>>

\* Any other call of ensureAuth that gets no answer: it returns the error.
AuthLost(p) ==
  /\ pc[p] \in {"login", "person", "account"} /\ Fault /\ Return(p)
  /\ UNCHANGED <<memory, disk, gigya, history>>

\* The battery status is read, or the charge limit written.
CallOk(p) ==
  /\ pc[p] = "call" /\ jwt # NoToken
  /\ IF p = Poller
       THEN Goto(p, "polled") /\ arg' = arg /\ linked' = FALSE
       ELSE Return(p) /\ linked' = linked
  /\ UNCHANGED <<memory, disk, gigya, budgets, strayed>>

\* On an error the JWT is dropped and everything tried once more.
RetryCall(p) ==
  /\ ~arg[p].second
  /\ jwt' = NoToken
  /\ Goto(p, "enter") /\ Remember(p, "second", TRUE)
  /\ UNCHANGED <<session, gmid, person, account, tfa, disk, gigya, history>>

GiveUp(p) ==
  /\ arg[p].second /\ Return(p)
  /\ UNCHANGED <<memory, disk, gigya, history>>

CallRejected(p) ==
  /\ pc[p] = "call" /\ jwt = NoToken
  /\ RetryCall(p) \/ GiveUp(p)
  /\ UNCHANGED budgets

CallLost(p) ==
  /\ pc[p] = "call" /\ Fault
  /\ RetryCall(p) \/ GiveUp(p)

\* A successful poll proves that the login works.
ClearFlag(p) ==
  /\ pc[p] = "polled" /\ tfaRequired' = FALSE /\ Return(p)
  /\ UNCHANGED <<memory, diskSession, diskGmid, gigya, budgets, history>>

-----------------------------------------------------------------------------
(* StartTFA: a fresh device, a login that is expected to be refused, and    *)
(* the calls that have a code mailed.                                       *)

BeginStart(p) ==
  /\ pc[p] = "idle" /\ devices < MaxDevice /\ Goto(p, "bootstrap")
  /\ UNCHANGED <<memory, disk, gigya, arg, budgets, history>>

BootstrapOk(p) ==
  /\ pc[p] = "bootstrap" /\ devices < MaxDevice
  /\ devices' = devices + 1 /\ gmid' = devices + 1
  /\ Remember(p, "dev", devices + 1) /\ Goto(p, "challenge")
  /\ linked' = FALSE
  /\ UNCHANGED <<session, jwt, person, account, tfa, disk, accepted, trusted,
                 enforced, budgets, strayed>>

\* Best effort: the flow goes on with the device known so far.
BootstrapLost(p) ==
  /\ pc[p] = "bootstrap" /\ Fault
  /\ Remember(p, "dev", gmid) /\ Goto(p, "challenge")
  /\ UNCHANGED <<memory, disk, gigya, history>>

\* No code is needed: the session is taken over at once.
StartWelcomed(p) ==
  /\ pc[p] = "challenge" /\ Welcome(arg[p].dev)
  /\ \E t \in Tokens :
       /\ Fresh(t)
       /\ accepted' = (accepted \intersect Held) \union {t}
       /\ session' = t /\ Remember(p, "token", t)
  /\ jwt' = NoToken /\ Goto(p, "keep")
  /\ UNCHANGED <<gmid, person, account, tfa, disk, devices, trusted, enforced,
                 budgets, history>>

\* persistDevice writes the device known now, when there is one.
PersistDevice == diskGmid' = IF gmid # 0 THEN gmid ELSE diskGmid

KeepSession(p) ==
  /\ pc[p] = "keep"
  /\ diskSession' = arg[p].token /\ PersistDevice /\ tfaRequired' = FALSE
  /\ Return(p)
  /\ UNCHANGED <<memory, gigya, budgets, history>>

StartChallenged(p) ==
  /\ pc[p] = "challenge" /\ ~Welcome(arg[p].dev) /\ Goto(p, "sendcode")
  /\ UNCHANGED <<memory, disk, gigya, arg, budgets, history>>

\* A mutant: the fresh device is persisted before Gigya trusts it.
CodeSentPersisted(p) ==
  /\ pc[p] = "sendcode"
  /\ tfa' = {[dev |-> gmid, live |-> TRUE]} /\ tfaRequired' = TRUE
  /\ diskGmid' = gmid
  /\ Return(p)
  /\ UNCHANGED <<session, gmid, jwt, person, account, diskSession, gigya, budgets,
                 history>>

\* initTFA, getTFAEmails and sendTFACode succeed; the verification is pending.
CodeSent(p) ==
  /\ pc[p] = "sendcode"
  /\ tfa' = {[dev |-> gmid, live |-> TRUE]} /\ tfaRequired' = TRUE
  /\ Return(p)
  /\ UNCHANGED <<session, gmid, jwt, person, account, diskSession, diskGmid,
                 gigya, budgets, history>>

StartLost(p) ==
  /\ pc[p] \in {"challenge", "sendcode"} /\ Fault /\ Return(p)
  /\ UNCHANGED <<memory, disk, gigya, history>>

-----------------------------------------------------------------------------
(* CompleteTFA: the code is verified, Gigya trusts the device the call      *)
(* presents, and a login from it mints the session.                         *)

BeginComplete(p) ==
  /\ pc[p] = "idle"
  /\ \E t \in tfa :
       IF t.live
       THEN Remember(p, "dev", t.dev) /\ Goto(p, "verify") /\ tfa' = tfa
       ELSE tfa' = NoTfa /\ UNCHANGED <<pc, arg>>
  /\ UNCHANGED <<session, gmid, jwt, person, account, disk, gigya, budgets,
                 history>>

\* A wrong code, or an assertion that has expired meanwhile.
CodeRefused(p) ==
  /\ pc[p] = "verify" /\ Return(p)
  /\ UNCHANGED <<memory, disk, gigya, budgets, history>>

\* finalizeTFA presents the device in memory, not the one of the pending
\* verification.
Trust == trusted' = trusted \union ({gmid} \ {0})

CodeAccepted(p) ==
  /\ pc[p] = "verify" /\ Trust /\ Goto(p, "lockin")
  /\ strayed' = (strayed \/ gmid # arg[p].dev)
  /\ UNCHANGED <<memory, disk, accepted, devices, enforced, arg, budgets,
                 linked>>

\* One of the two calls got lost on the way there, or on the way back.
VerifyLost(p) ==
  /\ pc[p] = "verify" /\ Fault /\ Return(p)
  /\ Trust \/ trusted' = trusted
  /\ UNCHANGED <<memory, disk, accepted, devices, enforced, history>>

LockIn(p) ==
  /\ pc[p] = "lockin"
  /\ gmid' = IF arg[p].dev # 0 THEN arg[p].dev ELSE gmid
  /\ Goto(p, "persist")
  /\ UNCHANGED <<session, jwt, person, account, tfa, disk, gigya, arg, budgets,
                 history>>

\* A mutant: the trusted device is not persisted.
PersistNothing(p) ==
  /\ pc[p] = "persist"
  /\ Remember(p, "dev", gmid) /\ Goto(p, "mint")
  /\ UNCHANGED <<memory, disk, gigya, budgets, history>>

Persist(p) ==
  /\ pc[p] = "persist" /\ PersistDevice
  /\ Remember(p, "dev", gmid) /\ Goto(p, "mint")
  /\ UNCHANGED <<memory, diskSession, tfaRequired, gigya, budgets, history>>

MintOk(p) ==
  /\ pc[p] = "mint" /\ Welcome(arg[p].dev)
  /\ \E t \in Tokens :
       /\ Fresh(t)
       /\ accepted' = (accepted \intersect Held) \union {t}
       /\ session' = t /\ Remember(p, "token", t)
  /\ jwt' = NoToken /\ tfa' = NoTfa /\ Goto(p, "record")
  /\ UNCHANGED <<gmid, person, account, disk, devices, trusted, enforced,
                 budgets, history>>

MintRefused(p) ==
  /\ pc[p] = "mint" /\ ~Welcome(arg[p].dev) /\ Return(p)
  /\ UNCHANGED <<memory, disk, gigya, budgets, history>>

MintLost(p) ==
  /\ pc[p] = "mint" /\ Fault /\ Return(p)
  /\ UNCHANGED <<memory, disk, gigya, history>>

RecordLink(p) ==
  /\ pc[p] = "record"
  /\ diskSession' = arg[p].token /\ tfaRequired' = FALSE
  /\ linked' = (arg[p].token \in accepted /\ session = arg[p].token)
  /\ Return(p)
  /\ UNCHANGED <<memory, diskGmid, gigya, budgets, strayed>>

-----------------------------------------------------------------------------
(* What happens to the program.                                             *)

\* Gigya stops accepting a session.
SessionExpires ==
  /\ expiries < MaxExpiry /\ expiries' = expiries + 1
  /\ \E t \in accepted :
       accepted' = accepted \ {t}
       /\ linked' = (linked /\ t \notin {session, diskSession})
  /\ UNCHANGED <<memory, disk, devices, trusted, enforced, pc, arg, faults,
                 crashes, targets, strayed>>

\* jwtExpiry passes: hasJWT is false from here, and Kamereon rejects it.
JwtExpires ==
  /\ expiries < MaxExpiry /\ expiries' = expiries + 1
  /\ jwt # NoToken /\ jwt' = NoToken
  /\ UNCHANGED <<session, gmid, person, account, tfa, disk, gigya, pc, arg,
                 faults, crashes, targets, history>>

\* tfaPendingTTL passes.
TfaExpires ==
  /\ tfa' = {[t EXCEPT !.live = FALSE] : t \in tfa} /\ tfa' # tfa
  /\ UNCHANGED <<session, gmid, jwt, person, account, disk, gigya, pc, arg,
                 budgets, history>>

\* The process dies; NewRenaultWithURL restores what the settings hold.
Restart ==
  /\ crashes < MaxCrash /\ crashes' = crashes + 1
  /\ session' = diskSession /\ gmid' = diskGmid /\ jwt' = NoToken
  /\ person' = FALSE /\ account' = FALSE /\ tfa' = NoTfa
  /\ pc' = [p \in Goroutines |-> "idle"]
  /\ arg' = [p \in Goroutines |-> NoLocals]
  /\ linked' = (linked /\ diskSession \in accepted \union {NoToken})
  /\ UNCHANGED <<disk, gigya, faults, expiries, targets, strayed>>

Ensure(p) ==
  \/ EnterAuth(p) \/ CheckSession(p) \/ LoginOk(p) \/ LoginChallenged(p)
  \/ StoreSession(p) \/ ReadSession(p) \/ PersonOk(p) \/ PersonRejected(p)
  \/ JwtOk(p) \/ JwtRejected(p) \/ JwtLost(p) \/ DropStored(p)
  \/ AccountOk(p) \/ AccountRejected(p) \/ AuthLost(p)

Use(p) == CallOk(p) \/ CallRejected(p) \/ CallLost(p) \/ ClearFlag(p)

StartTFA(p) ==
  \/ BootstrapOk(p) \/ BootstrapLost(p) \/ StartWelcomed(p) \/ KeepSession(p)
  \/ StartChallenged(p) \/ CodeSent(p) \/ StartLost(p)

CompleteTFA(p) ==
  \/ CodeRefused(p) \/ CodeAccepted(p) \/ VerifyLost(p) \/ LockIn(p)
  \/ Persist(p) \/ MintOk(p) \/ MintRefused(p) \/ MintLost(p)
  \/ RecordLink(p)

Continue(p) == Ensure(p) \/ Use(p) \/ (p \in Pages /\ (StartTFA(p) \/ CompleteTFA(p)))

AuthNext ==
  \/ \E p \in Goroutines : BeginCall(p) \/ Continue(p)
  \/ \E p \in Pages : BeginStart(p) \/ BeginComplete(p)
  \/ SessionExpires \/ JwtExpires \/ TfaExpires \/ Restart

AuthSpec == AuthInit /\ [][AuthNext]_authVars

\* The loop keeps polling, and an HTTP call ends (the client's timeout is
\* 15 s), so whoever is in a call goes on.
AuthFairSpec ==
  /\ AuthSpec
  /\ WF_authVars(BeginCall(Poller))
  /\ \A p \in Goroutines : WF_authVars(Continue(p))

-----------------------------------------------------------------------------
(* What the login promises.                                                 *)

\* The device that survives a restart is one Gigya trusts.  CompleteTFA
\* persists it only once finalizeTFA has answered, StartTFA only once a login
\* from it succeeded.  (A verification that was finalized with another device
\* than it was started with is counted out: finalizeTFA presents r.gmid.)
DeviceOnDisk == enforced /\ ~strayed /\ diskGmid # 0 => diskGmid \in trusted

\* After CompleteTFA has recorded its session a poll succeeds, whatever the
\* poll loop was doing with the old session and even across a restart, unless
\* the new session expires or another verification is started.
LinkTakes == linked ~> ~linked

\* The car is polled again and again, or the page asks the user for a code: a
\* session that Gigya rejects does not leave the poller failing in silence.
NeverSilentlyStuck == []<>(pc[Poller] = "polled" \/ tfaRequired)
=============================================================================
