------------------------------ MODULE MCFollow ------------------------------
(***************************************************************************)
(* One TLC run for three parts that share nothing, each of which must keep *)
(* catching up with the world: the Renault login (RenaultAuth), the charge *)
(* limits (SocTarget) and the hourly consumption (Backfill).  A behaviour  *)
(* is one of a single part; the others stay in one initial state each.     *)
(***************************************************************************)
EXTENDS RenaultAuth, SocTarget, Backfill

CONSTANT MaxEvent   \* faults, expiries, restarts and SetSocTarget calls, together

VARIABLE part

followVars == <<part, authVars, socVars, fillVars>>

OnlyAuth == part = "auth" /\ UNCHANGED <<part, socVars, fillVars>>
OnlySoc  == part = "soc"  /\ UNCHANGED <<part, authVars, fillVars>>
OnlyFill == part = "fill" /\ UNCHANGED <<part, authVars, socVars>>

Bounded == faults' + expiries' + crashes' + targets' <= MaxEvent

\* What stands still starts where its properties hold.
AtRest ==
  /\ part # "auth" => ~enforced
  /\ part # "soc" => carMin = 1 /\ carTarget = 1 /\ socMin = 1

FollowInit ==
  /\ part \in {"auth", "soc", "fill"}
  /\ AuthInit /\ SocInit /\ FillInit /\ AtRest

FollowNext ==
  (OnlyAuth /\ AuthNext /\ Bounded) \/ (OnlySoc /\ SocNext) \/ (OnlyFill /\ FillNext)

\* The fairness of AuthFairSpec, SocFairSpec and FillFairSpec.  A behaviour is
\* one of a single part, so the parts can share the fairness conditions.
FollowFairSpec ==
  /\ FollowInit /\ [][FollowNext]_followVars
  /\ WF_followVars(\/ OnlyAuth /\ BeginCall(Poller) /\ Bounded
                   \/ OnlySoc /\ AskLimits
                   \/ OnlyFill /\ AskToday)
  /\ WF_followVars(\/ OnlyAuth /\ Continue(Poller) /\ Bounded
                   \/ OnlySoc /\ Reading
                   \/ OnlyFill /\ Live)
  /\ \A p \in Pages :
       WF_followVars(\/ OnlyAuth /\ Continue(p) /\ Bounded
                     \/ OnlySoc /\ Writing
                     \/ OnlyFill /\ BeginCycle("tick"))
  /\ WF_followVars(\/ OnlySoc /\ ReadingAges
                   \/ OnlyFill /\ Cycle("boot"))
  /\ WF_followVars(\/ OnlySoc /\ BackoffEnds
                   \/ OnlyFill /\ Cycle("tick"))
=============================================================================
