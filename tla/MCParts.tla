------------------------------ MODULE MCParts ------------------------------
(***************************************************************************)
(* One TLC run for the parts that share no state with each other: when the *)
(* car is polled, the meter, the prices, the idle windows, the computed    *)
(* plan and the stale-status checker.  A behaviour is one of a single      *)
(* part; the others stay in one initial state each.                        *)
(***************************************************************************)
EXTENDS RenaultPoll, Metering, RateRefresh, IdleWindows, SlotPlan, StatusCheck

VARIABLE part

\* Above skip_above_soc only a negative price is planned.
FewPrices == {-1, 2}

partVars == <<part, pollVars, meterVars, rateVars, idleVars, planVars, statusVars>>

OnlyPoll ==
  /\ part = "poll"
  /\ UNCHANGED <<part, meterVars, rateVars, idleVars, planVars, statusVars>>

OnlyMeter ==
  /\ part = "meter"
  /\ UNCHANGED <<part, pollVars, rateVars, idleVars, planVars, statusVars>>

OnlyRates ==
  /\ part = "rates"
  /\ UNCHANGED <<part, pollVars, meterVars, idleVars, planVars, statusVars>>

OnlyIdle ==
  /\ part = "idle"
  /\ UNCHANGED <<part, pollVars, meterVars, rateVars, planVars, statusVars>>

OnlyPlan ==
  /\ part = "plan"
  /\ UNCHANGED <<part, pollVars, meterVars, rateVars, idleVars, statusVars>>

OnlyStatus ==
  /\ part = "status"
  /\ UNCHANGED <<part, pollVars, meterVars, rateVars, idleVars, planVars>>

\* What stands still.
AtRest ==
  /\ part # "poll" => car /\ configured
  /\ part # "meter" => raw = 0
  /\ part # "rates" => ~final.today /\ token /\ rates = Nothing
  /\ part # "idle" => \A h \in HoursKept : consumed[h] = Missing /\ priced[h] = 1
  /\ part # "plan" => soc = "low" /\ config /\ quote = NoPrices
  /\ part # "status" => threshold = 0 /\ up /\ silent = <<>>

PartsInit ==
  /\ part \in {"poll", "meter", "rates", "idle", "plan", "status"}
  /\ PollInit /\ MeterInit /\ RateInit /\ IdleInit /\ PlanInit /\ StatusInit
  /\ AtRest

PartsNext ==
  \/ OnlyPoll /\ PollNext
  \/ OnlyMeter /\ MeterNext
  \/ OnlyRates /\ RateNext
  \/ OnlyIdle /\ IdleNext
  \/ OnlyPlan /\ PlanNext
  \/ OnlyStatus /\ StatusNext

PartsSpec == PartsInit /\ [][PartsNext]_partVars
=============================================================================
