--------------------------- MODULE MCChargeControl ---------------------------
(* Instances of ChargeControl for TLC.                                      *)
EXTENDS ChargeControl

CONSTANTS t1, w1

NoGoroutine == {}
OneTimer    == {t1}
OneWeb      == {w1}

ScheduleOnly == {"schedule"}
OffAndOn     == {"schedule", "off"}
OffAndForce  == {"off", "force"}

Nobody  == {}
SlotOps == {"cancel", "restore"}
ModeOps == {"mode"}
PageOps == {"mode", "cancel", "restore", "clear"}

NoFaults == {}
Reboots  == {"reboot"}
Reports  == {"block"}
Outages  == {"lose", "offline"}
=============================================================================
