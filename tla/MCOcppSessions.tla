--------------------------- MODULE MCOcppSessions ---------------------------
(* Instances of OcppSessions for TLC.                                       *)
EXTENDS OcppSessions, TLC

CONSTANTS g1, g2

OneCall  == {g1}
TwoCalls == {g1, g2}

\* Handler goroutines are interchangeable.
CallSymmetry == Permutations(TwoCalls)

\* The statuses that reach every branch of the handlers.
FewStatuses == {"Available", "Preparing", "Charging", "SuspendedEV"}

\* Without Preparing, which only the chart markers depend on.
ChargeStatuses == {"Available", "Charging", "SuspendedEV"}
=============================================================================
