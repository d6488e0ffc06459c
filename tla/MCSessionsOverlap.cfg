SPECIFICATION Spec
CONSTANTS
  g1 = g1
  g2 = g2
  Goroutines <- TwoCalls
  Statuses <- ChargeStatuses
  MaxTxn = 1
  MaxMeter = 1
  MaxCrash = 1
  MayLose = TRUE
  MayGiveUp = FALSE
SYMMETRY CallSymmetry
INVARIANT StopMarkOnce
PROPERTY CompletedIsFinal
PROPERTY LedgerSpec
