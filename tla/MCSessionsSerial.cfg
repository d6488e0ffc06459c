SPECIFICATION Spec
CONSTANTS
  g1 = g1
  g2 = g2
  Goroutines <- OneCall
  Statuses <- ChargeStatuses
  MaxTxn = 2
  MaxMeter = 2
  MaxCrash = 1
  MayLose = TRUE
  MayGiveUp = TRUE
INVARIANT TypeOK
INVARIANT IdsNeverReissued
INVARIANT SoCOnce
INVARIANT TransactionTracked
INVARIANT OpenTransactionHasSession
INVARIANT NeverOvercounted
