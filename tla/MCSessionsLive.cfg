SPECIFICATION FairSpec
CONSTANTS
  g1 = g1
  g2 = g2
  Goroutines <- OneCall
  Statuses <- FewStatuses
  MaxTxn = 2
  MaxMeter = 1
  MaxCrash = 1
  MayLose = TRUE
  MayGiveUp = FALSE
PROPERTY StopEventuallyCloses
