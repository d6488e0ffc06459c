SPECIFICATION Spec
CONSTANTS
  g1 = g1
  g2 = g2
  Goroutines <- OneCall
  Statuses <- FewStatuses
  MaxTxn = 2
  MaxMeter = 3
  MaxCrash = 0
  MayLose = FALSE
  MayGiveUp = FALSE
INVARIANT StopRecordsEnergy
INVARIANT NoPhantomMarker
INVARIANT NoDoubleBilling
