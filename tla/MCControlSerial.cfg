SPECIFICATION Spec
CONSTANTS
  t1 = t1
  w1 = w1
  Loop = loop
  Timers <- OneTimer
  Webs <- OneWeb
  MaxSlot = 1
  Modes <- OffAndOn
  UserOps <- AllOps
  Faults <- Reboots
  Serial = TRUE
  ClockMidCall = TRUE
  MaxQueue = 1
  MaxCrash = 1
INVARIANT TypeOK
INVARIANT ProfileAsRecorded
INVARIANT PersistedIsCurrent
INVARIANT CancellationHolds
