SPECIFICATION FairSpec
CONSTANTS
  t1 = t1
  w1 = w1
  Loop = loop
  Timers <- OneTimer
  Webs <- NoGoroutine
  MaxSlot = 0
  Modes <- OffAndForce
  UserOps <- ModeOps
  Faults <- Reports
  Serial = FALSE
  ClockMidCall = TRUE
  MaxQueue = 1
  MaxCrash = 0
PROPERTY OffStops
PROPERTY ChargeStarts
