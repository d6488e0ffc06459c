SPECIFICATION Spec
CONSTANTS
  t1 = t1
  w1 = w1
  Loop = loop
  Timers <- OneTimer
  Webs <- OneWeb
  MaxSlot = 1
  Modes <- AllModes
  UserOps <- PageOps
  Faults <- Outages
  Serial = TRUE
  ClockMidCall = FALSE
  MaxQueue = 1
  MaxCrash = 0
INVARIANT ManualModeHasNoSchedule
INVARIANT LastRequestWins
PROPERTY ActiveSlotKept
