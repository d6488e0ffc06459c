SPECIFICATION Spec
CONSTANTS
  t1 = t1
  w1 = w1
  Loop = loop
  Timers <- OneTimer
  Webs <- NoGoroutine
  MaxSlot = 1
  Modes <- OffAndOn
  UserOps <- ModeOps
  Faults <- NoFaults
  Serial = FALSE
  ClockMidCall = TRUE
  MaxQueue = 1
  MaxCrash = 0
INVARIANT ManualModeHasNoSchedule
