SPECIFICATION Spec
CONSTANTS
  t1 = t1
  w1 = w1
  Loop = loop
  Timers <- NoGoroutine
  Webs <- OneWeb
  MaxSlot = 1
  Modes <- ScheduleOnly
  UserOps <- SlotOps
  Faults <- NoFaults
  Serial = TRUE
  ClockMidCall = FALSE
  MaxQueue = 1
  MaxCrash = 0
INVARIANT CancelledStaysOff
