SPECIFICATION FollowFairSpec
CONSTANTS
  Poller = poller
  Pages = {w1}
  MaxToken = 6
  MaxEvent = 2
  MaxDevice = 1
  MaxFault = 1
  MaxExpiry = 1
  MaxCrash = 1
  MaxTarget = 1
  Floors = {1, 2}
  Targets = {1, 2}
  MaxSet = 2
  MaxOwner = 1
  MaxLoss = 2
  MaxReboot = 1
  Start = 2
  LastHour = 4
  DayLength = 2
  Bootstrap = 1
  CapHours = 2
  Chunk = 1
  MaxMishap = 1
INVARIANTS DeviceOnDisk FloorIsReal CycleFillsSpan
PROPERTIES LinkTakes TargetFollows TodayFollows IdleFollows
