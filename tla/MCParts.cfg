SPECIFICATION PartsSpec
CONSTANTS
  Delay = 1
  Fast = 2
  Slow = 3
  Tier = 3
  Day = 2
  Retry = 1
  MaxMove = 2
  MaxMiss = 2
  MaxStop = 1
  Threshold = 1
  MaxUse = 2
  Registers = {0, 3}
  MaxDay = 2
  MaxTrouble = 2
  Quick = 1
  Quarter = 2
  Hourly = 4
  DayEnd = 10
  Afternoon = 5
  Evening = 8
  MaxFetchMiss = 2
  MaxStart = 1
  DayBegins = 2
  DayEnds = 6
  Uses = {2}
  Tariffs = {1, 3}
  MaxSession = 2
  Scale = 12
  Horizon = 6
  DayUnits = 4
  DueAt = 2
  Prices <- FewPrices
  MaxPrice = 1
  AutoPower = 1
  Powers = {1}
  ChargeHeadroom = 3
  Needs = {0, 3}
  MaxLen = 2
  MaxOverride = 2
  MaxChange = 2
  Connectors = {1, 2}
  Thresholds = {0, 2, 3}
  IdleInterval = 1
  Old = 8
INVARIANTS
  PlugStateFollows TransitionPolled
  NoEnergyInvented ClosedDayIsWhole
  PricesFollow
  OverridesHold ProfileIsPlan
  SilenceIsAsked
PROPERTIES
  SeriesGrows IdleIsUncovered
CHECK_DEADLOCK FALSE
