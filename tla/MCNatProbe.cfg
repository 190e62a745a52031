SPECIFICATION NatSpec
CONSTANTS
  None = None
  Budgets <- MCBudgets
  UnitsPerSecond = 4
  SampleInterval = 1
  Radios <- MCRadios
  RadioFallback <- Unavailable
  CounterReadings <- MCCounters
  Ticks <- MCTicks
  SyntheticModes = {FALSE}
  MaxSamples = 1
INVARIANTS
  AttemptsAccounted
  NoLoadWithoutAuthorization
PROPERTIES
  EveryRunReports
  WatcherSeesStop
