SPECIFICATION Spec
CONSTANTS
  None = None
  Budgets <- OneBudget
  UnitsPerSecond = 6
  SampleInterval = 2
  Radios <- FewRadios
  RadioFallback <- strong_snapshot
  CounterReadings <- MCCounters
  Ticks <- MCTicks
  SyntheticModes = {FALSE}
  MaxSamples = 1
INVARIANTS
  DerivedIsMeasured
