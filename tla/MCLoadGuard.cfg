SPECIFICATION Spec
CONSTANTS
  None = None
  Budgets <- MCBudgets
  UnitsPerSecond = 6
  SampleInterval = 2
  Radios <- MCRadios
  RadioFallback <- Unavailable
  CounterReadings <- MCCounters
  Ticks <- MCTicks
  SyntheticModes = {TRUE, FALSE}
  MaxSamples = 2
INVARIANTS
  TypeOK
  ValidMeansSteadyLink
  DerivedIsMeasured
  AtMostOneLateTick
  BreachEndsPhase
  OverrunOnlyFromTicks
  RateWithinCap
PROPERTIES
  ImplementsEvidenceGate
