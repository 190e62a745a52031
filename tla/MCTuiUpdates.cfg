SPECIFICATION Spec
CONSTANTS
  Targets = {1, 2}
  Mtus = {1400, 1500}
  None = None
  Operators <- MCOperators
  MaxJobs = 2
  MaxTraces = 2
INVARIANTS
  TypeOK
  DoneMeansAllResultsIn
  OneTraceAtATime
PROPERTIES
  RunsEnd
