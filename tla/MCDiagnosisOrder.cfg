CONSTANTS
  Measurements <- MCRules
  MaxSkew = 4
  MinProbe = 1200
  MaxProbe = 1232
SPECIFICATION Spec
INVARIANT CriticalFirst
CHECK_DEADLOCK FALSE
