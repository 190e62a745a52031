SPECIFICATION Spec
CONSTANTS
  Targets = {t1, t2}
  Requested = 2
  MinimumCohort = 2
  MaxSkew = 1
  Replies <- MCReplies
  None = None
  MaxClock = 3
INVARIANTS
  TypeOK
  NobodyStartsEarly
  SkewExclusionIsTrue
  FigureNeedsFullAdmission
PROPERTIES
  FanoutReturns
