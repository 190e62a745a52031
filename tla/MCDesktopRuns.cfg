SPECIFICATION Spec
CONSTANTS
  MaxRuns = 2
  Tests <- MCTests
  Selections <- MCSelections
  Root = FALSE
  ChannelSize = 1
  MaxHistory = 1
INVARIANTS
  TypeOK
  HistoryHoldsItsRun
  BusyOnlyForLostUpdates

  
CHECK_DEADLOCK FALSE
