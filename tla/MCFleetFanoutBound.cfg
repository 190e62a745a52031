SPECIFICATION Spec
SYMMETRY Symmetry
CONSTANTS
  Nodes = {n1, n2, n3, bastion}
  TestNodes = {n1, n2, n3}
  MaxConcurrency = 2
  TimeoutSecs = 1
  None = None
INVARIANTS
  RunnersBounded
