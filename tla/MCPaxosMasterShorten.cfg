SPECIFICATION SpecShorten
CONSTANTS
  Node = {a, b}
  NoNode = NoNode
  Leases = {3, 6}
  FirstLease = 6
  Margin = 2
  Drift = 1
  CheckpointGap = 0
  MaxClock = 3
  MaxLog = 3
  MaxOps = 1
  MaxRestarts = 0
SYMMETRY NodeSymmetry
CHECK_DEADLOCK FALSE
INVARIANT AtMostOneMaster
