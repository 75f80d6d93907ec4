SPECIFICATION SpecCheckpoint
CONSTANTS
  Node = {a, b, c}
  NoNode = NoNode
  Leases = {3}
  FirstLease = 3
  Margin = 2
  Drift = 1
  CheckpointGap = 0
  MaxClock = 1
  MaxLog = 2
  MaxOps = 1
  MaxRestarts = 1
SYMMETRY NodeSymmetry
CHECK_DEADLOCK FALSE
INVARIANT AtMostOneMaster
