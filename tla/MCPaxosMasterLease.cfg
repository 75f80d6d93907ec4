SPECIFICATION Spec
CONSTANTS
  Node = {a, b}
  NoNode = NoNode
  Leases = {3}
  FirstLease = 3
  Margin = 2
  Drift = 1
  CheckpointGap = 0
  MaxClock = 3
  MaxLog = 2
  MaxOps = 2
  MaxRestarts = 1
SYMMETRY NodeSymmetry
CHECK_DEADLOCK FALSE
INVARIANTS
  TypeOK
  AtMostOneMaster
  ReplicasAgree
PROPERTIES
  TakeoverAfterExpiry
