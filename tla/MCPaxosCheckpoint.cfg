CONSTANTS
  Behind = {c}
  Node = {a, b, c}
  NoNode = none
  HoldCount = 1
  SaveInterval = 1
  Files = 2
  LastInstance = 3
  MaxSessions = 2
  MaxFaults = 1
SPECIFICATION SpecBehind
SYMMETRY Symm
INVARIANT TypeOK
INVARIANT QuorumRemembers
INVARIANT CanRestart
INVARIANT LoadedWhole
INVARIANT LogAboveMin
CHECK_DEADLOCK FALSE
