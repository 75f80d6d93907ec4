CONSTANTS
  a = a
  b = b
  c = c
  d = d
  e = e
  Node = {a, b, c, d, e}
  NoNode = none
  HoldCount = 1
  SaveInterval = 1
  Files = 1
  LastInstance = 6
  MaxSessions = 2
  MaxFaults = 0
SPECIFICATION StaleSpec
INVARIANT TypeOK
INVARIANT QuorumRemembers
INVARIANT LogAboveMin
INVARIANT NoHole
CHECK_DEADLOCK FALSE
