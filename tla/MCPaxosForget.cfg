SPECIFICATION ForgetSpec
CONSTANTS
  Nodes <- MCNodes
  Values <- MCValues
  ClientValues <- MCTwo
  LastInstance = 1
  MaxId = 2
  MaxTimeouts = 1
  MaxRestarts = 1
  QuietAcceptTimeouts = FALSE
INVARIANTS Agreement
CHECK_DEADLOCK FALSE
