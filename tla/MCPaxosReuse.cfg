SPECIFICATION ReuseSpec
CONSTANTS
  Nodes <- MCNodes
  Values <- MCValues
  ClientValues <- MCAll
  LastInstance = 0
  MaxId = 1
  MaxTimeouts = 1
  MaxRestarts = 0
  QuietAcceptTimeouts = TRUE
INVARIANTS Agreement
CHECK_DEADLOCK FALSE
