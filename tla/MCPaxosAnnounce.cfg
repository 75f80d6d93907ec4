SPECIFICATION AnnounceSpec
CONSTANTS
  Nodes <- MCFive
  Values <- MCValues
  ClientValues <- MCTwo
  LastInstance = 1
  MaxId = 1
  MaxTimeouts = 0
  MaxRestarts = 0
  QuietAcceptTimeouts = FALSE
INVARIANT Agreement
CHECK_DEADLOCK FALSE
