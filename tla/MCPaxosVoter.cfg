SPECIFICATION VoterSpec
CONSTANTS
  Nodes <- MCNodes
  Values <- MCValues
  ClientValues <- MCTurns
  LastInstance = 1
  MaxId = 2
  MaxTimeouts = 3
  MaxRestarts = 1
  QuietAcceptTimeouts = FALSE
INVARIANTS TypeOK OneValuePerBallot ChosenOnce VoteOnDisk ReplaySame
PROPERTY ImplementsLog
CHECK_DEADLOCK FALSE
