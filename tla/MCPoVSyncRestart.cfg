SPECIFICATION FairSpec
CONSTANTS
  Nodes <- MCPair
  Committee <- MCFirst
  MayStart <- MCSecond
  MaxStarts = 2
  MaxHeight = 2
INVARIANTS TypeOK StoredChain AtMostOneUnapplied
PROPERTIES SyncEnds
CHECK_DEADLOCK FALSE
