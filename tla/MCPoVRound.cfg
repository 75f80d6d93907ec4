SPECIFICATION KnownSpec
CONSTANTS
  Nodes <- MCNodes
  Commissioners <- MCNodes
  ButlerAmount = 2
  VoteAmount = 2
  Sec = 2
  CommissionerList <- MCList3
  BallotOf <- MCBallots3
  NumBlocks = 10
  StartPeriod <- MCZero
  Tcut = 2
  DeferTime = 0
  CallWait = 2
  EndHeight = 0
  MaxTime = 7
  Seeds = {0}
  Genesis <- MCGenesis
  GenesisVote <- MCVote12
INVARIANTS ForkNeedsDoubleSigner QuorumSigned PublishHasBlock GeneratorWasOnDuty
CHECK_DEADLOCK FALSE
