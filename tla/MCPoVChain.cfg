SPECIFICATION Spec
CONSTANTS
  Nodes <- MCTwo
  Commissioners <- MCTwo
  ButlerAmount = 1
  VoteAmount = 1
  Sec = 2
  CommissionerList <- MCList2
  BallotOf <- MCBallots2
  NumBlocks = 2
  StartPeriod <- MCZero
  Tcut = 3
  DeferTime = 0
  CallWait = 1
  EndHeight = 1
  MaxTime = 2
  Seeds = {0}
  Genesis <- MCGenesis
  GenesisVote <- MCVote1
INVARIANTS TypeOK HashLinked DerivedFromChain TimesOrdered VoteEndsPeriod
CHECK_DEADLOCK FALSE
