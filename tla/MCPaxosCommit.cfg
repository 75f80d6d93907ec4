SPECIFICATION FairSpec
CONSTANTS
  Threads = {t1, t2, t3}
  Batcher = batcher
  BatchCount = 2
  MaxHold = 1
  Retries = 2
  Refused = {t3}
  MaxInstance = 2
  MaxFaults = 1
INVARIANTS TypeOK OwnAnswer NeverTwice NoMeansNo TimerOfCommit
PROPERTY EveryoneReturns
CHECK_DEADLOCK FALSE
