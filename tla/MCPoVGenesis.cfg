SPECIFICATION FairSpec
CONSTANTS
  Commissioners = {c1, c2}
  Candidates = {d1}
  AgentCommissioner = c1
  Nobody = Nobody
  MayRestart = {c2}
  MaxRestarts = 1
INVARIANTS TypeOK GenesisUnanimous CommitteeCanAccept LetterSignedByAll
PROPERTIES FinishedStaysFinished GenesisFollows
CHECK_DEADLOCK FALSE
