SPECIFICATION Spec
CONSTANTS
  Nodes <- MCThree
  Committee <- MCThree
  MayStart <- MCThird
  MaxStarts = 1
  MaxHeight = 2
INVARIANTS VariablesOfLastBlock
CHECK_DEADLOCK FALSE
