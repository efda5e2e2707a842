CONSTANTS
  N = 4
  Limit = 4
  Time <- MCTime
  Offset <- MCOffset
  Operands <- MCOperands
  Heights <- MCHeights
  None = None
SPECIFICATION FairSpec
CHECK_DEADLOCK FALSE
INVARIANTS
  InsideSegment
  SumOfPassed
PROPERTIES
  Implements
  Terminates
