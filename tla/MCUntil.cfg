CONSTANTS
  N = 4
  Time <- MCTime
  Offset <- MCOffset
  Operands <- MCOperands
  None = None
SPECIFICATION FairSpec
CHECK_DEADLOCK FALSE
INVARIANTS
  InsideSegment
  Correct
PROPERTIES
  Implements
  Terminates
