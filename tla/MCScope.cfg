CONSTANTS
  N = 5
  Operands <- MCOperands
  Bodies <- MCBodies
  None = None
SPECIFICATION FairSpec
CHECK_DEADLOCK FALSE
INVARIANTS
  InsideSegment
  WhileRuns
PROPERTIES
  Implements
  Terminates
