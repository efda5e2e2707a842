CONSTANTS
  N = 3
  Time <- MCTime
  Offset <- MCOffset
  Operands <- MCOperands
  None = None
SPECIFICATION Spec
CHECK_DEADLOCK FALSE
INVARIANT OneSidedBoundCompiles
