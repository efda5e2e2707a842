CONSTANTS
  N = 4
  Time <- MCTime
  Offset <- MCOffset
  Operands <- MCOperands
  None = None
  Trees <- MCTrees
  Data <- MCData
  Statements <- MCStatements
  Segments <- MCSegments
SPECIFICATION Spec
CHECK_DEADLOCK FALSE
INVARIANTS
  MeaningKept
  Compilable
  Settled
  PatternMeaning
  OnlyTemporalRejected
