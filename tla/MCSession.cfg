CONSTANTS
  N = 1
  Time <- MCNone
  Offset <- MCNone
  Operands <- MCNone
  None = None
  Trees <- MCTrees
  Data <- MCNone
  Programs <- MCPrograms
SPECIFICATION Spec
CHECK_DEADLOCK FALSE
INVARIANTS
  EmittedTyped
  TypesDecide
  ReadsOwn
  NamedByText
  OnePerStatement
