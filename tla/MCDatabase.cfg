CONSTANTS
  IdSpan = 2
  Names <- MCNames
  Payloads <- MCPayloads
  Times <- MCTimes
  MaxRecords = 4
  Anything = Anything
  None = None
SPECIFICATION FairSpec
CHECK_DEADLOCK FALSE
INVARIANTS
  InOrder
PROPERTIES
  StopsAtEnd
  TornPrinted
  Implements
  ReaderEnds
