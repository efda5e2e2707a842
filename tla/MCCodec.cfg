CONSTANTS
  Types <- MCTypes
  Parts <- MCParts
  Scalars = {"integer", "string"}
  MaxSize = 2
  MaxCalls = 6
  Depth = 3
  Untyped = Untyped
  Documents <- MCDocuments
SPECIFICATION CsvSpec
CHECK_DEADLOCK FALSE
INVARIANTS
  RefusedOnlyWrong
  Followed
  DumpedWhole
  Conforms
  RowInOrder
PROPERTIES
  RefusalHarmless
  DumpEnds
