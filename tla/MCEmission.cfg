CONSTANTS
  Chains <- MCChains
SPECIFICATION EmitSpec
CHECK_DEADLOCK FALSE
INVARIANTS
  InScope
  Defined
