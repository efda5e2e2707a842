CONSTANTS
  Chains <- MCTwoBefores
SPECIFICATION EmitSpec
CHECK_DEADLOCK FALSE
INVARIANTS
  Defined
