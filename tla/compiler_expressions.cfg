SPECIFICATION ScopesSpec
CONSTANTS
  Names = {"x", "y", "z"}
  Fragments <- ExpressionTokens
  MaxFragments = 6
  UINT8_MAX = 255
  MaxCapacity = 1000
  CheckOnly = FALSE
INVARIANTS
  CodeDecodes
  ConstantsInOrder
  OperandsReady
PROPERTIES
  NeverReadsPastEof
CHECK_DEADLOCK FALSE
