SPECIFICATION ScopesSpec
CONSTANTS
  Names = {"x", "y", "z"}
  Fragments <- StatementTokens
  MaxFragments = 6
  UINT8_MAX = 255
  MaxCapacity = 1000
  CheckOnly = FALSE
PROPERTIES
  InoutTakesReference
CHECK_DEADLOCK FALSE
