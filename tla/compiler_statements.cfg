SPECIFICATION ScopesSpec
CONSTANTS
  Names = {"x", "y", "z"}
  Fragments <- StatementTokens
  MaxFragments = 7
  UINT8_MAX = 255
  MaxCapacity = 1000
  CheckOnly = FALSE
INVARIANTS
  StackBalanced
  LocalsInPlace
PROPERTIES
  ChecksAlike
  InoutRejectsComputed
CHECK_DEADLOCK FALSE
