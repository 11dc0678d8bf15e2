SPECIFICATION ScopesSpec
CONSTANTS
  Names = {"x", "y", "z"}
  Fragments <- BlockFragments
  MaxFragments = 6
  UINT8_MAX = 255
  MaxCapacity = 1000
  CheckOnly = FALSE
INVARIANTS
  LocalsInPlace
CHECK_DEADLOCK FALSE
