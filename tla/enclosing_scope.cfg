SPECIFICATION ScopesSpec
CONSTANTS
  Names = {"x", "y", "z"}
  Fragments <- BlockFragments
  MaxFragments = 4
  UINT8_MAX = 255
  MaxCapacity = 1000
  CheckOnly = FALSE
INVARIANTS
  LookupFollowsScopes
CHECK_DEADLOCK FALSE
