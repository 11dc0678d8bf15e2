SPECIFICATION MeaningSpec
CONSTANTS
  Names = {"x", "y", "z"}
  Fragments <- Quotients
  MaxFragments = 1
  UINT8_MAX = 255
  MaxCapacity = 1000
  CheckOnly = FALSE
  StackSize = 5
  SampleInts = {}
INVARIANTS
  DividesAsDocumented
CHECK_DEADLOCK FALSE
