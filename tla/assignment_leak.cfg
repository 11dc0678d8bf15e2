SPECIFICATION MeaningSpec
CONSTANTS
  Names = {"x", "y", "z"}
  Fragments <- ObjectPrograms
  MaxFragments = 3
  UINT8_MAX = 255
  MaxCapacity = 1000
  CheckOnly = FALSE
  StackSize = 5
  SampleInts = {}
INVARIANTS
  NothingLeaked
CHECK_DEADLOCK FALSE
