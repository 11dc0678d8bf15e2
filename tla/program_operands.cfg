SPECIFICATION MeaningSpec
CONSTANTS
  Names = {"x", "y", "z"}
  Fragments <- OperandPrograms
  MaxFragments = 1
  UINT8_MAX = 255
  MaxCapacity = 1000
  CheckOnly = FALSE
  StackSize = 5
  SampleInts = {0, 1}
INVARIANTS
  FetchesInstructions
  LeakFreeWithoutAssignment
  PrintsMeaning
  CrashesOnlyWhereUnchecked
  NoRefOutlivesVariable
CHECK_DEADLOCK FALSE
