SPECIFICATION MeaningSpec
CONSTANTS
  Names = {"x", "y", "z"}
  Fragments <- ObjectPrograms
  MaxFragments = 6
  UINT8_MAX = 255
  MaxCapacity = 1000
  CheckOnly = FALSE
  StackSize = 5
  SampleInts = {}
INVARIANTS
  ProgramTypeOK
  NeverCrashes
  NoDangling
  StoresInUse
  ExitReports
  PrintsMeaning
PROPERTIES
  LeaksOnlyByAssignment
  Terminates
CHECK_DEADLOCK FALSE
