SPECIFICATION ScopesSpec
CONSTANTS
  Names = {"x", "y", "z"}
  Fragments <- BlockFragments
  MaxFragments = 6
  UINT8_MAX = 1
  MaxCapacity = 10
  CheckOnly = FALSE
INVARIANTS
  TypeOK
  NoValueLeftBehind
  OwnBlockFirst
  NoDuplicates
  DepthCountsBlocks
  SlotNumbering
  CompleteChunk
PROPERTIES
  ChecksAlike
  CompileTerminates
CHECK_DEADLOCK FALSE
