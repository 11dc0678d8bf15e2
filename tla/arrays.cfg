SPECIFICATION ArraysSpec
CONSTANTS
  MinCapacity = 1
  Doublings = 1
  MaxObjects = 3
  Plain <- JustNil
INVARIANTS
  StorageOK
  CountsExact
  FreedOnlyByRemoveAt
PROPERTIES
  OverrunsOnlyByOverflow
  ImplementsSequences
CHECK_DEADLOCK FALSE
