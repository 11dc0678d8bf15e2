SPECIFICATION LexerSpec
CONSTANTS
  MinCapacity = 2
  Doublings = 2
  Letters <- SomeLetters
  Pieces <- SomePieces
  MaxPieces = 4
  Garbage <- SomeGarbage
INVARIANTS
  InputFits
  PositionsRight
PROPERTIES
  ConversionsAgree
  ScansByLongestMatch
  EveryTextEnds
CHECK_DEADLOCK FALSE
