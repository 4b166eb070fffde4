SPECIFICATION FairSpec
CONSTANTS
  MaxChars = 50
  OverlapChars = 20
  WordLengths = {1, 12, 24, 28}
  MaxWords = 5
  Texts <- MCTexts
INVARIANTS
  ChunksFit
PROPERTIES
  NothingLost
  StartAdvances
  SlicingEnds
CHECK_DEADLOCK FALSE
