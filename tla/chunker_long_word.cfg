SPECIFICATION FairSpec
CONSTANTS
  MaxChars = 50
  OverlapChars = 20
  WordLengths = {5, 60}
  MaxWords = 2
  Texts <- MCTexts
PROPERTIES
  SlicingEnds
CHECK_DEADLOCK FALSE
