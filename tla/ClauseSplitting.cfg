SPECIFICATION Spec
CONSTANTS
  Texts <- MCTexts
  Modes <- MCModes
  MinLength = 4
  MaxClauses = 4
  LlmMax = 3
  MaxEmitted = 5
INVARIANTS
  SegmentsOnce
  CleanedIsCut
  LocatorsCover
CHECK_DEADLOCK FALSE
