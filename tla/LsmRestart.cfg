\* Two runs in one directory that `build` has put a segment into.
SPECIFICATION RestartSpec
CONSTANTS
  NumBase = 1
  BaseInDataDir = TRUE
  NumBatches = 1
  HasTail = FALSE
  MaxLevel0Segments = 1
  MaxLevelNSegments = 1
  LoadsMayFail = FALSE
  MaxRuns = 2
PROPERTIES
  NamedSegmentsImmutable
CHECK_DEADLOCK FALSE
