\* Two original segments, two flushes (the last a tail), no segment allowed in level 0
\* and one in level 1: merges into level 1 and level 2, every overlap of the threads and
\* of their Saves, and Loads that fail.
SPECIFICATION Spec
CONSTANTS
  NumBase = 2
  BaseInDataDir = TRUE
  NumBatches = 2
  HasTail = TRUE
  MaxLevel0Segments = 0
  MaxLevelNSegments = 1
  LoadsMayFail = TRUE
INVARIANTS
  NoVectorLost
  EachVectorServedOnce
  NoDanglingLine
PROPERTIES
  NamedSegmentsImmutable
  ImplementsVectorLog
