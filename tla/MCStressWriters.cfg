\* Two writers, three batches of two vectors, files that are not truncated when
\* opened, in the directory of an earlier run; the lines that --manifest does not name
\* and those of the three batches are as many as are not merged.
SPECIFICATION Spec
CONSTANTS
  Writers = {w1, w2}
  PoolSize = 6
  WriteBatch = 2
  Truncate = FALSE
  EarlierLines <- MCEarlierLines
  EarlierLevel0 <- MCEarlierLevel0
  EarlierFiles <- MCEarlierFiles
  FirstId = 2
  MaxLevel0Segments = 4
INVARIANTS
  IdRangesDisjoint
  ListedServedRight
PROPERTIES
  LinesKept
