\* The inserting thread and the compaction worker save at the same time.
SPECIFICATION Spec
CONSTANTS
  Savers = {s1, s2}
  MaxSaves = 2
  MaxCrashes = 0
  Chunks = 1
INVARIANTS
  ManifestWhole
CHECK_DEADLOCK FALSE
