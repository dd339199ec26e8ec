\* Two threads, one file of three blocks: reads, a write, and Puts that evict.
SPECIFICATION Spec
CONSTANTS
  Threads = {t1, t2}
  Segments = {s1}
  Offsets = {o1, o2, o3}
  Sizes = {1, 2}
  Watermark = 2
  MaxCount = 2
  HotCount = 1
  DecayPeriod = 2
  MemoryMod = 16
  MaxWrites = 1
  MaxPuts = 2
SYMMETRY Symmetry
INVARIANTS
  MemoryIsSum
  OvershootOneEntry
  ReadsCurrentUnlessRaced
PROPERTIES
  BackfillKeepsWatermark
  MetadataEvictedLast
