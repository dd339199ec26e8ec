\* Three builds of one or two vectors, with and without codebook, over two files.
SPECIFICATION CommandSpec
CONSTANTS
  Savers = {s1}
  MaxSaves = 3
  MaxCrashes = 2
  Chunks = 2
  Paths = {p1, p2}
  Counts = {1, 2}
  MaxBuilds = 3
SYMMETRY Symmetry
INVARIANTS
  BuiltIsServed
  NoMixOnSync
  ManifestWhole
  ResultIsTrue
PROPERTIES
  ImplementsManifestFile
