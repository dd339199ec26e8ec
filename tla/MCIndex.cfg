\* The metrics of four nodes with two distances, every random graph and medoid,
\* failing reads, and prefetches that are refused, late, or failed.
SPECIFICATION Spec
CONSTANTS
  Count = 4
  Metrics <- MCMetrics
  Configs <- MCConfigs
  Distances <- MCDistances
  Queried = {3}
  Params <- MCParams
  Misread = {0}
INVARIANTS
  ListsFit
  NoNeighborTwice
  ResultsAreBest
  EachVisitCounted
  EndsInLocalMinimum
  UnboundedBeamReachesAll
  StoredVectorFound
PROPERTIES
  Terminates
  ClosestNeighborKept
