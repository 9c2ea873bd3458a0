SPECIFICATION Spec
CONSTANTS
  MaxNode = 1
  Tids = {1, 2}
  ProcOf <- MCProcOf
  NodeOf <- MCNodeOf
  MaxPage = 3
  PageSize = 2
  Options <- MCOptions
  PrefetchSize = 1
  SAMPLES_ENOUGH_INFO = 1
  MinLatency = 1
  Samples <- MCSamples
  Weights = {1}
  Layouts <- MCLayouts
  Placements <- MCPlacements
  BatchSize = 2
  MaxSamples = 4
  MaxRemaps = 1
INVARIANTS FoundIsItsRegion ChunksPartition
PROPERTIES MovesArePaid SentWhereSeen
