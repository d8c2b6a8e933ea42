SPECIFICATION Spec
CONSTANTS
  WARMUP = 1
  ITERATIONS = 1
  BATCH_SIZE = 2
  Durations <- MCDurations
  Placements <- MCPlacements
  StatsTypes <- AllStats
  NRanks = 2
  Configs <- MCConfigs
INVARIANTS TypeOK FreeMatchesAlloc SuccessReleasesBuffers
PROPERTIES CommunicationFinishes
CHECK_DEADLOCK FALSE
