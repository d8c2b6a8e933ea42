SPECIFICATION Spec
CONSTANTS
  WARMUP = 1
  ITERATIONS = 1
  BATCH_SIZE = 2
  Durations <- MCDurations
  Placements <- MCPlacements
  StatsTypes <- AllStats
  NRanks = 3
  Configs <- MCAllToAll
INVARIANTS AvgIsMeanOverRanks
CHECK_DEADLOCK FALSE
