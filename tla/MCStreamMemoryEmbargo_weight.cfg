SPECIFICATION Spec
CONSTANTS
  Apis <- MCSyclApi
  Types <- MCTypes
  Sizes <- MCSizes
  Fp64 = {FALSE}
  GroupSizes <- MCGroupSizes
  UseEvents = {FALSE}
  IterationCounts = {1}
INVARIANTS SampleWeightIsBytesMoved
CHECK_DEADLOCK FALSE
