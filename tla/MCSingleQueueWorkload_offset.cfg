SPECIFICATION Spec
CONSTANTS
  WorkgroupSizes = {1}
  WorkgroupCounts = {1}
  Offsets = {1}
  IterationCounts = {1}
INVARIANTS KernelTouchesResident
CHECK_DEADLOCK FALSE
