CONSTANTS
  SIZE_MAX = 2147483647
  Asserts <- MCAssertsUR
  Instances <- MCInstances
  NumKernels = 3
  Iterations = 2
  Repeat = 2
  N = 2
SPECIFICATION Spec
INVARIANTS
  NoDoubleFree
CHECK_DEADLOCK FALSE
