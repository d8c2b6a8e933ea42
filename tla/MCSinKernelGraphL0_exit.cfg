CONSTANTS
  SIZE_MAX = 2147483647
  Asserts <- MCAssertsL0
  Instances <- MCInstances
  NumKernels = 3
  N = 2
  Iterations = 1
  Repeat = 2
SPECIFICATION Spec
INVARIANTS
  NoProcessExit
CHECK_DEADLOCK FALSE
