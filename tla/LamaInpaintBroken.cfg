SPECIFICATION Spec
CONSTANTS
  TensorCount = 3
  Calls = 2
CHECK_DEADLOCK FALSE
INVARIANT LoadFailureOnlySkips
