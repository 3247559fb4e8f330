SPECIFICATION Spec
CONSTANTS
  Containers = {c1}
  Asset <- MCAsset
  Kills = 1
  FailedAttempts = 0
  c1 = c1
CHECK_DEADLOCK FALSE
INVARIANT WeightsArePresent
