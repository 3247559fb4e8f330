SPECIFICATION PageSpec
CONSTANTS
  Names <- MCNames
  KeyRank <- MCKeyRank
  Groups <- MCGroups
  Flags <- MCFlags
  Boxes <- MCBoxes
  Depths <- MCDepths
  Decoded <- MCDecoded
  LrTags <- MCLrTags
  DepthTags <- MCDepthTags
  RES = 6
  Inputs = {3, 4, 6, 9, 13}
  Pixels = {1, 2}
  V2 <- MCV2
  COMPOSE <- MCCompose
  Missing <- MCMissing
  Alphas = {0, 15, 128, 255}
  Estimates <- MCEstimates
  One = 2
  Pictures <- MCPictures
  AreaFloor = 2
  AreaShare = 3
  TrimShare = 3
  MinPixels = 1
CHECK_DEADLOCK FALSE
INVARIANT HalvesAreAlwaysTheTwoLargest
