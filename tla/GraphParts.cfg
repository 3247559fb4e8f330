SPECIFICATION PartSpec
CONSTANTS
  Convs <- MCConvs
  Tokens <- MCTokens
  Budget = 20
  Target = 8
  MinArea = 21
  UnetMinArea = 12
  Asked = {1, 64, 768, 776, 784, 800, 1000, 1280, 1281}
  Levels <- MCLevels
  Sizes = {8, 14, 16, 18, 24, 26, 28, 32, 36, 38}
  Scale = 2
  TileLatent = 8
  Unit = 2
CHECK_DEADLOCK FALSE
INVARIANTS
  PartsTypeOK
  OutputAsUntiled
  TransientsFit
  FlashWhereValidated
  SkipsFit
  NormsAsTrained
  CellsStayInPlace
