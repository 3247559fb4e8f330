SPECIFICATION Spec
CONSTANTS
  TagCount = 13
  FrameCount = 5
  Steps = 3
  DecodeBatch = 2
  ImageCount = 4
  TensorCount = 3
  Calls = 4
  TrainSteps = 1000
  StepCounts <- MCStepCounts
  Kind <- MCKind
  Lower <- MCLower
  EndOfWord <- MCEndOfWord
  Contractions <- MCContractions
  Inputs <- MCInputs
  N_CTX = 5
CHECK_DEADLOCK FALSE
INVARIANTS
  TypeOK
  OutputsOfTheirInputs
  LatentsFollowTheSteps
  OneModelAtATime
  SampleIsDenoised
  TokensAreTheText
PROPERTIES
  EveryCallIsServed
  KeepsContract
