SPECIFICATION EntrySpec
CONSTANTS
  Containers = {c1, c2}
  Asset <- MCAsset
  Kills = 2
  FailedAttempts = 2
  Results <- MCResults
  Starts = 2
  Renderers = {r1, r2}
  Outcomes <- MCOutcomes
  MaxCalls = 2
  Witnesses = {w1}
  Cases <- MCCases
  Width = 2
  RefValues <- MCRef
  CandValues <- MCCand
  c1 = c1
  c2 = c2
  r1 = r1
  r2 = r2
  w1 = w1
CHECK_DEADLOCK FALSE
INVARIANTS
  EntryTypeOK
  DamageComesFromDisturbance
  SidecarIsNeverAhead
  ExitCodeTellsTheFiles
  CallersOwnTheirResults
  GateFindsTheFirstDefect
PROPERTIES
  WholeFilesAreKept
  EmptyFilesHoldTheStart
  OnlyTheRaceMissesTheFix
  EveryAttemptEnds
