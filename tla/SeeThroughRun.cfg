\* Two threads of one process render and append to one spans file; any write may
\* fail.
CONSTANTS
  r1 = r1
  r2 = r2
  p1 = p1
  Run <- TwoRuns
  Process = {p1}
  HostOf <- OneProcess
  OptionsOf <- TwoOptions
  RawSpans = 1
  PlacedSpans = 1
SPECIFICATION Spec
CHECK_DEADLOCK FALSE
INVARIANTS
  TypeOK
  SpansTellTheRun
  LayersAfterEveryStage
  FileKeepsClosedSpans
PROPERTIES
  EveryCallEnds
  KeepsPromise
