SPECIFICATION Spec
CONSTANTS
  Renderers = {r1}
  Witnesses = {w1}
  r1 = r1
  w1 = w1
INVARIANT EveryEntryPointGetsTheFix
