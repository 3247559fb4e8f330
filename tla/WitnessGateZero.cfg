SPECIFICATION Spec
CONSTANTS
  Cases <- MCAttn
  Width = 2
  RefValues <- MCFiniteRef
  CandValues <- MCFiniteCand
CHECK_DEADLOCK FALSE
INVARIANT EveryDefectFails
