CONSTANTS
  ParamSets <- MCParamSets
  Noises <- MCNoises
SPECIFICATION RingSpec
INVARIANTS
  ScoreIsDotProduct
  OverflowIsReal
CHECK_DEADLOCK FALSE
