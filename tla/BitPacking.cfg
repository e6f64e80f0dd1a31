CONSTANTS
  BitsPerByte = 3
  SeedBytes = 1
  ParamSets <- MCParamSets
  InMemory <- MCInMemory
SPECIFICATION PackingSpec
INVARIANTS
  SizesAreExact
  OverheadIsPadding
  RoundTrip
  AcceptedIsCanonical
CHECK_DEADLOCK FALSE
