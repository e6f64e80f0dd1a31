CONSTANTS
  NumRings = 2
  EmbeddingLength = 3
  NumClusters = 2
  Digits = 2
  Dim = 2
  MaxQueries = 3
  CanFail = TRUE
SPECIFICATION FairSpec
INVARIANTS
  ServerReplaysClient
  ReconstructionComplete
  NoMaskReuse
  DistributionRestored
PROPERTY QueryIsReconstructed
CHECK_DEADLOCK FALSE
