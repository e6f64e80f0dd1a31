CONSTANTS
  Workers = {w1, w2}
  NumClusters = 3
  ClusterSize = 3
  EmbeddingLength = 2
  N = 2
  PlaintextModulus = 17
  ClusterData <- MCClusterData
  QueryEmbeddings <- MCQueryEmbeddings
  Idle = Idle
  Null = Null
SPECIFICATION FairSpec
INVARIANTS
  InputsReady
  OneWriterPerSlot
  ScoresOfDesiredCluster
  BestDocumentFound
PROPERTY QueryEnds
CHECK_DEADLOCK FALSE
