CONSTANTS
  Replicas = {client, server}
  ByteValues = 2
  WordBytes = 2
  ChunkBytes = 4
  MaxChunks = 2
SPECIFICATION Spec
INVARIANTS
  ReplicasAgree
  Continuous
  Uniform
CHECK_DEADLOCK FALSE
