CONSTANTS
  Width = 3
  SeedCells = 1
  RingSizes = {1, 2}
  WireMessages <- MCMessages
  Buffers <- MCBuffers
SPECIFICATION WireSpec
INVARIANTS
  RoundTrip
  TruncatedIsRejected
  AcceptedIsSerialized
CHECK_DEADLOCK FALSE
