SPECIFICATION Spec
CONSTANTS
  c1 = c1
  c2 = c2
  c3 = c3
  CaptureID = {c1, c2, c3}
  NoCapture = NoCapture
  MaxTs = 2
CHECK_DEADLOCK FALSE
INVARIANTS TypeOK CheckInvariantHolds StateHasItsReplica
PROPERTIES CheckpointNeverDecreases ShutdownNeverFails
