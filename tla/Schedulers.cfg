SPECIFICATION FairSpec
CONSTANTS
  c1 = c1
  c2 = c2
  c3 = c3
  Owner = c1
  NoCapture = NoCapture
  CaptureID = {c1, c2, c3}
  TableID = {1, 2, 3}
  MaxTs = 0
  maxTaskConcurrency = 1
  Setups <- MCSetups
INVARIANT TickSucceeds
PROPERTIES StoppingEmptied TablesPlaced
