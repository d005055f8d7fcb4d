SPECIFICATION FairSpec
CONSTANTS
  c1 = c1
  c2 = c2
  c3 = c3
  CaptureID = {c1, c2}
  InitialCaptures = {c1, c2}
  NoCapture = NoCapture
  MaxTs = 1
  MaxQueue = 1
  Budgets <- LiveBudgets
PROPERTIES EventuallyReplicated StopsAfterDrop
