SPECIFICATION Spec
CONSTANTS
  c1 = c1
  c2 = c2
  c3 = c3
  CaptureID = {c1, c2, c3}
  InitialCaptures = {c1, c2}
  NoCapture = NoCapture
  MaxTs = 2
  MaxQueue = 1
  Budgets <- SafetyBudgets
INVARIANTS OwnerKnowsWriters NeverInconsistent PrimaryIsReplicating
PROPERTY Implements
