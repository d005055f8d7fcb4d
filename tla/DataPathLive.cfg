SPECIFICATION LiveSpec
CONSTANTS
  Plans <- LivePlans
  Parts = {"sink", "tracker", "writer", "meta"}
  MaxTs = 3
  MaxOwners = 1
  MaxCrashes = 1
CHECK_DEADLOCK FALSE
PROPERTIES TableSettles ResolvedIsReached RedoCheckpointAdvances
