SPECIFICATION MCSpec
CONSTANTS
  Plans <- SafetyPlans
  Parts = {"sink", "tracker", "split", "stop", "writer", "meta"}
  MaxTs = 2
  MaxOwners = 2
  MaxCrashes = 1
CHECK_DEADLOCK FALSE
INVARIANTS CheckpointDurable StoppedIsSilent Conserved StoredUnlessFailed AlwaysRecoverable
PROPERTIES CheckpointExact
