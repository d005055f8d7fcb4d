SPECIFICATION FairSpec
CONSTANTS
  MaxDDL = 2
  Prompt = TRUE
  Budgets <- AllTasks
CHECK_DEADLOCK FALSE
INVARIANT OneExecutor
PROPERTIES ExecutedAfterAll AllPass
