SPECIFICATION StopSpec
CONSTANTS
  IsMain = FALSE
  MaxModelTurns = 1
  MaxAttempts = 0
  TokenBudget = 0
  Verdicts <- NoTools
  Failures = TRUE
  Controls <- AllControls
  MaxInputs = 1
  MaxControls = 2
  MaxApprovals = 0
  MaxResults = 0
  MaxCrashes = 0
  MaxUnrecorded = 0
  MaxCalls = 20
CHECK_DEADLOCK FALSE
PROPERTIES
  PauseTakesEffect
  CancellationTakesEffect
  QueuedTasksAreStarted
