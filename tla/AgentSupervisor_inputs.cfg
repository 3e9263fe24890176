SPECIFICATION Spec
CONSTANTS
  IsMain = TRUE
  MaxModelTurns = 1
  MaxAttempts = 0
  TokenBudget = 0
  Verdicts <- NoTools
  Failures = FALSE
  Controls <- NoControls
  MaxInputs = 2
  MaxControls = 0
  MaxApprovals = 0
  MaxResults = 0
  MaxCrashes = 0
  MaxUnrecorded = 0
  MaxCalls = 20
CHECK_DEADLOCK FALSE
INVARIANTS
  InputsReachTheModel
