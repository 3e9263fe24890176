SPECIFICATION Spec
CONSTANTS
  IsMain = FALSE
  MaxModelTurns = 2
  MaxAttempts = 0
  TokenBudget = 0
  Verdicts <- Asking
  Failures = FALSE
  Controls <- NoControls
  MaxInputs = 1
  MaxControls = 0
  MaxApprovals = 1
  MaxResults = 0
  MaxCrashes = 1
  MaxUnrecorded = 0
  MaxCalls = 20
CHECK_DEADLOCK FALSE
INVARIANTS
  ApprovalIsForTheWaitingTool
