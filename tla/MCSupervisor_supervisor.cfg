SPECIFICATION SupervisorSpec
CONSTANTS
  IsMain = FALSE
  MaxModelTurns = 1
  MaxAttempts = 0
  TokenBudget = 0
  Verdicts <- Asking
  Failures = TRUE
  Controls <- NoControls
  MaxInputs = 1
  MaxControls = 0
  MaxApprovals = 2
  MaxResults = 0
  MaxCrashes = 0
  MaxUnrecorded = 0
  MaxCalls = 20
CHECK_DEADLOCK FALSE
INVARIANTS
  ToolRunsAgainOnlyUnasked
  NoToolWithoutApproval
  ApprovalIsActedOn
  PausedMeansStopped
  MainSeesToolResults
  MainKeepsItsBudget
  ChildrenAreNotAbandoned
