SPECIFICATION Spec
CONSTANTS
  Commands = {"TaskCompleted", "TaskQueued", "ContextCompacted"}
  MaxEvents = 5
  MaxClears = 1
  MaxCrashes = 1
CHECK_DEADLOCK FALSE
INVARIANTS
  ValidatedStreamRecovers
