SPECIFICATION Spec
CONSTANTS
  FailureThreshold = 2
  RecoveryThreshold = 2
  Names = {"disk"}
  MaxGroup = 1
  MaxPosts = 1
  MaxFlaps = 2
  MaxFaults = 0
  MaxRestarts = 1
CHECK_DEADLOCK FALSE
PROPERTIES
  RecoveryIsReported
