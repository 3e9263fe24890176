SPECIFICATION ProgressSpec
CONSTANTS
  Behaviours <- Programs
  MaxInputBytes = 3
  MaxOutputBytes = 3
  PipeSize = 1
CHECK_DEADLOCK FALSE
INVARIANTS
  CallIsCleanAndWhole
PROPERTIES
  DispatchesAreTaken
  WorkIsTaken
  AlertsAreRecordedOnce
  OutageIsReported
  CallEnds
