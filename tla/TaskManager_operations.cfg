SPECIFICATION FairSpec
CONSTANTS
  c1 = c1
  c2 = c2
  Children = {c1}
  Operations <- AllOperations
  Controls <- CancelOrSelectModel
  MaxOperations = 3
  MaxCalls = 2
  MaxTroubles = 2
  MaxInAll = 4
CHECK_DEADLOCK FALSE
INVARIANTS
  AcceptedMeansDone
  RejectedMeansNotDone
  ChildIsAccountedFor
  OneOutcomePerStart
PROPERTIES
  ResultIsDelivered
