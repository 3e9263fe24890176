SPECIFICATION ComponentsSpec
CONSTANTS
  AuthEvents = 9
  AuthInputs = 1
  ContextEvents = 7
  ModelTurns = 3
  MainEvents = 5
  Faults = 2
  loop = loop
  ingress = ingress
  Callers = {loop, ingress}
  MaxAppends = 4
  MaxFailures = 1
  MaxCrashes = 1
CHECK_DEADLOCK FALSE
INVARIANTS
  LoadIsComplete
  HeardInOrder
  HeardIsDurable
  OnlyFailuresDamage
  ToolsAreOrdered
  RequestsCanBeAnswered
  StreamsEndWhole
  ResultsMeetTheirCalls
  MessagesArriveOnce
  FilesAreKeptAndFound
  CreatedIsServed
PROPERTIES
  ContextIsTheStreams
  DeliveriesReadWell
