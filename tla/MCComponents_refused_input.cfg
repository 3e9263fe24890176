SPECIFICATION ComponentsSpec
CONSTANTS
  AuthEvents = 9
  AuthInputs = 2
  ContextEvents = 1
  ModelTurns = 1
  MainEvents = 1
  Faults = 0
  loop = loop
  ingress = ingress
  Callers = {loop, ingress}
  MaxAppends = 1
  MaxFailures = 1
  MaxCrashes = 1
CHECK_DEADLOCK FALSE
INVARIANTS
  RefusedInputStartsNothing
