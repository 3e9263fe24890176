SPECIFICATION Spec
CONSTANTS
  loop = loop
  ingress = ingress
  Writers = {loop, ingress}
  IsMain = TRUE
  Kinds <- TurnKinds
  MaxCalls = 3
SYMMETRY Symmetry
INVARIANTS
  StreamReplays
  CacheIsAPrefix
  OneEventPerCall
PROPERTIES
  PauseOutranksOutcome
  EndedCycleIsSealed
  Linearizable
