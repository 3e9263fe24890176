SPECIFICATION Spec
CONSTANTS
  loop = loop
  ingress = ingress
  Callers = {loop, ingress}
  MaxAppends = 4
  MaxFailures = 1
  MaxCrashes = 1
SYMMETRY Symmetry
CHECK_DEADLOCK FALSE
PROPERTIES
  AcknowledgedIsReadable
