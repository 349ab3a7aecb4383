SPECIFICATION Spec
CONSTANTS
  None = None
  podX = podX
  podY = podY
  x = x
  y = y
  z = z
  Conn = {x, y, z}
  LabelOf <- MCNumbered
  Handler = {h1}
  Faults = {"chain"}
  MayReRequest = FALSE
  MaxInterfaces = 6
  NatIP = TRUE
  Forwarded = {x, y}
  MaxRestarts = 1
INVARIANTS
  OpenProgrammed
  ClosedIsGone
  VppMirrorsConfig
  NatServed
PROPERTIES
  ImplementsContract
CHECK_DEADLOCK FALSE
