SPECIFICATION Spec
CONSTANTS
  None = None
  podX = podX
  podY = podY
  x = x
  y = y
  z = z
  Conn = {x, y}
  LabelOf <- MCNumberedPair
  Handler = {h1}
  Faults = {"chain", "mkdir", "port", "update", "delete"}
  MayReRequest = TRUE
  MaxInterfaces = 3
  NatIP = FALSE
  Forwarded = {}
  MaxRestarts = 1
INVARIANTS
  TypeOK
  OpenConfigured
  CloseCutsOwn
CHECK_DEADLOCK FALSE
