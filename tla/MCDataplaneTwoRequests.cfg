SPECIFICATION Spec
CONSTANTS
  None = None
  podX = podX
  podY = podY
  x = x
  y = y
  z = z
  Conn = {x, y, z}
  LabelOf <- MCLabels
  Handler = {h1, h2}
  Faults = {}
  MayReRequest = FALSE
  MaxInterfaces = 3
  NatIP = FALSE
  Forwarded = {}
  MaxRestarts = 0
INVARIANTS
  OpenProgrammed
