SPECIFICATION Spec
CONSTANTS
  near = near
  west = west
  far = far
  ip1 = ip1
  ip2 = ip2
  None = None
  Local = Local
  Peer = {near, west, far}
  Handler = {h1, h2}
  RemoteList <- MCRemotes
  HomeOf <- MCHomes
  MayFail = TRUE
SYMMETRY MCHandlerSymmetry
INVARIANTS
  TypeOK
  NearFound
  DialledWhereFound
CHECK_DEADLOCK FALSE
