SPECIFICATION Spec
CONSTANTS
  near = near
  west = west
  far = far
  ip1 = ip1
  ip2 = ip2
  None = None
  Local = Local
  Peer = {near, west, far}
  Handler = {h1}
  RemoteList <- MCRemotes
  HomeOf <- MCHomes
  MayFail = FALSE
INVARIANTS
  AllFound
CHECK_DEADLOCK FALSE
