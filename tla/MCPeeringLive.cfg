SPECIFICATION FairSpec
CONSTANTS
  NoName = NoName
  None = None
  NSE = {a, b}
  Worker = {w1}
  Responses <- MCSingleResponses
  Early = {b}
  MayTimeout = TRUE
  MayFail = FALSE
  MayRedeliver = FALSE
INVARIANTS
  ConnHeldSomehow
PROPERTIES
  DiscoveryEnds
  PeerSettles
