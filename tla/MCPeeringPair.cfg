SPECIFICATION Spec
CONSTANTS
  NoName = NoName
  None = None
  NSE = {a, b}
  Worker = {w1, w2}
  Responses <- MCSingleResponses
  Early = {a, b}
  MayTimeout = TRUE
  MayFail = TRUE
  MayRedeliver = TRUE
SYMMETRY MCSymmetry
INVARIANTS
  TypeOK
  ConnectsUnderPeerLock
  ConnAgreed
  SingleLink
  NoSelfPeering
PROPERTIES
  ConnKept
  AsksOnlyUnconnected
  ClientKept
  ImplementsContract
