SPECIFICATION Spec
CONSTANTS
  a = a
  b = b
  c = c
  NSE = {a, b, c}
  Unset = Unset
  NotNumber = NotNumber
  NotAddress = NotAddress
  PodOctet <- MCPodOctet
  UniqueOctet <- MCUniqueOctet
  PoolOnes = 16
  Pool <- MCPool
  Server = {a, b}
  PrefixLength = 22
  NseControl <- MCControl
  Leasable <- MCLeasable
  MayRefuse = TRUE
  Routes <- MCRoutes
  Finds <- MCFinds
INVARIANTS
  TypeOK
  SubnetsDisjoint
  NoStrayRoute
  BothWays
CHECK_DEADLOCK FALSE
