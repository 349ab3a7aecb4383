SPECIFICATION FairSpec
CONSTANTS
  a = a
  b = b
  p = p
  q = q
  u = u
  NotNumber = NotNumber
  Conn = {a, b, p, q, u}
  LabelsOf <- MCLabels
  Addressed = {a, b, p, q, u}
  ConnDomain = "domain"
  Anomalies = {}
INVARIANTS
  TypeOK
  GaugeBalanced
  RegistryFollows
PROPERTIES
  GaugeSettles
CHECK_DEADLOCK FALSE
