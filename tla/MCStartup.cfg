SPECIFICATION FairSpec
CONSTANTS
  Program = "vl3"
  Configs <- MCConfigs
  Verify = {TRUE, FALSE}
  Octets = {"given", "pod4", "pod6"}
INVARIANTS
  TypeOK
  
  ExitLeavesNothing
PROPERTY
  SignalEnds
CHECK_DEADLOCK FALSE
