SPECIFICATION FairSpec
CONSTANTS
  LeaseTimeout = 3
  Hour = 4
  MaxDelay = 3
  MayFail = FALSE
CHECK_DEADLOCK FALSE
INVARIANTS
  TypeOK
  HoldsWhileServing
  FreedAfterDelete
PROPERTY
  AllocationEnds
