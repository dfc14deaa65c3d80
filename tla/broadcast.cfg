CONSTANTS
  N = 2
  PageSize = 1
  Workers = {w1, w2}
  w1 = w1
  w2 = w2
  MaxDrift = 1
  MaxFaults = 1
SPECIFICATION FairSpec
INVARIANTS
  DispatchInv
  AudienceCovered
  NeverStartsEmpty
PROPERTIES
  DecidedOnce
  DueSendDecided
CHECK_DEADLOCK FALSE
