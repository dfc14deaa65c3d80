SPECIFICATION Spec
CONSTANTS
  w1 = w1  w2 = w2
  Workers = {w1, w2}
  Cap = 6
  MaxAsk = 3
  MaxDays = 2
  MaxClaims = 5
  MaxFaults = 1
  MaxRepeats = 0
  LateRelease = FALSE
SYMMETRY ReplicaSymmetry
CHECK_DEADLOCK FALSE
INVARIANTS
  QuotaInv
  CapKept
