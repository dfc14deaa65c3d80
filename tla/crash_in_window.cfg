SPECIFICATION Spec
CONSTANTS
  r1 = r1  r2 = r2  s1 = s1  s2 = s2  w1 = w1  w2 = w2
  Rows = {r1, r2}
  Sends = {s1}
  SendOf <- OneSend
  Late = {}
  Planned <- NoPlan
  Erasable = {}
  Workers = {w1}
  Paced = FALSE
  BatchSize = 2
  ClaimLimit = 2
  MaxAttempts = 0
  Hazards = {"window"}
  MaxBatches = 3
  MaxFaults = 1
  MaxAdmin = 1
INVARIANT AtMostOneCopy
