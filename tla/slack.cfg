SPECIFICATION Spec
CONSTANTS
  r1 = r1  r2 = r2  s1 = s1  s2 = s2  w1 = w1  w2 = w2
  Rows = {r1, r2}
  Sends = {s1}
  SendOf <- OneSend
  Late = {}
  Planned <- NoPlan
  Erasable = {}
  Workers = {w1, w2}
  Paced = TRUE
  BatchSize = 1
  ClaimLimit = 2
  MaxAttempts = 2
  Hazards = {}
  MaxBatches = 4
  MaxFaults = 3
  MaxAdmin = 1
CONSTRAINT WithinBudget
SYMMETRY TickAndRowSymmetry
INVARIANTS
  PauseTakesHold
  TriesCapped
PROPERTIES
  StopStands
  ImplementsLifecycle
