SPECIFICATION FairSpec
CONSTANTS
  r1 = r1  r2 = r2  s1 = s1  s2 = s2  w1 = w1  w2 = w2
  Rows = {r1, r2}
  Sends = {s1}
  SendOf <- OneSend
  Late = {r2}
  Planned <- NoPlan
  Erasable = {r1}
  Workers = {w1}
  Paced = FALSE
  BatchSize = 2
  ClaimLimit = 2
  MaxAttempts = 0
  Hazards = {"lost_reply", "lost_update"}
  MaxBatches = 6
  MaxFaults = 2
  MaxAdmin = 1
INVARIANTS
  ReportedCountIsTrue
PROPERTIES
  ErasedNotMailed
  SettledRowsStay
  EverySendSettles
