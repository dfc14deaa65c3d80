SPECIFICATION Spec
CONSTANTS
  r1 = r1  r2 = r2  s1 = s1  s2 = s2  w1 = w1  w2 = w2
  Rows = {r1, r2}
  Sends = {s1}
  SendOf <- OneSend
  Late = {}
  Planned <- AllPlanned
  Erasable = {}
  Workers = {w1, w2}
  Paced = FALSE
  BatchSize = 1
  ClaimLimit = 2
  MaxAttempts = 0
  Hazards = {"blind_write"}
  MaxBatches = 3
  MaxFaults = 1
  MaxAdmin = 1
SYMMETRY TickAndRowSymmetry
INVARIANTS
  TypeOK
  MailedOnce
  AtMostOneCopy
  SentMeansDelivered
  EndedMeansSettled
