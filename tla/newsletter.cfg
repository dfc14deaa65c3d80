CONSTANTS
  N = 2
  PageSize = 1
  Workers = {w1, w2}
  w1 = w1
  w2 = w2
  MaxGateMoves = 2
  MaxDrift = 1
  MaxFaults = 2
  MaxClicks = 1
SPECIFICATION FairSpec
INVARIANTS
  NewsletterInv
  CompleteAudience
  OneCopyEach
PROPERTIES
  GateNeverBypassed
  HeldSendGoesOut
CHECK_DEADLOCK FALSE
