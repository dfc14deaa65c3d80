CONSTANTS
  N = 1
  PageSize = 1
  Workers = {w1, w2}
  w1 = w1
  w2 = w2
  MaxGateMoves = 0
  MaxDrift = 0
  MaxFaults = 0
  MaxClicks = 1
SPECIFICATION Spec
PROPERTIES
  CancelStands
CHECK_DEADLOCK FALSE
