CONSTANTS
  N = 2
  PageSize = 1
  Workers = {w1, w2}
  w1 = w1
  w2 = w2
  MaxGateMoves = 0
  MaxDrift = 0
  MaxFaults = 1
  MaxClicks = 0
SPECIFICATION Spec
PROPERTIES
  OverlapHarmless
CHECK_DEADLOCK FALSE
