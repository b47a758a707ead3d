SPECIFICATION BreakerSpec
CONSTANTS
  Callers = {c1, c2, c3}
  Threshold = 3
  ResetTimeout = 4
INVARIANTS OpenIffThreshold
PROPERTIES NoEarlyProbe NeverOpenForEver
