SPECIFICATION LimiterSpec
CONSTANTS
  Unit = 5
  Rate = 3
  Burst = 3
  MaxWindow = 40
INVARIANTS WindowBound
PROPERTIES PollersGetThrough
