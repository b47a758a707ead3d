SPECIFICATION Spec
CONSTANTS
  Conns = {c1, c2}
  Listeners = {l1, l2}
  Configs <- MCConfigs
INVARIANTS CleanExit NoPartDead ChecksAgree
PROPERTIES FailureStopsAll CancelledExits
CHECK_DEADLOCK FALSE
