SPECIFICATION WatcherSpec
CONSTANTS
  Configs = {v1, v2}
  Broken = {b1}
  Empty = empty
  EditKinds = {"inPlace", "replace", "early"}
  Debounce = 2
  MaxEdits = 3
INVARIANTS NoOtherLoss LastGoodIsActive
PROPERTIES EveryChangeSettles
CHECK_DEADLOCK FALSE
