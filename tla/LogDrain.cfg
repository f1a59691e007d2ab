SPECIFICATION HotSpec
CONSTANTS
  Capacity = 2
  Word = 4
  Value = {v1, v2}
  Blank = blank
  MaxPush = 5
INVARIANTS
  NothingLeftBehind
PROPERTIES
  HotPathNeverBlocked
  ShutdownTerminates
