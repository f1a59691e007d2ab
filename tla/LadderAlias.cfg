SPECIFICATION LadderSpec
CONSTANTS
  Id = {i1, i2}
  MaxQty = 1
  kMaxOrders = 2
  kLevels = 3
  Price = {0, 2, 8}
  IntWord = 8
  kNull = 99
INVARIANTS
  WindowKept
CHECK_DEADLOCK FALSE
