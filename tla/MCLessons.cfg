SPECIFICATION MCSpec
CONSTANTS
  Word = {w1, w2}
  seq_ = seq_
  MaxStores = 5
  SeqWord = 16
  Line = {A, B}
  Messages = 6
  per_sec = 3
  Second = 10
  MaxTime = 12
  Two32 = 128
  MaxNum = 60
  MaxStep = 12
  Key = {1, 2, 3, 4}
  Mapped = {h1, h2}
  NoValue = NoValue
  kSlots = 5
  MaxLive = 3
  Id = {i1, i2, i3}
  MaxQty = 2
  kMaxOrders = 3
  kLevels = 3
  Price <- MCPrice
  IntWord = 8
  kNull = 99
INVARIANTS
  CleanSnapshot
  TakenOrReported
  LimitExact
  ArithmeticExact
  MapExact
  LadderExact
PROPERTIES
  ReadersGetThrough
CHECK_DEADLOCK FALSE
