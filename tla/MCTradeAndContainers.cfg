SPECIFICATION MCSpec
CONSTANTS
  MinSpread = 2
  JoinOffset = 1
  OrderQty = 2
  QuoteMaxPosition = 3
  MaxOrderQty = 3
  MaxPosition = 5
  BandTicks = 1
  MaxOrdersPerSec = 3
  FillPeriod = 2
  SeqWord = 3
  Levels = 6
  Offsets = {1, 2}
  AddQty = {1, 2}
  ExecQty = 1
  MaxIds = 3
  N = 4
  kInvalid = 99
  MaxDepth = 3
  Vec = {v1, v2}
  Element = {a, b}
  Capacity = 3
  ByteMax = 2
  ShortMax = 15
  WordMax = 63
  Raw = Raw
  NoVector = NoVector
  Begin = 3
  Bytes = 14
  Memory = 64
  Sizes <- MCSizes
  Aligns <- MCAligns
  nullptr = 999
INVARIANTS
  FeedWellFormed
  PoolAccounted
  ConstructedUpToSize
  ArenaExact
PROPERTIES
  KeepsBookContract
  QuotesCurrentBook
  ImplementsBoundedBags
CHECK_DEADLOCK FALSE
