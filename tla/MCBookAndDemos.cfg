SPECIFICATION AllSpec
CONSTANTS
  Levels = 3
  MaxOrders = 3
  TableSize = 4
  QtyWord = 8
  OrderIds = {1, 2, 3}
  Home <- MCHome
  Prices <- MCPrices
  AddQty = {2}
  ReduceQty = {0, 1, 3}
  N = 4
  Fields = {tsc, ev}
  Caps = {2, 5}
  MaxPut = 9
  kRingSlots = 8
  Cost = {0, 2}
  Messages = 3
  Buckets = 3
  NsPerBucket = 2
  MaxNs = 7
  Percents <- MCPercents
  PingPongs = 5
  Warmup = 2
  Streamed = 12
  Small = 2
  Large = 4
INVARIANTS
  IdsResolve
  SlabAccounted
  LadderAgrees
  SnapshotFaithful
  JourneysTrue
  PercentilesTrue
  HandoffsExact
PROPERTIES
  ImplementsBook
  Terminates
CHECK_DEADLOCK FALSE
