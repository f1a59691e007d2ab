SPECIFICATION MCSpec
CONSTANTS
  SeqWord = 8
  MaxMessage = 5
  MaxDeliveries = 5
  AddQty = {2}
  ExecQty = 1
  MaxIds = 3
  kMaxOrders = 2
  MinSpread = 2
  JoinOffset = 1
  OrderQty = 2
  QuoteMaxPosition = 3
  MaxOrderQty = 3
  MaxPosition = 5
  BandTicks = 1
  MaxOrdersPerSec = 2
  FillPeriod = 2
  Second = 2
  MaxTime = 4
  Touches <- MCTouches
INVARIANTS
  CountersExact
  CleanMeansFaithful
  DamageIsLocal
  InsideTouch
  OneClip
  BurstBounded
  FilledQuoteReplaced
PROPERTIES
  TellsIrregular
CHECK_DEADLOCK FALSE
