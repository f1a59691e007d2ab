SPECIFICATION Spec
CONSTANTS
  MinSpread = 2
  JoinOffset = 1
  OrderQty = 2
  QuoteMaxPosition = 3
  MaxOrderQty = 3
  MaxPosition = 5
  BandTicks = 1
  MaxOrdersPerSec = 3
  FillPeriod = 2
  SeqWord = 3
  Levels = 6
  Offsets = {1, 2}
  AddQty = {1, 2}
  ExecQty = 1
  MaxIds = 3
INVARIANTS
  StaysCancellable
CHECK_DEADLOCK FALSE
