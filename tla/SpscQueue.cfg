SPECIFICATION Spec
CONSTANTS
  Capacity = 2
  Word = 4
  Value = {v1, v2}
  Blank = blank
  MaxPush = 6
INVARIANTS
  TypeOK
  RaceFree
  FifoDelivery
PROPERTIES
  RefusesRightly
  ImplementsFifo
