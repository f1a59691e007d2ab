SPECIFICATION TraceSpec
CONSTANTS
  kRingSlots = 8
  Cost = {0, 2}
  Messages = 3
INVARIANTS
  BookStageIsBook
CHECK_DEADLOCK FALSE
