SPECIFICATION ArbitratorSpec
CONSTANTS
  Line = {A, B}
  Messages = 3
INVARIANTS
  DuplicateMeansTaken
CHECK_DEADLOCK FALSE
