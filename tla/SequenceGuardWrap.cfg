SPECIFICATION GuardSpec
CONSTANTS
  SeqWord = 6
  MaxMessage = 7
  MaxDeliveries = 5
PROPERTIES
  TellsIrregular
CHECK_DEADLOCK FALSE
