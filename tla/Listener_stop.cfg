SPECIFICATION FairSpec
CONSTANTS
  Slot = {t1}
  MaxMsg = 1
  MaxStops = 1
PROPERTIES
  StopStops
CHECK_DEADLOCK FALSE
