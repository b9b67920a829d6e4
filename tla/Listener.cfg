SPECIFICATION FairSpec
CONSTANTS
  Slot = {t1, t2}
  MaxMsg = 2
  MaxStops = 2
INVARIANTS
  TypeOK
  MessagesWhole
  OneLateCallback
PROPERTIES
  StopEndsLoop
  MessagesReach
CHECK_DEADLOCK FALSE
