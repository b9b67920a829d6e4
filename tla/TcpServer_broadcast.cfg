SPECIFICATION Spec
CONSTANTS
  Junk = Junk
  Bev = {b1, b2}
  Capacity = 1
  Sender = {s1, s2}
  MaxMsg = 1
INVARIANTS
  EveryClientReached
CHECK_DEADLOCK FALSE
