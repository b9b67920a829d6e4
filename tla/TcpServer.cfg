SPECIFICATION Spec
CONSTANTS
  Junk = Junk
  Bev = {b1, b2, b3}
  Capacity = 1
  Sender = {s1, s2}
  MaxMsg = 2
INVARIANTS
  TypeOK
  ClientsTracked
  SoleClientReached
SYMMETRY Symmetry
CHECK_DEADLOCK FALSE
