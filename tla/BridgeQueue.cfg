SPECIFICATION FairSpec
CONSTANTS
  top = top
  NULL = NULL
  Node = {n1, n2, n3}
  MaxMsg <- Sends
INVARIANTS
  TypeOK
  HandledOnceInOrder
  OnlyTheseRacesHarm
PROPERTIES
  PushedIsHandled
CHECK_DEADLOCK FALSE
