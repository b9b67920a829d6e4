SPECIFICATION FairSpec
CONSTANTS
  col = col
  mon = mon
  other = other
  a = a
  b = b
  Under = Under
  South = South
  North = North
  Device = {col, mon, other}
  uid <- Uids
  Collector = {col}
  TopicMax = 4
  text <- Texts
  Sender <- Senders
  MaxMsg <- Sends
  Faults = TRUE
INVARIANTS
  TypeOK
  MessagesPaired
  ProxyNeverWaits
  OnlyCounterpartHeard
PROPERTIES
  SubscriptionPassedOn
CHECK_DEADLOCK FALSE
