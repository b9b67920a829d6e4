SPECIFICATION FairSpec
CONSTANTS
  c1 = c1
  c2 = c2
  f1 = f1
  f2 = f2
  d1 = d1
  d2 = d2
  u1 = u1
  u2 = u2
  NoFd = NoFd
  NoDevice = NoDevice
  Ctx = {c1, c2}
  Fd = {f1}
  Device = {d1}
  Caller = {t1}
  Config <- OneRefused
  Removable <- Uids
  MaxBytes = 1
  Faults = FALSE
PROPERTIES
  StopReturns
  PortReopened
  HangupNoticed
  BytesDelivered
