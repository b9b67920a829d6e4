SPECIFICATION Spec
CONSTANTS
  c1 = c1
  c2 = c2
  f1 = f1
  f2 = f2
  d1 = d1
  d2 = d2
  u1 = u1
  u2 = u2
  NoFd = NoFd
  NoDevice = NoDevice
  Ctx = {c1, c2}
  Fd = {f1, f2}
  Device = {d1, d2}
  Caller = {t1}
  Config <- TwoPorts
  Removable <- Uids
  MaxBytes = 1
  Faults = FALSE
PROPERTIES
  HangupClosesOwnPort
