SPECIFICATION Spec
CONSTANTS
  d1 = d1
  d2 = d2
  u1 = u1
  u2 = u2
  u3 = u3
  NoFd = NoFd
  NoDevice = NoDevice
  NULL = NULL
  Unreadable = Unreadable
  Ctx = {c1, c2, c3}
  Fd = {f1, f2}
  Device = {d1, d2}
  Uid = {u1, u2, u3}
  Caller = {t1}
  Baud = {9600, 115200}
  DEFAULT_SERIAL_BAUDRATE = 115200
  DEFAULT_BUF_MAX = 1024
  DEFAULT_SERIAL_REV_TIMEOUT = 100
  MAX_THREAD_COUNT = 2
  CommandLines <- Lines
  MaxBytes = 2
  Faults = TRUE
INVARIANTS
  TypeOK
  PortsServed
  CommandLineChecked
  BytesRouted
PROPERTIES
  HangupClosesOwnPort
SYMMETRY Symmetry
CHECK_DEADLOCK FALSE
