CONSTANTS
  read = read
  write = write
  accept = accept
  Op = {read, write, accept}
  Timeout <- MCTimeout
  FdOf <- MCFd
  BuffersCount = 2
  RingSizes = {2, 6}
  TicksPerSecond = 2
  Modulus = 16
  MaxBack = 1
  MaxForward = 1
  MaxSets = 1
SPECIFICATION Spec
INVARIANTS
  StuckOnlyIfSmall
  DestroyExact
PROPERTIES
  NeverEarly
  TimeoutsExpire
CHECK_DEADLOCK FALSE
