CONSTANTS
  read = read
  write = write
  accept = accept
  Op = {read}
  Timeout <- MCWhole
  FdOf <- MCFd
  BuffersCount = 2
  RingSizes = {2}
  TicksPerSecond = 2
  Modulus = 16
  MaxBack = 0
  MaxForward = 0
  MaxSets = 0
SPECIFICATION Spec
PROPERTIES
  TimeoutsAlwaysExpire
CHECK_DEADLOCK FALSE
