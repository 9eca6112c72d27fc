\* A timeout of seven quarters of a second.  With Timeout <- MCWhole, MaxSets = 1 and
\* MaxBack = 1 or MaxForward = 1 the clock makes a timeout of whole seconds early.
CONSTANTS
  read = read
  write = write
  accept = accept
  Op = {read}
  Timeout <- MCTruncated
  FdOf <- MCFd
  BuffersCount = 2
  RingSizes = {2}
  TicksPerSecond = 4
  Modulus = 16
  MaxBack = 0
  MaxForward = 0
  MaxSets = 0
SPECIFICATION Spec
PROPERTIES
  NeverEarlyAtAll
CHECK_DEADLOCK FALSE
