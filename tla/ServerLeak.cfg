\* A connection is accepted while the server closes.
CONSTANTS
  Task = {t1}
  BuffersCount = 2
  MaxWant = 1
  MaxCalls = 1
  Server = {s1}
  MaxConnections = 1
  MaxFd = 2
  PeekCount = 1
  None = None
SPECIFICATION Spec
INVARIANTS
  NoDescriptorLeak
CHECK_DEADLOCK FALSE
