\* A server is closed and another one gets its descriptor.
CONSTANTS
  Task = {t1}
  BuffersCount = 2
  MaxWant = 1
  MaxCalls = 1
  Server = {s1, s2}
  MaxConnections = 1
  MaxFd = 2
  PeekCount = 1
  None = None
SPECIFICATION Spec
INVARIANTS
  ConnectionOfItsListener
CHECK_DEADLOCK FALSE
