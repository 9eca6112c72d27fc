\* One server with two connections on three descriptors that are given again,
\* used by single and double requests, all closed at any moment, gracefully or
\* not.
CONSTANTS
  Task = {t1}
  BuffersCount = 2
  MaxWant = 2
  MaxCalls = 2
  Server = {s1}
  MaxConnections = 2
  MaxFd = 3
  PeekCount = 2
  None = None
SPECIFICATION Spec
INVARIANTS
  MapsAgree
  ClosingServerClosesConnections
  AcceptLoopAlive
  OperationsAccounted
PROPERTIES
  ClosesEnd
  ImplementsLifecycle
CHECK_DEADLOCK FALSE
