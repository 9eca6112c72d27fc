\* A datagram client that is closed and used.
CONSTANTS
  Task = {t1}
  BuffersCount = 2
  MaxWant = 1
  MaxCalls = 1
  Client = {u1}
  Tcp = {}
  Unix = {}
  Fd = {3}
  PeekCount = 1
  Handled = {t1}
  None = None
SPECIFICATION Spec
INVARIANTS
  NoBufferLeak
CHECK_DEADLOCK FALSE
