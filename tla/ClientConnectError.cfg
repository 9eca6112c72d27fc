\* The same for a TCP client.
CONSTANTS
  Task = {t1}
  BuffersCount = 2
  MaxWant = 1
  MaxCalls = 1
  Client = {c1}
  Tcp = {c1}
  Unix = {}
  Fd = {3}
  PeekCount = 1
  Handled = {t1}
  None = None
SPECIFICATION Spec
PROPERTIES
  ConnectErrorCloses
CHECK_DEADLOCK FALSE
