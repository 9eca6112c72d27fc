\* A unix stream client closed while its connect fails, and a client opened next.
CONSTANTS
  Task = {t1}
  BuffersCount = 2
  MaxWant = 1
  MaxCalls = 1
  Client = {x1, u1}
  Tcp = {}
  Unix = {x1}
  Fd = {3}
  PeekCount = 1
  Handled = {t1}
  None = None
SPECIFICATION Spec
INVARIANTS
  DescriptorIsOwn
CHECK_DEADLOCK FALSE
