CONSTANTS
  Task = {t1, t2, t3, t4}
  BuffersCount = 2
  MaxWant = 2
  MaxCalls <- Unbounded
SPECIFICATION Spec
INVARIANTS
  BufferOwnership
  NoLostWakeup
PROPERTIES
  SinglesServed
  ImplementsAllocator
CHECK_DEADLOCK FALSE
