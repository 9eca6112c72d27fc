\* writeMany of two chunks competes with other requests for two buffers.
CONSTANTS
  Task = {t1, t2}
  BuffersCount = 2
  MaxWant = 2
  MaxCalls = 2
SPECIFICATION Spec
PROPERTIES
  EveryRequestServed
CHECK_DEADLOCK FALSE
