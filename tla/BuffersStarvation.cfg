\* Three tasks ask for one buffer again and again.
CONSTANTS
  Task = {t1, t2, t3}
  BuffersCount = 2
  MaxWant = 1
  MaxCalls <- Unbounded
SPECIFICATION Spec
PROPERTIES
  EveryRequestServed
CHECK_DEADLOCK FALSE
