\* Two sends through the same buffer; only the caller of the first passes handlers.
CONSTANTS
  Task = {t1, t2}
  BuffersCount = 2
  MaxWant = 1
  MaxCalls = 2
  Client = {u1}
  Tcp = {}
  Unix = {}
  Fd = {3}
  PeekCount = 1
  Handled = {t1}
  None = None
SPECIFICATION Spec
INVARIANTS
  NoExtraReport
CHECK_DEADLOCK FALSE
