\* The application releases a responder whose answer still waits for a buffer.
CONSTANTS
  Task = {t1, t2, t3, t4}
  BuffersCount = 2
  MaxWant = 1
  MaxCalls = 1
  Sender = {a1, a2}
  Patient = FALSE
  PeekCount = 2
  None = None
SPECIFICATION Spec
SYMMETRY Symmetry
INVARIANTS
  AnswersReachSender
CHECK_DEADLOCK FALSE
