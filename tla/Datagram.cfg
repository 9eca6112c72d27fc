\* Receives and answers, single and in pairs, that compete for two buffers,
\* while the server is closed, gracefully or not.
CONSTANTS
  Task = {t1, t2, t3}
  BuffersCount = 2
  MaxWant = 2
  MaxCalls = 1
  Sender = {a1, a2}
  Patient = TRUE
  PeekCount = 2
  None = None
SPECIFICATION Spec
INVARIANTS
  AnswersReachSender
  PendingExact
PROPERTIES
  CloseEnds
CHECK_DEADLOCK FALSE
