\* One unix stream client under fairness: its connect may fail, it is used by
\* single and double requests and closed at any moment.
CONSTANTS
  Task = {t1, t2}
  BuffersCount = 2
  MaxWant = 2
  MaxCalls = 1
  Client = {x1}
  Tcp = {}
  Unix = {x1}
  Fd = {3}
  PeekCount = 1
  Handled = {t1, t2}
  None = None
SPECIFICATION Spec
PROPERTIES
  EstablishedCloses
  ConnectErrorCloses
CHECK_DEADLOCK FALSE
