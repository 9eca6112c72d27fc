\* A TCP and a datagram client share two buffers and, one after the other, one
\* descriptor; single and double writes, reads, timeouts, graceful and forced
\* closes.  Every task makes one request, so the system comes to rest.
CONSTANTS
  Task = {t1, t2}
  BuffersCount = 2
  MaxWant = 2
  MaxCalls = 1
  Client = {c1, u1}
  Tcp = {c1}
  Unix = {}
  Fd = {3}
  PeekCount = 2
  Handled = {t1, t2}
  None = None
SPECIFICATION Spec
SYMMETRY Symmetry
INVARIANTS
  PendingExact
  CompletionReachesIssuer
  KernelBuffersOwned
  EventsTrackOperations
  WritesReported
PROPERTIES
  ImplementsLifecycle
CHECK_DEADLOCK FALSE
