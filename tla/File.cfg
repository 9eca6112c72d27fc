\* load() of files of up to two blocks, in rounds of one to three, and a write
\* of the application that competes for three buffers.
CONSTANTS
  Task = {l, t1}
  BuffersCount = 3
  MaxWant = 3
  MaxCalls = 4
  Loader = l
  Block = 2
  Sizes = {0, 3, 4, 5}
  Offsets = {0, 2}
  PeekCount = 2
  None = None
SPECIFICATION Spec
INVARIANTS
  WritesReportedOnce
  LoadReturnsContent
  LoadReleasesBuffers
PROPERTIES
  LoadEnds
CHECK_DEADLOCK FALSE
