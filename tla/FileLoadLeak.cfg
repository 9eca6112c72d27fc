\* load(blocksCount: 3) of a file of two blocks.
CONSTANTS
  Task = {l}
  BuffersCount = 3
  MaxWant = 3
  MaxCalls = 4
  Loader = l
  Block = 2
  Sizes = {4}
  Offsets = {0}
  PeekCount = 2
  None = None
SPECIFICATION Spec
INVARIANTS
  LoadLeavesNoBuffer
CHECK_DEADLOCK FALSE
