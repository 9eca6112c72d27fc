CONSTANTS
  w1 = w1
  w2 = w2
  Worker = {w1}
  Channel = {1}
  Host <- OneHost
  Kind <- OnlyClient
SPECIFICATION Spec
PROPERTIES
  ShutdownAlwaysReturns
CHECK_DEADLOCK FALSE
