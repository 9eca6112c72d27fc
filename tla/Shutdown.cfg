\* Two workers that start while shutdown() is called, with a client, a server
\* and a file.
CONSTANTS
  w1 = w1
  w2 = w2
  Worker = {w1, w2}
  Channel = {1, 2, 3}
  Host <- ThreeHosts
  Kind <- ThreeKinds
SPECIFICATION Spec
INVARIANTS
  NoUseAfterDestroy
  FoundChannelsClosed
PROPERTIES
  ShutdownDestroysWorkers
  ShutdownReturns
CHECK_DEADLOCK FALSE
