\* Counterexamples, both of which tlc -continue finds: a server that the
\* application closes, and one that it opens, while the worker closes.
CONSTANTS
  w1 = w1
  w2 = w2
  Worker = {w1}
  Channel = {1}
  Host <- OneHost
  Kind <- OnlyServer
SPECIFICATION Spec
INVARIANTS
  AllFoundClosed
  OpenedBefore
CHECK_DEADLOCK FALSE
