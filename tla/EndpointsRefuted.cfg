\* Counterexamples, all of which tlc -continue finds: the descriptor of a socket
\* whose option is refused, fields with no effect or another one, the path of a
\* server that its client removes, and the addresses of a datagram client.
CONSTANTS
  Fd = {3, 4}
  Path = {p1}
  Address = {a1, a2}
  Settings <- MCSettings
  None = None
  Stale = Stale
SPECIFICATION EndpointSpec
INVARIANTS
  NoDescriptorLost
  EveryOptionAsDocumented
  ServersReachable
  DatagramsGoToDestination
