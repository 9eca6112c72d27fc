CONSTANTS
  Key = {1, 2, 3, 4, 5, 6, 7, 8}
  Version = {1, 2}
  Endless = {1, 5, 6, 7, 8}
  HashOf <- MCHash
  FdOf <- MCFd
  Primes <- MCPrimes
  Batch = 4
  Reserved = 6
  Standing <- MCStanding
SPECIFICATION EventsSpec
INVARIANTS
  TableSound
  ForgetsExactly
PROPERTIES
  ImplementsSet
