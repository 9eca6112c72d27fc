\* Three descriptors, one socket path, the configurations of the module.
CONSTANTS
  Fd = {3, 4, 5}
  Path = {p1}
  Address = {a1, a2}
  Settings <- MCSettings
  None = None
  Stale = Stale
SPECIFICATION EndpointSpec
INVARIANTS
  DescriptorsAccounted
  PathsLeadToServers
  OptionsAsNamed
