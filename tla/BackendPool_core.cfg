SPECIFICATION Spec
CONSTANTS
  Sessions = {s1, s2}
  Ips = {i1, i2}
  PoolSizes = {1, 2}
  NatModes = {TRUE, FALSE}
  IdLimit = 2
  MaxFaults = 1
  MaxRestarts = 1
  s1 = s1
  s2 = s2
  s3 = s3
  i1 = i1
  i2 = i2
SYMMETRY Symmetry
INVARIANTS
  TypeOK
  CountsItsHolders
  AvailableIsPristine
  NoEvictionUnderClient
  ConsistentView
  PortsLeadToTheMachine
  NoOrphans
CHECK_DEADLOCK FALSE
