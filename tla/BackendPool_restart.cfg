SPECIFICATION FairSpec
CONSTANTS
  Sessions = {s1, s2}
  Ips = {i1, i2}
  PoolSizes = {1}
  NatModes = {FALSE}
  IdLimit = 4
  MaxFaults = 0
  MaxRestarts = 1
  s1 = s1
  s2 = s2
  s3 = s3
  i1 = i1
  i2 = i2
PROPERTIES
  RestartsAfterStop
CHECK_DEADLOCK FALSE
