SPECIFICATION Spec
CONSTANTS
  Contents = {a, b}
  Partial = partial
  Names = {n}
  MaxRequests = 2
  MaxMishaps = 2
  Workers = {w1}
  DedupWindow = 1
  LockExpire = 0
  MaxTime = 2
  MaxFaults = 1
  MaxCrashes = 1
  MaxTasks = 2
  w1 = w1
  a = a
  b = b
  partial = partial
  n = n
SYMMETRY Symmetry
INVARIANTS
  TruthfulUnlessShared
PROPERTIES
  IsForwarder
