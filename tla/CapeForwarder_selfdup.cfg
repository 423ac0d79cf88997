SPECIFICATION Spec
CONSTANTS
  Workers = {w1}
  Contents = {a}
  Names = {n}
  DedupWindow = 1
  LockExpire = 1
  MaxUploads = 2
  MaxTime = 3
  MaxFaults = 0
  MaxCrashes = 0
  MaxTasks = 3
  w1 = w1
  a = a
  n = n
INVARIANTS
  DuplicateOfASubmission
