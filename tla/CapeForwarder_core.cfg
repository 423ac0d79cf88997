SPECIFICATION FairSpec
CONSTANTS
  Workers = {w1, w2}
  Contents = {a}
  Names = {n}
  DedupWindow = 1
  LockExpire = 1
  MaxUploads = 2
  MaxTime = 3
  MaxFaults = 1
  MaxCrashes = 1
  MaxTasks = 6
  w1 = w1
  w2 = w2
  a = a
  n = n
INVARIANTS
  TypeOK
  ForwardedWasAccepted
  OneOutcome
  ExclusiveUnlessLapsed
  SpacedResubmission
PROPERTIES
  IsLeasedQueue
  EventuallySettled
