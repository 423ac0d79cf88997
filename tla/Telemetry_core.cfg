SPECIFICATION FairSpec
CONSTANTS
  Tailers = {tail}
  Followers = {follow}
  Texts = {1}
  Lines <- MCLines
  Lookback = 1
  MaxLines = 1
  MaxTime = 2
  MaxFaults = 1
  MaxCrashes = 1
  tail = tail
  follow = follow
PROPERTIES
  EventuallyNormalized
INVARIANTS
  TypeOK
  TailersNeverRepeat
  FollowersSkipNothing
  NormalizedOncePerRun
  PassedIsHandled
  MissedOnlyWhenLate
