SPECIFICATION Spec
CONSTANTS
  Attackers = {"attacker"}
  Ports = {"2222", "80"}
  PortLimit = 0
  RecentLimit = 3
  LowActivity = 3
  Low = 0
  High = 1
  Sources <- MCSources
  LinesOf <- MCLinesOf
  TestLogs <- MCTestLogs
  MaxSteps = 3
  MaxTime = 1
  MaxDocs = 2
  MaxTests = 1
  MaxRestarts = 1
  MaxRuns = 1
  MaxTrainings = 1
INVARIANTS
  TypeOK
  PortScanIsEarned
  OncePerRun
  EveryAddressPays
  FedTrainingDisables
