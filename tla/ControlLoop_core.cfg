SPECIFICATION FairSpec
CONSTANTS
  PluginOrder <- Http
  ManualPlugins <- RawTriggers
  Window = 0
  MaxDocs = 3
  MaxTime = 1
  MaxFaults = 0
  MaxCrashes = 1
  MaxTrainings = 0
  MaxResets = 0
INVARIANTS
  TypeOK
  LoggedIsProcessed
  InOrderAgreement
PROPERTIES
  EventuallyProcessed
