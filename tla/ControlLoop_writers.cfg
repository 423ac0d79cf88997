SPECIFICATION Spec
CONSTANTS
  PluginOrder <- Http
  ManualPlugins <- NoManual
  Window = 1
  MaxDocs = 3
  MaxTime = 0
  MaxFaults = 1
  MaxCrashes = 1
  MaxTrainings = 1
  MaxResets = 1
INVARIANTS
  SentTwiceOnlyAfterCrash
  DecisionsAlternate
  StatesTrackDecisions
