SPECIFICATION Spec
CONSTANTS
  PluginOrder <- Http
  ManualPlugins <- NoManual
  Window = 1
  MaxDocs = 3
  MaxTime = 0
  MaxFaults = 0
  MaxCrashes = 0
  MaxTrainings = 0
  MaxResets = 0
INVARIANTS
  PluginStatesTrackHoneypots
