SPECIFICATION FairSpec
CONSTANTS
  Cap = 3
  Inputs = {"ram"}
  TriageFiles <- MCTriageSmall
  DiskVolumes <- MCNoDisk
  Phases <- MCPhases
  Plugins = {"pslist", "netscan"}
  Kind <- MCKind
  Malformed = TRUE
PROPERTIES PluginFinishes
