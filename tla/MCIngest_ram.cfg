SPECIFICATION FairSpec
CONSTANTS
  Cap = 1
  Inputs = {"triage", "ram"}
  TriageFiles <- MCTriage
  DiskVolumes <- MCNoDisk
  Phases <- MCPhasesSmall
  Plugins = {"pslist", "info"}
  Kind <- MCKind
  Malformed = FALSE
INVARIANTS WaitGroups NoSendOnClosed NativeOrFallback OnlyRamReportsAreLost
PROPERTIES RunReturns FailureSurfaces
