SPECIFICATION Spec
CONSTANTS
  Cap = 2
  Inputs = {"triage", "disk"}
  TriageFiles <- MCTriage
  DiskVolumes <- MCDisk
  Phases <- MCPhases
  Plugins = {}
  Kind <- MCKind
  Malformed = FALSE
INVARIANTS TypeOK ReportsAreTrue ReturnedComplete
PROPERTIES CaseIsQuiet KeepsContract
