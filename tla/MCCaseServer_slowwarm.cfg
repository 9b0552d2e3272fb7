SPECIFICATION Spec
CONSTANTS r1 = r1 d1 = d1 m1 = m1 i1 = i1 v1 = v1
  RamRuns = {} BootRam = {} Detects = {d1} Merges = {}
  Imports = {} Views = {} MemTables <- MCNoMemTables Builtins <- MCOneBuiltin
  Needs <- MCNeeds Reads <- MCReads Drives <- MCDrives
  NoRows = NoRows Old = Old Boot = Boot
CHECK_DEADLOCK FALSE
INVARIANT RebuiltTimelineIsFresh
