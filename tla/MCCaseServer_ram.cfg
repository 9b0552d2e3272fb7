SPECIFICATION FairSpec
CONSTANTS r1 = r1 d1 = d1 m1 = m1 i1 = i1 v1 = v1
  RamRuns = {r1} BootRam = {r1} Detects = {} Merges = {m1}
  Imports = {} Views = {} MemTables <- MCTwoMemTables Builtins <- MCMemBuiltin
  Needs <- MCNeeds Reads <- MCReads Drives <- MCDrives
  NoRows = NoRows Old = Old Boot = Boot
CHECK_DEADLOCK FALSE
INVARIANTS TypeOK MemoryHitsAreLive DuplicatesByOverlap
PROPERTIES AnalysesEnd
