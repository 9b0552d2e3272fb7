SPECIFICATION Spec
CONSTANTS
  Zero = "0" None = None
  Files = {} Inflate <- MCInflate ReadSizes = {1, 2, 3, 5} MaxFaults = 2
  Mfts <- MCMfts RootRef = 1 MaxDepth = 4
  Wanted = {"a.evtx", "b.evtx", "$Ixyz"}
  DollarI = {"$Ixyz"} RecycleNames = {"$Recycle.Bin"}
  DefaultUnit = 2 ClusterSize = 2
  EwfFiles = {} VmdkFiles = {}
  EwfRequests <- MCEwfRequests VmdkRequests <- MCRequests
  ChunkSize = 2 CacheSize = 2 GrainSize = 2 NumGTEs = 2 GtCacheMax = 0 GrainMax = 1
  Hives = {}
  Databases = {} PageSize = 512
  JournalFiles = {} BlockCells = 4 MinCells = 2 LogHeader = 1 LogFirst = 1 LogCells = 2 MaxRowFaults = 1
  EseFiles = {}
  Dumps = {} Profiles <- MCProfiles Width = 4 Limits <- MCLimits
  DocumentFiles = {} SectorEntries = 8
  PrefetchFiles = {} ByteBits = 3 Literals = 2 MatchMark = 2 ChunkLimit = 16 MaxInflated = 64 MinHeader = 2
  RuleSets = {} Targets <- MCTargets
INVARIANT PrimaryStreamsAreWhole
