SPECIFICATION SearchSpec
CONSTANTS
  QcSessions = {"s", "t"}
  QcContents = {"c", "e"}
  QcHome <- MCQcHome
  QcEntities = {"e"}
  QcSearchers = {a1, a2}
  QcLoaded <- MCQcLoaded
  QcScopes <- MCQcScopes
  QcWriters = {"w"}
  QcBackends = {"rocksdb", "surrealdb"}
  QcMaxSize = 1
  QcBatch = 2
  MaxSearches = 3
  MaxWrites = 1
  QcFaults = TRUE
  VzUpdates = {"u1"}
  VzChunks <- MCVzChunks
  VzSearchers = {z1}
  VzPurged = {"u1"}
  MaxVersion = 1
  MaxInitRetries = 0
  MaxRuns = 1
  VzFaults = TRUE
  VzCrashes = TRUE
  SrVector <- MCSrVector
  SrUpdates <- MCSrUpdates
  SrEnded = {"u"}
  SrScopes <- MCSrScopes
  SrLimits = {1, 2}
  SrModes = {"fast", "reranked"}
  SrPrefers = {"me"}
  SrBiases = {1}
  SrCorpora = {"records"}
  SrTop = 1
  FusionDepth = 3
  RerankPool = 3
  Radius = 1
  MaxChars = 7
  ChunkSizes = {2, 3, 4, 5}
  ChunkOverlaps = {0, 1, 2, 6}
  VdLoaders = {"l1", "l2"}
  VdRemovers = {"r1"}
  VdRebuilders = {"b"}
  VdBatch <- MCVdBatch
  VdSource <- MCVdSource
  VdDoomed <- MCVdDoomed
  MaxVectors = 1
  ExactThreshold = 1
  MaxConnections = 3
  MaxLayer = 0
  FrRefs <- MCFrRefs
  FrDeps <- MCFrDeps
  FrChanged <- MCFrChanged
  FrLast <- MCFrLast
  FrOld <- MCFrOld
  FrFiles = {"B"}
  FrTasks = {a1, a2}
  FrBackends = {"rocksdb", "surrealdb"}
  FrFaults = TRUE
SYMMETRY Symmetry
INVARIANTS  VectorsSound  ChunksCover IndexSound 
CHECK_DEADLOCK FALSE
