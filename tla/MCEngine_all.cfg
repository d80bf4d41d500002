SPECIFICATION EngineSpec
CONSTANTS
  MaxBatch = 3
  UrFaults = TRUE
  UrCancels = TRUE
  RqSessions = {"s"}
  RqRecords = {"r", "q"}
  RqMentions <- MCRqMentions
  RqClients = {a1, a2}
  RqBackends = {"rocksdb", "surrealdb"}
  RqFaults = TRUE
  MaxRequests = 2
  MaxHandles = 2
  EgNames <- MCEgNames
  EgKey <- MCEgKey
  EgLower <- MCEgKey
  EgRecords <- MCEgRecords
  EgLegacy <- MCEgLegacy
  MaxDepth = 2
  MaxLimit = 2
  CaName <- MCCaName
  CaEdges <- MCCaEdges
  CaQueries <- MCCaQueries
  CaRecords <- MCCaRecords
  CaExcerpts <- MCCaExcerpts
  CaScopes = {"user", "w"}
  CaCards = {0, 2}
  CaBudgets = {4, 9, 12, 17, 23}
  HeadTokens = 2
  LineTokens = 1
  CardTokens = 1
  GvNames = {"a", "b", "c"}
  GvDrafts <- MCGvDrafts
  GvRestates = {{"use"}, {"reuse"}, {"use", "reuse"}}
  GvRepeats = {{"use"}, {"reuse"}}
  GvMerges <- MCGvMerges
  GvFileNames = {"c"}
  GvHops = 2
  GvLimit = 3
  GvMaxTime = 2
  MaxDrafts = 3
  AsUpdates <- MCAsUpdates
  AsWriters = {a1, a2}
  AsMaxHot = 2
  MaxChanges = 2
  AsStart <- MCAsStart
  AsThreshold = 2
  AsMaxCold = 1
  AsMaxFlow = 2
  AsBackends = {"rocksdb", "surrealdb"}
SYMMETRY Symmetry
INVARIANTS
     QueriesSound ContextSound ViewsSound TiersAgree
PROPERTIES PurgeRebuilds SnapshotsFixed
CHECK_DEADLOCK FALSE
