SPECIFICATION StorageSpec
CONSTANTS
  Writers = {a1, a2, e1}
  Editors = {e1}
  Tasks = {a1, a2}
  MaxAttempts = 2
  Threshold = 2
  Timeout = 1
  Word = 8
  MaxTime = 2
  Turns = {x1, x2}
  Batches <- TwoTurns
  MaxSeq = 5
  CardWriters = {a1, a2}
  NoText = NoText
  MaxVersion = 3
  MaxUpdate = 2
  SNames = {"a", "b"}
  Mentions <- MCMentions
  Faults = TRUE
  DryRuns = FALSE
  RUpdates = {1, 2}
  RSavers = {a1, a2}
  RLoaders = {x1, x2}
  WsIds = {x1, x2}
  WsSessions = {s1}
  WsClients = {a1, a2}
  WsBackends = {"rocksdb", "surrealdb"}
  WsInterfaces = {"mcp", "grpc", "rest"}
  WsFaults = TRUE
  WsCrashes = TRUE
  WsWrap = 8
  MaxWsRequests = 3
  TrSource <- MCTrSource
  TrTargets <- MCTrTargets
  TrBackends <- MCTrBackends
  TrKinds <- MCTrKinds
  TrOptions <- MCTrOptions
  TrOld <- MCTrOld
  TrNew <- MCTrNew
  TrPaths = {"json"}
  TrCompress = {"unset"}
  TrPage = 1
  MaxErrors = 1
  MaxTransfers = 2
  ScThreads = {"t1", "t2", "t3"}
  ScKeys = {"a", "b", "c"}
  ScCapacities = {1, 2}
  ScCapacity = 2
  ScWord = 8
  MaxCalls = 4
INVARIANTS
  CasSound  OutcomeMatchesSession TurnsAgree  StoredSurvives
    SizeCounted
PROPERTIES PositionsNotReused ImplementsCards
CHECK_DEADLOCK FALSE
