SPECIFICATION WorkspaceSpec
CONSTANTS
  WsIds = {w1, w2}
  WsSessions = {s1}
  WsClients = {c1}
  WsBackends = {"rocksdb"}
  WsInterfaces = {"mcp"}
  WsFaults = FALSE
  WsCrashes = FALSE
  WsWrap = 8
  MaxWsRequests = 4
SYMMETRY Symmetry
INVARIANT StorageInSync
CHECK_DEADLOCK FALSE
