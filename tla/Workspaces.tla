----------------------------- MODULE Workspaces -----------------------------
(***************************************************************************)
(* Workspaces: the lock-free WorkspaceManager in memory, the workspace and *)
(* membership records of the two storage backends, and the three           *)
(* interfaces that change both (MCP tools, gRPC, REST).  No lock spans a   *)
(* request: each handler is a sequence of steps (Plan) on the manager and  *)
(* on storage, and the steps of concurrent handlers interleave.  The       *)
(* manager is hydrated from storage when the process starts.               *)
(*                                                                         *)
(* A workspace's name and description are never changed, so a stored row   *)
(* is "named" or, when written for a workspace that had left the manager,  *)
(* "blank".  The manager's name index is left out: nothing reads it.       *)
(***************************************************************************)
EXTENDS Integers, Sequences, FiniteSets

CONSTANTS
    WsIds,         \* the ids Uuid::new_v4 may return
    WsSessions,    \* session ids
    WsClients,     \* requests that may be under way at once
    WsInterfaces,  \* the interfaces in use: "mcp", "grpc", "rest"
    WsBackends,    \* the storage backends considered
    WsFaults,      \* whether storage operations may fail or time out
    WsCrashes,     \* whether the process may crash and restart
    WsWrap,        \* the counter's modulus (2^64 in the code)
    MaxWsRequests  \* bound on the number of requests

ASSUME WorkspaceAssumption ==
    /\ WsBackends \subseteq {"rocksdb", "surrealdb"}
    /\ WsInterfaces \subseteq {"mcp", "grpc", "rest"}
    /\ WsFaults \in BOOLEAN /\ WsCrashes \in BOOLEAN
    /\ IsFiniteSet(WsIds) /\ IsFiniteSet(WsClients)
    /\ WsWrap \in Nat /\ WsWrap > Cardinality(WsIds)
    /\ MaxWsRequests \in Nat

Roles == {"Primary", "Related"}
NoRole == "none"

VARIABLES
    wsBackend,  \* the configured storage backend
    wsIndex,    \* ids in WorkspaceManager::workspaces
    wsMembers,  \* session_ids of each workspace in the manager
    wsTotal,    \* total_workspaces
    wsRow,      \* stored workspace rows: id -> [name, sessions]
    wsLink,     \* stored ws_session records: id -> session -> role
    wsReq,      \* the request each client has under way
    wsCount,    \* requests started so far
    wsPromised, \* ids and <<id, session>> pairs answered as stored
    wsDropped,  \* ids some interface was asked to delete
    wsFaulted   \* a storage operation failed

workspaceVars ==
    <<wsBackend, wsIndex, wsMembers, wsTotal, wsRow, wsLink, wsReq, wsCount,
      wsPromised, wsDropped, wsFaulted>>

NoMembers == [s \in WsSessions |-> NoRole]
NoRow == [name |-> "absent", sessions |-> {}]
NoRequest == [plan |-> <<>>]
In(members) == {s \in WsSessions : members[s] # NoRole}

WorkspaceInit ==
    /\ wsBackend \in WsBackends
    /\ wsIndex = {} /\ wsMembers = [w \in WsIds |-> NoMembers] /\ wsTotal = 0
    /\ wsRow = [w \in WsIds |-> NoRow]
    /\ wsLink = [w \in WsIds |-> NoMembers]
    /\ wsReq = [c \in WsClients |-> NoRequest]
    /\ wsCount = 0 /\ wsPromised = {} /\ wsDropped = {} /\ wsFaulted = FALSE

-----------------------------------------------------------------------------
(* What each handler does, in order.  REST writes storage first, MCP and    *)
(* gRPC the manager; gRPC's delete never reaches storage.                   *)

McpCreate == <<"insert", "count", "save">>
McpDelete == <<"drop", "erase">>
McpAdd == <<"join", "snapshot", "save">>
McpRemove == <<"leave", "snapshot", "save">>

GrpcCreate == <<"insert", "count", "save">>
GrpcDelete == <<"drop">>
GrpcAdd == <<"join", "snapshotLive", "save">>
GrpcRemove == <<"leave", "snapshotLive", "save">>

RestCreate == <<"save", "insert", "count">>
RestDelete == <<"erase", "drop">>
RestAttach == <<"link", "join">>

Plan(i) ==
    CASE i = "mcp" -> [create |-> McpCreate, delete |-> McpDelete, add |-> McpAdd,
                       remove |-> McpRemove]
      [] i = "grpc" -> [create |-> GrpcCreate, delete |-> GrpcDelete, add |-> GrpcAdd,
                        remove |-> GrpcRemove]
      [] i = "rest" -> [create |-> RestCreate, delete |-> RestDelete, add |-> RestAttach]

\* MCP and REST answer a failed storage operation with an error; gRPC logs it.
Aborts_restIgnores(i) == i = "mcp"
Aborts(i) == i # "grpc"

Busy == {c \in WsClients : wsReq[c] # NoRequest}

\* The ids a client can have learnt from a listing or an answer.
Known == wsIndex \cup wsDropped \cup {w \in WsIds : wsRow[w] # NoRow}

Request(c) ==
    \E i \in WsInterfaces, w \in WsIds, s \in WsSessions, r \in Roles :
    \E op \in DOMAIN Plan(i) :
        /\ wsReq[c] = NoRequest /\ wsCount < MaxWsRequests
        /\ IF op = "create" THEN w \notin Known \cup {wsReq[d].ws : d \in Busy} ELSE w \in Known
        /\ wsReq' = [wsReq EXCEPT ![c] =
                [plan |-> Plan(i)[op], op |-> op, via |-> i, ws |-> w, sess |-> s,
                 role |-> r, snap |-> [name |-> "named", sessions |-> {}], scan |-> {}]]
        /\ wsCount' = wsCount + 1
        /\ wsDropped' = IF op = "delete" THEN wsDropped \cup {w} ELSE wsDropped
        /\ UNCHANGED <<wsIndex, wsMembers, wsTotal, wsRow, wsLink, wsPromised, wsFaulted>>

Doing(c, step) == wsReq[c] # NoRequest /\ Head(wsReq[c].plan) = step

\* The request goes on to its next step, or is answered with success.  What
\* MCP and REST then promise: the created workspace, and REST's membership.
Answered(c, req) ==
    LET r == wsReq[c]
        over == Len(req.plan) = 1
    IN  /\ wsReq' = [wsReq EXCEPT ![c] =
                IF over THEN NoRequest ELSE [req EXCEPT !.plan = Tail(@)]]
        /\ wsPromised' = wsPromised \cup
                (IF over /\ r.op = "create" /\ r.via # "grpc" THEN {<<r.ws>>}
                 ELSE IF over /\ r.op = "add" /\ r.via = "rest" THEN {<<r.ws, r.sess>>}
                 ELSE {})

Proceeds(c) == Answered(c, wsReq[c])

\* The request is answered with an error.
Rejected(c) ==
    wsReq' = [wsReq EXCEPT ![c] = NoRequest] /\ UNCHANGED wsPromised

-----------------------------------------------------------------------------
(* The manager.  Each step is one operation on a DashMap or an atomic.      *)

Insert(c) ==
    /\ Doing(c, "insert") /\ Proceeds(c)
    /\ wsIndex' = wsIndex \cup {wsReq[c].ws}
    /\ wsMembers' = [wsMembers EXCEPT ![wsReq[c].ws] = NoMembers]
    /\ UNCHANGED <<wsTotal, wsRow, wsLink, wsCount, wsDropped, wsFaulted>>

Count(c) ==
    /\ Doing(c, "count") /\ Proceeds(c)
    /\ wsTotal' = (wsTotal + 1) % WsWrap
    /\ UNCHANGED <<wsIndex, wsMembers, wsRow, wsLink, wsCount, wsDropped, wsFaulted>>

\* delete_workspace: only the call that removes the entry counts it down.
DropCounts_always(w) == TRUE
DropCounts(w) == w \in wsIndex

Drop(c) ==
    LET w == wsReq[c].ws IN
    /\ Doing(c, "drop")
    /\ wsIndex' = wsIndex \ {w}
    /\ wsTotal' = IF DropCounts(w) THEN (wsTotal + WsWrap - 1) % WsWrap ELSE wsTotal
    /\ IF w \notin wsIndex /\ wsReq[c].via = "mcp" THEN Rejected(c) ELSE Proceeds(c)
    /\ UNCHANGED <<wsMembers, wsRow, wsLink, wsCount, wsDropped, wsFaulted>>

\* add_session_to_workspace and remove_session_from_workspace.
Join(c) ==
    LET r == wsReq[c] IN
    /\ Doing(c, "join")
    /\ IF r.ws \in wsIndex
       THEN /\ wsMembers' = [wsMembers EXCEPT ![r.ws][r.sess] = r.role] /\ Proceeds(c)
       ELSE /\ IF r.via = "rest" THEN Proceeds(c) ELSE Rejected(c)
            /\ UNCHANGED wsMembers
    /\ UNCHANGED <<wsIndex, wsTotal, wsRow, wsLink, wsCount, wsDropped, wsFaulted>>

Leave(c) ==
    LET r == wsReq[c] IN
    /\ Doing(c, "leave")
    /\ IF r.ws \in wsIndex /\ wsMembers[r.ws][r.sess] # NoRole
       THEN wsMembers' = [wsMembers EXCEPT ![r.ws][r.sess] = NoRole] /\ Proceeds(c)
       ELSE UNCHANGED wsMembers /\ Rejected(c)
    /\ UNCHANGED <<wsIndex, wsTotal, wsRow, wsLink, wsCount, wsDropped, wsFaulted>>

\* persist_workspace_after_mutation reads the workspace again; when it has
\* gone meanwhile it goes on with empty strings, and gRPC saves nothing.
Snapshot(c) ==
    LET w == wsReq[c].ws
        snap == IF w \in wsIndex THEN [name |-> "named", sessions |-> In(wsMembers[w])]
                ELSE [name |-> "blank", sessions |-> {}]
    IN  /\ \/ Doing(c, "snapshot") /\ Answered(c, [wsReq[c] EXCEPT !.snap = snap])
           \/ /\ Doing(c, "snapshotLive")
              /\ IF w \in wsIndex THEN Answered(c, [wsReq[c] EXCEPT !.snap = snap])
                 ELSE wsReq' = [wsReq EXCEPT ![c] = NoRequest] /\ UNCHANGED wsPromised
        /\ UNCHANGED <<wsIndex, wsMembers, wsTotal, wsRow, wsLink, wsCount, wsDropped, wsFaulted>>

-----------------------------------------------------------------------------
(* Storage.                                                                 *)

\* RocksDB's save_workspace_metadata puts the row and nothing else; SurrealDB's
\* also upserts a Primary membership for each session of the snapshot.
SavedLinks_replaces(w, snap) ==
    [s \in WsSessions |-> IF s \in snap.sessions THEN "Primary" ELSE NoRole]
SavedLinks(w, snap) ==
    IF wsBackend = "rocksdb" THEN wsLink[w]
    ELSE [s \in WsSessions |-> IF s \in snap.sessions THEN "Primary" ELSE wsLink[w][s]]

SaveApplied(c) ==
    LET w == wsReq[c].ws IN
    /\ wsRow' = [wsRow EXCEPT ![w] = wsReq[c].snap]
    /\ wsLink' = [wsLink EXCEPT ![w] = SavedLinks(w, wsReq[c].snap)]

LinkApplied(c) ==
    /\ wsLink' = [wsLink EXCEPT ![wsReq[c].ws][wsReq[c].sess] = wsReq[c].role]
    /\ UNCHANGED wsRow

EraseApplied(c) ==
    /\ wsRow' = [wsRow EXCEPT ![wsReq[c].ws] = NoRow] /\ UNCHANGED wsLink

UnlinkApplied(c) ==
    /\ wsLink' = [wsLink EXCEPT ![wsReq[c].ws] =
            [s \in WsSessions |-> IF s \in wsReq[c].scan THEN NoRole ELSE @[s]]]
    /\ UNCHANGED wsRow

Stores(c) ==
    \/ Doing(c, "save") /\ SaveApplied(c)
    \/ Doing(c, "link") /\ LinkApplied(c)

Store(c) ==
    /\ Stores(c) /\ Proceeds(c)
    /\ UNCHANGED <<wsIndex, wsMembers, wsTotal, wsCount, wsDropped, wsFaulted>>

\* delete_workspace: the row, then the memberships found by a scan.
Erase(c) ==
    /\ Doing(c, "erase") /\ EraseApplied(c)
    /\ wsReq' = [wsReq EXCEPT ![c].plan = <<"scan">> \o Tail(@)]
    /\ UNCHANGED <<wsIndex, wsMembers, wsTotal, wsCount, wsPromised, wsDropped, wsFaulted>>

Scan(c) ==
    /\ Doing(c, "scan")
    /\ wsReq' = [wsReq EXCEPT ![c].plan = <<"unlink">> \o Tail(@),
                              ![c].scan = In(wsLink[wsReq[c].ws])]
    /\ UNCHANGED <<wsIndex, wsMembers, wsTotal, wsRow, wsLink, wsCount, wsPromised,
                   wsDropped, wsFaulted>>

Unlink(c) ==
    /\ Doing(c, "unlink") /\ UnlinkApplied(c) /\ Proceeds(c)
    /\ UNCHANGED <<wsIndex, wsMembers, wsTotal, wsCount, wsDropped, wsFaulted>>

\* A storage operation is reported as failed: it was not applied, or it was
\* and only its answer came after the actor handle's timeout.
StorageFails(c) ==
    /\ WsFaults /\ wsFaulted' = TRUE
    /\ \/ Stores(c)
       \/ /\ wsReq[c] # NoRequest
          /\ Head(wsReq[c].plan) \in {"save", "link", "erase", "scan", "unlink"}
          /\ UNCHANGED <<wsRow, wsLink>>
    /\ IF Aborts(wsReq[c].via) THEN Rejected(c) ELSE Proceeds(c)
    /\ UNCHANGED <<wsIndex, wsMembers, wsTotal, wsCount, wsDropped>>

\* list_workspaces: memberships come from the link records only, the sessions
\* inside a RocksDB row are cleared; restore_workspace fills a new manager.
Listed(w) == IF wsRow[w] = NoRow THEN NoMembers ELSE wsLink[w]

Restart ==
    /\ WsCrashes
    /\ wsIndex' = {w \in WsIds : wsRow[w] # NoRow}
    /\ wsMembers' = [w \in WsIds |-> Listed(w)]
    /\ wsTotal' = Cardinality(wsIndex') % WsWrap
    /\ wsReq' = [c \in WsClients |-> NoRequest]
    /\ UNCHANGED <<wsRow, wsLink, wsCount, wsPromised, wsDropped, wsFaulted>>

WorkspaceNext ==
    /\ UNCHANGED wsBackend
    /\ \/ Restart
       \/ \E c \in WsClients :
           \/ Request(c) \/ Insert(c) \/ Count(c) \/ Drop(c) \/ Join(c) \/ Leave(c)
           \/ Snapshot(c) \/ Store(c) \/ Erase(c) \/ Scan(c) \/ Unlink(c) \/ StorageFails(c)

WorkspaceSpec == WorkspaceInit /\ [][WorkspaceNext]_workspaceVars

-----------------------------------------------------------------------------
(* Properties.                                                              *)

\* A workspace whose creation MCP or REST answered with success keeps its
\* named row, and a membership REST answered with success is listed with it,
\* whatever other handlers, failures and restarts come after, until someone
\* asks for the workspace to be deleted.
AnsweredSurvives ==
    /\ \A w \in WsIds \ wsDropped : <<w>> \in wsPromised => wsRow[w].name = "named"
    /\ \A w \in WsIds \ wsDropped, s \in WsSessions :
        <<w, s>> \in wsPromised /\ wsRow[w] # NoRow => Listed(w)[s] # NoRole

\* Between requests the atomic counter is the number of workspaces in the
\* manager, although inserts, removals and counter updates of concurrent
\* requests interleave.
CountAgrees ==
    Busy = {} =>
        wsTotal = Cardinality(wsIndex) % WsWrap

\* What persist_workspace_after_mutation says: "storage stays in sync with the
\* in-memory workspace_manager".  Between requests, when no storage operation
\* failed and nothing was deleted, a restart would restore what the manager has.
StorageInSync ==
    Busy = {} /\ ~wsFaulted /\ wsDropped = {} =>
        \A w \in wsIndex : Listed(w) = wsMembers[w]

\* What clients were told survives, and the counter is right.
WorkspacesSound == AnsweredSurvives /\ CountAgrees

(* The inductive invariant behind the theorem of StorageProofs. *)

\* How far a handler may have come.
Stages(op, via) ==
    CASE op = "create" /\ via # "rest" ->
            {<<"insert", "count", "save">>, <<"count", "save">>, <<"save">>}
      [] op = "create" /\ via = "rest" ->
            {<<"save", "insert", "count">>, <<"insert", "count">>, <<"count">>}
      [] op = "delete" /\ via = "mcp" ->
            {<<"drop", "erase">>, <<"erase">>, <<"scan">>, <<"unlink">>}
      [] op = "delete" /\ via = "grpc" -> {<<"drop">>}
      [] op = "delete" /\ via = "rest" ->
            {<<"erase", "drop">>, <<"scan", "drop">>, <<"unlink", "drop">>, <<"drop">>}
      [] op = "add" /\ via = "mcp" ->
            {<<"join", "snapshot", "save">>, <<"snapshot", "save">>, <<"save">>}
      [] op = "add" /\ via = "grpc" ->
            {<<"join", "snapshotLive", "save">>, <<"snapshotLive", "save">>, <<"save">>}
      [] op = "add" /\ via = "rest" -> {<<"link", "join">>, <<"join">>}
      [] op = "remove" /\ via = "mcp" ->
            {<<"leave", "snapshot", "save">>, <<"snapshot", "save">>, <<"save">>}
      [] op = "remove" /\ via = "grpc" ->
            {<<"leave", "snapshotLive", "save">>, <<"snapshotLive", "save">>, <<"save">>}
      [] OTHER -> {}

WsSnapshots == [name : {"named", "blank"}, sessions : SUBSET WsSessions]

WsOps == {"create", "delete", "add", "remove"}
WsVias == {"mcp", "grpc", "rest"}
WsPlans == UNION {Stages(op, via) : op \in WsOps, via \in WsVias}

\* The requests that may be under way.
UnderWay ==
    {r \in [plan : WsPlans, op : WsOps, via : WsVias, ws : WsIds, sess : WsSessions,
            role : Roles, snap : WsSnapshots, scan : SUBSET WsSessions] :
        r.plan \in Stages(r.op, r.via)}

WsTypeOK ==
    /\ wsReq \in [WsClients -> {NoRequest} \cup UnderWay]
    /\ wsIndex \subseteq WsIds /\ wsDropped \subseteq WsIds
    /\ wsRow \in [WsIds -> {NoRow} \cup WsSnapshots]
    /\ wsLink \in [WsIds -> [WsSessions -> Roles \cup {NoRole}]]

\* As long as nobody asked for its workspace to be deleted, what a handler did
\* earlier still stands: it finds the workspace it joined or left in the
\* manager, so that it saves no blank row, and REST finds the row and the
\* membership it stored.
StepsStand(c) ==
    LET r == wsReq[c] IN
    /\ r.op = "delete" => r.ws \in wsDropped
    /\ r.ws \notin wsDropped =>
        /\ r.snap.name = "named"
        /\ r.plan \in {<<"snapshot", "save">>, <<"snapshotLive", "save">>} => r.ws \in wsIndex
        /\ r.plan \in {<<"insert", "count">>, <<"count">>} => wsRow[r.ws].name = "named"
        /\ r.plan = <<"join">> => wsLink[r.ws][r.sess] # NoRole

\* What was promised is stored until somebody asks for its deletion.
PromisesStored ==
    /\ \A w \in WsIds \ wsDropped : <<w>> \in wsPromised => wsRow[w].name = "named"
    /\ \A w \in WsIds \ wsDropped, s \in WsSessions :
        <<w, s>> \in wsPromised => wsLink[w][s] # NoRole

\* A workspace about to be put into the manager is not there yet, and no two
\* handlers are to put the same one there.
Inserting(c) ==
    wsReq[c].plan \in {<<"insert", "count", "save">>, <<"save", "insert", "count">>,
                       <<"insert", "count">>}
InsertsFresh ==
    \A c \in WsClients : Inserting(c) =>
        /\ wsReq[c].ws \notin wsIndex
        /\ \A d \in WsClients : Inserting(d) /\ wsReq[d].ws = wsReq[c].ws => d = c

\* Handlers that put a workspace into the manager and have not counted it yet.
Counting == {c \in WsClients : wsReq[c].plan \in {<<"count", "save">>, <<"count">>}}

CountFollows ==
    wsTotal = (Cardinality(wsIndex) - Cardinality(Counting)) % WsWrap

WorkspaceInv ==
    /\ WsTypeOK /\ (\A c \in Busy : StepsStand(c)) /\ PromisesStored
    /\ InsertsFresh /\ CountFollows

=============================================================================
