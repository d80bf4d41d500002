------------------------------ MODULE Requests ------------------------------
(***************************************************************************)
(* The session requests of the daemon: what each gRPC, MCP and REST handler *)
(* refuses, reads, changes and answers.  A handler is a record: the argument*)
(* shapes it refuses, its answer for a missing session, and the steps it    *)
(* takes, each of which ends at an await.  Steps of concurrent requests     *)
(* interleave and storage steps may fail.                                   *)
(*                                                                          *)
(* A session is its name, its records, the retired ones and its entities.   *)
(* Sessions are ArcSwap handles: a handler goes on with the handle it got   *)
(* from get_session even when the session is deleted meanwhile (rqObj keeps *)
(* every handle's content).  The write pipeline's requests are in           *)
(* UpdateRequests, workspaces in Workspaces, searches in QueryCache and     *)
(* SearchRanking, the persister's own interleavings in Persister.           *)
(***************************************************************************)
EXTENDS Naturals, Sequences, FiniteSets

CONSTANTS
    RqSessions,   \* session ids, all of them members of one workspace
    RqRecords,    \* records (context updates) a session starts with
    RqMentions,   \* record -> the entities it creates
    RqClients,    \* requests that may be under way at once
    RqBackends,   \* "rocksdb" or "surrealdb"
    RqFaults,     \* whether storage operations may fail
    MaxRequests,  \* bound on the number of requests
    MaxHandles    \* bound on the handles a session id may get

ASSUME RequestAssumption ==
    /\ RqMentions \in [RqRecords -> SUBSET UNION {RqMentions[r] : r \in RqRecords}]
    /\ RqBackends \subseteq {"rocksdb", "surrealdb"}
    /\ RqFaults \in BOOLEAN /\ MaxRequests \in Nat /\ MaxHandles \in Nat \ {0}

RqEntities == UNION {RqMentions[r] : r \in RqRecords}
Mentioned(recs) == UNION {RqMentions[r] : r \in recs}

NoSession == [name |-> "none", recs |-> {}, retired |-> {}, ents |-> {}]
FullSession == [name |-> "old", recs |-> RqRecords, retired |-> {},
                ents |-> Mentioned(RqRecords)]
Handles == 1..MaxHandles

VARIABLES
    rqBackend,  \* the configured storage backend
    rqObj,      \* session -> handle -> content
    rqLive,     \* session -> the handle in the session map (0: none)
    rqRetired,  \* session -> handles up to this one belong to a deleted session
    rqNext,     \* session -> handles given out
    rqDisk,     \* session -> what storage holds
    rqQueue,    \* session -> the queued save: records to remove, or "none"
    rqMerged,   \* WorkspaceGraphCache: the sources of the cached merge and the merge
    rqReq,      \* client -> the request under way, or its answer
    rqStarted,  \* requests started
    rqSeen,     \* history: the states each session had during a client's request
    rqErased,   \* history: <<session, record>> whose removal was answered "done"
    rqUnknown   \* history: <<session, record>> a purge answered as unknown

requestVars == <<rqBackend, rqObj, rqLive, rqRetired, rqNext, rqDisk, rqQueue, rqMerged,
                 rqReq, rqStarted, rqSeen, rqErased, rqUnknown>>
handleVars == <<rqObj, rqLive, rqRetired, rqNext>>

NoQueue == [on |-> FALSE, gone |-> {}]
NoRequest == [plan |-> <<>>, answer |-> "none", view |-> <<>>, acted |-> FALSE, did |-> FALSE]
NoMerge == [from |-> <<>>, graph |-> {}]

\* One session is stored and live, as create_session leaves it once its records
\* were added and saved.
RequestInit ==
    /\ rqBackend \in RqBackends
    /\ rqObj = [s \in RqSessions |-> [h \in Handles |-> IF h = 1 THEN FullSession ELSE NoSession]]
    /\ rqLive = [s \in RqSessions |-> 1]
    /\ rqRetired = [s \in RqSessions |-> 0]
    /\ rqNext = [s \in RqSessions |-> 1]
    /\ rqDisk = [s \in RqSessions |-> FullSession]
    /\ rqQueue = [s \in RqSessions |-> NoQueue]
    /\ rqMerged = NoMerge
    /\ rqReq = [c \in RqClients |-> NoRequest]
    /\ rqStarted = 0 /\ rqErased = {} /\ rqUnknown = {}
    /\ rqSeen = [c \in RqClients |-> [s \in RqSessions |-> {}]]

-----------------------------------------------------------------------------
(* The handlers.  Arguments are "good", "malformed" (not a UUID, an unknown *)
(* mode, view or corpus), "empty" (the required text or field is absent or  *)
(* "") or "blank" (only white space).                                       *)

ArgShapes == {"good", "malformed", "empty", "blank"}
Handler(refuses, missing, steps) == [refuses |-> refuses, missing |-> missing, steps |-> steps]
Bad == {"malformed"}
BadOrEmpty == {"malformed", "empty"}
AnyBad == {"malformed", "empty", "blank"}

\* ConversationMemorySystem's own operations, shared by the interfaces.
UpdateSessionMetadata == <<"load", "rename">>
DeleteSession == <<"delete">>
DeleteEntityRequest == <<"load", "dropEntity", "eraseEntity">>
MergeRequest == <<"load", "merge", "eraseMerged", "queueMerged">>
DeleteUpdate == <<"load", "remove">>
ForgetUpdate == <<"load", "retire">>
PurgeUpdate == <<"load", "purge", "clearGraph", "queuePurge">>
ListSummaries == <<"rows", "overlay">>

\* post-cortex-mcp's tool functions, which the MCP handlers call.
ToolListSessions == ListSummaries
ToolQuery == <<"load", "readAll">>
ToolSummary == <<"load", "readAll">>
ToolDecisions == <<"load", "readRecords">>
ToolInsights == <<"load", "readRecords">>
ToolImportance == <<"load", "readEntities">>
ToolNetwork == <<"load", "readEntities">>
ToolStatistics == <<"load", "readAll">>
ToolRelated == <<"search">>
ToolSearchSession == <<"search">>
ToolSearchGlobal == <<"search">>
ToolCheckpoint == <<"load", "readRecords", "checkpoint">>

\* gRPC.
GrpcHealth == Handler({}, "error", <<"health">>)
GrpcListSessions == Handler({}, "error", ListSummaries)
GrpcLoadSession == Handler(Bad, "not_found", <<"load", "readInfo">>)
GrpcSearchSessions == Handler(BadOrEmpty, "error", ListSummaries)
GrpcUpdateSessionMetadata == Handler(Bad, "error", UpdateSessionMetadata)
GrpcDeleteSession == Handler(Bad, "error", DeleteSession)
GrpcDeleteEntity == Handler(BadOrEmpty, "error", DeleteEntityRequest)
GrpcMergeEntities == Handler(AnyBad, "error", MergeRequest)
GrpcForgetUpdate == Handler(Bad, "error", ForgetUpdate)
GrpcPurgeUpdate == Handler(Bad, "error", PurgeUpdate)
GrpcGetGraphView == Handler(BadOrEmpty, "not_found", <<"load", "readAll">>)
GrpcGetGraphViewOfWorkspace == Handler(BadOrEmpty, "not_found", <<"gather", "mergeGraphs">>)
GrpcCreateCheckpoint == Handler(Bad, "not_found", <<"load", "readRecords", "checkpoint">>)
GrpcQueryContext == Handler(Bad, "not_found", <<"load", "readRecords">>)
GrpcSemanticSearch == Handler(BadOrEmpty, "not_found", <<"search">>)
GrpcFindRelatedContent == Handler(BadOrEmpty, "error", <<"search">>)
GrpcVectorizeSession == Handler(Bad, "error", <<"load", "vectorize">>)
GrpcGetVectorizationStats == Handler({}, "error", <<"health">>)
GrpcGetStructuredSummary == Handler(Bad, "not_found", <<"load", "readAll">>)
GrpcGetKeyDecisions == Handler(Bad, "not_found", <<"load", "readRecords">>)
GrpcGetKeyInsights == Handler(Bad, "not_found", <<"load", "readRecords">>)
GrpcGetEntityImportance == Handler(Bad, "not_found", <<"load", "readEntities">>)
GrpcGetEntityNetwork == Handler(Bad, "not_found", <<"load", "readEntities">>)
GrpcGetSessionStatistics == Handler(Bad, "not_found", <<"load", "readAll">>)
GrpcAssembleContext == Handler(Bad, "not_found", <<"load", "readAll">>)
GrpcAssembleContextOfWorkspace == Handler(Bad, "not_found", <<"gather", "mergeGraphs">>)

\* MCP tools (a structured summary asked for section by section is the tools of
\* its sections, one after the other): a missing session is an internal error,
\* and a tool error or a timeout inside a tool function is a successful call that
\* says so ("told").
McpListSessions == Handler({}, "error", ToolListSessions)
McpLoadSession == Handler(BadOrEmpty, "error", <<"load", "readInfo">>)
McpSearchSessions == Handler(BadOrEmpty, "error", ListSummaries)
McpUpdateMetadata == Handler(BadOrEmpty, "error", UpdateSessionMetadata)
McpDeleteSession == Handler(BadOrEmpty, "error", DeleteSession)
McpDeleteEntity == Handler(AnyBad, "error", DeleteEntityRequest)
McpMergeEntities == Handler(AnyBad, "error", MergeRequest)
McpDeleteUpdate == Handler(BadOrEmpty, "error", DeleteUpdate)
McpForget == Handler(BadOrEmpty, "error", ForgetUpdate)
McpPurge == Handler(BadOrEmpty, "error", PurgeUpdate)
McpQuery == Handler(Bad, "error", ToolQuery)
McpEntityImportance == Handler(Bad, "error", ToolImportance)
McpEntityNetwork == Handler(Bad, "error", ToolNetwork)
McpKeyDecisions == Handler(Bad, "error", ToolDecisions)
McpKeyInsights == Handler(Bad, "error", ToolInsights)
McpSessionStatistics == Handler(Bad, "error", ToolStatistics)
McpStructuredSummary == Handler(Bad, "error", ToolSummary)
McpFindRelatedContent == Handler(BadOrEmpty, "told", ToolRelated)
McpGraphView == Handler(Bad, "invalid", <<"load", "readAll">>)
McpGraphViewOfWorkspace == Handler(Bad, "invalid", <<"gather", "mergeGraphs">>)
McpVectorizeSession == Handler(BadOrEmpty, "error", <<"load", "vectorize">>)
McpCreateCheckpoint == Handler(BadOrEmpty, "error", ToolCheckpoint)
McpSearchSession == Handler(BadOrEmpty, "told", ToolSearchSession)
McpSearchGlobal == Handler(BadOrEmpty, "told", ToolSearchGlobal)
McpHealth == Handler({}, "error", <<"health">>)
McpVectorizeStats == Handler({}, "error", <<"health">>)
McpAssembleContext == Handler(AnyBad, "error", <<"load", "readAll">>)
McpAssembleContextOfWorkspace == Handler(AnyBad, "invalid", <<"gather", "mergeGraphs">>)

\* REST.
RestListSessions == Handler({}, "error", ListSummaries)
RestDeleteSession == Handler(Bad, "error", DeleteSession)
RestGraphView == Handler(BadOrEmpty, "not_found", <<"load", "readAll">>)
RestGraphViewOfWorkspace == Handler(BadOrEmpty, "not_found", <<"gather", "mergeGraphs">>)

RequestHandlers ==
    {GrpcHealth, GrpcListSessions, GrpcLoadSession, GrpcSearchSessions,
     GrpcUpdateSessionMetadata, GrpcDeleteSession, GrpcDeleteEntity, GrpcMergeEntities,
     GrpcForgetUpdate, GrpcPurgeUpdate, GrpcGetGraphView, GrpcGetGraphViewOfWorkspace,
     GrpcCreateCheckpoint, GrpcQueryContext, GrpcSemanticSearch, GrpcFindRelatedContent,
     GrpcVectorizeSession, GrpcGetStructuredSummary, GrpcGetKeyDecisions, GrpcGetKeyInsights,
     GrpcGetEntityImportance, GrpcGetEntityNetwork, GrpcGetSessionStatistics,
     GrpcAssembleContext, GrpcAssembleContextOfWorkspace,
     McpListSessions, McpLoadSession, McpSearchSessions, McpUpdateMetadata, McpDeleteSession,
     McpDeleteEntity, McpMergeEntities, McpDeleteUpdate, McpForget, McpPurge, McpQuery,
     McpEntityImportance, McpEntityNetwork, McpKeyDecisions, McpKeyInsights,
     McpSessionStatistics, McpStructuredSummary, McpFindRelatedContent, McpGraphView,
     McpGraphViewOfWorkspace, McpVectorizeSession, McpCreateCheckpoint, McpSearchSession,
     McpSearchGlobal, McpHealth, McpVectorizeStats, GrpcGetVectorizationStats,
     McpAssembleContext, McpAssembleContextOfWorkspace,
     RestListSessions, RestDeleteSession, RestGraphView, RestGraphViewOfWorkspace}

-----------------------------------------------------------------------------
(* A request's life.                                                        *)

EntityOps == {"dropEntity", "merge"}
RecordOps == {"remove", "retire", "purge"}
Steps(h) == {h.steps[i] : i \in DOMAIN h.steps}

\* What a request may name: good arguments name something that may be there,
\* accepted bad ones (a blank entity name, no metadata field) nothing at all.
Targets(h, arg) ==
    IF arg # "good" THEN {"nothing"}
    ELSE IF Steps(h) \cap EntityOps # {} THEN RqEntities
    ELSE IF Steps(h) \cap RecordOps # {} THEN RqRecords
    ELSE {"new"}

StartRequest(c) ==
    /\ rqReq[c].plan = <<>> /\ rqStarted < MaxRequests
    /\ rqStarted' = rqStarted + 1
    /\ \E h \in RequestHandlers, arg \in ArgShapes, s \in RqSessions :
       \E x \in Targets(h, arg), y \in Targets(h, arg) :
          /\ "merge" \notin Steps(h) => y = x
          /\ rqReq' = [rqReq EXCEPT ![c] =
                IF arg \in h.refuses THEN [NoRequest EXCEPT !.answer = "invalid"]
                ELSE [plan |-> h.steps, missing |-> h.missing, sess |-> s, tgt |-> x, into |-> y,
                      handle |-> 0, todo |-> RqSessions, view |-> <<>>, acted |-> FALSE,
                      did |-> FALSE, answer |-> "none"]]
    /\ UNCHANGED <<handleVars, rqDisk, rqQueue, rqMerged, rqErased, rqUnknown>>

AtStep(c, step) == rqReq[c].plan # <<>> /\ Head(rqReq[c].plan) = step

\* The request goes on with its next step; after the last one it is answered.
Reply(c, r, answer) ==
    rqReq' = [rqReq EXCEPT ![c] = [NoRequest EXCEPT !.answer = answer, !.view = r.view,
                                            !.acted = r.acted, !.did = r.did]]
Goes(c, r) ==
    IF Len(r.plan) = 1
    THEN Reply(c, r, IF r.view # <<>> THEN "shown" ELSE IF r.acted THEN "done" ELSE "noop")
    ELSE rqReq' = [rqReq EXCEPT ![c] = [r EXCEPT !.plan = Tail(@)]]

\* get_session: the live handle, or a new one filled from storage.
Content(s) == IF rqLive[s] # 0 THEN rqObj[s][rqLive[s]] ELSE rqDisk[s]
CanLoad(s) == rqLive[s] # 0 \/ rqDisk[s] # NoSession

GetSession(s) ==
    IF rqLive[s] # 0 THEN UNCHANGED handleVars
    ELSE /\ rqNext[s] < MaxHandles
         /\ rqNext' = [rqNext EXCEPT ![s] = @ + 1]
         /\ rqLive' = [rqLive EXCEPT ![s] = rqNext[s] + 1]
         /\ rqObj' = [rqObj EXCEPT ![s][rqNext[s] + 1] = rqDisk[s]]
         /\ UNCHANGED rqRetired

Load(c) ==
    LET r == rqReq[c] IN
    /\ AtStep(c, "load")
    /\ IF CanLoad(r.sess)
       THEN GetSession(r.sess) /\ Goes(c, [r EXCEPT !.handle = rqLive'[r.sess]])
       ELSE Reply(c, r, r.missing) /\ UNCHANGED handleVars
    /\ UNCHANGED <<rqDisk, rqQueue, rqMerged, rqStarted, rqErased, rqUnknown>>

-----------------------------------------------------------------------------
(* Changes: cas_update_session on the handle, then the persister's queue,   *)
(* which refuses a handle of a deleted session.                             *)

Queued(s, h, gone) ==
    IF h <= rqRetired[s] THEN rqQueue
    ELSE [rqQueue EXCEPT ![s] = [on |-> TRUE, gone |-> @.gone \cup gone]]

\* Removals answered "done"; not those of a request whose session was being
\* deleted under it.
Kept(r, gone) == IF r.handle <= rqRetired[r.sess] THEN {} ELSE {r.sess} \X gone

\* cas_update_session: the step changes the handle's content, or finds nothing
\* to change.  Either way the answer tells which.
CasAnswer_stored(c, changed) ==
    [rqReq[c] EXCEPT !.acted = rqReq[c].tgt \in rqDisk[rqReq[c].sess].recs \cup RqEntities,
                     !.did = changed]
CasAnswer(c, changed) == [rqReq[c] EXCEPT !.acted = changed, !.did = changed]

Changes(c, new, changed) ==
    LET r == rqReq[c] IN
    IF changed THEN rqObj' = [rqObj EXCEPT ![r.sess][r.handle] = new] ELSE UNCHANGED rqObj

Held(c) == rqObj[rqReq[c].sess][rqReq[c].handle]

\* update_session_metadata.
Rename(c) ==
    LET r == rqReq[c] IN
    /\ AtStep(c, "rename")
    /\ Changes(c, [Held(c) EXCEPT !.name = IF r.tgt = "new" THEN "new" ELSE @], TRUE)
    /\ rqQueue' = Queued(r.sess, r.handle, {})
    /\ Goes(c, CasAnswer(c, TRUE))
    /\ UNCHANGED <<rqLive, rqRetired, rqNext, rqDisk, rqMerged, rqStarted, rqErased, rqUnknown>>

\* delete_entity, its change in memory.
DropEntity(c) ==
    LET r == rqReq[c]
        there == r.tgt \in Held(c).ents
    IN  /\ AtStep(c, "dropEntity")
        /\ Changes(c, [Held(c) EXCEPT !.ents = @ \ {r.tgt}], there)
        /\ rqQueue' = IF there THEN Queued(r.sess, r.handle, {}) ELSE rqQueue
        /\ Goes(c, CasAnswer(c, there))
        /\ UNCHANGED <<rqLive, rqRetired, rqNext, rqDisk, rqMerged, rqStarted, rqErased, rqUnknown>>

\* A change that, when there is nothing to change, ends the request at once;
\* gone is what its queued save must remove, later whether the save is queued
\* only by a later step.
CasOrNoop(c, step, new, changed, gone, later) ==
    LET r == rqReq[c] IN
    /\ AtStep(c, step)
    /\ Changes(c, new, changed)
    /\ rqQueue' = IF changed /\ ~later THEN Queued(r.sess, r.handle, gone) ELSE rqQueue
    /\ IF changed THEN Goes(c, CasAnswer(c, TRUE)) ELSE Reply(c, CasAnswer(c, FALSE), "noop")
    /\ rqErased' = rqErased \cup (IF changed THEN Kept(r, gone) ELSE {})
    /\ rqUnknown' = IF ~changed /\ step = "purge" THEN rqUnknown \cup {<<r.sess, r.tgt>>}
                    ELSE rqUnknown
    /\ UNCHANGED <<rqLive, rqRetired, rqNext, rqDisk, rqMerged, rqStarted>>

\* remove_update_by_id, retire_update, and purge's rebuild of the graph.
WithoutRecord(x, rec) == [x EXCEPT !.recs = @ \ {rec}, !.retired = @ \ {rec}]
Rebuilt(x) == [x EXCEPT !.ents = Mentioned(x.recs)]

Merge(c) ==
    LET r == rqReq[c] IN
    CasOrNoop(c, "merge", [Held(c) EXCEPT !.ents = @ \ {r.tgt}],
              {r.tgt, r.into} \subseteq Held(c).ents /\ r.tgt # r.into, {}, TRUE)
RemoveStep(c) ==
    LET r == rqReq[c] IN
    CasOrNoop(c, "remove", WithoutRecord(Held(c), r.tgt), r.tgt \in Held(c).recs, {r.tgt}, FALSE)
Retire(c) ==
    LET r == rqReq[c] IN
    CasOrNoop(c, "retire", [Held(c) EXCEPT !.retired = @ \cup {r.tgt}],
              r.tgt \in Held(c).recs \ Held(c).retired, {}, FALSE)
Purge(c) ==
    LET r == rqReq[c] IN
    CasOrNoop(c, "purge", Rebuilt(WithoutRecord(Held(c), r.tgt)), r.tgt \in Held(c).recs,
              {}, TRUE)

-----------------------------------------------------------------------------
(* Storage.                                                                 *)

StorageSteps == {"eraseEntity", "eraseMerged", "clearGraph", "rows", "checkpoint", "search",
                 "vectorize"}

\* SurrealDB keeps entities as rows of their own; RocksDB's are in the session.
ErasedEnts(s, gone) == IF rqBackend = "rocksdb" THEN rqDisk[s].ents ELSE rqDisk[s].ents \ gone

Erase(c) ==
    LET r == rqReq[c]
        gone == IF AtStep(c, "clearGraph") THEN RqEntities ELSE {r.tgt}
    IN  /\ AtStep(c, "eraseEntity") \/ AtStep(c, "eraseMerged") \/ AtStep(c, "clearGraph")
        /\ rqDisk' = [rqDisk EXCEPT ![r.sess].ents = ErasedEnts(r.sess, gone)]
        /\ Goes(c, r)
        /\ UNCHANGED <<handleVars, rqQueue, rqMerged, rqStarted, rqErased, rqUnknown>>

QueueLate(c) ==
    LET r == rqReq[c]
        gone == IF AtStep(c, "queuePurge") THEN {r.tgt} ELSE {}
    IN  /\ AtStep(c, "queueMerged") \/ AtStep(c, "queuePurge")
        /\ rqQueue' = Queued(r.sess, r.handle, gone)
        /\ rqErased' = rqErased \cup Kept(r, gone)
        /\ Goes(c, r)
        /\ UNCHANGED <<handleVars, rqDisk, rqMerged, rqStarted, rqUnknown>>

\* The queued save: rows are added or replaced, and leave only by name.
SavedRecs_all(s) == rqDisk[s].recs \cup Content(s).recs
SavedRecs(s) == (rqDisk[s].recs \cup Content(s).recs) \ rqQueue[s].gone

Save(s) ==
    LET x == Content(s) IN
    /\ rqQueue[s].on /\ rqLive[s] # 0
    /\ rqDisk' = [rqDisk EXCEPT ![s] =
            [name |-> x.name, recs |-> SavedRecs(s),
             retired |-> SavedRecs(s) \cap (x.retired \cup (@.retired \ x.recs)),
             ents |-> IF rqBackend = "rocksdb" THEN x.ents ELSE @.ents \cup x.ents]]
    /\ rqQueue' = [rqQueue EXCEPT ![s] = NoQueue]
    /\ UNCHANGED <<handleVars, rqMerged, rqReq, rqStarted, rqErased, rqUnknown>>

\* delete_session, under the load gate: out of the map, the handles retired,
\* the queued work dropped, then the storage delete, which may fail.
Delete(c) ==
    LET r == rqReq[c]
        s == r.sess
    IN  /\ AtStep(c, "delete")
        /\ rqLive' = [rqLive EXCEPT ![s] = 0]
        /\ rqRetired' = [rqRetired EXCEPT ![s] = rqNext[s]]
        /\ rqQueue' = [rqQueue EXCEPT ![s] = NoQueue]
        /\ rqErased' = {e \in rqErased : e[1] # s}
        /\ rqUnknown' = {e \in rqUnknown : e[1] # s}
        /\ \/ /\ rqDisk' = [rqDisk EXCEPT ![s] = NoSession]
              /\ Goes(c, [r EXCEPT !.acted = rqDisk[s] # NoSession,
                              !.did = rqDisk[s] # NoSession])
           \/ RqFaults /\ Reply(c, r, "error") /\ UNCHANGED rqDisk
        /\ UNCHANGED <<rqObj, rqNext, rqMerged, rqStarted>>

\* A storage operation, the embedder or the compare-and-swap gives up: the
\* request ends there with an error (for some MCP tools inside a successful call).
Fails(c) ==
    /\ RqFaults /\ rqReq[c].plan # <<>>
    /\ Head(rqReq[c].plan) \in StorageSteps \cup EntityOps \cup RecordOps \cup {"rename"}
    /\ Reply(c, rqReq[c], "error")
    /\ UNCHANGED <<handleVars, rqDisk, rqQueue, rqMerged, rqStarted, rqErased, rqUnknown>>

-----------------------------------------------------------------------------
(* Reads.                                                                   *)

\* What an answer shows of a session.
Part(step, x) ==
    CASE step = "readInfo" -> <<x.name, Cardinality(x.recs)>>
      [] step = "readRecords" -> <<x.recs, x.retired>>
      [] step = "readEntities" -> x.ents
      [] step = "readAll" -> x
ReadSteps == {"readInfo", "readRecords", "readEntities", "readAll"}

Viewed(r, kind, shown) == [r EXCEPT !.view = [kind |-> kind, shown |-> shown]]

\* session_arc.load(): one snapshot of the handle, and the whole answer from it.
Read(c) ==
    LET r == rqReq[c] IN
    /\ r.plan # <<>> /\ Head(r.plan) \in ReadSteps
    /\ Goes(c, Viewed(r, Head(r.plan), [s \in {r.sess} |-> Part(Head(r.plan), Held(c))]))
    /\ UNCHANGED <<handleVars, rqDisk, rqQueue, rqMerged, rqStarted, rqErased, rqUnknown>>

\* list_session_summaries: the stored rows, then the live sessions over them.
RequestRows(c) ==
    /\ AtStep(c, "rows")
    /\ Goes(c, Viewed(rqReq[c], "list",
                [s \in {t \in RqSessions : rqDisk[t] # NoSession} |-> rqDisk[s].name]))
    /\ UNCHANGED <<handleVars, rqDisk, rqQueue, rqMerged, rqStarted, rqErased, rqUnknown>>

Overlay(c) ==
    LET rows == rqReq[c].view.shown IN
    /\ AtStep(c, "overlay")
    /\ Goes(c, Viewed(rqReq[c], "list",
                [s \in DOMAIN rows |-> IF rqLive[s] # 0 THEN Content(s).name ELSE rows[s]]))
    /\ UNCHANGED <<handleVars, rqDisk, rqQueue, rqMerged, rqStarted, rqErased, rqUnknown>>

\* A workspace's sessions, one get_session at a time; one that does not load
\* is left out.
Gather(c) ==
    LET r == rqReq[c]
        shown == IF r.view = <<>> THEN <<>> ELSE r.view.shown
    IN  /\ AtStep(c, "gather")
        /\ IF r.todo = {} THEN Goes(c, Viewed(r, "graph", shown)) /\ UNCHANGED handleVars
           ELSE \E s \in r.todo :
                LET next == [r EXCEPT !.todo = @ \ {s}] IN
                IF CanLoad(s)
                THEN /\ GetSession(s)
                     /\ rqReq' = [rqReq EXCEPT ![c] = Viewed(next, "graph",
                            [t \in DOMAIN shown \cup {s} |->
                                IF t = s THEN Content(s).ents ELSE shown[t]])]
                ELSE rqReq' = [rqReq EXCEPT ![c] = Viewed(next, "graph", shown)]
                     /\ UNCHANGED handleVars
        /\ UNCHANGED <<rqDisk, rqQueue, rqMerged, rqStarted, rqErased, rqUnknown>>

\* WorkspaceGraphCache::merged: the cached merge when it was made from the same
\* graphs of the same sessions.
CacheHit(sources) == rqMerged.from = sources

MergedGraph(sources) ==
    IF CacheHit(sources) THEN rqMerged.graph ELSE UNION {sources[s] : s \in DOMAIN sources}

MergeGraphs(c) ==
    LET r == rqReq[c]
        sources == r.view.shown
    IN  /\ AtStep(c, "mergeGraphs")
        /\ rqMerged' = [from |-> IF CacheHit(sources) THEN rqMerged.from ELSE sources,
                        graph |-> MergedGraph(sources)]
        /\ Goes(c, [r EXCEPT !.view = [kind |-> "graph", shown |-> sources,
                                       graph |-> MergedGraph(sources)]])
        /\ UNCHANGED <<handleVars, rqDisk, rqQueue, rqStarted, rqErased, rqUnknown>>

\* Steps that change nothing here: the health report, a search, the embedding
\* of a session, the checkpoint's row.
Pass(c) ==
    /\ \E step \in {"health", "search", "vectorize", "checkpoint"} : AtStep(c, step)
    /\ Goes(c, IF rqReq[c].view = <<>> THEN Viewed(rqReq[c], "report", <<>>) ELSE rqReq[c])
    /\ UNCHANGED <<handleVars, rqDisk, rqQueue, rqMerged, rqStarted, rqErased, rqUnknown>>

\* The session is evicted once its save is stored, and the next get_session
\* loads it again.
RequestReload(s) ==
    /\ rqLive[s] # 0 /\ ~rqQueue[s].on /\ \A c \in RqClients : rqReq[c].plan = <<>>
    /\ rqObj' = [rqObj EXCEPT ![s][rqLive[s]] = rqDisk[s]]
    /\ UNCHANGED <<rqLive, rqRetired, rqNext, rqDisk, rqQueue, rqMerged, rqReq, rqStarted,
                   rqErased, rqUnknown>>

-----------------------------------------------------------------------------

\* History: the states a request's sessions were in while it was under way.
Reading(r) == \E i \in DOMAIN r.plan : r.plan[i] \in ReadSteps \cup {"rows", "overlay", "gather", "mergeGraphs"}
States(c, s) ==
    {Content(s)} \cup (IF rqReq[c].plan # <<>> /\ rqReq[c].sess = s /\ rqReq[c].handle # 0
                       THEN {Held(c)} ELSE {})
Observes ==
    rqSeen' = [c \in RqClients |-> [s \in RqSessions |->
        IF Reading(rqReq[c]) THEN rqSeen[c][s] \cup States(c, s)'
        ELSE IF Reading(rqReq'[c]) THEN {Content(s), Content(s)'}
        ELSE IF rqReq'[c].view # <<>> THEN rqSeen[c][s]
        ELSE {}]]

RequestNext ==
    /\ UNCHANGED rqBackend
    /\ \/ \E s \in RqSessions : Save(s) \/ RequestReload(s)
       \/ \E c \in RqClients :
            \/ StartRequest(c) \/ Load(c) \/ Rename(c) \/ DropEntity(c) \/ Merge(c)
            \/ RemoveStep(c) \/ Retire(c) \/ Purge(c) \/ Erase(c) \/ QueueLate(c) \/ Delete(c)
            \/ Fails(c) \/ Read(c) \/ RequestRows(c) \/ Overlay(c) \/ Gather(c) \/ MergeGraphs(c)
            \/ Pass(c)
    /\ Observes

RequestSpec == RequestInit /\ [][RequestNext]_requestVars

-----------------------------------------------------------------------------
(* Properties.                                                              *)

\* What a request is told is true: "done" exactly when it was this request that
\* changed the session, so of several requests that remove the same thing one
\* is told so; a refused request changed nothing; and whatever is shown of a
\* session, alone or gathered with others of its workspace, is one state the
\* session was in while the request ran, and the merged graph is the merge of
\* what was gathered, cached or not.
AnswersTrue ==
    \A c \in RqClients :
        LET a == rqReq[c]
            shown == a.view.shown
            merged == UNION {shown[s] : s \in DOMAIN shown}
        IN  /\ a.answer = "done" => a.did
            /\ a.answer \in {"invalid", "not_found", "noop"} => ~a.did
            /\ a.answer = "shown" =>
                /\ a.view.kind = "graph" => a.view.graph = merged
                /\ \A s \in DOMAIN shown :
                    CASE a.view.kind = "list" -> rqSeen[c][s] # {NoSession}
                      [] a.view.kind = "graph" -> shown[s] \in {x.ents : x \in rqSeen[c][s]}
                      [] OTHER -> shown[s] \in {Part(a.view.kind, x) : x \in rqSeen[c][s]}

\* A record whose removal or purge was answered "done" does not come back: not
\* with the queued save still to come, and not when the session is evicted and
\* loaded again, until the session itself is deleted.
RemovedStaysOut == \A e \in rqErased : e[2] \notin Content(e[1]).recs

\* Requests are told the truth, and what they removed stays removed.
RequestsHonest == AnswersTrue /\ RemovedStaysOut

-----------------------------------------------------------------------------
(* The invariant that carries RequestsHonest through every step.           *)

\* What a request may still have to do.
RqPlans ==
    {<<"load", "rename">>, <<"rename">>, <<"delete">>,
     <<"load", "dropEntity", "eraseEntity">>, <<"dropEntity", "eraseEntity">>, <<"eraseEntity">>,
     <<"load", "merge", "eraseMerged", "queueMerged">>, <<"merge", "eraseMerged", "queueMerged">>,
     <<"eraseMerged", "queueMerged">>, <<"queueMerged">>,
     <<"load", "remove">>, <<"remove">>, <<"load", "retire">>, <<"retire">>,
     <<"load", "purge", "clearGraph", "queuePurge">>, <<"purge", "clearGraph", "queuePurge">>,
     <<"clearGraph", "queuePurge">>, <<"queuePurge">>,
     <<"load", "readInfo">>, <<"readInfo">>, <<"load", "readAll">>, <<"readAll">>,
     <<"load", "readEntities">>, <<"readEntities">>, <<"load", "readRecords">>, <<"readRecords">>,
     <<"load", "readRecords", "checkpoint">>, <<"readRecords", "checkpoint">>, <<"checkpoint">>,
     <<"load", "vectorize">>, <<"vectorize">>, <<"rows", "overlay">>, <<"overlay">>,
     <<"gather", "mergeGraphs">>, <<"mergeGraphs">>, <<"search">>, <<"health">>}
SessionSteps ==
    {"rename", "remove", "retire", "purge", "clearGraph", "queuePurge", "merge", "eraseMerged",
     "queueMerged", "dropEntity", "eraseEntity", "checkpoint", "vectorize"} \cup ReadSteps

RqStates ==
    [name : {"none", "old", "new"}, recs : SUBSET RqRecords, retired : SUBSET RqRecords,
     ents : SUBSET RqEntities]
Underway(c) == rqReq[c].plan # <<>>

RequestTypeOK ==
    /\ rqObj \in [RqSessions -> [Handles -> RqStates]] /\ rqDisk \in [RqSessions -> RqStates]
    /\ rqNext \in [RqSessions -> Handles] /\ rqLive \in [RqSessions -> 0..MaxHandles]
    /\ rqRetired \in [RqSessions -> 0..MaxHandles]
    /\ DOMAIN rqQueue = RqSessions /\ DOMAIN rqReq = RqClients
    /\ \A c \in RqClients :
        IF Underway(c)
        THEN /\ DOMAIN rqReq[c] = {"plan", "missing", "sess", "tgt", "into", "handle", "todo",
                                   "view", "acted", "did", "answer"}
             /\ rqReq[c].plan \in RqPlans /\ rqReq[c].sess \in RqSessions
             /\ rqReq[c].todo \subseteq RqSessions
             /\ rqReq[c].missing \in {"error", "not_found", "invalid", "told"}
        ELSE DOMAIN rqReq[c] = {"plan", "answer", "view", "acted", "did"}

\* Handles are given out in order, and only the last one can be live or not
\* retired.  A live session is stored, and no handle is without a session.
HandlesInOrder ==
    \A s \in RqSessions :
        /\ IF rqLive[s] # 0 THEN rqLive[s] = rqNext[s] /\ rqRetired[s] = rqNext[s] - 1
           ELSE rqRetired[s] = rqNext[s]
        /\ rqDisk[s].name = "none" => rqLive[s] = 0 /\ rqDisk[s] = NoSession
        /\ \A h \in 1..rqNext[s] : rqObj[s][h].name # "none"

\* A request has changed what it claims to have changed; it has a handle from
\* its load on, and a purge under way has taken the record out.
StepsFit(c) ==
    LET r == rqReq[c] IN
    /\ r.answer = "none" /\ r.acted = r.did
    /\ Head(r.plan) = "load" => ~r.did
    /\ Head(r.plan) \in SessionSteps => r.handle \in 1..rqNext[r.sess]
    /\ Head(r.plan) \in {"clearGraph", "queuePurge"} => r.tgt \notin Held(c).recs
AnswerFits(c) ==
    LET a == rqReq[c] IN
    /\ a.answer = "done" => a.did
    /\ a.answer \in {"invalid", "not_found", "noop"} => ~a.did
    /\ a.answer = "shown" =>
        /\ a.view # <<>>
        /\ a.view.kind = "graph" =>
             a.view.graph = UNION {a.view.shown[s] : s \in DOMAIN a.view.shown}
RequestsFit == \A c \in RqClients : IF Underway(c) THEN StepsFit(c) ELSE AnswerFits(c)

\* What a request has collected so far is of its kind, and each part of it a
\* state that was seen while the request was reading.
ViewFits(c) ==
    LET r == rqReq[c] IN
    /\ r.view # <<>> => Head(r.plan) \in {"gather", "mergeGraphs", "overlay", "checkpoint"}
    /\ Head(r.plan) \in {"mergeGraphs", "overlay", "checkpoint"} => r.view # <<>>
    /\ r.view # <<>> =>
        r.view.kind \in CASE Head(r.plan) \in {"gather", "mergeGraphs"} -> {"graph"}
                          [] Head(r.plan) = "overlay" -> {"list"}
                          [] OTHER -> ReadSteps
WasSeen(c, s) ==
    LET v == rqReq[c].view IN
    CASE v.kind = "list" -> \E x \in rqSeen[c][s] : x # NoSession
      [] v.kind = "graph" -> \E x \in rqSeen[c][s] : v.shown[s] = x.ents
      [] OTHER -> \E x \in rqSeen[c][s] : v.shown[s] = Part(v.kind, x)
ViewsSeen ==
    \A c \in RqClients :
        /\ Underway(c) => ViewFits(c)
        /\ rqReq[c].view # <<>> =>
            \A s \in DOMAIN rqReq[c].view.shown : s \in RqSessions /\ WasSeen(c, s)
SeenCurrent ==
    \A c \in RqClients : Reading(rqReq[c]) =>
        \A s \in RqSessions : States(c, s) \subseteq rqSeen[c][s]

\* A record that was removed is out of memory, and out of storage unless the
\* queued save will take it out.
RemovalsLast ==
    \A e \in rqErased :
        /\ e[1] \in RqSessions /\ rqLive[e[1]] # 0
        /\ e[2] \notin rqObj[e[1]][rqLive[e[1]]].recs
        /\ e[2] \in rqDisk[e[1]].recs => rqQueue[e[1]].on /\ e[2] \in rqQueue[e[1]].gone
MergeCached == rqMerged.graph = UNION {rqMerged.from[s] : s \in DOMAIN rqMerged.from}

RequestInv ==
    /\ RequestTypeOK /\ HandlesInOrder /\ RequestsFit /\ ViewsSeen /\ SeenCurrent
    /\ RemovalsLast /\ MergeCached

-----------------------------------------------------------------------------
(* What the repository says and the model refutes: these do not hold.     *)

\* What purge_update says: "Returns false if it is unknown".  Once every request
\* has ended and every queued save is stored, a record a purge called unknown
\* is not in storage either.
UnknownIsGone ==
    (\A c \in RqClients : rqReq[c].plan = <<>>) =>
        \A e \in rqUnknown : ~rqQueue[e[1]].on => e[2] \notin rqDisk[e[1]].recs

=============================================================================
