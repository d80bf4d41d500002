------------------------------ MODULE DerivedWork ------------------------------
(***************************************************************************)
(* What is derived from the updates of one session, the entity graph and   *)
(* the vectors, and how it follows the updates that are added, deleted     *)
(* and purged and the session that is deleted and created again:           *)
(* update_context (services.rs), apply_entity_graph_update_now,            *)
(* vectorize_update_now, undo_vectorization, delete_update, purge_update   *)
(* and delete_session (memory_system/system.rs), vectorize_update,         *)
(* add_and_persist_many, remove_content and remove_session_vectors         *)
(* (content_vectorizer).                                                   *)
(*                                                                         *)
(* The session behind handle g is a graph, the updates it contains and the *)
(* set vectorized_update_ids, which all versions of g share.  The session  *)
(* stays cached until it is deleted (Persister and SessionManager are      *)
(* about eviction); the embedding job and the graph job of an update run   *)
(* on their own, as the two workers and the fallback tasks do (Pipeline).  *)
(* The graph is the set of updates merged in it; how often an update was   *)
(* merged, and the vectors of entity descriptions, are left out.           *)
(***************************************************************************)
EXTENDS Integers, FiniteSets

CONSTANTS
    Updates,         \* ids of context updates (fresh UUIDs)
    Erasures,        \* what is done to updates: subset of {"delete", "purge"}
    SessionDeletes   \* bound: how often the session is deleted

ASSUME DerivedAssumption ==
    /\ Erasures \subseteq {"delete", "purge"}
    /\ SessionDeletes \in Nat

Handles == 0 .. SessionDeletes
NoHandle == -1

VARIABLES
    handle,        \* the cached handle of the session, if it exists
    next,          \* handles registered so far
    retiredBelow,  \* handles below it are deleted (storage_actor.is_deleted)
    content,       \* per handle: the updates of the session
    graph,         \* per handle: the updates merged in the entity graph
    marked,        \* per handle: vectorized_update_ids
    upc, uh,       \* per update: its write, the handle it uses
    epc, eh,       \* per update: its embedding job
    gpc, gh,       \* per update: its graph job
    rpc, rh, kind, locked,  \* per update: its erasure, its kind, under the lock
    dpc,           \* delete_session
    mem, stored,   \* vectors in the vector DB (copies), and persisted
    dirty, wsnap, writing,  \* a persist is queued; the graph being written
    entities       \* updates whose entities are stored

sessionVars == <<handle, next, retiredBelow>>
memoryVars == <<content, graph, marked>>
jobVars == <<upc, uh, epc, eh, gpc, gh, rpc, rh, kind, locked, dpc>>
vectorVars == <<mem, stored>>
storeVars == <<dirty, wsnap, writing, entities>>
vars == <<sessionVars, memoryVars, jobVars, vectorVars, storeVars>>

-----------------------------------------------------------------------------
(* Helpers. *)

IsDeleted(h) == h < retiredBelow

\* delete_session holds the loading gate.
GateFree == dpc # "storage"

\* A persist through h; one through a deleted handle is dropped.
Persist(h) == dirty' = (dirty \/ ~IsDeleted(h))

-----------------------------------------------------------------------------
(* update_context. *)

\* get_or_create_session.
UpdateGet(u) ==
    /\ upc[u] = "new" /\ GateFree
    /\ \/ /\ handle # NoHandle
          /\ uh' = [uh EXCEPT ![u] = handle]
          /\ UNCHANGED sessionVars
       \/ /\ handle = NoHandle /\ next \in Handles
          /\ uh' = [uh EXCEPT ![u] = next]
          /\ handle' = next /\ next' = next + 1
          /\ UNCHANGED retiredBelow
    /\ upc' = [upc EXCEPT ![u] = "have"]
    /\ UNCHANGED <<memoryVars, epc, eh, gpc, gh, rpc, rh, kind, locked, dpc,
                   vectorVars, storeVars>>

\* The compare-and-swap, then the persist.
UpdateCommit(u) ==
    /\ upc[u] = "have"
    /\ content' = [content EXCEPT ![uh[u]] = @ \cup {u}]
    /\ Persist(uh[u])
    /\ upc' = [upc EXCEPT ![u] = "committed"]
    /\ UNCHANGED <<sessionVars, graph, marked, uh, epc, eh, gpc, gh, rpc, rh,
                   kind, locked, dpc, vectorVars, wsnap, writing, entities>>

\* Mutant of UpdateSubmit: the graph work is not submitted.
UpdateSubmit_embedOnly(u) ==
    /\ upc[u] = "committed"
    /\ upc' = [upc EXCEPT ![u] = "done"]
    /\ epc' = [epc EXCEPT ![u] = "queued"]
    /\ UNCHANGED <<sessionVars, memoryVars, uh, eh, gpc, gh, rpc, rh, kind, locked,
                   dpc, vectorVars, storeVars>>

\* The write ended, well or not: submit_derived_work.
UpdateSubmit(u) ==
    /\ upc[u] = "committed"
    /\ upc' = [upc EXCEPT ![u] = "done"]
    /\ epc' = [epc EXCEPT ![u] = "queued"]
    /\ gpc' = [gpc EXCEPT ![u] = "queued"]
    /\ UNCHANGED <<sessionVars, memoryVars, uh, eh, gh, rpc, rh, kind, locked,
                   dpc, vectorVars, storeVars>>

-----------------------------------------------------------------------------
(* The graph job: apply_entity_graph_update_now. *)

GraphStart(u) ==
    /\ gpc[u] = "queued" /\ GateFree
    /\ gh' = [gh EXCEPT ![u] = handle]
    /\ gpc' = [gpc EXCEPT ![u] = IF handle = NoHandle THEN "done" ELSE "have"]
    /\ UNCHANGED <<sessionVars, memoryVars, upc, uh, epc, eh, rpc, rh, kind,
                   locked, dpc, vectorVars, storeVars>>

\* Mutant of GraphMerge: the update is merged although it left the session.
GraphMerge_unchecked(u) ==
    /\ gpc[u] = "have"
    /\ graph' = [graph EXCEPT ![gh[u]] = @ \cup {u}]
    /\ Persist(gh[u])
    /\ gpc' = [gpc EXCEPT ![u] = "done"]
    /\ UNCHANGED <<sessionVars, content, marked, upc, uh, epc, eh, gh, rpc, rh,
                   kind, locked, dpc, vectorVars, wsnap, writing, entities>>

\* The compare-and-swap that succeeds: an update no longer there is skipped.
GraphMerge(u) ==
    /\ gpc[u] = "have"
    /\ IF u \in content[gh[u]]
       THEN /\ graph' = [graph EXCEPT ![gh[u]] = @ \cup {u}]
            /\ Persist(gh[u])
       ELSE UNCHANGED <<graph, dirty>>
    /\ gpc' = [gpc EXCEPT ![u] = "done"]
    /\ UNCHANGED <<sessionVars, content, marked, upc, uh, epc, eh, gh, rpc, rh,
                   kind, locked, dpc, vectorVars, wsnap, writing, entities>>

-----------------------------------------------------------------------------
(* The embedding job: vectorize_update_now. *)

EmbedStart(u) ==
    /\ epc[u] = "queued" /\ GateFree
    /\ eh' = [eh EXCEPT ![u] = handle]
    /\ epc' = [epc EXCEPT ![u] = IF handle = NoHandle THEN "done" ELSE "have"]
    /\ UNCHANGED <<sessionVars, memoryVars, upc, uh, gpc, gh, rpc, rh, kind,
                   locked, dpc, vectorVars, storeVars>>

\* vectorize_update on a snapshot: nothing to do, or the text is embedded.
EmbedCheck(u) ==
    /\ epc[u] = "have"
    /\ epc' = [epc EXCEPT ![u] =
                 IF u \in marked[eh[u]] \/ u \notin content[eh[u]]
                 THEN "done" ELSE "encode"]
    /\ UNCHANGED <<sessionVars, memoryVars, upc, uh, eh, gpc, gh, rpc, rh, kind,
                   locked, dpc, vectorVars, storeVars>>

\* add_and_persist_many: into the vector DB ...
EmbedAdd(u) ==
    /\ epc[u] = "encode"
    /\ mem' = [mem EXCEPT ![u] = @ + 1]
    /\ epc' = [epc EXCEPT ![u] = "added"]
    /\ UNCHANGED <<sessionVars, memoryVars, upc, uh, eh, gpc, gh, rpc, rh, kind,
                   locked, dpc, stored, storeVars>>

\* ... then into storage, and the update is marked; a failure takes the
\* vectors back.
EmbedPersist(u, ok) ==
    /\ epc[u] = "added"
    /\ \/ /\ ok
          /\ stored' = stored \cup {u}
          /\ marked' = [marked EXCEPT ![eh[u]] = @ \cup {u}]
          /\ epc' = [epc EXCEPT ![u] = "check"]
          /\ UNCHANGED mem
       \/ /\ ~ok
          /\ mem' = [mem EXCEPT ![u] = IF @ = 0 THEN 0 ELSE @ - 1]
          /\ epc' = [epc EXCEPT ![u] = "done"]
          /\ UNCHANGED <<stored, marked>>
    /\ UNCHANGED <<sessionVars, content, graph, upc, uh, eh, gpc, gh, rpc, rh,
                   kind, locked, dpc, storeVars>>

\* Mutant of EmbedFinish: the session is not looked at again.
EmbedFinish_unchecked(u) ==
    /\ epc[u] = "check"
    /\ epc' = [epc EXCEPT ![u] = "done"]
    /\ Persist(eh[u])
    /\ UNCHANGED <<sessionVars, memoryVars, upc, uh, eh, gpc, gh, rpc, rh, kind,
                   locked, dpc, vectorVars, wsnap, writing, entities>>

\* Deleted while embedding: undo, or the vectors outlive the session.
EmbedFinish(u) ==
    /\ epc[u] = "check"
    /\ epc' = [epc EXCEPT ![u] = IF IsDeleted(eh[u]) THEN "undo" ELSE "done"]
    /\ Persist(eh[u])
    /\ UNCHANGED <<sessionVars, memoryVars, upc, uh, eh, gpc, gh, rpc, rh, kind,
                   locked, dpc, vectorVars, wsnap, writing, entities>>

\* undo_vectorization: remove_content, from memory and from storage ...
UndoContent(u) ==
    /\ epc[u] = "undo"
    /\ mem' = [mem EXCEPT ![u] = 0]
    /\ stored' = stored \ {u}
    /\ epc' = [epc EXCEPT ![u] = "undoSession"]
    /\ UNCHANGED <<sessionVars, memoryVars, upc, uh, eh, gpc, gh, rpc, rh, kind,
                   locked, dpc, storeVars>>

\* ... then remove_session_vectors.
UndoSession(u) ==
    /\ epc[u] = "undoSession"
    /\ mem' = [x \in Updates |-> 0]
    /\ epc' = [epc EXCEPT ![u] = "done"]
    /\ UNCHANGED <<sessionVars, memoryVars, upc, uh, eh, gpc, gh, rpc, rh, kind,
                   locked, dpc, stored, storeVars>>

-----------------------------------------------------------------------------
(* delete_update and purge_update. *)

EraseGet(u, k) ==
    /\ rpc[u] = "none" /\ GateFree
    /\ handle # NoHandle /\ u \in content[handle]
    /\ rh' = [rh EXCEPT ![u] = handle]
    /\ kind' = [kind EXCEPT ![u] = k]
    /\ rpc' = [rpc EXCEPT ![u] = "have"]
    /\ UNCHANGED <<sessionVars, memoryVars, upc, uh, epc, eh, gpc, gh, locked,
                   dpc, vectorVars, storeVars>>

\* The compare-and-swap: the update leaves the session; a purge rebuilds the
\* graph from the updates that remain (rebuild_entity_graph_sync), also those
\* whose merge is still queued.
EraseCommit(u) ==
    /\ rpc[u] = "have"
    /\ content' = [content EXCEPT ![rh[u]] = @ \ {u}]
    /\ graph' = [graph EXCEPT ![rh[u]] =
                   IF kind[u] = "purge" THEN content[rh[u]] \ {u} ELSE @]
    /\ rpc' = [rpc EXCEPT ![u] = "unmark"]
    /\ UNCHANGED <<sessionVars, marked, upc, uh, epc, eh, gpc, gh, rh, kind,
                   locked, dpc, vectorVars, storeVars>>

\* The id leaves the shared set; a purge goes on to clear_session_entities,
\* under the persister's lock when a slot exists.
EraseUnmark(u) ==
    /\ rpc[u] = "unmark"
    /\ marked' = [marked EXCEPT ![rh[u]] = @ \ {u}]
    /\ rpc' = [rpc EXCEPT ![u] =
                 CASE kind[u] = "delete" -> "persist"
                   [] kind[u] = "purge" /\ (dirty \/ writing) -> "lock"
                   [] kind[u] = "purge" /\ ~(dirty \/ writing) -> "clear"]
    /\ UNCHANGED <<sessionVars, content, graph, upc, uh, epc, eh, gpc, gh, rh,
                   kind, locked, dpc, vectorVars, storeVars>>

PurgeLock(u) ==
    /\ rpc[u] = "lock" /\ ~writing
    /\ \A x \in Updates : ~locked[x]
    /\ locked' = [locked EXCEPT ![u] = TRUE]
    /\ rpc' = [rpc EXCEPT ![u] = "clear"]
    /\ UNCHANGED <<sessionVars, memoryVars, upc, uh, epc, eh, gpc, gh, rh, kind,
                   dpc, vectorVars, storeVars>>

PurgeClear(u) ==
    /\ rpc[u] = "clear"
    /\ entities' = {}
    /\ locked' = [locked EXCEPT ![u] = FALSE]
    /\ rpc' = [rpc EXCEPT ![u] = "persist"]
    /\ UNCHANGED <<sessionVars, memoryVars, upc, uh, epc, eh, gpc, gh, rh, kind,
                   dpc, vectorVars, dirty, wsnap, writing>>

\* persist_session_removals_nowait.
ErasePersist(u) ==
    /\ rpc[u] = "persist"
    /\ Persist(rh[u])
    /\ rpc' = [rpc EXCEPT ![u] = "dropMemory"]
    /\ UNCHANGED <<sessionVars, memoryVars, upc, uh, epc, eh, gpc, gh, rh, kind,
                   locked, dpc, vectorVars, wsnap, writing, entities>>

\* drop_content_vectors: remove_content from memory, then from storage.
EraseDropMemory(u) ==
    /\ rpc[u] = "dropMemory"
    /\ mem' = [mem EXCEPT ![u] = 0]
    /\ rpc' = [rpc EXCEPT ![u] = "dropStored"]
    /\ UNCHANGED <<sessionVars, memoryVars, upc, uh, epc, eh, gpc, gh, rh, kind,
                   locked, dpc, stored, storeVars>>

EraseDropStored(u) ==
    /\ rpc[u] = "dropStored"
    /\ stored' = stored \ {u}
    /\ rpc' = [rpc EXCEPT ![u] = "done"]
    /\ UNCHANGED <<sessionVars, memoryVars, upc, uh, epc, eh, gpc, gh, rh, kind,
                   locked, dpc, mem, storeVars>>

-----------------------------------------------------------------------------
(* delete_session. *)

\* Under the gate: out of the cache, every handle retired.
DeleteRetire ==
    /\ dpc = "idle" /\ handle # NoHandle
    /\ handle' = NoHandle
    /\ retiredBelow' = next
    /\ dpc' = "storage"
    /\ UNCHANGED <<next, memoryVars, upc, uh, epc, eh, gpc, gh, rpc, rh, kind,
                   locked, vectorVars, storeVars>>

\* Storage drops rows, entities and embeddings once no write is running; what
\* was queued is dropped.  The gate is released.
DeleteStorage ==
    /\ dpc = "storage" /\ ~writing
    /\ \A u \in Updates : ~locked[u]
    /\ entities' = {} /\ stored' = {} /\ dirty' = FALSE
    /\ dpc' = "vectors"
    /\ UNCHANGED <<sessionVars, memoryVars, upc, uh, epc, eh, gpc, gh, rpc, rh,
                   kind, locked, mem, wsnap, writing>>

\* remove_session_vectors.
DeleteVectors ==
    /\ dpc = "vectors"
    /\ mem' = [u \in Updates |-> 0]
    /\ dpc' = "idle"
    /\ UNCHANGED <<sessionVars, memoryVars, upc, uh, epc, eh, gpc, gh, rpc, rh,
                   kind, locked, stored, storeVars>>

-----------------------------------------------------------------------------
(* The persister's writer: entities are upserted, never inferred removed. *)

WriteBegin ==
    /\ dirty /\ ~writing
    /\ handle # NoHandle
    /\ \A u \in Updates : ~locked[u]
    /\ wsnap' = graph[handle]
    /\ dirty' = FALSE /\ writing' = TRUE
    /\ UNCHANGED <<sessionVars, memoryVars, jobVars, vectorVars, entities>>

WriteEnd ==
    /\ writing
    /\ entities' = entities \cup wsnap
    /\ wsnap' = {} /\ writing' = FALSE
    /\ UNCHANGED <<sessionVars, memoryVars, jobVars, vectorVars, dirty>>

-----------------------------------------------------------------------------
Init ==
    /\ handle = NoHandle /\ next = 0 /\ retiredBelow = 0
    /\ content = [h \in Handles |-> {}]
    /\ graph = [h \in Handles |-> {}]
    /\ marked = [h \in Handles |-> {}]
    /\ upc = [u \in Updates |-> "new"] /\ uh = [u \in Updates |-> NoHandle]
    /\ epc = [u \in Updates |-> "none"] /\ eh = [u \in Updates |-> NoHandle]
    /\ gpc = [u \in Updates |-> "none"] /\ gh = [u \in Updates |-> NoHandle]
    /\ rpc = [u \in Updates |-> "none"] /\ rh = [u \in Updates |-> NoHandle]
    /\ kind = [u \in Updates |-> "delete"] /\ locked = [u \in Updates |-> FALSE]
    /\ dpc = "idle"
    /\ mem = [u \in Updates |-> 0] /\ stored = {}
    /\ dirty = FALSE /\ wsnap = {} /\ writing = FALSE /\ entities = {}

\* Session deletes are bounded by the handles.
Next ==
    \/ \E u \in Updates :
         \/ UpdateGet(u) \/ UpdateCommit(u) \/ UpdateSubmit(u)
         \/ GraphStart(u) \/ GraphMerge(u)
         \/ EmbedStart(u) \/ EmbedCheck(u) \/ EmbedAdd(u)
         \/ \E ok \in BOOLEAN : EmbedPersist(u, ok)
         \/ EmbedFinish(u) \/ UndoContent(u) \/ UndoSession(u)
         \/ \E k \in Erasures : EraseGet(u, k)
         \/ EraseCommit(u) \/ EraseUnmark(u) \/ PurgeLock(u) \/ PurgeClear(u)
         \/ ErasePersist(u) \/ EraseDropMemory(u) \/ EraseDropStored(u)
    \/ next <= SessionDeletes /\ DeleteRetire
    \/ DeleteStorage \/ DeleteVectors
    \/ WriteBegin \/ WriteEnd

Spec == Init /\ [][Next]_vars

\* Workers, fallback tasks and storage calls go on; nobody has to write, erase
\* or delete.  Several jobs compete for the lock, which is FIFO.
Fairness ==
    /\ \A u \in Updates :
         /\ WF_vars(UpdateCommit(u) \/ UpdateSubmit(u))
         /\ WF_vars(GraphStart(u) \/ GraphMerge(u))
         /\ WF_vars(EmbedStart(u) \/ EmbedCheck(u) \/ EmbedAdd(u)
                    \/ (\E ok \in BOOLEAN : EmbedPersist(u, ok))
                    \/ EmbedFinish(u) \/ UndoContent(u) \/ UndoSession(u))
         /\ SF_vars(PurgeLock(u))
         /\ WF_vars(EraseCommit(u) \/ EraseUnmark(u) \/ PurgeClear(u)
                    \/ ErasePersist(u) \/ EraseDropMemory(u) \/ EraseDropStored(u))
    /\ SF_vars(DeleteStorage) /\ WF_vars(DeleteVectors)
    /\ WF_vars(WriteBegin) /\ WF_vars(WriteEnd)

FairSpec == Spec /\ Fairness

-----------------------------------------------------------------------------
(* Properties. *)

\* The steps of an erasure after the stored entities were cleared.
Cleared == {"persist", "dropMemory", "dropStored", "done"}

\* Type invariant.
TypeOK ==
    /\ handle \in Handles \cup {NoHandle}
    /\ next \in 0 .. SessionDeletes + 1 /\ retiredBelow \in 0 .. SessionDeletes
    /\ content \in [Handles -> SUBSET Updates]
    /\ graph \in [Handles -> SUBSET Updates]
    /\ marked \in [Handles -> SUBSET Updates]
    /\ {uh, eh, gh, rh} \subseteq [Updates -> Handles \cup {NoHandle}]
    /\ upc \in [Updates -> {"new", "have", "committed", "done"}]
    /\ epc \in [Updates -> {"none", "queued", "have", "encode", "added", "check", "undo",
                            "undoSession", "done"}]
    /\ gpc \in [Updates -> {"none", "queued", "have", "done"}]
    /\ rpc \in [Updates -> {"none", "have", "unmark", "lock", "clear"} \cup Cleared]
    /\ kind \in [Updates -> {"delete", "purge"}]
    /\ dpc \in {"idle", "storage", "vectors"}
    /\ mem \in [Updates -> 0 .. 1]
    /\ stored \subseteq Updates /\ wsnap \subseteq Updates /\ entities \subseteq Updates
    /\ locked \in [Updates -> BOOLEAN]
    /\ dirty \in BOOLEAN /\ writing \in BOOLEAN

Quiet(u) == upc[u] \in {"new", "done"} /\ epc[u] \in {"none", "done"}

\* The vectors of a deleted session do not outlive it (comments in
\* vectorize_update_now and undo_vectorization): once delete_session returned
\* and no job of the update runs, none is in memory or in storage.
VectorsDieWithSession ==
    \A u \in Updates :
        (uh[u] # NoHandle /\ IsDeleted(uh[u]) /\ dpc = "idle" /\ Quiet(u))
            => mem[u] = 0 /\ u \notin stored

\* Nothing derived from a purged record survives in the graph: from the moment
\* its stored entities are cleared they are neither in memory, in storage, nor
\* in a write under way, whatever merge of it was queued (purge_update,
\* rebuild_entity_graph_sync, apply_entity_graph_update_now).
PurgedStaysErased ==
    \A u \in Updates :
        kind[u] = "purge" /\ rpc[u] \in Cleared
            => u \notin entities \cup wsnap \cup graph[rh[u]]

\* delete_update "drops the update's embedding (memory, storage, ...)", purge
\* erases "its embedding": once the call returned, and no job of the update is
\* left, its vectors are gone.
NoGhostVectors ==
    \A u \in Updates : rpc[u] = "done" /\ Quiet(u) => mem[u] = 0 /\ u \notin stored

\* What is committed and stays is merged and vectorized, unless storing the
\* vectors fails (Fairness: workers run).
DerivedEventually ==
    \A u \in Updates : upc[u] = "committed" ~>
        \/ IsDeleted(uh[u])
        \/ rpc[u] # "none"
        \/ gpc[u] = "done" /\ epc[u] = "done" /\ mem[u] = 0
        \/ u \in graph[uh[u]] /\ u \in marked[uh[u]]

\* What is erased stays erased, of a purged record in the graph and of a deleted
\* session in the vectors, however late a job of it comes.
ErasedStaysErased == PurgedStaysErased /\ VectorsDieWithSession

(* The inductive invariant behind the theorem of BackgroundProofs. *)

\* The cached handle is the last one, and not retired.
LastHandle ==
    /\ retiredBelow <= next
    /\ handle # NoHandle => retiredBelow <= handle /\ handle < next

\* An update belongs to the session it was written to: it is in no other, and
\* what erases or embeds it found it there.
OwnSession ==
    \A u \in Updates :
        /\ upc[u] # "new" => uh[u] \in Handles
        /\ upc[u] # "done" => epc[u] = "none" /\ gpc[u] = "none"
        /\ upc[u] \in {"new", "have"} => rpc[u] = "none"
        /\ \A h \in Handles : u \in content[h] \cup graph[h]
             => h = uh[u] /\ upc[u] \in {"committed", "done"}
        /\ rpc[u] # "none" => rh[u] = uh[u]
        /\ epc[u] = "have" => eh[u] \in Handles
        /\ epc[u] \in {"encode", "added", "check", "undo"} => eh[u] = uh[u]
        /\ gpc[u] = "have" => gh[u] \in Handles

\* What left the session does not come back to it, and the write under way has
\* it only until the purge holds the lock or finds no write.
ErasedFromSession ==
    /\ ~writing => wsnap = {}
    /\ \A u \in Updates :
         /\ rpc[u] \notin {"none", "have"} =>
              /\ u \notin content[uh[u]]
              /\ kind[u] = "purge" => u \notin graph[uh[u]]
         /\ kind[u] = "purge" /\ rpc[u] \in Cleared \cup {"clear"} => u \notin wsnap
         /\ kind[u] = "purge" /\ rpc[u] \in Cleared => u \notin entities

\* The vectors of a deleted session are still to be dropped by its delete, or
\* by the job that made them.
VectorsOwed ==
    \A u \in Updates :
        /\ epc[u] \in {"none", "queued", "have", "encode"} => mem[u] = 0 /\ u \notin stored
        /\ epc[u] = "added" => u \notin stored
        /\ uh[u] # NoHandle /\ IsDeleted(uh[u]) =>
             /\ mem[u] > 0 => dpc # "idle" \/ epc[u] \in {"added", "check", "undo"}
             /\ u \in stored => dpc = "storage" \/ epc[u] \in {"check", "undo"}

DerivedInv == TypeOK /\ LastHandle /\ OwnSession /\ ErasedFromSession /\ VectorsOwed

=============================================================================
