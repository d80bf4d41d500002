----------------------------- MODULE Vectorizer -----------------------------
(***************************************************************************)
(* How a session's content gets and keeps its vectors (post-cortex-memory, *)
(* content_vectorizer/ingestion.rs, vectorizer.rs; memory_system/          *)
(* embeddings.rs): the lazy start of the vectorizer, which loads what was  *)
(* persisted; the embedding job of every update and of a changed entity;   *)
(* the run over the whole session that a search starts unless the mark of  *)
(* the last complete run still matches; the removal of a purged update's   *)
(* vectors; a crash, after which only what is persisted is left.           *)
(*                                                                         *)
(* One session, one entity.  A long update has several chunks, each a      *)
(* vector.  An entity's text changes: its versions are numbered.  The cap  *)
(* of the vector database is unbounded in this use (max_vectors).          *)
(***************************************************************************)
EXTENDS Naturals, FiniteSets, Sequences

CONSTANTS VzUpdates, VzChunks,      \* update -> number of chunks
          VzSearchers, VzPurged,    \* updates a purge takes
          MaxVersion, MaxInitRetries,
          MaxRuns, VzFaults, VzCrashes

ASSUME VectorizerAssumption ==
    /\ VzChunks \in [VzUpdates -> Nat \ {0}] /\ VzPurged \subseteq VzUpdates
    /\ {MaxVersion, MaxInitRetries, MaxRuns} \subseteq Nat /\ {VzFaults, VzCrashes} \subseteq BOOLEAN
    /\ VzUpdates \cap VzSearchers = {}
    /\ (VzUpdates \cup VzSearchers) \cap {"entity", "purger", "load"} = {}

VzEntity == "entity"
VzPurger == "purger"
VzLoad == "load"
VzThreads == VzUpdates \cup VzSearchers \cup {VzEntity, VzPurger}

VARIABLES vzLive,        \* the session: its updates and its entity's version
          vzDone,        \* vectorized_update_ids
          vzMemory,      \* copies in the vector database: a vector and who added it
          vzStored,      \* persisted vectors
          vzMark,        \* vectorized_marks, with the session it was taken of
          vzState,       \* content_vectorizer: off, loading, on; the failures so far
          vzThread,
          vzCrashed,
          vzRaced        \* history: a purge that anything else overlapped

vectorizerVars == <<vzLive, vzDone, vzMemory, vzStored, vzMark, vzState, vzThread, vzCrashed,
                    vzRaced>>

NoMark == [taken |-> FALSE, counts |-> <<0, 0>>, of |-> [updates |-> {}, version |-> 0]]
VzOff == [pc |-> "off", failures |-> 0, read |-> {}]
VzIdle == [pc |-> "idle", runs |-> 0, of |-> [updates |-> {}, version |-> 0],
           plan |-> {}, old |-> {}, target |-> ""]

VectorizerInit ==
    /\ vzLive = [updates |-> {}, version |-> 0] /\ vzDone = {}
    /\ vzMemory = {} /\ vzStored = {} /\ vzMark = NoMark /\ vzState = VzOff
    /\ vzThread = [t \in VzThreads |-> VzIdle] /\ vzCrashed = ~VzCrashes
    /\ vzRaced = FALSE

----------------------------------------------------------------------------
(* Vectors.                                                                *)

Vec(c, n, v) == [content |-> c, chunk |-> n, version |-> v]
UpdateVectors(u) == {Vec(u, n, 1) : n \in 1..VzChunks[u]}
EntityVectors(live) == IF live.version = 0 THEN {} ELSE {Vec(VzEntity, 1, live.version)}
SameId(x, y) == x.content = y.content /\ x.chunk = y.chunk
Copy(x, t) == [vector |-> x, by |-> t]
InMemory(x) == \E m \in vzMemory : m.vector = x
HasId(x) == \E m \in vzMemory : SameId(m.vector, x)

\* vectorization_mark: counts, of a snapshot.
MarkOf(live) == <<Cardinality(live.updates), IF live.version = 0 THEN 0 ELSE 1>>

VzStep(t, r) == vzThread' = [vzThread EXCEPT ![t] = r]
VzEnd(t) == [VzIdle EXCEPT !.runs = vzThread[t].runs]
VzOn == vzState.pc = "on"

----------------------------------------------------------------------------
(* The session.                                                            *)

\* A write commits an update and queues its embedding.
CommitUpdate(u) ==
    /\ vzThread[u].pc = "idle" /\ vzThread[u].runs = 0
    /\ vzLive' = [vzLive EXCEPT !.updates = @ \cup {u}]
    /\ VzStep(u, [VzIdle EXCEPT !.pc = "queued", !.runs = 1])
    /\ UNCHANGED <<vzDone, vzMemory, vzStored, vzMark, vzState, vzCrashed, vzRaced>>

\* The graph job gives the entity a new description and embeds it.
DescribeEntity ==
    /\ vzThread[VzEntity].pc = "idle" /\ vzLive.version < MaxVersion
    /\ vzLive' = [vzLive EXCEPT !.version = @ + 1]
    /\ VzStep(VzEntity, [VzIdle EXCEPT !.pc = "queued", !.of = vzLive'])
    /\ UNCHANGED <<vzDone, vzMemory, vzStored, vzMark, vzState, vzCrashed, vzRaced>>

----------------------------------------------------------------------------
(* ensure_vectorizer_initialized.                                          *)

StartVectorizer ==
    /\ vzState.pc = "off" /\ vzState.failures <= MaxInitRetries
    /\ \/ vzState' = [vzState EXCEPT !.pc = "loading", !.read = vzStored]
       \/ VzFaults /\ vzState' = [vzState EXCEPT !.pc = "loading"]      \* nothing could be read
       \/ VzFaults /\ vzState' = [vzState EXCEPT !.failures = @ + 1]    \* no engine
    /\ vzRaced' = (vzRaced \/ vzThread[VzPurger].pc # "idle")
    /\ UNCHANGED <<vzLive, vzDone, vzMemory, vzStored, vzMark, vzThread, vzCrashed>>

LoadStored ==
    /\ vzState.pc = "loading"
    /\ vzState' = [vzState EXCEPT !.pc = "on", !.read = {}]
    /\ vzMemory' = vzMemory \cup {Copy(x, VzLoad) : x \in vzState.read}
    /\ UNCHANGED <<vzLive, vzDone, vzStored, vzMark, vzThread, vzCrashed, vzRaced>>

----------------------------------------------------------------------------
(* Embedding one update, the entity, or a session.                         *)

\* vectorize_update skips what is marked done and what the session lost.
RunJob(u) ==
    /\ u \in VzUpdates /\ VzOn /\ vzThread[u].pc = "queued"
    /\ IF u \in vzDone \/ u \notin vzLive.updates THEN VzStep(u, VzEnd(u))
       ELSE VzStep(u, [vzThread[u] EXCEPT !.pc = "embed", !.plan = UpdateVectors(u)])
    /\ UNCHANGED <<vzLive, vzDone, vzMemory, vzStored, vzMark, vzState, vzCrashed, vzRaced>>

\* vectorize_entities leaves an unchanged description, and keeps the copies
\* that differ until their replacement is persisted.
Unchanged(x) ==
    Cardinality({m \in vzMemory : SameId(m.vector, x)}) = 1 /\ InMemory(x)
FreshEntities(live) == {x \in EntityVectors(live) : ~Unchanged(x)}
Superseded(plan) == {m \in vzMemory : \E x \in plan : x.content = VzEntity /\ SameId(m.vector, x)}

RunEntityJob ==
    /\ VzOn /\ vzThread[VzEntity].pc = "queued"
    /\ LET plan == FreshEntities(vzThread[VzEntity].of)
       IN  IF plan = {} THEN VzStep(VzEntity, VzEnd(VzEntity))
           ELSE VzStep(VzEntity, [vzThread[VzEntity] EXCEPT !.pc = "embed", !.plan = plan,
                                                            !.old = Superseded(plan)])
    /\ UNCHANGED <<vzLive, vzDone, vzMemory, vzStored, vzMark, vzState, vzCrashed, vzRaced>>

\* A search runs over its snapshot of the session unless the mark matches.
NeedsVectorization == ~vzMark.taken \/ vzMark.counts # MarkOf(vzLive)

SearchSession(s) ==
    /\ s \in VzSearchers /\ VzOn /\ vzThread[s].pc = "idle" /\ vzThread[s].runs < MaxRuns
    /\ NeedsVectorization
    /\ VzStep(s, [VzIdle EXCEPT !.pc = "collect", !.runs = vzThread[s].runs + 1, !.of = vzLive])
    /\ UNCHANGED <<vzLive, vzDone, vzMemory, vzStored, vzMark, vzState, vzCrashed, vzRaced>>

\* Mutant: what a restart lost stays marked.
StaleIds_kept == {}

\* Ids marked done whose vectors are not in memory.
StaleIds == {u \in vzDone : ~HasId(Vec(u, 1, 1))}

\* The updates not done, then the entities.  (The two parts are embedded one
\* after the other; the copies a later part supersedes are read here.)
Collect(s) ==
    /\ s \in VzSearchers /\ vzThread[s].pc = "collect"
    /\ vzDone' = vzDone \ StaleIds
    /\ LET updates == UNION {UpdateVectors(u) : u \in vzThread[s].of.updates \ vzDone'}
           plan == updates \cup FreshEntities(vzThread[s].of)
       IN  VzStep(s, [vzThread[s] EXCEPT !.plan = plan, !.old = Superseded(plan),
                                         !.pc = IF plan = {} THEN "mark" ELSE "embed"])
    /\ UNCHANGED <<vzLive, vzMemory, vzStored, vzMark, vzState, vzCrashed, vzRaced>>

----------------------------------------------------------------------------
(* add_and_persist_many.                                                   *)

\* No embedding: the run ends with an error, unmarked.
AddToMemory(t) ==
    /\ vzThread[t].pc = "embed"
    /\ \/ /\ vzMemory' = vzMemory \cup {Copy(x, t) : x \in vzThread[t].plan}
          /\ VzStep(t, [vzThread[t] EXCEPT !.pc = "persist"])
       \/ VzFaults /\ VzStep(t, VzEnd(t)) /\ UNCHANGED vzMemory
    /\ UNCHANGED <<vzLive, vzDone, vzStored, vzMark, vzState, vzCrashed, vzRaced>>

\* Storage keeps one vector per content id.
StoredAfter(plan) == {x \in vzStored : ~\E y \in plan : SameId(x, y)} \cup plan

\* Mutant: a failed write leaves the vectors in memory.
RolledBack_not(t) == vzMemory

\* A failed write takes back the copies this call added.
RolledBack(t) == vzMemory \ {Copy(x, t) : x \in vzThread[t].plan}

PersistAdded(t) ==
    /\ vzThread[t].pc = "persist"
    /\ \/ /\ vzStored' = StoredAfter(vzThread[t].plan)
          /\ VzStep(t, [vzThread[t] EXCEPT !.pc = "settle"])
          /\ UNCHANGED vzMemory
       \/ /\ VzFaults
          /\ vzMemory' = RolledBack(t)
          /\ VzStep(t, [vzThread[t] EXCEPT !.pc = IF t \in VzSearchers THEN "failed" ELSE "idle",
                                           !.plan = {}, !.old = {}])
          /\ UNCHANGED vzStored
    /\ UNCHANGED <<vzLive, vzDone, vzMark, vzState, vzCrashed, vzRaced>>

\* Added: the updates are done, superseded entity copies go.
Settle(t) ==
    /\ vzThread[t].pc = "settle"
    /\ vzDone' = vzDone \cup {x.content : x \in {y \in vzThread[t].plan : y.content # VzEntity}}
    /\ vzMemory' = vzMemory \ vzThread[t].old
    /\ IF t \in VzSearchers
       THEN VzStep(t, [vzThread[t] EXCEPT !.pc = "mark", !.plan = {}, !.old = {}])
       ELSE VzStep(t, VzEnd(t))
    /\ UNCHANGED <<vzLive, vzStored, vzMark, vzState, vzCrashed, vzRaced>>

\* Mutant: any run that got to its end marks the session.
RunComplete_always(s) == TRUE

\* Only a run where nothing failed may let later searches skip the session.
RunComplete(s) == vzThread[s].pc = "mark"

MarkVectorized(s) ==
    /\ s \in VzSearchers /\ vzThread[s].pc \in {"mark", "failed"}
    /\ vzMark' = IF RunComplete(s)
                 THEN [taken |-> TRUE, counts |-> MarkOf(vzThread[s].of), of |-> vzThread[s].of]
                 ELSE vzMark
    /\ VzStep(s, VzEnd(s))
    /\ UNCHANGED <<vzLive, vzDone, vzMemory, vzStored, vzState, vzCrashed, vzRaced>>

----------------------------------------------------------------------------
(* Purging an update.                                                      *)

VzBusy == \E t \in VzThreads : vzThread[t].pc # "idle"

VzPurge(u) ==
    /\ u \in VzPurged \cap vzLive.updates /\ vzThread[VzPurger].pc = "idle"
    /\ vzLive' = [vzLive EXCEPT !.updates = @ \ {u}]
    /\ vzDone' = vzDone \ {u}
    /\ VzStep(VzPurger, [VzIdle EXCEPT !.pc = "drop", !.target = u])
    /\ vzRaced' = (vzRaced \/ vzState.pc = "loading" \/ VzBusy)
    /\ UNCHANGED <<vzMemory, vzStored, vzMark, vzState, vzCrashed>>

\* remove_content finds the chunks of an update in memory, from the second
\* on while there is one; without a vectorizer only the update's own id goes.
ContentIds(u) ==
    {n \in 1..VzChunks[u] :
        n = 1 \/ (VzOn /\ \A k \in 2..n : HasId(Vec(u, k, 1)))}

DropContent(u) ==
    /\ vzThread[VzPurger].pc = "drop" /\ vzThread[VzPurger].target = u
    /\ vzMemory' = IF VzOn
                   THEN {m \in vzMemory : m.vector.content # u \/ m.vector.chunk \notin ContentIds(u)}
                   ELSE vzMemory
    /\ VzStep(VzPurger, [vzThread[VzPurger] EXCEPT !.pc = "unstore",
                                                   !.plan = {Vec(u, n, 1) : n \in ContentIds(u)}])
    /\ UNCHANGED <<vzLive, vzDone, vzStored, vzMark, vzState, vzCrashed, vzRaced>>

\* One id after the other; a failure ends it (it is logged).
Unstore ==
    /\ vzThread[VzPurger].pc = "unstore"
    /\ \/ vzStored' = vzStored \ vzThread[VzPurger].plan
       \/ /\ VzFaults
          /\ \E n \in 0..Cardinality(vzThread[VzPurger].plan) - 1 :
                vzStored' = vzStored \ {x \in vzThread[VzPurger].plan : x.chunk <= n}
    /\ VzStep(VzPurger, VzIdle)
    /\ UNCHANGED <<vzLive, vzDone, vzMemory, vzMark, vzState, vzCrashed, vzRaced>>

----------------------------------------------------------------------------
(* A crash: jobs, memory and marks are gone; the ids marked done are those *)
(* of the last write of the session.                                       *)

VzCrash ==
    /\ ~vzCrashed /\ vzCrashed' = TRUE
    /\ vzMemory' = {} /\ vzMark' = NoMark /\ vzState' = VzOff
    /\ vzDone' \in SUBSET vzDone
    /\ vzThread' = [t \in VzThreads |-> VzEnd(t)]
    /\ vzRaced' = (vzRaced \/ VzBusy)
    /\ UNCHANGED <<vzLive, vzStored>>

VectorizerNext ==
    \/ \E u \in VzUpdates : CommitUpdate(u) \/ RunJob(u) \/ VzPurge(u) \/ DropContent(u)
    \/ \E s \in VzSearchers : SearchSession(s) \/ Collect(s) \/ MarkVectorized(s)
    \/ \E t \in VzThreads : AddToMemory(t) \/ PersistAdded(t) \/ Settle(t)
    \/ DescribeEntity \/ RunEntityJob \/ StartVectorizer \/ LoadStored \/ Unstore \/ VzCrash

VectorizerSpec == VectorizerInit /\ [][VectorizerNext]_vectorizerVars

----------------------------------------------------------------------------
(* Properties.                                                             *)

VzQuiet == VzOn /\ ~VzBusy

\* SkippedIsIndexed: when a search skips the session because its mark matches,
\* and the session has the updates it had when it was marked, every chunk of
\* every update is in the vector database (ingestion.rs: only a run where
\* nothing failed may let later searches skip this session), through failed
\* jobs and writes, rollbacks of concurrent runs, and a restart.  Of entities
\* it does not hold: a run takes a description for stored that a job has added
\* and then fails to persist and takes back.
SkippedIsIndexed ==
    /\ VzQuiet /\ ~NeedsVectorization
    /\ vzMark.of.updates = vzLive.updates
    => \A u \in vzLive.updates : \A x \in UpdateVectors(u) : InMemory(x)

\* LiveVectorsDurable: whatever the vector database holds of the session's
\* content is persisted once no run is under way, so that a restart finds it
\* (vectorizer.rs: an add that fails to persist is rolled back).
LiveVectorsDurable ==
    VzQuiet => \A m \in vzMemory :
       m.vector.content \in vzLive.updates \cup {VzEntity} =>
          \E x \in vzStored : SameId(x, m.vector)

\* A search finds the vectors it relies on, and a restart keeps them.
VectorsSound == SkippedIsIndexed /\ LiveVectorsDurable

-----------------------------------------------------------------------------
(* Why they hold: VectorizerInv is inductive.  It speaks of the updates    *)
(* that are in the session or still to come: a purged one never comes back *)
(* (an update is committed once), and nothing is claimed of its vectors.   *)

Wanted == {u \in VzUpdates : u \in vzLive.updates \/ vzThread[u].runs = 0}

VzVectors == (UNION {UpdateVectors(u) : u \in VzUpdates})
                 \cup {Vec(VzEntity, 1, v) : v \in 1 .. MaxVersion}
VzAdders == VzThreads \cup {VzLoad}
VzCopies == [vector : VzVectors, by : VzAdders]
VzSessions == [updates : SUBSET VzUpdates, version : 0 .. MaxVersion]
VzStages == {"idle", "queued", "collect", "embed", "persist", "settle", "mark", "failed",
             "drop", "unstore"}
VzRecords == [pc : VzStages, runs : Nat, of : VzSessions, plan : SUBSET VzVectors,
              old : SUBSET VzCopies, target : VzUpdates \cup {""}]
VzStates == [pc : {"off", "loading", "on"}, failures : Nat, read : SUBSET VzVectors]

VectorizerTypeOK ==
    /\ vzLive \in VzSessions /\ vzDone \in SUBSET VzUpdates
    /\ vzMemory \in SUBSET VzCopies /\ vzStored \in SUBSET VzVectors
    /\ vzState \in VzStates /\ vzThread \in [VzThreads -> VzRecords]

\* An update in the session was committed; a thread is where its kind goes; the
\* purger works on an update that is gone.
VzStagesFit ==
    /\ \A u \in vzLive.updates : vzThread[u].runs # 0
    /\ \A t \in VzThreads :
        /\ vzThread[t].pc \in {"drop", "unstore"} => t = VzPurger
        /\ vzThread[t].pc \in {"collect", "mark", "failed"} => t \in VzSearchers
    /\ vzThread[VzPurger].pc \in {"idle", "drop", "unstore"}
    /\ vzThread[VzPurger].pc # "idle" => vzThread[VzPurger].target \in VzUpdates \ Wanted
    /\ vzThread[VzPurger].pc = "unstore" =>
        \A x \in vzThread[VzPurger].plan : x.content = vzThread[VzPurger].target

\* The chunks of an update are in a set of vectors together or not at all.
Whole(vectors) ==
    \A u \in Wanted : (\E x \in vectors : x.content = u) => UpdateVectors(u) \subseteq vectors
CopiesOf(t) == {x \in VzVectors : Copy(x, t) \in vzMemory}
VzAdding(t) == vzThread[t].pc \in {"embed", "persist", "settle"}

VectorsWhole ==
    /\ Whole(vzStored) /\ Whole(vzState.read)
    /\ \A t \in VzAdders : Whole(CopiesOf(t))
    /\ \A t \in VzThreads : VzAdding(t) =>
        /\ Whole(vzThread[t].plan)
        /\ \A m \in vzThread[t].old : m.vector.content = VzEntity
    /\ \A t \in VzThreads : vzThread[t].pc = "queued" => vzThread[t].old = {}

\* Memory holds an update's vectors of a thread that is about to mark it done
\* or roll it back, or of an update that is done; what a thread has added stays
\* until it settles.
CopiesAccounted ==
    \A t \in VzThreads, u \in Wanted :
        /\ (\E x \in CopiesOf(t) : x.content = u) =>
            u \in vzDone \/ (vzThread[t].pc \in {"persist", "settle"}
                             /\ UpdateVectors(u) \subseteq vzThread[t].plan)
        /\ (vzThread[t].pc \in {"persist", "settle"} /\ \E x \in vzThread[t].plan : x.content = u) =>
            UpdateVectors(u) \subseteq CopiesOf(t)

\* A copy that no rollback under way can take.
Safe(x) ==
    \E t \in VzAdders :
        /\ x \in CopiesOf(t)
        /\ t \in VzThreads => ~(vzThread[t].pc \in {"embed", "persist"} /\ x \in vzThread[t].plan)
VzIndexed(u) == \A x \in UpdateVectors(u) : Safe(x)

\* Nobody has vectors of the update, or is about to add some: it was done
\* before a crash and could not be loaded.
Untouched(u) ==
    /\ \A t \in VzAdders : \A x \in CopiesOf(t) : x.content # u
    /\ \A t \in VzThreads : VzAdding(t) => \A x \in vzThread[t].plan : x.content # u

DoneIndexed == \A u \in Wanted \cap vzDone : VzIndexed(u) \/ Untouched(u)

\* What a search over a snapshot need not add is safe, and so is what the mark
\* of the last complete one speaks for.
SearchesCover ==
    /\ \A s \in VzSearchers : \A u \in Wanted \cap vzThread[s].of.updates :
        /\ vzThread[s].pc = "mark" => VzIndexed(u)
        /\ VzAdding(s) => VzIndexed(u) \/ UpdateVectors(u) \subseteq vzThread[s].plan
    /\ vzMark.taken => \A u \in Wanted \cap vzMark.of.updates : VzIndexed(u)

StoredId(x) == \E y \in vzStored : SameId(y, x)
DurableOrPending ==
    /\ \A x \in vzState.read : x.content \in Wanted \cup {VzEntity} => StoredId(x)
    /\ \A t \in VzAdders : \A x \in CopiesOf(t) : x.content \in Wanted \cup {VzEntity} =>
        \/ StoredId(x)
        \/ t \in VzThreads /\ vzThread[t].pc = "persist" /\ x \in vzThread[t].plan

VectorizerInv ==
    /\ VectorizerTypeOK /\ VzStagesFit /\ VectorsWhole /\ CopiesAccounted /\ DoneIndexed
    /\ SearchesCover /\ DurableOrPending

-----------------------------------------------------------------------------
(* What the repository says and the model refutes: these do not hold.     *)

\* PurgedGone: once a purge that nothing overlapped is done, no vector of the
\* update is left, in memory or in storage.
PurgedGone ==
    VzQuiet /\ ~vzRaced => \A u \in VzUpdates \ vzLive.updates :
       \A x \in UpdateVectors(u) : ~InMemory(x) /\ x \notin vzStored

=============================================================================
