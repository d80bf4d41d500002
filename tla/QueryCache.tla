----------------------------- MODULE QueryCache -----------------------------
(***************************************************************************)
(* The query cache of semantic search (post-cortex-memory, query_cache.rs) *)
(* with the searches that fill it (content_vectorizer/search.rs) and the   *)
(* writers that change the vectors under it (content_vectorizer/           *)
(* ingestion.rs, vectorizer.rs; memory_system/system.rs): a lock-free map  *)
(* probed before a search and filled after it, with no common lock with    *)
(* the vectors or the persisted full-text index the search reads.          *)
(*                                                                         *)
(* All searches ask the same thing; they differ in the sessions searched,  *)
(* which with the remaining parameters fixed is the key.  An answer is what *)
(* the two rankings are computed from: the contents found in the vector    *)
(* database and in the full-text index.  Ranking is module SearchRanking.  *)
(***************************************************************************)
EXTENDS Integers, FiniteSets

CONSTANTS QcSessions, QcContents,
          QcHome,          \* content -> its session
          QcEntities,      \* the contents that are entity descriptions
          QcLoaded,        \* what the database may hold at the start
          QcScopes,        \* what is searched
          QcSearchers, QcWriters, QcBackends,
          QcMaxSize, QcBatch,      \* max_cache_size, and a tenth of it
          MaxSearches, MaxWrites,  \* bounds: searches in all, writes per writer
          QcFaults

ASSUME QueryCacheAssumption ==
    /\ QcContents # {} /\ QcLoaded \subseteq SUBSET QcContents
    /\ QcHome \in [QcContents -> QcSessions] /\ QcEntities \subseteq QcContents
    /\ QcMaxSize \in Nat \ {0} /\ QcBatch \in Nat /\ MaxWrites \in Nat
    /\ IsFiniteSet(QcSearchers) /\ Cardinality(QcSearchers) <= QcBatch

VARIABLES qcBackend,     \* surrealdb has a full-text index of its own
          qcMemory,      \* contents in the vector database
          qcStored,      \* contents whose embeddings are persisted
          qcCache,       \* key -> entry
          qcSearch,      \* what each searcher is doing
          qcWrite,       \* what each writer is doing
          qcSilent       \* history: sessions with a write nothing announced

queryCacheVars == <<qcBackend, qcMemory, qcStored, qcCache, qcSearch, qcWrite,
                    qcSilent>>

\* Which sessions are searched: all, one (tag 1 of params_hash) or some (2).
AllSessions == [tag |-> "global", sessions |-> {}]
OneSession(s) == [tag |-> "session", sessions |-> {s}]
SomeSessions(S) == [tag |-> "sessions", sessions |-> S]

\* Mutant: only entries of searches that named the session are dropped.
Covers_named(scope, s) == s \in scope.sessions

Covers(scope, s) == scope.tag = "global" \/ s \in scope.sessions

InScope(scope, contents) ==
    {c \in contents : scope.tag = "global" \/ QcHome[c] \in scope.sessions}

NoAnswer == [lexical |-> {}, vector |-> {}]
QcIdle == [pc |-> "idle", scope |-> AllSessions, nth |-> 0,
           found |-> NoAnswer, clean |-> TRUE, victims |-> {}]
QcResting == [pc |-> "idle", kind |-> "none", content |-> CHOOSE c \in QcContents : TRUE,
              fresh |-> FALSE, left |-> MaxWrites]

QueryCacheInit ==
    /\ qcBackend \in QcBackends
    /\ qcMemory \in QcLoaded /\ qcStored = qcMemory
    /\ qcCache = <<>>
    /\ qcSearch = [t \in QcSearchers |-> QcIdle]
    /\ qcWrite = [w \in QcWriters |-> QcResting]
    /\ qcSilent = {}

----------------------------------------------------------------------------
(* Searching.                                                              *)

QcQuiet == \A w \in QcWriters : qcWrite[w].pc = "idle"

Without(keys) == [k \in DOMAIN qcCache \ keys |-> qcCache[k]]
Expired == {k \in DOMAIN qcCache : qcCache[k].expired}
StepSearch(t, r) == qcSearch' = [qcSearch EXCEPT ![t] = r]
EndSearch(t) ==
    StepSearch(t, [QcIdle EXCEPT !.nth = qcSearch[t].nth + 1])

\* The searches begun; each searcher numbers its own.
Searches == UNION {{<<t, n>> : n \in 0..qcSearch[t].nth} : t \in QcSearchers}
               \ {<<t, qcSearch[t].nth>> : t \in {u \in QcSearchers : qcSearch[u].pc = "idle"}}

\* QueryCache::get: a hit answers; an expired entry is removed, a miss.
Lookup(t) ==
    /\ qcSearch[t].pc = "idle" /\ Cardinality(Searches) < MaxSearches
    /\ \E scope \in QcScopes :
          \/ /\ scope \in DOMAIN qcCache \ Expired
             /\ EndSearch(t)
             /\ UNCHANGED qcCache
          \/ /\ scope \notin DOMAIN qcCache \ Expired
             /\ qcCache' = Without({scope})
             /\ StepSearch(t, [qcSearch[t] EXCEPT !.pc = "lexical", !.scope = scope,
                                                  !.clean = QcQuiet])
    /\ UNCHANGED <<qcBackend, qcMemory, qcStored, qcWrite, qcSilent>>

\* SurrealDB answers from its own index; a failed query leaves the vectors
\* alone, and the answer is cached like any other.  RocksDB has the in-memory
\* index of the vector database.  A query that cannot be embedded ends the
\* search before that.
LexicalSearch(t) ==
    /\ qcSearch[t].pc = "lexical"
    /\ LET found(contents) == [qcSearch[t].found EXCEPT
                                 !.lexical = InScope(qcSearch[t].scope, contents)]
       IN  \/ StepSearch(t, [qcSearch[t] EXCEPT !.pc = "vector",
                 !.found = found(IF qcBackend = "surrealdb" THEN qcStored ELSE qcMemory)])
           \/ /\ QcFaults /\ qcBackend = "surrealdb"
              /\ StepSearch(t, [qcSearch[t] EXCEPT !.pc = "vector", !.clean = FALSE])
           \/ QcFaults /\ EndSearch(t)
    /\ UNCHANGED <<qcBackend, qcMemory, qcStored, qcCache, qcWrite, qcSilent>>

VectorSearch(t) ==
    /\ qcSearch[t].pc = "vector"
    /\ StepSearch(t, [qcSearch[t] EXCEPT !.pc = "room",
                        !.found.vector = InScope(qcSearch[t].scope, qcMemory)])
    /\ UNCHANGED <<qcBackend, qcMemory, qcStored, qcCache, qcWrite, qcSilent>>

\* Mutant: room is made one entry late.
Full_late(cache, scope) == Cardinality(DOMAIN cache) > QcMaxSize /\ scope \notin DOMAIN cache

\* The test of QueryCache::insert, with the expiry sweep before it (every
\* 64th insert, or at the limit) and the choice of what to evict.
Full(cache, scope) == Cardinality(DOMAIN cache) >= QcMaxSize /\ scope \notin DOMAIN cache

MakeRoom(t) ==
    /\ qcSearch[t].pc = "room"
    /\ \E sweep \in BOOLEAN :
          /\ sweep \/ ~Full(qcCache, qcSearch[t].scope) \/ Expired = {}
          /\ qcCache' = IF sweep THEN Without(Expired) ELSE qcCache
    /\ \E victims \in SUBSET DOMAIN qcCache' :
          /\ Cardinality(victims) =
                IF ~Full(qcCache', qcSearch[t].scope) THEN 0
                ELSE IF Cardinality(DOMAIN qcCache') > QcBatch THEN QcBatch
                ELSE Cardinality(DOMAIN qcCache')
          /\ StepSearch(t, [qcSearch[t] EXCEPT !.pc = "evict",
                              !.victims = {<<k, qcCache'[k].id>> : k \in victims}])
    /\ UNCHANGED <<qcBackend, qcMemory, qcStored, qcWrite, qcSilent>>

\* evict_least_efficient removes a victim only if it is still the entry that
\* was scored.
Evict(t) ==
    /\ qcSearch[t].pc = "evict"
    /\ qcCache' = Without({k \in DOMAIN qcCache : <<k, qcCache[k].id>> \in qcSearch[t].victims})
    /\ StepSearch(t, [qcSearch[t] EXCEPT !.pc = "put", !.victims = {}])
    /\ UNCHANGED <<qcBackend, qcMemory, qcStored, qcWrite, qcSilent>>

Entry(t) == [found |-> qcSearch[t].found, expired |-> FALSE, clean |-> qcSearch[t].clean,
             id |-> [by |-> t, nth |-> qcSearch[t].nth]]

Put(t) ==
    /\ qcSearch[t].pc = "put"
    /\ qcCache' = [k \in DOMAIN qcCache \cup {qcSearch[t].scope} |->
                     IF k = qcSearch[t].scope THEN Entry(t) ELSE qcCache[k]]
    /\ EndSearch(t)
    /\ UNCHANGED <<qcBackend, qcMemory, qcStored, qcWrite, qcSilent>>

\* Time: an entry outlives ttl_minutes.
Expire ==
    /\ \E k \in DOMAIN qcCache :
          /\ ~qcCache[k].expired
          /\ qcCache' = [qcCache EXCEPT ![k].expired = TRUE]
    /\ UNCHANGED <<qcBackend, qcMemory, qcStored, qcSearch, qcWrite, qcSilent>>

----------------------------------------------------------------------------
(* Writing.                                                                *)

StepWrite(w, pc) == qcWrite' = [qcWrite EXCEPT ![w].pc = pc]
EndWrite(w) ==
    qcWrite' = [qcWrite EXCEPT ![w] = [QcResting EXCEPT !.left = qcWrite[w].left - 1]]
\* History: a search that runs while a write does is not clean.
Raced == qcSearch' = [t \in QcSearchers |-> 
           [qcSearch[t] EXCEPT !.clean = @ /\ qcSearch[t].pc = "idle"]]
Written(w) == QcHome[qcWrite[w].content]

Kinds == {"vectorize", "messages", "entities", "remove", "delete", "clear"}

BeginWrite(w) ==
    /\ qcWrite[w].pc = "idle" /\ qcWrite[w].left > 0
    /\ \E kind \in Kinds, c \in QcContents :
          /\ kind \in {"vectorize", "messages"} => c \notin QcEntities
          /\ kind = "entities" => c \in QcEntities
          /\ kind \in {"vectorize", "messages"} => c \notin qcMemory
          /\ qcWrite' = [qcWrite EXCEPT ![w].pc = "change", ![w].kind = kind, ![w].content = c]
    /\ Raced
    /\ UNCHANGED <<qcBackend, qcMemory, qcStored, qcCache, qcSilent>>

\* add_and_persist_many: the vector in memory, or none of it (no embedding,
\* the database full).
AddVectors(w) ==
    /\ qcWrite[w].pc = "change" /\ qcWrite[w].kind \in {"vectorize", "messages", "entities"}
    /\ \/ /\ qcMemory' = qcMemory \cup {qcWrite[w].content}
          /\ qcWrite' = [qcWrite EXCEPT ![w].pc = "persist",
                                         ![w].fresh = qcWrite[w].content \notin qcMemory]
       \/ QcFaults /\ UNCHANGED qcMemory /\ EndWrite(w)
    /\ UNCHANGED <<qcBackend, qcStored, qcCache, qcSearch, qcSilent>>

\* The embedding is persisted, or the add is rolled back.
PersistVectors(w) ==
    /\ qcWrite[w].pc = "persist"
    /\ LET c == qcWrite[w].content IN
           \/ /\ qcStored' = qcStored \cup {c}
              /\ UNCHANGED qcMemory
              /\ qcSilent' = IF qcWrite[w].kind = "entities" THEN qcSilent \cup {QcHome[c]}
                             ELSE qcSilent
              /\ IF qcWrite[w].kind = "entities" THEN EndWrite(w)
                 ELSE StepWrite(w, "invalidate")
           \/ /\ QcFaults
              /\ qcMemory' = IF qcWrite[w].fresh THEN qcMemory \ {c} ELSE qcMemory
              /\ UNCHANGED <<qcStored, qcSilent>>
              /\ IF qcWrite[w].kind = "messages" THEN StepWrite(w, "invalidate")
                 ELSE EndWrite(w)
    /\ UNCHANGED <<qcBackend, qcCache, qcSearch>>

\* delete_session deletes the persisted embeddings before the vectors in
\* memory; remove_content the other way round.
DeleteStored(w) ==
    /\ qcWrite[w].pc = "change" /\ qcWrite[w].kind = "delete"
    /\ \/ /\ qcStored' = {c \in qcStored : QcHome[c] # Written(w)}
          /\ StepWrite(w, "drop")
       \/ QcFaults /\ UNCHANGED qcStored /\ EndWrite(w)
    /\ UNCHANGED <<qcBackend, qcMemory, qcCache, qcSearch, qcSilent>>

DropVectors(w) ==
    /\ \/ /\ qcWrite[w].pc = "drop"
          /\ qcMemory' = {c \in qcMemory : QcHome[c] # Written(w)}
       \/ /\ qcWrite[w].pc = "change" /\ qcWrite[w].kind = "remove"
          /\ qcMemory' = qcMemory \ {qcWrite[w].content}
    /\ StepWrite(w, "invalidate")
    /\ UNCHANGED <<qcBackend, qcStored, qcCache, qcSearch, qcSilent>>

\* Mutant: the cache is not told.
InvalidateSession_not(w) ==
    /\ qcWrite[w].pc = "invalidate"
    /\ IF qcWrite[w].kind = "remove" THEN StepWrite(w, "unstore") ELSE EndWrite(w)
    /\ UNCHANGED <<qcBackend, qcMemory, qcStored, qcCache, qcSearch, qcSilent>>

\* invalidate_session, for every write that reaches it.
InvalidateSession(w) ==
    /\ qcWrite[w].pc = "invalidate"
    /\ qcCache' = Without({k \in DOMAIN qcCache : Covers(k, Written(w))})
    /\ qcSilent' = qcSilent \ {Written(w)}
    /\ IF qcWrite[w].kind = "remove" THEN StepWrite(w, "unstore") ELSE EndWrite(w)
    /\ UNCHANGED <<qcBackend, qcMemory, qcStored, qcSearch>>

RemoveStored(w) ==
    /\ qcWrite[w].pc = "unstore"
    /\ \/ qcStored' = qcStored \ {qcWrite[w].content}
       \/ QcFaults /\ UNCHANGED qcStored
    /\ EndWrite(w)
    /\ UNCHANGED <<qcBackend, qcMemory, qcCache, qcSearch, qcSilent>>

\* clear, after bulk vectorization or on request.
ClearCache(w) ==
    /\ qcWrite[w].pc = "change" /\ qcWrite[w].kind = "clear"
    /\ qcCache' = <<>> /\ qcSilent' = {}
    /\ EndWrite(w)
    /\ UNCHANGED <<qcBackend, qcMemory, qcStored, qcSearch>>

QueryCacheNext ==
    \/ \E t \in QcSearchers :
          \/ Lookup(t) \/ LexicalSearch(t) \/ VectorSearch(t)
          \/ MakeRoom(t) \/ Evict(t) \/ Put(t)
    \/ \E w \in QcWriters :
          \/ BeginWrite(w) \/ AddVectors(w) \/ PersistVectors(w) \/ DeleteStored(w)
          \/ DropVectors(w) \/ InvalidateSession(w) \/ RemoveStored(w) \/ ClearCache(w)
    \/ Expire

QueryCacheSpec == QueryCacheInit /\ [][QueryCacheNext]_queryCacheVars

----------------------------------------------------------------------------
(* Properties.                                                             *)

\* What a search of scope would be computed from now.
Fresh(scope) ==
    [lexical |-> InScope(scope, IF qcBackend = "surrealdb" THEN qcStored ELSE qcMemory),
     vector |-> InScope(scope, qcMemory)]

\* CacheCoherent: while no write runs, a cached answer is the answer the
\* search would compute now (query_cache.rs: a write to a session must
\* invalidate every entry that covers it).  Exactly three things are outside
\* it: a search that ran while a write did, one whose full-text query failed,
\* and a session whose entity descriptions were embedded since (the graph job
\* does not invalidate).
CacheCoherent ==
    QcQuiet => \A k \in DOMAIN qcCache :
       qcCache[k].clean /\ ~(\E s \in qcSilent : Covers(k, s)) => qcCache[k].found = Fresh(k)

\* CacheBounded: concurrent inserts that find room at the same time overshoot
\* max_cache_size by fewer entries than there are searches.
CacheBounded ==
    Cardinality(DOMAIN qcCache) < QcMaxSize + Cardinality(QcSearchers)

\* The cache answers what a search would, and stays small.
CacheSound == CacheCoherent /\ CacheBounded

-----------------------------------------------------------------------------
(* The inductive invariant behind CacheSound.                              *)

EntryIds == [by : QcSearchers, nth : Nat]
Answers == [lexical : SUBSET QcContents, vector : SUBSET QcContents]

QueryCacheTypeOK ==
    /\ qcMemory \subseteq QcContents /\ qcStored \subseteq QcContents
    /\ DOMAIN qcCache \subseteq QcScopes /\ IsFiniteSet(DOMAIN qcCache)
    /\ \A k \in DOMAIN qcCache :
          qcCache[k] \in [found : Answers, expired : BOOLEAN, clean : BOOLEAN, id : EntryIds]
    /\ qcSearch \in [QcSearchers ->
          [pc : {"idle", "lexical", "vector", "room", "evict", "put"},
           scope : QcScopes \cup {AllSessions}, nth : Nat, found : Answers, clean : BOOLEAN,
           victims : SUBSET (QcScopes \X EntryIds)]]
    /\ \A t \in QcSearchers : qcSearch[t].pc # "idle" => qcSearch[t].scope \in QcScopes
    /\ qcWrite \in [QcWriters ->
          [pc : {"idle", "change", "persist", "drop", "invalidate", "unstore"},
           kind : Kinds \cup {"none"}, content : QcContents, fresh : BOOLEAN, left : Int]]

\* A clean search has run without a writer so far, and has found what it would
\* find now.
CleanSearches ==
    \A t \in QcSearchers : qcSearch[t].clean /\ qcSearch[t].pc # "idle" =>
       /\ QcQuiet
       /\ qcSearch[t].pc \notin {"lexical"} =>
             qcSearch[t].found.lexical = Fresh(qcSearch[t].scope).lexical
       /\ qcSearch[t].pc \notin {"lexical", "vector"} =>
             qcSearch[t].found.vector = Fresh(qcSearch[t].scope).vector

\* Vectors in memory that a writer may still take back.
Undecided ==
    {qcWrite[w].content : w \in {v \in QcWriters : qcWrite[v].pc = "persist" /\ qcWrite[v].fresh}}
Announcing(w) == qcWrite[w].pc \in {"drop", "invalidate"}
Settled(scope) ==
    LET memory == qcMemory \ Undecided
    IN  [lexical |-> InScope(scope, IF qcBackend = "surrealdb" THEN qcStored ELSE memory),
         vector |-> InScope(scope, memory)]

\* A clean answer no writer is about to drop is the answer without the vectors
\* that may be taken back; none is left when a writer removes what is stored
\* after it has dropped them.
CleanEntries ==
    \A k \in DOMAIN qcCache : qcCache[k].clean =>
       /\ \/ \E s \in qcSilent : Covers(k, s)
          \/ \E w \in QcWriters : Announcing(w) /\ Covers(k, Written(w))
          \/ qcCache[k].found = Settled(k)
       /\ \A w \in QcWriters : qcWrite[w].pc = "unstore" => ~Covers(k, Written(w))

\* Searchers that will test for room, have victims to evict, and may put.
Preparing == {t \in QcSearchers : qcSearch[t].pc \in {"lexical", "vector", "room"}}
Evicting == {t \in QcSearchers : qcSearch[t].pc = "evict" /\ qcSearch[t].victims # {}}
Ready == {t \in QcSearchers :
            qcSearch[t].pc = "put" \/ (qcSearch[t].pc = "evict" /\ qcSearch[t].victims = {})}
ScopesOf(T) == {qcSearch[t].scope : t \in T}
Victims(t) == {k \in DOMAIN qcCache : <<k, qcCache[k].id>> \in qcSearch[t].victims}

\* The keys when t has evicted, those that may put or are in T have put, and
\* those that prepare have put again what is cached now.
KeysAfter(t, T) ==
    (DOMAIN qcCache \ Victims(t)) \cup ScopesOf(Ready \cup T)
       \cup (ScopesOf(Preparing) \cap DOMAIN qcCache)
Bounded(keys) == Cardinality(keys) < QcMaxSize + Cardinality(QcSearchers)

\* Those that may put have room; and of any searchers that have victims one
\* (the last to test) makes room for all of them.
RoomKept ==
    /\ Bounded(DOMAIN qcCache \cup ScopesOf(Ready))
    /\ \A T \in SUBSET Evicting : T # {} => \E t \in T : Bounded(KeysAfter(t, T))

QueryCacheInv ==
    /\ QueryCacheTypeOK /\ CleanSearches /\ CleanEntries /\ RoomKept
    /\ \A t \in QcSearchers : qcSearch[t].pc # "evict" => qcSearch[t].victims = {}

-----------------------------------------------------------------------------
(* What the repository says and the model refutes: these do not hold.     *)

\* NothingStale: while no write runs, no cached answer is stale.
NothingStale ==
    QcQuiet => \A k \in DOMAIN qcCache : qcCache[k].found = Fresh(k)

=============================================================================
