---------------------------- MODULE SearchProofs ----------------------------
(***************************************************************************)
(* Theorems about what a search rests on: the query cache, whose entries   *)
(* are the answers a search would compute and which stays small; the       *)
(* windows a text is cut into, which cover it; the vector database, whose  *)
(* graph misses no stored vector once its threads are done; the session    *)
(* requests, whose answers are true; and the ranking, which returns the    *)
(* best of what was found and no entry twice.                              *)
(***************************************************************************)
EXTENDS QueryCache, TextChunks, VectorDb, Requests, SearchRanking, NumberFacts,
        FiniteSetTheorems, SequenceTheorems

(***************************************************************************)
(* QueryCache: types.                                                      *)
(***************************************************************************)

\* What one searcher may be doing.
SearcherOK(r) ==
    /\ r \in [pc : {"idle", "lexical", "vector", "room", "evict", "put"},
              scope : QcScopes \cup {AllSessions}, nth : Nat, found : Answers, clean : BOOLEAN,
              victims : SUBSET (QcScopes \X EntryIds)]
    /\ r.pc # "idle" => r.scope \in QcScopes

\* What one writer may be doing.
WriterOK(r) ==
    r \in [pc : {"idle", "change", "persist", "drop", "invalidate", "unstore"},
           kind : Kinds \cup {"none"}, content : QcContents, fresh : BOOLEAN, left : Int]

LEMMA SearcherType ==
    ASSUME QueryCacheTypeOK, NEW t \in QcSearchers
    PROVE  SearcherOK(qcSearch[t])
  BY DEF QueryCacheTypeOK, SearcherOK

LEMMA WriterType ==
    ASSUME QueryCacheTypeOK, NEW w \in QcWriters
    PROVE  WriterOK(qcWrite[w])
  BY DEF QueryCacheTypeOK, WriterOK

LEMMA InScopeType ==
    ASSUME NEW scope, NEW contents \in SUBSET QcContents
    PROVE  InScope(scope, contents) \in SUBSET QcContents
  BY DEF InScope

LEMMA IdleOK ==
    ASSUME NEW n \in Nat
    PROVE  SearcherOK([QcIdle EXCEPT !.nth = n])
<1>1. NoAnswer \in Answers
  BY DEF NoAnswer, Answers
<1> QED
  BY <1>1 DEF SearcherOK, QcIdle

LEMMA RestingOK ==
    ASSUME NEW n \in Int
    PROVE  WriterOK([QcResting EXCEPT !.left = n])
<1>1. (CHOOSE c \in QcContents : TRUE) \in QcContents
  BY QueryCacheAssumption
<1> QED
  BY <1>1 DEF WriterOK, QcResting

LEMMA QueryCacheInitType ==
    ASSUME QueryCacheInit PROVE QueryCacheTypeOK
<1>1. SearcherOK(QcIdle)
  BY DEF SearcherOK, QcIdle, NoAnswer, Answers
<1>2. WriterOK(QcResting)
  <2>1. (CHOOSE c \in QcContents : TRUE) \in QcContents
    BY QueryCacheAssumption
  <2>2. MaxWrites \in Int
    BY QueryCacheAssumption
  <2> QED
    BY <2>1, <2>2 DEF WriterOK, QcResting
<1>3. DOMAIN qcCache = {} /\ IsFiniteSet({})
  BY FS_EmptySet DEF QueryCacheInit
<1>4. qcMemory \subseteq QcContents /\ qcStored \subseteq QcContents
  BY QueryCacheAssumption DEF QueryCacheInit
<1>5. qcSearch = [t \in QcSearchers |-> QcIdle] /\ qcWrite = [w \in QcWriters |-> QcResting]
  BY DEF QueryCacheInit
<1> QED
  BY <1>1, <1>2, <1>3, <1>4, <1>5 DEF QueryCacheTypeOK, SearcherOK, WriterOK

\* A step of one searcher, or of one writer, keeps the types of all.
LEMMA SearchersOK ==
    ASSUME QueryCacheTypeOK, NEW t \in QcSearchers, NEW r, SearcherOK(r),
           qcSearch' = [qcSearch EXCEPT ![t] = r]
    PROVE  /\ qcSearch' \in [QcSearchers ->
                [pc : {"idle", "lexical", "vector", "room", "evict", "put"},
                 scope : QcScopes \cup {AllSessions}, nth : Nat, found : Answers, clean : BOOLEAN,
                 victims : SUBSET (QcScopes \X EntryIds)]]
           /\ \A u \in QcSearchers : qcSearch'[u].pc # "idle" => qcSearch'[u].scope \in QcScopes
           /\ qcSearch'[t] = r
           /\ \A u \in QcSearchers \ {t} : qcSearch'[u] = qcSearch[u]
  BY DEF QueryCacheTypeOK, SearcherOK

LEMMA WritersOK ==
    ASSUME QueryCacheTypeOK, NEW w \in QcWriters, NEW r, WriterOK(r),
           qcWrite' = [qcWrite EXCEPT ![w] = r]
    PROVE  /\ qcWrite' \in [QcWriters ->
                [pc : {"idle", "change", "persist", "drop", "invalidate", "unstore"},
                 kind : Kinds \cup {"none"}, content : QcContents, fresh : BOOLEAN, left : Int]]
           /\ qcWrite'[w] = r
           /\ \A v \in QcWriters \ {w} : qcWrite'[v] = qcWrite[v]
  BY DEF QueryCacheTypeOK, WriterOK

(***************************************************************************)
(* QueryCache: the bound.                                                  *)
(***************************************************************************)

\* The scopes of some searchers are no more than the searchers.
LEMMA FewScopes ==
    ASSUME NEW S, IsFiniteSet(S), NEW f
    PROVE  LET scopes == {f[t].scope : t \in S}
           IN  IsFiniteSet(scopes) /\ Cardinality(scopes) <= Cardinality(S)
<1> DEFINE scopes == {f[t].scope : t \in S}
           g == [t \in S |-> f[t].scope]
<1>1. g \in Surjection(S, scopes)
  BY DEF Surjection
<1> QED
  BY <1>1, FS_Surjection

\* Some of the keys are no more than the keys.
LEMMA BoundedSubset ==
    ASSUME NEW X, NEW Y, IsFiniteSet(Y), X \subseteq Y, Bounded(Y)
    PROVE  Bounded(X)
<1>1. IsFiniteSet(X) /\ Cardinality(X) <= Cardinality(Y)
  BY FS_Subset
<1>2. Cardinality(X) \in Nat /\ Cardinality(Y) \in Nat
  BY <1>1, FS_CardinalityType
<1>3. QcMaxSize \in Nat /\ Cardinality(QcSearchers) \in Nat
  BY QueryCacheAssumption, FS_CardinalityType
<1> QED
  BY <1>1, <1>2, <1>3 DEF Bounded

\* Fewer keys than max_cache_size leave room for every searcher.
LEMMA RoomForAll ==
    ASSUME NEW X, NEW S \in SUBSET QcSearchers, NEW f, IsFiniteSet(X),
           Cardinality(X) < QcMaxSize
    PROVE  Bounded(X \cup {f[t].scope : t \in S})
<1> DEFINE scopes == {f[t].scope : t \in S}
<1>1. IsFiniteSet(S) /\ Cardinality(S) <= Cardinality(QcSearchers)
  BY QueryCacheAssumption, FS_Subset
<1>2. IsFiniteSet(scopes) /\ Cardinality(scopes) <= Cardinality(S)
  BY <1>1, FewScopes
<1> HIDE DEF scopes
<1>3. /\ IsFiniteSet(X \cup scopes) /\ IsFiniteSet(X \cap scopes)
      /\ Cardinality(X \cup scopes) = Cardinality(X) + Cardinality(scopes) - Cardinality(X \cap scopes)
  <2>1. IsFiniteSet(X \cap scopes)
    BY FS_Intersection
  <2> QED
    BY <1>2, <2>1, FS_Union
<1>4. /\ Cardinality(X) \in Nat /\ Cardinality(scopes) \in Nat /\ Cardinality(X \cup scopes) \in Nat
      /\ Cardinality(X \cap scopes) \in Nat /\ Cardinality(S) \in Nat
      /\ Cardinality(QcSearchers) \in Nat /\ QcMaxSize \in Nat
  BY <1>1, <1>2, <1>3, FS_CardinalityType, QueryCacheAssumption
<1>5. Cardinality(X \cup scopes) < QcMaxSize + Cardinality(QcSearchers)
  BY <1>1, <1>2, <1>3, <1>4
<1> QED
  BY <1>5 DEF Bounded, scopes

LEMMA KeysFinite ==
    ASSUME QueryCacheTypeOK, NEW t, NEW T \in SUBSET QcSearchers
    PROVE  IsFiniteSet(KeysAfter(t, T)) /\ IsFiniteSet(DOMAIN qcCache \cup ScopesOf(T))
<1>1. IsFiniteSet(DOMAIN qcCache)
  BY DEF QueryCacheTypeOK
<1>2. IsFiniteSet(DOMAIN qcCache \ Victims(t))
  BY <1>1, FS_Subset
<1>3. ASSUME NEW S \in SUBSET QcSearchers PROVE IsFiniteSet(ScopesOf(S))
  <2>1. IsFiniteSet(S)
    BY QueryCacheAssumption, FS_Subset
  <2> QED
    BY <2>1, FewScopes DEF ScopesOf
<1>4. Ready \cup T \in SUBSET QcSearchers /\ Preparing \in SUBSET QcSearchers
  BY DEF Ready, Preparing
<1>5. IsFiniteSet(ScopesOf(Ready \cup T)) /\ IsFiniteSet(ScopesOf(T))
  BY <1>3, <1>4
<1>6. IsFiniteSet(ScopesOf(Preparing) \cap DOMAIN qcCache)
  BY <1>1, FS_Subset
<1>7. IsFiniteSet((DOMAIN qcCache \ Victims(t)) \cup ScopesOf(Ready \cup T))
  BY <1>2, <1>5, FS_Union
<1> QED
  BY <1>1, <1>5, <1>6, <1>7, FS_Union DEF KeysAfter

\* Entries are only removed; what is left keeps its answer and its id.
CacheKept ==
    /\ DOMAIN qcCache' \subseteq DOMAIN qcCache
    /\ \A k \in DOMAIN qcCache' :
          /\ qcCache'[k].found = qcCache[k].found
          /\ qcCache'[k].clean = qcCache[k].clean
          /\ qcCache'[k].id = qcCache[k].id
          /\ qcCache'[k] \in [found : Answers, expired : BOOLEAN, clean : BOOLEAN, id : EntryIds]

\* A step that lets no searcher past its test for room keeps the bound.
LEMMA RoomStays ==
    ASSUME QueryCacheTypeOK, RoomKept, CacheKept,
           Ready' \subseteq Ready, Evicting' \subseteq Evicting,
           \A t \in Ready \cup Evicting :
              qcSearch'[t].scope = qcSearch[t].scope /\ qcSearch'[t].victims = qcSearch[t].victims,
           ScopesOf(Preparing)' \cap DOMAIN qcCache' \subseteq ScopesOf(Preparing)
    PROVE  RoomKept'
<1>0. Ready \subseteq QcSearchers /\ Evicting \subseteq QcSearchers
  BY DEF Ready, Evicting
<1>2. Bounded(DOMAIN qcCache \cup ScopesOf(Ready))'
  <2>1. ScopesOf(Ready)' \subseteq ScopesOf(Ready)
    BY DEF ScopesOf
  <2>2. DOMAIN qcCache' \cup ScopesOf(Ready)' \subseteq DOMAIN qcCache \cup ScopesOf(Ready)
    BY <2>1 DEF CacheKept
  <2>3. Bounded(DOMAIN qcCache \cup ScopesOf(Ready)) /\ IsFiniteSet(DOMAIN qcCache \cup ScopesOf(Ready))
    BY <1>0, KeysFinite DEF RoomKept
  <2>4. Bounded(DOMAIN qcCache' \cup ScopesOf(Ready)')
    BY <2>2, <2>3, BoundedSubset
  <2> QED
    BY <2>4
<1>3. ASSUME NEW T \in SUBSET Evicting', T # {} PROVE \E t \in T : Bounded(KeysAfter(t, T))'
  <2>1. PICK t \in T : Bounded(KeysAfter(t, T))
    BY <1>3 DEF RoomKept
  <2>2. DOMAIN qcCache' \ Victims(t)' \subseteq DOMAIN qcCache \ Victims(t)
    <3>1. qcSearch'[t].victims = qcSearch[t].victims
      BY <1>3, <2>1
    <3> QED
      BY <3>1 DEF CacheKept, Victims
  <2>3. ScopesOf(Ready \cup T)' \subseteq ScopesOf(Ready \cup T)
    BY <1>3 DEF ScopesOf
  <2>4. KeysAfter(t, T)' \subseteq KeysAfter(t, T)
    BY <2>2, <2>3 DEF KeysAfter, CacheKept
  <2>5. IsFiniteSet(KeysAfter(t, T))
    BY <1>0, <1>3, KeysFinite
  <2>6. PICK X, Y : X = KeysAfter(t, T)' /\ Y = KeysAfter(t, T)
    OBVIOUS
  <2>7. Bounded(X)
    BY <2>1, <2>4, <2>5, <2>6, BoundedSubset
  <2> QED
    BY <2>1, <2>6, <2>7 DEF Bounded
<1> QED
  BY <1>2, <1>3 DEF RoomKept

LEMMA WithoutKept ==
    ASSUME QueryCacheTypeOK, NEW keys, qcCache' = Without(keys)
    PROVE  CacheKept /\ DOMAIN qcCache' = DOMAIN qcCache \ keys
  BY DEF QueryCacheTypeOK, CacheKept, Without

\* A key set among few keys and the scopes of searchers is bounded.
LEMMA AmongFew ==
    ASSUME NEW X, IsFiniteSet(X), Cardinality(X) < QcMaxSize, NEW f, NEW keys,
           keys \subseteq X \cup {f[t].scope : t \in QcSearchers}
    PROVE  Bounded(keys)
<1> DEFINE scopes == {f[t].scope : t \in QcSearchers}
<1>1. Bounded(X \cup scopes)
  BY RoomForAll
<1>2. IsFiniteSet(scopes)
  BY FewScopes, QueryCacheAssumption
<1>3. IsFiniteSet(X \cup scopes)
  BY <1>2, FS_Union
<1> QED
  BY <1>1, <1>3, BoundedSubset

\* The test for room: of insert, with the sweep and the choice of victims.
LEMMA MakeRoomKeeps ==
    ASSUME QueryCacheInv, NEW t \in QcSearchers, MakeRoom(t)
    PROVE  RoomKept'
<1> DEFINE s == qcSearch[t].scope
<1>0. QueryCacheTypeOK /\ RoomKept /\ SearcherOK(qcSearch[t]) /\ qcSearch[t].pc = "room"
  BY SearcherType DEF QueryCacheInv, MakeRoom
<1>1. CacheKept /\ DOMAIN qcCache' \subseteq DOMAIN qcCache
  <2>1. PICK sweep \in BOOLEAN : qcCache' = IF sweep THEN Without(Expired) ELSE qcCache
    BY DEF MakeRoom
  <2>2. CASE sweep
    BY <1>0, <2>1, <2>2, WithoutKept
  <2>3. CASE ~sweep
    BY <1>0, <2>1, <2>3 DEF CacheKept, QueryCacheTypeOK
  <2> QED
    BY <2>2, <2>3
<1>2. PICK V \in SUBSET DOMAIN qcCache' :
        /\ Cardinality(V) = IF ~Full(qcCache', s) THEN 0
                            ELSE IF Cardinality(DOMAIN qcCache') > QcBatch THEN QcBatch
                            ELSE Cardinality(DOMAIN qcCache')
        /\ qcSearch' = [qcSearch EXCEPT ![t] = [qcSearch[t] EXCEPT !.pc = "evict",
                          !.victims = {<<k, qcCache'[k].id>> : k \in V}]]
  BY DEF MakeRoom, StepSearch
<1>3. /\ qcSearch'[t].pc = "evict" /\ qcSearch'[t].scope = s
      /\ qcSearch'[t].victims = {<<k, qcCache'[k].id>> : k \in V}
      /\ \A u \in QcSearchers \ {t} : qcSearch'[u] = qcSearch[u]
  BY <1>0, <1>2 DEF QueryCacheTypeOK, SearcherOK
<1>4. IsFiniteSet(DOMAIN qcCache') /\ IsFiniteSet(V)
  BY <1>0, <1>1, FS_Subset DEF QueryCacheTypeOK
<1>5. /\ Cardinality(DOMAIN qcCache') \in Nat /\ Cardinality(V) \in Nat
      /\ Cardinality(QcSearchers) \in Nat /\ QcMaxSize \in Nat \ {0} /\ QcBatch \in Nat
      /\ Cardinality(QcSearchers) <= QcBatch /\ Cardinality(QcSearchers) # 0
  BY <1>4, FS_CardinalityType, FS_EmptySet, QueryCacheAssumption
<1>6. t \in Preparing /\ t \notin Ready /\ t \notin Evicting
      /\ Ready \subseteq QcSearchers /\ Evicting \subseteq QcSearchers
  BY <1>0 DEF Preparing, Ready, Evicting
<1>7. Preparing' \subseteq Preparing /\ ScopesOf(Preparing)' \subseteq ScopesOf(Preparing)
  <2>1. Preparing' \subseteq Preparing \ {t}
    BY <1>3 DEF Preparing
  <2> QED
    BY <1>3, <2>1 DEF ScopesOf, Preparing
<1>8. ASSUME NEW keys, Cardinality(DOMAIN qcCache') < QcMaxSize,
             keys \subseteq DOMAIN qcCache' \cup {qcSearch'[u].scope : u \in QcSearchers}
      PROVE  Bounded(keys)
  BY <1>4, <1>8, AmongFew
<1>9. CASE ~Full(qcCache', s)
  <2>1. V = {} /\ qcSearch'[t].victims = {}
    BY <1>2, <1>3, <1>4, <1>9, FS_EmptySet
  <2>2. Ready' = Ready \cup {t} /\ Evicting' = Evicting
    BY <1>3, <1>6, <2>1 DEF Ready, Evicting
  <2>3. CASE Cardinality(DOMAIN qcCache') < QcMaxSize
    <3>2. DOMAIN qcCache' \cup ScopesOf(Ready)' \subseteq DOMAIN qcCache' \cup {qcSearch'[u].scope : u \in QcSearchers}
      BY <1>6, <2>2 DEF ScopesOf
    <3>3. Bounded(DOMAIN qcCache' \cup ScopesOf(Ready)')
      BY <1>8, <2>3, <3>2
    <3>4. ASSUME NEW T \in SUBSET Evicting', T # {} PROVE \E u \in T : Bounded(KeysAfter(u, T))'
      <4>1. PICK u \in T : TRUE
        BY <3>4
      <4>2. KeysAfter(u, T)' \subseteq DOMAIN qcCache' \cup {qcSearch'[v].scope : v \in QcSearchers}
        BY <1>6, <2>2, <3>4 DEF KeysAfter, ScopesOf
      <4>3. PICK X : X = KeysAfter(u, T)'
        OBVIOUS
      <4>4. Bounded(X)
        BY <1>8, <2>3, <4>2, <4>3
      <4> QED
        BY <4>1, <4>3, <4>4 DEF Bounded
    <3> QED
      BY <3>3, <3>4 DEF RoomKept
  <2>4. CASE s \in DOMAIN qcCache'
    <3>1. DOMAIN qcCache' \cup ScopesOf(Ready)' \subseteq DOMAIN qcCache \cup ScopesOf(Ready)
      BY <1>1, <1>3, <1>6, <2>2, <2>4 DEF ScopesOf
    <3>2. Bounded(DOMAIN qcCache' \cup ScopesOf(Ready)')
      BY <1>0, <1>6, <3>1, KeysFinite, BoundedSubset DEF RoomKept
    <3>3. ASSUME NEW T \in SUBSET Evicting', T # {} PROVE \E u \in T : Bounded(KeysAfter(u, T))'
      <4>1. PICK u \in T : Bounded(KeysAfter(u, T))
        BY <1>0, <2>2, <3>3 DEF RoomKept
      <4>2. DOMAIN qcCache' \ Victims(u)' \subseteq DOMAIN qcCache \ Victims(u)
        BY <1>1, <1>3, <1>6, <2>2, <3>3 DEF CacheKept, Victims
      <4>3. ScopesOf(Ready \cup T)' \subseteq ScopesOf(Ready \cup T) \cup {s}
        BY <1>3, <1>6, <2>2, <3>3 DEF ScopesOf
      <4>4. s \in ScopesOf(Preparing) \cap DOMAIN qcCache
        BY <1>1, <1>6, <2>4 DEF ScopesOf
      <4>5. KeysAfter(u, T)' \subseteq KeysAfter(u, T)
        BY <1>1, <1>7, <4>2, <4>3, <4>4 DEF KeysAfter
      <4>6. PICK X, Y : X = KeysAfter(u, T)' /\ Y = KeysAfter(u, T)
        OBVIOUS
      <4>7. IsFiniteSet(Y)
        BY <1>0, <1>6, <2>2, <3>3, <4>6, KeysFinite
      <4>8. Bounded(X)
        BY <4>1, <4>5, <4>6, <4>7, BoundedSubset
      <4> QED
        BY <4>1, <4>6, <4>8 DEF Bounded
    <3> QED
      BY <3>2, <3>3 DEF RoomKept
  <2> QED
    BY <1>5, <1>9, <2>3, <2>4 DEF Full
<1>10. CASE Full(qcCache', s)
  <2>1. Cardinality(DOMAIN qcCache') >= QcMaxSize
    BY <1>10 DEF Full
  <2>2. V # {} /\ Cardinality(V) = IF Cardinality(DOMAIN qcCache') > QcBatch THEN QcBatch
                                   ELSE Cardinality(DOMAIN qcCache')
    BY <1>2, <1>5, <1>10, <2>1, FS_EmptySet
  <2>3. qcSearch'[t].victims # {}
    BY <1>3, <2>2
  <2>4. Ready' = Ready /\ Evicting' = Evicting \cup {t}
    BY <1>3, <1>6, <2>3 DEF Ready, Evicting
  <2>5. DOMAIN qcCache' \cup ScopesOf(Ready)' \subseteq DOMAIN qcCache \cup ScopesOf(Ready)
    BY <1>1, <1>3, <1>6, <2>4 DEF ScopesOf
  <2>6. Bounded(DOMAIN qcCache' \cup ScopesOf(Ready)')
    BY <1>0, <1>6, <2>5, KeysFinite, BoundedSubset DEF RoomKept
  <2>7. ASSUME NEW T \in SUBSET Evicting', T # {}, t \notin T PROVE \E u \in T : Bounded(KeysAfter(u, T))'
    <3>1. PICK u \in T : Bounded(KeysAfter(u, T))
      BY <1>0, <2>4, <2>7 DEF RoomKept
    <3>2. DOMAIN qcCache' \ Victims(u)' \subseteq DOMAIN qcCache \ Victims(u)
      BY <1>1, <1>3, <1>6, <2>4, <2>7 DEF CacheKept, Victims
    <3>3. ScopesOf(Ready \cup T)' \subseteq ScopesOf(Ready \cup T)
      BY <1>3, <1>6, <2>4, <2>7 DEF ScopesOf
    <3>4. KeysAfter(u, T)' \subseteq KeysAfter(u, T)
      BY <1>1, <1>7, <3>2, <3>3 DEF KeysAfter
    <3>5. PICK X, Y : X = KeysAfter(u, T)' /\ Y = KeysAfter(u, T)
      OBVIOUS
    <3>6. IsFiniteSet(Y)
      BY <1>0, <1>6, <2>4, <2>7, <3>5, KeysFinite
    <3>7. Bounded(X)
      BY <3>1, <3>4, <3>5, <3>6, BoundedSubset
    <3> QED
      BY <3>1, <3>5, <3>7 DEF Bounded
  <2>8. ASSUME NEW T \in SUBSET Evicting', t \in T PROVE Bounded(KeysAfter(t, T))'
    <3>1. V \subseteq Victims(t)'
      BY <1>3 DEF Victims
    <3>2. KeysAfter(t, T)' \subseteq (DOMAIN qcCache' \ V) \cup {qcSearch'[u].scope : u \in QcSearchers}
      BY <1>6, <2>4, <2>8, <3>1 DEF KeysAfter, ScopesOf, Preparing
    <3>3. /\ IsFiniteSet(DOMAIN qcCache' \ V)
          /\ Cardinality(DOMAIN qcCache' \ V) = Cardinality(DOMAIN qcCache') - Cardinality(V)
      <4>1. DOMAIN qcCache' \cap V = V
        OBVIOUS
      <4> QED
        BY <1>4, <4>1, FS_Difference
    <3>4. Cardinality(DOMAIN qcCache') < QcMaxSize + Cardinality(QcSearchers)
      <4>1. DOMAIN qcCache' \subseteq DOMAIN qcCache \cup ScopesOf(Ready)
        BY <1>1
      <4>2. Bounded(DOMAIN qcCache')
        BY <1>0, <1>6, <4>1, KeysFinite, BoundedSubset DEF RoomKept
      <4> QED
        BY <4>2 DEF Bounded
    <3>5. Cardinality(DOMAIN qcCache' \ V) < QcMaxSize
      BY <1>5, <2>2, <3>3, <3>4
    <3>6. PICK X : X = KeysAfter(t, T)'
      OBVIOUS
    <3>7. Bounded(X)
      BY <3>2, <3>3, <3>5, <3>6, AmongFew
    <3> QED
      BY <3>6, <3>7 DEF Bounded
  <2> QED
    BY <2>6, <2>7, <2>8 DEF RoomKept
<1> QED
  BY <1>9, <1>10

\* evict_least_efficient: the victims that are still what was scored.
LEMMA EvictKeeps ==
    ASSUME QueryCacheInv, NEW t \in QcSearchers, Evict(t)
    PROVE  RoomKept'
<1>0. QueryCacheTypeOK /\ RoomKept /\ SearcherOK(qcSearch[t]) /\ qcSearch[t].pc = "evict"
  BY SearcherType DEF QueryCacheInv, Evict
<1>1. CacheKept /\ DOMAIN qcCache' = DOMAIN qcCache \ Victims(t)
  BY <1>0, WithoutKept DEF Evict, Victims
<1>2. /\ qcSearch'[t].pc = "put" /\ qcSearch'[t].scope = qcSearch[t].scope /\ qcSearch'[t].victims = {}
      /\ \A u \in QcSearchers \ {t} : qcSearch'[u] = qcSearch[u]
  BY <1>0 DEF Evict, StepSearch, QueryCacheTypeOK, SearcherOK
<1>3. Ready \subseteq QcSearchers /\ Evicting \subseteq QcSearchers
  BY DEF Ready, Evicting
<1>4. ScopesOf(Preparing)' \subseteq ScopesOf(Preparing)
  <2>1. Preparing' \subseteq Preparing \ {t}
    BY <1>2 DEF Preparing
  <2> QED
    BY <1>2, <2>1 DEF ScopesOf, Preparing
<1>5. CASE qcSearch[t].victims = {}
  <2>1. Ready' \subseteq Ready /\ Evicting' \subseteq Evicting
    BY <1>0, <1>2, <1>5 DEF Ready, Evicting
  <2>2. \A u \in Ready \cup Evicting :
          qcSearch'[u].scope = qcSearch[u].scope /\ qcSearch'[u].victims = qcSearch[u].victims
    BY <1>2, <1>3, <1>5
  <2> QED
    BY <1>0, <1>1, <1>4, <2>1, <2>2, RoomStays
<1>6. CASE qcSearch[t].victims # {}
  <2>1. t \in Evicting /\ t \notin Ready /\ Ready' = Ready \cup {t} /\ Evicting' = Evicting \ {t}
    BY <1>0, <1>2, <1>6 DEF Ready, Evicting
  <2>2. Bounded(DOMAIN qcCache' \cup ScopesOf(Ready)')
    <3>1. Bounded(KeysAfter(t, {t})) /\ IsFiniteSet(KeysAfter(t, {t}))
      BY <1>0, <1>3, <2>1, KeysFinite DEF RoomKept
    <3>2. DOMAIN qcCache' \cup ScopesOf(Ready)' \subseteq KeysAfter(t, {t})
      BY <1>1, <1>2, <1>3, <2>1 DEF KeysAfter, ScopesOf
    <3> QED
      BY <3>1, <3>2, BoundedSubset
  <2>3. ASSUME NEW T \in SUBSET Evicting', T # {} PROVE \E v \in T : Bounded(KeysAfter(v, T))'
    <3>1. T \cup {t} \in SUBSET Evicting /\ t \notin T
      BY <2>1, <2>3
    <3>2. PICK u \in T \cup {t} : Bounded(KeysAfter(u, T \cup {t}))
      BY <1>0, <3>1 DEF RoomKept
    <3>3. PICK v \in T : u \in T => v = u
      BY <2>3, <3>2
    <3>4. DOMAIN qcCache' \ Victims(v)' \subseteq DOMAIN qcCache \ Victims(u)
      <4>1. CASE u = t
        BY <1>1, <4>1
      <4>2. CASE u # t
        <5>1. v = u /\ qcSearch'[u] = qcSearch[u]
          BY <1>2, <1>3, <2>1, <3>2, <3>3, <4>2
        <5> QED
          BY <1>1, <5>1 DEF Victims, CacheKept
      <4> QED
        BY <4>1, <4>2
    <3>5. ScopesOf(Ready \cup T)' \subseteq ScopesOf(Ready \cup (T \cup {t}))
      BY <1>2, <1>3, <2>1, <3>1 DEF ScopesOf
    <3>6. KeysAfter(v, T)' \subseteq KeysAfter(u, T \cup {t})
      BY <1>1, <1>4, <3>4, <3>5 DEF KeysAfter
    <3>7. IsFiniteSet(KeysAfter(u, T \cup {t}))
      BY <1>0, <1>3, <3>1, KeysFinite
    <3>8. PICK X, Y : X = KeysAfter(v, T)' /\ Y = KeysAfter(u, T \cup {t})
      OBVIOUS
    <3>9. Bounded(X)
      BY <3>2, <3>6, <3>7, <3>8, BoundedSubset
    <3> QED
      BY <3>3, <3>8, <3>9 DEF Bounded
  <2> QED
    BY <2>2, <2>3 DEF RoomKept
<1> QED
  BY <1>5, <1>6

\* The insert itself: the key was counted.
LEMMA PutKeeps ==
    ASSUME QueryCacheInv, NEW t \in QcSearchers, Put(t)
    PROVE  RoomKept'
<1> DEFINE s == qcSearch[t].scope
<1>0. QueryCacheTypeOK /\ RoomKept /\ SearcherOK(qcSearch[t]) /\ qcSearch[t].pc = "put"
  BY SearcherType DEF QueryCacheInv, Put
<1>1. /\ DOMAIN qcCache' = DOMAIN qcCache \cup {s}
      /\ \A k \in DOMAIN qcCache : k # s => qcCache'[k] = qcCache[k]
  BY DEF Put
<1>2. /\ qcSearch'[t].pc = "idle"
      /\ \A u \in QcSearchers \ {t} : qcSearch'[u] = qcSearch[u]
  BY <1>0 DEF Put, EndSearch, StepSearch, QueryCacheTypeOK, SearcherOK, QcIdle
<1>3. t \in Ready /\ Ready' \subseteq Ready \ {t} /\ Evicting' \subseteq Evicting \ {t}
      /\ Ready \subseteq QcSearchers /\ Evicting \subseteq QcSearchers
  BY <1>0, <1>2 DEF Ready, Evicting
<1>4. ScopesOf(Preparing)' \subseteq ScopesOf(Preparing)
  <2>1. Preparing' \subseteq Preparing \ {t}
    BY <1>2 DEF Preparing
  <2> QED
    BY <1>2, <2>1 DEF ScopesOf, Preparing
<1>5. s \in ScopesOf(Ready)
  BY <1>3 DEF ScopesOf
<1>6. Bounded(DOMAIN qcCache' \cup ScopesOf(Ready)')
  <2>1. ScopesOf(Ready)' \subseteq ScopesOf(Ready)
    BY <1>2, <1>3 DEF ScopesOf
  <2>2. DOMAIN qcCache' \cup ScopesOf(Ready)' \subseteq DOMAIN qcCache \cup ScopesOf(Ready)
    BY <1>1, <1>5, <2>1
  <2> QED
    BY <1>0, <1>3, <2>2, KeysFinite, BoundedSubset DEF RoomKept
<1>7. ASSUME NEW T \in SUBSET Evicting', T # {} PROVE \E u \in T : Bounded(KeysAfter(u, T))'
  <2>1. PICK u \in T : Bounded(KeysAfter(u, T))
    BY <1>0, <1>3, <1>7 DEF RoomKept
  <2>2. DOMAIN qcCache' \ Victims(u)' \subseteq (DOMAIN qcCache \ Victims(u)) \cup {s}
    <3>1. qcSearch'[u] = qcSearch[u]
      BY <1>2, <1>3, <1>7
    <3> QED
      BY <1>1, <3>1 DEF Victims
  <2>3. ScopesOf(Ready \cup T)' \subseteq ScopesOf(Ready \cup T) /\ s \in ScopesOf(Ready \cup T)
    BY <1>2, <1>3, <1>7 DEF ScopesOf
  <2>4. KeysAfter(u, T)' \subseteq KeysAfter(u, T)
    BY <1>1, <1>4, <2>2, <2>3 DEF KeysAfter
  <2>5. IsFiniteSet(KeysAfter(u, T))
    BY <1>0, <1>3, <1>7, KeysFinite
  <2>6. PICK X, Y : X = KeysAfter(u, T)' /\ Y = KeysAfter(u, T)
    OBVIOUS
  <2>7. Bounded(X)
    BY <2>1, <2>4, <2>5, <2>6, BoundedSubset
  <2> QED
    BY <2>1, <2>6, <2>7 DEF Bounded
<1> QED
  BY <1>6, <1>7 DEF RoomKept

(***************************************************************************)
(* QueryCache: searches.                                                   *)
(***************************************************************************)

\* What CleanEntries says of one key.
EntryOK(k) ==
    /\ \/ \E s \in qcSilent : Covers(k, s)
       \/ \E w \in QcWriters : Announcing(w) /\ Covers(k, Written(w))
       \/ qcCache[k].found = Settled(k)
    /\ \A w \in QcWriters : qcWrite[w].pc = "unstore" => ~Covers(k, Written(w))

\* What CleanSearches says of one search.
SearchOK(r) ==
    r.clean /\ r.pc # "idle" =>
       /\ QcQuiet
       /\ r.pc \notin {"lexical"} => r.found.lexical = Fresh(r.scope).lexical
       /\ r.pc \notin {"lexical", "vector"} => r.found.vector = Fresh(r.scope).vector

worldVars == <<qcBackend, qcMemory, qcStored, qcWrite, qcSilent>>

LEMMA FreshSame ==
    ASSUME UNCHANGED worldVars, NEW k
    PROVE  Fresh(k)' = Fresh(k) /\ Settled(k)' = Settled(k) /\ QcQuiet' = QcQuiet
  BY DEF worldVars, Fresh, Settled, InScope, Undecided, QcQuiet

LEMMA EntrySame ==
    ASSUME UNCHANGED worldVars, CacheKept, NEW k \in DOMAIN qcCache', EntryOK(k)
    PROVE  EntryOK(k)'
<1>1. Settled(k)' = Settled(k) /\ qcCache'[k].found = qcCache[k].found
  BY FreshSame DEF CacheKept
<1>2. UNCHANGED <<qcWrite, qcSilent>>
  BY DEF worldVars
<1>3. \A w \in QcWriters : Written(w)' = Written(w) /\ Announcing(w)' = Announcing(w)
  BY <1>2 DEF Written, Announcing
<1> QED
  BY <1>1, <1>2, <1>3 DEF EntryOK

\* A searcher that changes nothing but its own state, and at most removes
\* entries.
LEMMA SearchStep ==
    ASSUME QueryCacheInv, NEW t \in QcSearchers, NEW r, SearcherOK(r), SearchOK(r),
           r.pc # "evict" => r.victims = {},
           qcSearch' = [qcSearch EXCEPT ![t] = r], CacheKept, UNCHANGED worldVars
    PROVE  /\ QueryCacheTypeOK' /\ CleanSearches' /\ CleanEntries'
           /\ \A u \in QcSearchers : qcSearch'[u].pc # "evict" => qcSearch'[u].victims = {}
<1>0. QueryCacheTypeOK
  BY DEF QueryCacheInv
<1>1. qcSearch'[t] = r /\ \A u \in QcSearchers \ {t} : qcSearch'[u] = qcSearch[u]
  BY <1>0, SearchersOK
<1>2. QueryCacheTypeOK'
  <2>1. IsFiniteSet(DOMAIN qcCache') /\ DOMAIN qcCache' \subseteq QcScopes
    BY <1>0, FS_Subset DEF CacheKept, QueryCacheTypeOK
  <2>2. \A k \in DOMAIN qcCache' :
          qcCache'[k] \in [found : Answers, expired : BOOLEAN, clean : BOOLEAN, id : EntryIds]
    BY DEF CacheKept
  <2> QED
    BY <1>0, <2>1, <2>2, SearchersOK DEF QueryCacheTypeOK, worldVars
<1>3. CleanSearches'
  <2>1. ASSUME NEW u \in QcSearchers PROVE SearchOK(qcSearch[u])'
    <3>1. PICK q : q = qcSearch'[u]
      OBVIOUS
    <3>2. SearchOK(q)
      <4>1. CASE u = t
        BY <1>1, <3>1, <4>1
      <4>2. CASE u # t
        BY <1>1, <3>1, <4>2 DEF QueryCacheInv, CleanSearches, SearchOK
      <4> QED
        BY <4>1, <4>2
    <3>3. Fresh(q.scope)' = Fresh(q.scope) /\ QcQuiet' = QcQuiet
      BY FreshSame
    <3>4. SearchOK(q)'
      BY <3>2, <3>3 DEF SearchOK
    <3> QED
      BY <3>1, <3>4 DEF SearchOK
  <2> QED
    BY <2>1 DEF CleanSearches, SearchOK
<1>4. CleanEntries'
  <2>1. ASSUME NEW k \in DOMAIN qcCache', qcCache'[k].clean PROVE EntryOK(k)'
    <3>1. EntryOK(k)
      BY <2>1 DEF QueryCacheInv, CleanEntries, EntryOK, CacheKept
    <3> QED
      BY <3>1, EntrySame
  <2> QED
    BY <2>1 DEF CleanEntries, EntryOK
<1>5. \A u \in QcSearchers : qcSearch'[u].pc # "evict" => qcSearch'[u].victims = {}
  BY <1>1 DEF QueryCacheInv
<1> QED
  BY <1>2, <1>3, <1>4, <1>5

LEMMA SameCacheKept ==
    ASSUME QueryCacheTypeOK, UNCHANGED qcCache
    PROVE  CacheKept
  BY DEF QueryCacheTypeOK, CacheKept

LEMMA RoomSame ==
    ASSUME QueryCacheInv, NEW t \in QcSearchers, CacheKept,
           qcSearch[t].pc \in {"idle", "lexical", "vector"},
           qcSearch'[t].pc \in {"idle", "lexical", "vector", "room"},
           \A u \in QcSearchers \ {t} : qcSearch'[u] = qcSearch[u],
           qcSearch'[t].pc # "idle" =>
              \/ qcSearch[t].pc # "idle" /\ qcSearch'[t].scope = qcSearch[t].scope
              \/ qcSearch'[t].scope \notin DOMAIN qcCache'
    PROVE  RoomKept'
<1>1. Ready' \subseteq Ready /\ Evicting' \subseteq Evicting /\ t \notin Ready \cup Evicting
      /\ Ready \subseteq QcSearchers /\ Evicting \subseteq QcSearchers
  BY DEF Ready, Evicting
<1>2. \A u \in Ready \cup Evicting :
        qcSearch'[u].scope = qcSearch[u].scope /\ qcSearch'[u].victims = qcSearch[u].victims
  BY <1>1
<1>3. ScopesOf(Preparing)' \cap DOMAIN qcCache' \subseteq ScopesOf(Preparing)
  <2> SUFFICES ASSUME NEW k \in ScopesOf(Preparing)', k \in DOMAIN qcCache'
               PROVE  k \in ScopesOf(Preparing)
    OBVIOUS
  <2>1. PICK u \in Preparing' : k = qcSearch'[u].scope
    BY DEF ScopesOf
  <2>2. u \in QcSearchers /\ qcSearch'[u].pc \in {"lexical", "vector", "room"}
    BY <2>1 DEF Preparing
  <2>3. u \in Preparing /\ k = qcSearch[u].scope
    BY <2>1, <2>2 DEF Preparing
  <2> QED
    BY <2>3 DEF ScopesOf
<1> QED
  BY <1>1, <1>2, <1>3, RoomStays DEF QueryCacheInv

LEMMA LookupKeeps ==
    ASSUME QueryCacheInv, NEW t \in QcSearchers, Lookup(t)
    PROVE  QueryCacheInv'
<1>0. QueryCacheTypeOK /\ SearcherOK(qcSearch[t]) /\ qcSearch[t].pc = "idle" /\ UNCHANGED worldVars
  BY SearcherType DEF QueryCacheInv, Lookup, worldVars
<1>1. PICK scope \in QcScopes :
        \/ EndSearch(t) /\ UNCHANGED qcCache
        \/ /\ qcCache' = Without({scope})
           /\ StepSearch(t, [qcSearch[t] EXCEPT !.pc = "lexical", !.scope = scope, !.clean = QcQuiet])
  BY DEF Lookup
<1>2. CASE EndSearch(t) /\ UNCHANGED qcCache
  <2>1. PICK r : r = [QcIdle EXCEPT !.nth = qcSearch[t].nth + 1]
    OBVIOUS
  <2>2. SearcherOK(r) /\ SearchOK(r) /\ r.pc = "idle" /\ r.victims = {}
    <3>1. qcSearch[t].nth + 1 \in Nat
      BY <1>0 DEF SearcherOK
    <3>2. SearcherOK(r)
      BY <2>1, <3>1, IdleOK
    <3>3. r.pc = "idle" /\ r.victims = {}
      BY <2>1 DEF QcIdle
    <3> QED
      BY <3>2, <3>3 DEF SearchOK
  <2>3. CacheKept
    BY <1>0, <1>2, SameCacheKept
  <2>4. qcSearch' = [qcSearch EXCEPT ![t] = r]
    BY <1>2, <2>1 DEF EndSearch, StepSearch
  <2>5. qcSearch'[t] = r /\ \A u \in QcSearchers \ {t} : qcSearch'[u] = qcSearch[u]
    BY <1>0, <2>2, <2>4, SearchersOK
  <2>6. RoomKept'
    BY <1>0, <2>2, <2>3, <2>5, RoomSame
  <2> QED
    BY <1>0, <2>2, <2>3, <2>4, <2>6, SearchStep DEF QueryCacheInv
<1>3. CASE /\ qcCache' = Without({scope})
           /\ StepSearch(t, [qcSearch[t] EXCEPT !.pc = "lexical", !.scope = scope, !.clean = QcQuiet])
  <2>1. PICK r : r = [qcSearch[t] EXCEPT !.pc = "lexical", !.scope = scope, !.clean = QcQuiet]
    OBVIOUS
  <2>2. r.pc = "lexical" /\ r.scope = scope /\ r.clean = QcQuiet /\ r.victims = qcSearch[t].victims
    BY <1>0, <2>1 DEF SearcherOK
  <2>3. SearcherOK(r) /\ SearchOK(r) /\ r.victims = {}
    <3>1. QcQuiet \in BOOLEAN
      BY DEF QcQuiet
    <3>2. SearcherOK(r)
      BY <1>0, <2>1, <3>1 DEF SearcherOK
    <3>3. SearchOK(r)
      BY <2>2 DEF SearchOK
    <3> QED
      BY <1>0, <2>2, <3>2, <3>3 DEF QueryCacheInv
  <2>4. CacheKept /\ scope \notin DOMAIN qcCache'
    BY <1>0, <1>3, WithoutKept
  <2>5. qcSearch' = [qcSearch EXCEPT ![t] = r]
    BY <1>3, <2>1 DEF StepSearch
  <2>6. qcSearch'[t] = r /\ \A u \in QcSearchers \ {t} : qcSearch'[u] = qcSearch[u]
    BY <1>0, <2>3, <2>5, SearchersOK
  <2>7. RoomKept'
    BY <1>0, <2>2, <2>4, <2>6, RoomSame
  <2> QED
    BY <1>0, <2>2, <2>3, <2>4, <2>5, <2>7, SearchStep DEF QueryCacheInv
<1> QED
  BY <1>1, <1>2, <1>3

LEMMA LexicalKeeps ==
    ASSUME QueryCacheInv, NEW t \in QcSearchers, LexicalSearch(t)
    PROVE  QueryCacheInv'
<1>0. QueryCacheTypeOK /\ SearcherOK(qcSearch[t]) /\ qcSearch[t].pc = "lexical"
      /\ qcSearch[t].victims = {} /\ SearchOK(qcSearch[t])
      /\ UNCHANGED worldVars /\ UNCHANGED qcCache
  BY SearcherType DEF QueryCacheInv, LexicalSearch, worldVars, CleanSearches, SearchOK
<1> DEFINE contents == IF qcBackend = "surrealdb" THEN qcStored ELSE qcMemory
           found == [qcSearch[t].found EXCEPT !.lexical = InScope(qcSearch[t].scope, contents)]
<1>1. PICK r :
        /\ \/ r = [qcSearch[t] EXCEPT !.pc = "vector", !.found = found]
           \/ r = [qcSearch[t] EXCEPT !.pc = "vector", !.clean = FALSE]
           \/ r = [QcIdle EXCEPT !.nth = qcSearch[t].nth + 1]
        /\ qcSearch' = [qcSearch EXCEPT ![t] = r]
  BY DEF LexicalSearch, StepSearch, EndSearch
<1>2. SearcherOK(r) /\ SearchOK(r) /\ r.victims = {} /\ r.pc \in {"idle", "vector"}
      /\ (r.pc # "idle" => r.scope = qcSearch[t].scope)
  <2>1. CASE r = [qcSearch[t] EXCEPT !.pc = "vector", !.found = found]
    <3>1. contents \in SUBSET QcContents
      BY <1>0 DEF QueryCacheTypeOK
    <3>2. InScope(qcSearch[t].scope, contents) \in SUBSET QcContents
      BY <3>1, InScopeType
    <3>3. found \in Answers /\ found.lexical = Fresh(qcSearch[t].scope).lexical
      BY <1>0, <3>2 DEF SearcherOK, Answers, Fresh
    <3> HIDE DEF found
    <3>4. r.pc = "vector" /\ r.scope = qcSearch[t].scope /\ r.clean = qcSearch[t].clean
          /\ r.found = found /\ r.victims = {}
      BY <1>0, <2>1 DEF SearcherOK
    <3>5. SearcherOK(r)
      BY <1>0, <2>1, <3>3 DEF SearcherOK
    <3>6. SearchOK(r)
      BY <1>0, <3>3, <3>4 DEF SearchOK
    <3> QED
      BY <3>4, <3>5, <3>6
  <2>2. CASE r = [qcSearch[t] EXCEPT !.pc = "vector", !.clean = FALSE]
    BY <1>0, <2>2 DEF SearcherOK, SearchOK
  <2>3. CASE r = [QcIdle EXCEPT !.nth = qcSearch[t].nth + 1]
    <3>1. qcSearch[t].nth + 1 \in Nat
      BY <1>0 DEF SearcherOK
    <3>2. SearcherOK(r)
      BY <2>3, <3>1, IdleOK
    <3>3. r.pc = "idle" /\ r.victims = {}
      BY <2>3 DEF QcIdle
    <3> QED
      BY <3>2, <3>3 DEF SearchOK
  <2> QED
    BY <1>1, <2>1, <2>2, <2>3
<1>3. CacheKept
  BY <1>0, SameCacheKept
<1>4. qcSearch'[t] = r /\ \A u \in QcSearchers \ {t} : qcSearch'[u] = qcSearch[u]
  BY <1>0, <1>1, <1>2, SearchersOK
<1>5. RoomKept'
  BY <1>0, <1>2, <1>3, <1>4, RoomSame
<1> QED
  BY <1>0, <1>1, <1>2, <1>3, <1>5, SearchStep DEF QueryCacheInv

LEMMA VectorKeeps ==
    ASSUME QueryCacheInv, NEW t \in QcSearchers, VectorSearch(t)
    PROVE  QueryCacheInv'
<1>0. QueryCacheTypeOK /\ SearcherOK(qcSearch[t]) /\ qcSearch[t].pc = "vector"
      /\ qcSearch[t].victims = {} /\ SearchOK(qcSearch[t])
      /\ UNCHANGED worldVars /\ UNCHANGED qcCache
  BY SearcherType DEF QueryCacheInv, VectorSearch, worldVars, CleanSearches, SearchOK
<1>1. PICK r :
        /\ r = [qcSearch[t] EXCEPT !.pc = "room", !.found.vector = InScope(qcSearch[t].scope, qcMemory)]
        /\ qcSearch' = [qcSearch EXCEPT ![t] = r]
  BY DEF VectorSearch, StepSearch
<1>2. InScope(qcSearch[t].scope, qcMemory) \in SUBSET QcContents
  BY <1>0, InScopeType DEF QueryCacheTypeOK
<1>3. r.pc = "room" /\ r.scope = qcSearch[t].scope /\ r.clean = qcSearch[t].clean /\ r.victims = {}
      /\ r.found = [qcSearch[t].found EXCEPT !.vector = InScope(qcSearch[t].scope, qcMemory)]
  BY <1>0, <1>1 DEF SearcherOK
<1>4. r.found \in Answers /\ r.found.vector = Fresh(r.scope).vector
      /\ r.found.lexical = qcSearch[t].found.lexical
  BY <1>0, <1>2, <1>3 DEF SearcherOK, Answers, Fresh
<1>5. SearcherOK(r)
  BY <1>0, <1>1, <1>3, <1>4 DEF SearcherOK
<1>6. SearchOK(r)
  BY <1>0, <1>3, <1>4 DEF SearchOK
<1>7. CacheKept
  BY <1>0, SameCacheKept
<1>8. qcSearch'[t] = r /\ \A u \in QcSearchers \ {t} : qcSearch'[u] = qcSearch[u]
  BY <1>0, <1>1, <1>5, SearchersOK
<1>9. RoomKept'
  BY <1>0, <1>3, <1>7, <1>8, RoomSame
<1> QED
  BY <1>0, <1>1, <1>3, <1>5, <1>6, <1>7, <1>9, SearchStep DEF QueryCacheInv

LEMMA RoomTestKeeps ==
    ASSUME QueryCacheInv, NEW t \in QcSearchers, MakeRoom(t)
    PROVE  QueryCacheInv'
<1>0. QueryCacheTypeOK /\ SearcherOK(qcSearch[t]) /\ qcSearch[t].pc = "room"
      /\ SearchOK(qcSearch[t]) /\ UNCHANGED worldVars
  BY SearcherType DEF QueryCacheInv, MakeRoom, worldVars, CleanSearches, SearchOK
<1>1. CacheKept
  <2>1. PICK sweep \in BOOLEAN : qcCache' = IF sweep THEN Without(Expired) ELSE qcCache
    BY DEF MakeRoom
  <2>2. CASE sweep
    BY <1>0, <2>1, <2>2, WithoutKept
  <2>3. CASE ~sweep
    BY <1>0, <2>1, <2>3, SameCacheKept
  <2> QED
    BY <2>2, <2>3
<1>2. PICK V \in SUBSET DOMAIN qcCache' :
        qcSearch' = [qcSearch EXCEPT ![t] = [qcSearch[t] EXCEPT !.pc = "evict",
                          !.victims = {<<k, qcCache'[k].id>> : k \in V}]]
  BY DEF MakeRoom, StepSearch
<1>3. PICK vs : vs = {<<k, qcCache'[k].id>> : k \in V}
  OBVIOUS
<1>4. vs \in SUBSET (QcScopes \X EntryIds)
  <2>1. ASSUME NEW k \in V PROVE k \in QcScopes /\ qcCache'[k].id \in EntryIds
    BY <1>0, <1>1 DEF CacheKept, QueryCacheTypeOK
  <2> QED
    BY <1>3, <2>1
<1>5. PICK r : r = [qcSearch[t] EXCEPT !.pc = "evict", !.victims = vs]
  OBVIOUS
<1>6. r.pc = "evict" /\ r.scope = qcSearch[t].scope /\ r.clean = qcSearch[t].clean
      /\ r.found = qcSearch[t].found
  BY <1>0, <1>5 DEF SearcherOK
<1>7. SearcherOK(r) /\ SearchOK(r)
  <2>1. SearcherOK(r)
    BY <1>0, <1>4, <1>5 DEF SearcherOK
  <2>2. SearchOK(r)
    BY <1>0, <1>6 DEF SearchOK
  <2> QED
    BY <2>1, <2>2
<1>8. qcSearch' = [qcSearch EXCEPT ![t] = r]
  BY <1>2, <1>3, <1>5
<1> QED
  BY <1>0, <1>1, <1>6, <1>7, <1>8, SearchStep, MakeRoomKeeps DEF QueryCacheInv

LEMMA EvictionKeeps ==
    ASSUME QueryCacheInv, NEW t \in QcSearchers, Evict(t)
    PROVE  QueryCacheInv'
<1>0. QueryCacheTypeOK /\ SearcherOK(qcSearch[t]) /\ qcSearch[t].pc = "evict"
      /\ SearchOK(qcSearch[t]) /\ UNCHANGED worldVars
  BY SearcherType DEF QueryCacheInv, Evict, worldVars, CleanSearches, SearchOK
<1>1. CacheKept
  BY <1>0, WithoutKept DEF Evict
<1>2. PICK r : r = [qcSearch[t] EXCEPT !.pc = "put", !.victims = {}]
  OBVIOUS
<1>3. r.pc = "put" /\ r.scope = qcSearch[t].scope /\ r.clean = qcSearch[t].clean
      /\ r.found = qcSearch[t].found /\ r.victims = {}
  BY <1>0, <1>2 DEF SearcherOK
<1>4. SearcherOK(r) /\ SearchOK(r)
  <2>1. SearcherOK(r)
    BY <1>0, <1>2 DEF SearcherOK
  <2>2. SearchOK(r)
    BY <1>0, <1>3 DEF SearchOK
  <2> QED
    BY <2>1, <2>2
<1>5. qcSearch' = [qcSearch EXCEPT ![t] = r]
  BY <1>2 DEF Evict, StepSearch
<1> QED
  BY <1>0, <1>1, <1>3, <1>4, <1>5, SearchStep, EvictKeeps DEF QueryCacheInv

\* While no writer runs nothing is undecided.
LEMMA QuietSettled ==
    ASSUME QcQuiet, NEW k
    PROVE  Settled(k) = Fresh(k)
<1>1. Undecided = {}
  BY DEF QcQuiet, Undecided
<1> QED
  BY <1>1 DEF Settled, Fresh

LEMMA AnswersEqual ==
    ASSUME NEW a \in Answers, NEW b \in Answers, a.lexical = b.lexical, a.vector = b.vector
    PROVE  a = b
  BY DEF Answers

LEMMA FreshType ==
    ASSUME QueryCacheTypeOK, NEW k
    PROVE  Fresh(k) \in Answers
<1>1. (IF qcBackend = "surrealdb" THEN qcStored ELSE qcMemory) \in SUBSET QcContents
      /\ qcMemory \in SUBSET QcContents
  BY DEF QueryCacheTypeOK
<1> QED
  BY <1>1, InScopeType DEF Fresh, Answers

LEMMA InsertKeeps ==
    ASSUME QueryCacheInv, NEW t \in QcSearchers, Put(t)
    PROVE  QueryCacheInv'
<1> DEFINE s == qcSearch[t].scope
<1>0. QueryCacheTypeOK /\ SearcherOK(qcSearch[t]) /\ qcSearch[t].pc = "put"
      /\ SearchOK(qcSearch[t]) /\ UNCHANGED worldVars
  BY SearcherType DEF QueryCacheInv, Put, worldVars, CleanSearches, SearchOK
<1>1. PICK r : r = [QcIdle EXCEPT !.nth = qcSearch[t].nth + 1]
  OBVIOUS
<1>2. SearcherOK(r) /\ r.pc = "idle" /\ r.victims = {}
  <2>1. qcSearch[t].nth + 1 \in Nat
    BY <1>0 DEF SearcherOK
  <2>2. SearcherOK(r)
    BY <1>1, <2>1, IdleOK
  <2>3. r.pc = "idle" /\ r.victims = {}
    BY <1>1 DEF QcIdle
  <2> QED
    BY <2>2, <2>3
<1>3. qcSearch' = [qcSearch EXCEPT ![t] = r]
  BY <1>1 DEF Put, EndSearch, StepSearch
<1>4. qcSearch'[t] = r /\ \A u \in QcSearchers \ {t} : qcSearch'[u] = qcSearch[u]
  BY <1>0, <1>2, <1>3, SearchersOK
<1>5. /\ DOMAIN qcCache' = DOMAIN qcCache \cup {s}
      /\ qcCache'[s] = Entry(t)
      /\ \A k \in DOMAIN qcCache \ {s} : qcCache'[k] = qcCache[k]
  BY DEF Put
<1>6. /\ Entry(t) \in [found : Answers, expired : BOOLEAN, clean : BOOLEAN, id : EntryIds]
      /\ Entry(t).found = qcSearch[t].found /\ Entry(t).clean = qcSearch[t].clean
  BY <1>0 DEF Entry, EntryIds, SearcherOK
<1>7. QueryCacheTypeOK'
  <2>1. IsFiniteSet(DOMAIN qcCache') /\ DOMAIN qcCache' \subseteq QcScopes
    <3>1. s \in QcScopes
      BY <1>0 DEF SearcherOK
    <3>2. IsFiniteSet(DOMAIN qcCache) /\ DOMAIN qcCache \subseteq QcScopes
      BY <1>0 DEF QueryCacheTypeOK
    <3>3. IsFiniteSet(DOMAIN qcCache \cup {s})
      BY <3>2, FS_AddElement
    <3> QED
      BY <1>5, <3>1, <3>2, <3>3
  <2>2. \A k \in DOMAIN qcCache' :
          qcCache'[k] \in [found : Answers, expired : BOOLEAN, clean : BOOLEAN, id : EntryIds]
    BY <1>0, <1>5, <1>6 DEF QueryCacheTypeOK
  <2> QED
    BY <1>0, <1>2, <1>3, <2>1, <2>2, SearchersOK DEF QueryCacheTypeOK, worldVars
<1>8. CleanSearches'
  <2>1. ASSUME NEW u \in QcSearchers PROVE SearchOK(qcSearch[u])'
    <3>1. PICK q : q = qcSearch'[u]
      OBVIOUS
    <3>2. SearchOK(q)
      <4>1. CASE u = t
        BY <1>2, <1>4, <3>1, <4>1 DEF SearchOK
      <4>2. CASE u # t
        BY <1>4, <3>1, <4>2 DEF QueryCacheInv, CleanSearches, SearchOK
      <4> QED
        BY <4>1, <4>2
    <3>3. Fresh(q.scope)' = Fresh(q.scope) /\ QcQuiet' = QcQuiet
      BY <1>0, FreshSame
    <3>4. SearchOK(q)'
      BY <3>2, <3>3 DEF SearchOK
    <3> QED
      BY <3>1, <3>4 DEF SearchOK
  <2> QED
    BY <2>1 DEF CleanSearches, SearchOK
<1>9. CleanEntries'
  <2>1. ASSUME NEW k \in DOMAIN qcCache', qcCache'[k].clean PROVE EntryOK(k)'
    <3>0. Settled(k)' = Settled(k) /\ QcQuiet' = QcQuiet /\ UNCHANGED <<qcWrite, qcSilent>>
      BY <1>0, FreshSame DEF worldVars
    <3>1. CASE k = s
      <4>1. QcQuiet /\ qcSearch[t].found.lexical = Fresh(s).lexical
            /\ qcSearch[t].found.vector = Fresh(s).vector
        BY <1>0, <1>5, <1>6, <2>1, <3>1 DEF SearchOK
      <4>2. qcSearch[t].found \in Answers /\ Fresh(s) \in Answers
        BY <1>0, FreshType DEF SearcherOK
      <4>3. qcSearch[t].found = Fresh(s)
        BY <4>1, <4>2, AnswersEqual
      <4>4. qcCache'[k].found = Settled(k)'
        BY <1>5, <1>6, <3>0, <3>1, <4>1, <4>3, QuietSettled
      <4>5. \A w \in QcWriters : qcWrite'[w].pc = "idle"
        BY <3>0, <4>1 DEF QcQuiet
      <4> QED
        BY <4>4, <4>5 DEF EntryOK
    <3>2. CASE k # s
      <4>1. EntryOK(k) /\ qcCache'[k] = qcCache[k]
        BY <1>5, <2>1, <3>2 DEF QueryCacheInv, CleanEntries, EntryOK
      <4>2. \A w \in QcWriters : Written(w)' = Written(w) /\ Announcing(w)' = Announcing(w)
        BY <3>0 DEF Written, Announcing
      <4> QED
        BY <3>0, <4>1, <4>2 DEF EntryOK
    <3> QED
      BY <3>1, <3>2
  <2> QED
    BY <2>1 DEF CleanEntries, EntryOK
<1>10. \A u \in QcSearchers : qcSearch'[u].pc # "evict" => qcSearch'[u].victims = {}
  BY <1>2, <1>4 DEF QueryCacheInv
<1> QED
  BY <1>7, <1>8, <1>9, <1>10, PutKeeps DEF QueryCacheInv

(***************************************************************************)
(* QueryCache: writers.                                                    *)
(***************************************************************************)

\* Time passes, or nothing happens.
LEMMA StillKeeps ==
    ASSUME QueryCacheInv, CacheKept, UNCHANGED worldVars, UNCHANGED qcSearch
    PROVE  QueryCacheInv'
<1>1. QueryCacheTypeOK'
  <2>1. IsFiniteSet(DOMAIN qcCache') /\ DOMAIN qcCache' \subseteq QcScopes
    BY FS_Subset DEF CacheKept, QueryCacheTypeOK, QueryCacheInv
  <2> QED
    BY <2>1 DEF QueryCacheInv, QueryCacheTypeOK, CacheKept, worldVars
<1>2. CleanSearches'
  <2>1. ASSUME NEW u \in QcSearchers PROVE SearchOK(qcSearch[u])'
    <3>1. SearchOK(qcSearch[u])
      BY DEF QueryCacheInv, CleanSearches, SearchOK
    <3>2. PICK q : q = qcSearch[u] /\ q = qcSearch'[u]
      OBVIOUS
    <3>3. Fresh(q.scope)' = Fresh(q.scope) /\ QcQuiet' = QcQuiet
      BY FreshSame
    <3>4. SearchOK(q)'
      BY <3>1, <3>2, <3>3 DEF SearchOK
    <3> QED
      BY <3>2, <3>4 DEF SearchOK
  <2> QED
    BY <2>1 DEF CleanSearches, SearchOK
<1>3. CleanEntries'
  <2>1. ASSUME NEW k \in DOMAIN qcCache', qcCache'[k].clean PROVE EntryOK(k)'
    <3>1. EntryOK(k)
      BY <2>1 DEF QueryCacheInv, CleanEntries, EntryOK, CacheKept
    <3> QED
      BY <3>1, EntrySame
  <2> QED
    BY <2>1 DEF CleanEntries, EntryOK
<1>4. RoomKept'
  <2>1. Ready' = Ready /\ Evicting' = Evicting /\ ScopesOf(Preparing)' = ScopesOf(Preparing)
    BY DEF Ready, Evicting, ScopesOf, Preparing
  <2> QED
    BY <2>1, RoomStays DEF QueryCacheInv
<1> QED
  BY <1>1, <1>2, <1>3, <1>4 DEF QueryCacheInv

LEMMA ExpireKeeps ==
    ASSUME QueryCacheInv, Expire
    PROVE  QueryCacheInv'
<1>1. PICK k \in DOMAIN qcCache : qcCache' = [qcCache EXCEPT ![k].expired = TRUE]
  BY DEF Expire
<1>2. CacheKept
  <2>1. DOMAIN qcCache' = DOMAIN qcCache
    BY <1>1
  <2>2. ASSUME NEW j \in DOMAIN qcCache
        PROVE  qcCache'[j] = IF j = k THEN [qcCache[k] EXCEPT !.expired = TRUE] ELSE qcCache[j]
    BY <1>1
  <2>3. \A j \in DOMAIN qcCache :
           qcCache[j] \in [found : Answers, expired : BOOLEAN, clean : BOOLEAN, id : EntryIds]
    BY DEF QueryCacheInv, QueryCacheTypeOK
  <2> QED
    BY <1>1, <2>1, <2>2, <2>3 DEF CacheKept
<1> QED
  BY <1>2, StillKeeps DEF Expire, worldVars

\* A writer's step: no search that is under way is clean after it.
LEMMA WriterStep ==
    ASSUME QueryCacheInv, NEW w \in QcWriters, NEW r, WriterOK(r),
           qcWrite' = [qcWrite EXCEPT ![w] = r], CacheKept,
           qcMemory' \subseteq QcContents, qcStored' \subseteq QcContents,
           (UNCHANGED qcSearch /\ qcWrite[w].pc # "idle") \/ Raced,
           \A k \in DOMAIN qcCache' : qcCache'[k].clean => EntryOK(k)'
    PROVE  QueryCacheInv'
<1>0. QueryCacheTypeOK
  BY DEF QueryCacheInv
<1>1. ASSUME NEW t \in QcSearchers
      PROVE  /\ SearcherOK(qcSearch[t])' /\ qcSearch'[t].pc = qcSearch[t].pc
             /\ qcSearch'[t].scope = qcSearch[t].scope /\ qcSearch'[t].victims = qcSearch[t].victims
             /\ qcSearch'[t].clean => qcSearch'[t].pc = "idle"
  <2>1. SearcherOK(qcSearch[t])
    BY <1>0, SearcherType
  <2>2. CASE UNCHANGED qcSearch /\ qcWrite[w].pc # "idle"
    <3>1. ~QcQuiet
      BY <2>2 DEF QcQuiet
    <3>2. qcSearch[t].clean => qcSearch[t].pc = "idle"
      BY <3>1 DEF QueryCacheInv, CleanSearches
    <3> QED
      BY <2>1, <2>2, <3>2 DEF SearcherOK
  <2>3. CASE Raced
    <3>1. PICK b \in BOOLEAN : b = (qcSearch[t].clean /\ qcSearch[t].pc = "idle")
      OBVIOUS
    <3>2. qcSearch'[t] = [qcSearch[t] EXCEPT !.clean = b]
      BY <2>1, <2>3, <3>1 DEF Raced, SearcherOK
    <3> QED
      BY <2>1, <3>1, <3>2 DEF SearcherOK
  <2> QED
    BY <2>2, <2>3
<1>2. QueryCacheTypeOK'
  <2>1. IsFiniteSet(DOMAIN qcCache') /\ DOMAIN qcCache' \subseteq QcScopes
    BY <1>0, FS_Subset DEF CacheKept, QueryCacheTypeOK
  <2>2. \E f : qcSearch' = [t \in QcSearchers |-> f[t]]
    <3>1. CASE UNCHANGED qcSearch
      BY <1>0, <3>1 DEF QueryCacheTypeOK
    <3>2. CASE Raced
      <4>1. qcSearch' = [t \in QcSearchers |-> qcSearch'[t]]
        BY <3>2 DEF Raced
      <4> QED
        BY <4>1
    <3> QED
      BY <3>1, <3>2
  <2>3. qcSearch' \in [QcSearchers ->
          [pc : {"idle", "lexical", "vector", "room", "evict", "put"},
           scope : QcScopes \cup {AllSessions}, nth : Nat, found : Answers, clean : BOOLEAN,
           victims : SUBSET (QcScopes \X EntryIds)]]
        /\ \A t \in QcSearchers : qcSearch'[t].pc # "idle" => qcSearch'[t].scope \in QcScopes
    BY <1>1, <2>2 DEF SearcherOK
  <2> QED
    BY <1>0, <2>1, <2>3, WritersOK DEF QueryCacheTypeOK, CacheKept
<1>3. CleanSearches'
  BY <1>1 DEF CleanSearches
<1>4. CleanEntries'
  BY DEF CleanEntries, EntryOK
<1>5. RoomKept'
  <2>1. Ready' = Ready /\ Evicting' = Evicting /\ ScopesOf(Preparing)' = ScopesOf(Preparing)
    BY <1>1 DEF Ready, Evicting, ScopesOf, Preparing
  <2>2. \A t \in Ready \cup Evicting :
          qcSearch'[t].scope = qcSearch[t].scope /\ qcSearch'[t].victims = qcSearch[t].victims
    BY <1>1 DEF Ready, Evicting
  <2> QED
    BY <1>0, <2>1, <2>2, RoomStays DEF QueryCacheInv
<1>6. \A t \in QcSearchers : qcSearch'[t].pc # "evict" => qcSearch'[t].victims = {}
  BY <1>1 DEF QueryCacheInv
<1> QED
  BY <1>2, <1>3, <1>4, <1>5, <1>6 DEF QueryCacheInv

\* What keeps an entry right when a writer steps.
LEMMA EntryStep ==
    ASSUME QueryCacheInv, NEW w \in QcWriters, CacheKept,
           \A v \in QcWriters \ {w} : qcWrite'[v] = qcWrite[v],
           NEW k \in DOMAIN qcCache', qcCache'[k].clean,
           Announcing(w) /\ Covers(k, Written(w)) => Announcing(w)' /\ Covers(k, Written(w)'),
           \A s \in qcSilent : Covers(k, s) => s \in qcSilent',
           \/ Settled(k)' = Settled(k)
           \/ \E s \in qcSilent' : Covers(k, s)
           \/ Announcing(w)' /\ Covers(k, Written(w)'),
           qcWrite'[w].pc = "unstore" => ~Covers(k, Written(w)')
    PROVE  EntryOK(k)'
<1>1. EntryOK(k) /\ qcCache'[k].found = qcCache[k].found
  BY DEF QueryCacheInv, CleanEntries, EntryOK, CacheKept
<1>2. \A v \in QcWriters \ {w} : Written(v)' = Written(v) /\ Announcing(v)' = Announcing(v)
  BY DEF Written, Announcing
<1>3. \/ \E s \in qcSilent' : Covers(k, s)
      \/ \E v \in QcWriters : Announcing(v)' /\ Covers(k, Written(v)')
      \/ qcCache'[k].found = Settled(k)'
  <2>1. CASE \E s \in qcSilent : Covers(k, s)
    BY <2>1
  <2>2. CASE \E v \in QcWriters : Announcing(v) /\ Covers(k, Written(v))
    BY <1>2, <2>2
  <2>3. CASE qcCache[k].found = Settled(k)
    BY <1>1, <2>3
  <2> QED
    BY <1>1, <2>1, <2>2, <2>3 DEF EntryOK
<1>4. \A v \in QcWriters : qcWrite'[v].pc = "unstore" => ~Covers(k, Written(v)')
  BY <1>1, <1>2 DEF EntryOK
<1> QED
  BY <1>3, <1>4 DEF EntryOK

\* A writer that may still take back what it added.
Doubtful(w) == qcWrite[w].pc = "persist" /\ qcWrite[w].fresh

LEMMA UndecidedOthers ==
    ASSUME NEW w \in QcWriters, \A v \in QcWriters \ {w} : qcWrite'[v] = qcWrite[v], NEW c,
           Doubtful(w) => c # qcWrite[w].content, Doubtful(w)' => c # qcWrite'[w].content
    PROVE  c \in Undecided' <=> c \in Undecided
  BY DEF Undecided, Doubtful

LEMMA UndecidedSame ==
    ASSUME NEW w \in QcWriters, \A v \in QcWriters \ {w} : qcWrite'[v] = qcWrite[v],
           ~Doubtful(w), ~Doubtful(w)'
    PROVE  Undecided' = Undecided
  BY DEF Undecided, Doubtful

LEMMA SettledSame ==
    ASSUME NEW k, UNCHANGED <<qcBackend, qcStored>>, qcMemory' \ Undecided' = qcMemory \ Undecided
    PROVE  Settled(k)' = Settled(k)
  BY DEF Settled, InScope

\* An entry that does not cover a session does not see its contents.
LEMMA SettledApart ==
    ASSUME NEW k, NEW s, ~Covers(k, s), UNCHANGED qcBackend,
           \A c : QcHome[c] # s => /\ c \in qcStored' <=> c \in qcStored
                                   /\ c \in qcMemory' \ Undecided' <=> c \in qcMemory \ Undecided
    PROVE  Settled(k)' = Settled(k)
<1>1. ASSUME NEW c, k.tag = "global" \/ QcHome[c] \in k.sessions PROVE QcHome[c] # s
  BY <1>1 DEF Covers
<1> QED
  BY <1>1 DEF Settled, InScope

LEMMA StepWriteIs ==
    ASSUME QueryCacheTypeOK, NEW w \in QcWriters,
           NEW pc \in {"idle", "change", "persist", "drop", "invalidate", "unstore"}, StepWrite(w, pc)
    PROVE  \E r : /\ WriterOK(r) /\ qcWrite' = [qcWrite EXCEPT ![w] = r]
                  /\ qcWrite'[w] = r /\ r.pc = pc /\ r.content = qcWrite[w].content
                  /\ \A v \in QcWriters \ {w} : qcWrite'[v] = qcWrite[v]
<1>1. PICK r : r = [qcWrite[w] EXCEPT !.pc = pc]
  OBVIOUS
<1>2. WriterOK(qcWrite[w])
  BY WriterType
<1>3. WriterOK(r) /\ r.pc = pc /\ r.content = qcWrite[w].content
  BY <1>1, <1>2 DEF WriterOK
<1>4. qcWrite' = [qcWrite EXCEPT ![w] = r]
  BY <1>1 DEF StepWrite
<1> QED
  BY <1>3, <1>4, WritersOK

LEMMA EndWriteIs ==
    ASSUME QueryCacheTypeOK, NEW w \in QcWriters, EndWrite(w)
    PROVE  \E r : /\ WriterOK(r) /\ qcWrite' = [qcWrite EXCEPT ![w] = r]
                  /\ qcWrite'[w] = r /\ r.pc = "idle"
                  /\ \A v \in QcWriters \ {w} : qcWrite'[v] = qcWrite[v]
<1>1. PICK r : r = [QcResting EXCEPT !.left = qcWrite[w].left - 1]
  OBVIOUS
<1>2. qcWrite[w].left - 1 \in Int
  BY WriterType DEF WriterOK
<1>3. WriterOK(r)
  BY <1>1, <1>2, RestingOK
<1>4. r.pc = "idle"
  BY <1>1 DEF QcResting
<1>5. qcWrite' = [qcWrite EXCEPT ![w] = r]
  BY <1>1 DEF EndWrite
<1> QED
  BY <1>3, <1>4, <1>5, WritersOK

LEMMA BeginWriteKeeps ==
    ASSUME QueryCacheInv, NEW w \in QcWriters, BeginWrite(w)
    PROVE  QueryCacheInv'
<1>0. QueryCacheTypeOK /\ qcWrite[w].pc = "idle" /\ WriterOK(qcWrite[w])
      /\ UNCHANGED <<qcBackend, qcMemory, qcStored, qcCache, qcSilent>> /\ Raced
  BY WriterType DEF QueryCacheInv, BeginWrite
<1>1. PICK kind \in Kinds, c \in QcContents :
        qcWrite' = [qcWrite EXCEPT ![w].pc = "change", ![w].kind = kind, ![w].content = c]
  BY DEF BeginWrite
<1>2. PICK r : r = [qcWrite[w] EXCEPT !.pc = "change", !.kind = kind, !.content = c]
  OBVIOUS
<1>3. WriterOK(r) /\ r.pc = "change"
  BY <1>0, <1>1, <1>2 DEF WriterOK
<1>4. qcWrite' = [qcWrite EXCEPT ![w] = r]
  BY <1>0, <1>1, <1>2 DEF QueryCacheTypeOK
<1>5. qcWrite'[w] = r /\ \A v \in QcWriters \ {w} : qcWrite'[v] = qcWrite[v]
  BY <1>0, <1>3, <1>4, WritersOK
<1>6. CacheKept
  BY <1>0, SameCacheKept
<1>7. ASSUME NEW k \in DOMAIN qcCache', qcCache'[k].clean PROVE EntryOK(k)'
  <2>1. Undecided' = Undecided
    BY <1>0, <1>3, <1>5, UndecidedSame DEF Doubtful
  <2>2. Settled(k)' = Settled(k)
    BY <1>0, <2>1, SettledSame
  <2>3. ~Announcing(w) /\ qcWrite'[w].pc # "unstore"
    BY <1>0, <1>3, <1>5 DEF Announcing
  <2> QED
    BY <1>0, <1>5, <1>6, <1>7, <2>2, <2>3, EntryStep
<1>8. qcMemory' \subseteq QcContents /\ qcStored' \subseteq QcContents
  BY <1>0 DEF QueryCacheTypeOK
<1> QED
  BY <1>0, <1>3, <1>4, <1>6, <1>7, <1>8, WriterStep

LEMMA AddVectorsKeeps ==
    ASSUME QueryCacheInv, NEW w \in QcWriters, AddVectors(w)
    PROVE  QueryCacheInv'
<1>0. QueryCacheTypeOK /\ qcWrite[w].pc = "change" /\ WriterOK(qcWrite[w])
      /\ UNCHANGED <<qcBackend, qcStored, qcCache, qcSearch, qcSilent>>
  BY WriterType DEF QueryCacheInv, AddVectors
<1>1. CacheKept
  BY <1>0, SameCacheKept
<1>2. PICK r : /\ WriterOK(r) /\ qcWrite' = [qcWrite EXCEPT ![w] = r]
               /\ r.pc \in {"persist", "idle"} /\ qcMemory' \subseteq QcContents
               /\ \/ /\ r.pc = "persist" /\ qcMemory' = qcMemory \cup {qcWrite[w].content}
                     /\ r.content = qcWrite[w].content
                     /\ r.fresh = (qcWrite[w].content \notin qcMemory)
                  \/ r.pc = "idle" /\ qcMemory' = qcMemory
  <2>1. CASE /\ qcMemory' = qcMemory \cup {qcWrite[w].content}
             /\ qcWrite' = [qcWrite EXCEPT ![w].pc = "persist",
                                           ![w].fresh = qcWrite[w].content \notin qcMemory]
    <3>1. PICK b \in BOOLEAN : b = (qcWrite[w].content \notin qcMemory)
      OBVIOUS
    <3>2. PICK r : r = [qcWrite[w] EXCEPT !.pc = "persist", !.fresh = b]
      OBVIOUS
    <3>3. WriterOK(r) /\ r.pc = "persist" /\ r.content = qcWrite[w].content /\ r.fresh = b
      BY <1>0, <3>1, <3>2 DEF WriterOK
    <3>4. qcWrite' = [qcWrite EXCEPT ![w] = r]
      BY <1>0, <2>1, <3>1, <3>2 DEF QueryCacheTypeOK
    <3>5. qcMemory' \subseteq QcContents
      BY <1>0, <2>1 DEF QueryCacheTypeOK, WriterOK
    <3> QED
      BY <2>1, <3>1, <3>3, <3>4, <3>5
  <2>2. CASE UNCHANGED qcMemory /\ EndWrite(w)
    BY <1>0, <2>2, EndWriteIs DEF QueryCacheTypeOK
  <2> QED
    BY <2>1, <2>2 DEF AddVectors
<1>3. qcWrite'[w] = r /\ \A v \in QcWriters \ {w} : qcWrite'[v] = qcWrite[v]
  BY <1>0, <1>2, WritersOK
<1>4. qcMemory' \ Undecided' = qcMemory \ Undecided
  <2>0. ~Doubtful(w)
    BY <1>0 DEF Doubtful
  <2>1. CASE r.pc = "idle" \/ ~r.fresh
    <3>1. Undecided' = Undecided
      BY <1>3, <2>0, <2>1, UndecidedSame DEF Doubtful
    <3>2. qcMemory' = qcMemory
      BY <1>2, <2>1
    <3> QED
      BY <3>1, <3>2
  <2>2. CASE r.pc # "idle" /\ r.fresh
    <3>1. /\ qcMemory' = qcMemory \cup {qcWrite[w].content} /\ qcWrite[w].content \notin qcMemory
          /\ r.content = qcWrite[w].content /\ r.pc = "persist"
      BY <1>2, <2>2
    <3>2. qcWrite[w].content \in Undecided'
      BY <1>3, <2>2, <3>1 DEF Undecided
    <3>3. \A c : c # qcWrite[w].content => (c \in Undecided' <=> c \in Undecided)
      BY <1>3, <3>1, UndecidedOthers
    <3> QED
      BY <3>1, <3>2, <3>3
  <2> QED
    BY <2>1, <2>2
<1>5. ASSUME NEW k \in DOMAIN qcCache', qcCache'[k].clean PROVE EntryOK(k)'
  <2>1. Settled(k)' = Settled(k)
    BY <1>0, <1>4, SettledSame
  <2>2. ~Announcing(w) /\ qcWrite'[w].pc # "unstore"
    BY <1>0, <1>2, <1>3 DEF Announcing
  <2> QED
    BY <1>0, <1>1, <1>3, <1>5, <2>1, <2>2, EntryStep
<1>6. qcStored' \subseteq QcContents
  BY <1>0 DEF QueryCacheTypeOK
<1> QED
  BY <1>0, <1>1, <1>2, <1>5, <1>6, WriterStep

LEMMA PersistVectorsKeeps ==
    ASSUME QueryCacheInv, NEW w \in QcWriters, PersistVectors(w)
    PROVE  QueryCacheInv'
<1> DEFINE c == qcWrite[w].content
<1>0. QueryCacheTypeOK /\ qcWrite[w].pc = "persist" /\ WriterOK(qcWrite[w]) /\ ~Announcing(w)
      /\ UNCHANGED <<qcBackend, qcCache, qcSearch>>
  BY WriterType DEF QueryCacheInv, PersistVectors, Announcing
<1>1. CacheKept
  BY <1>0, SameCacheKept
<1>2. PICK r : /\ WriterOK(r) /\ qcWrite' = [qcWrite EXCEPT ![w] = r] /\ qcWrite'[w] = r
               /\ r.pc \in {"idle", "invalidate"} /\ (r.pc # "idle" => r.content = c)
               /\ \A v \in QcWriters \ {w} : qcWrite'[v] = qcWrite[v]
               /\ \/ /\ qcStored' = qcStored \cup {c} /\ qcMemory' = qcMemory
                     /\ \/ qcSilent' = qcSilent \cup {QcHome[c]}
                        \/ qcSilent' = qcSilent /\ r.pc = "invalidate"
                  \/ /\ qcMemory' = IF qcWrite[w].fresh THEN qcMemory \ {c} ELSE qcMemory
                     /\ UNCHANGED <<qcStored, qcSilent>>
  <2>1. \/ /\ qcStored' = qcStored \cup {c} /\ qcMemory' = qcMemory
           /\ qcSilent' = IF qcWrite[w].kind = "entities" THEN qcSilent \cup {QcHome[c]} ELSE qcSilent
           /\ IF qcWrite[w].kind = "entities" THEN EndWrite(w) ELSE StepWrite(w, "invalidate")
        \/ /\ qcMemory' = IF qcWrite[w].fresh THEN qcMemory \ {c} ELSE qcMemory
           /\ UNCHANGED <<qcStored, qcSilent>>
           /\ IF qcWrite[w].kind = "messages" THEN StepWrite(w, "invalidate") ELSE EndWrite(w)
    BY DEF PersistVectors
  <2>2. CASE EndWrite(w)
    <3>1. PICK r : /\ WriterOK(r) /\ qcWrite' = [qcWrite EXCEPT ![w] = r] /\ qcWrite'[w] = r
                   /\ r.pc = "idle" /\ \A v \in QcWriters \ {w} : qcWrite'[v] = qcWrite[v]
      BY <1>0, <2>2, EndWriteIs
    <3>2. ~StepWrite(w, "invalidate")
      <4>1. ASSUME StepWrite(w, "invalidate") PROVE FALSE
        <5>1. PICK q : qcWrite'[w] = q /\ q.pc = "invalidate"
          BY <1>0, <4>1, StepWriteIs
        <5> QED
          BY <3>1, <5>1
      <4> QED
        BY <4>1
    <3> QED
      BY <2>1, <3>1, <3>2
  <2>3. CASE StepWrite(w, "invalidate")
    <3>1. PICK r : /\ WriterOK(r) /\ qcWrite' = [qcWrite EXCEPT ![w] = r] /\ qcWrite'[w] = r
                   /\ r.pc = "invalidate" /\ r.content = c
                   /\ \A v \in QcWriters \ {w} : qcWrite'[v] = qcWrite[v]
      BY <1>0, <2>3, StepWriteIs
    <3> QED
      BY <2>1, <3>1
  <2> QED
    BY <2>1, <2>2, <2>3
<1>3. ~Doubtful(w)' /\ \A x : x # c => (x \in Undecided' <=> x \in Undecided)
  <2>1. ~Doubtful(w)'
    BY <1>2 DEF Doubtful
  <2> QED
    BY <1>2, <2>1, UndecidedOthers
<1>4. ASSUME NEW k \in DOMAIN qcCache', qcCache'[k].clean PROVE EntryOK(k)'
  <2>1. qcWrite'[w].pc # "unstore" /\ \A s \in qcSilent : s \in qcSilent'
    BY <1>2
  <2>2. \/ Settled(k)' = Settled(k)
        \/ \E s \in qcSilent' : Covers(k, s)
        \/ Announcing(w)' /\ Covers(k, Written(w)')
    <3>1. CASE qcStored' = qcStored \cup {c} /\ qcMemory' = qcMemory
                 /\ (qcSilent' = qcSilent \cup {QcHome[c]} \/ (qcSilent' = qcSilent /\ r.pc = "invalidate"))
      <4>1. CASE Covers(k, QcHome[c])
        <5>1. CASE qcSilent' = qcSilent \cup {QcHome[c]}
          BY <4>1, <5>1
        <5>2. CASE r.pc = "invalidate"
          BY <1>2, <4>1, <5>2 DEF Announcing, Written
        <5> QED
          BY <3>1, <5>1, <5>2
      <4>2. CASE ~Covers(k, QcHome[c])
        <5>1. \A x : QcHome[x] # QcHome[c] =>
                /\ x \in qcStored' <=> x \in qcStored
                /\ x \in qcMemory' \ Undecided' <=> x \in qcMemory \ Undecided
          BY <1>3, <3>1
        <5> QED
          BY <1>0, <4>2, <5>1, SettledApart
      <4> QED
        BY <4>1, <4>2
    <3>2. CASE /\ qcMemory' = IF qcWrite[w].fresh THEN qcMemory \ {c} ELSE qcMemory
               /\ UNCHANGED <<qcStored, qcSilent>>
      <4>1. qcMemory' \ Undecided' = qcMemory \ Undecided
        <5>1. CASE qcWrite[w].fresh
          <6>1. c \in Undecided
            BY <1>0, <5>1 DEF Undecided
          <6> QED
            BY <1>3, <3>2, <5>1, <6>1
        <5>2. CASE ~qcWrite[w].fresh
          <6>1. Undecided' = Undecided
            BY <1>2, <1>3, <5>2, UndecidedSame DEF Doubtful
          <6> QED
            BY <3>2, <5>2, <6>1
        <5> QED
          BY <5>1, <5>2
      <4> QED
        BY <1>0, <3>2, <4>1, SettledSame
    <3> QED
      BY <1>2, <3>1, <3>2
  <2> QED
    BY <1>0, <1>1, <1>2, <1>4, <2>1, <2>2, EntryStep
<1>5. qcMemory' \subseteq QcContents /\ qcStored' \subseteq QcContents
  BY <1>0, <1>2 DEF QueryCacheTypeOK, WriterOK
<1> QED
  BY <1>0, <1>1, <1>2, <1>4, <1>5, WriterStep

LEMMA DeleteStoredKeeps ==
    ASSUME QueryCacheInv, NEW w \in QcWriters, DeleteStored(w)
    PROVE  QueryCacheInv'
<1>0. QueryCacheTypeOK /\ qcWrite[w].pc = "change" /\ WriterOK(qcWrite[w]) /\ ~Announcing(w)
      /\ UNCHANGED <<qcBackend, qcMemory, qcCache, qcSearch, qcSilent>>
  BY WriterType DEF QueryCacheInv, DeleteStored, Announcing
<1>1. CacheKept
  BY <1>0, SameCacheKept
<1>2. PICK r : /\ WriterOK(r) /\ qcWrite' = [qcWrite EXCEPT ![w] = r] /\ qcWrite'[w] = r
               /\ r.pc \in {"idle", "drop"}
               /\ \A v \in QcWriters \ {w} : qcWrite'[v] = qcWrite[v]
               /\ \/ /\ qcStored' = {c \in qcStored : QcHome[c] # Written(w)}
                     /\ r.pc = "drop" /\ r.content = qcWrite[w].content
                  \/ qcStored' = qcStored
  <2>1. CASE qcStored' = {c \in qcStored : QcHome[c] # Written(w)} /\ StepWrite(w, "drop")
    BY <1>0, <2>1, StepWriteIs
  <2>2. CASE UNCHANGED qcStored /\ EndWrite(w)
    BY <1>0, <2>2, EndWriteIs
  <2> QED
    BY <2>1, <2>2 DEF DeleteStored
<1>3. Undecided' = Undecided
  BY <1>0, <1>2, UndecidedSame DEF Doubtful
<1>4. ASSUME NEW k \in DOMAIN qcCache', qcCache'[k].clean PROVE EntryOK(k)'
  <2>1. Settled(k)' = Settled(k) \/ (Announcing(w)' /\ Covers(k, Written(w)'))
    <3>1. CASE qcStored' = qcStored
      BY <1>0, <1>3, <3>1, SettledSame
    <3>2. CASE /\ qcStored' = {c \in qcStored : QcHome[c] # Written(w)}
               /\ r.pc = "drop" /\ r.content = qcWrite[w].content
      <4>1. CASE Covers(k, Written(w))
        BY <1>2, <3>2, <4>1 DEF Announcing, Written
      <4>2. CASE ~Covers(k, Written(w))
        BY <1>0, <1>3, <3>2, <4>2, SettledApart
      <4> QED
        BY <4>1, <4>2
    <3> QED
      BY <1>2, <3>1, <3>2
  <2>2. qcWrite'[w].pc # "unstore"
    BY <1>2
  <2> QED
    BY <1>0, <1>1, <1>2, <1>4, <2>1, <2>2, EntryStep
<1>5. qcMemory' \subseteq QcContents /\ qcStored' \subseteq QcContents
  BY <1>0, <1>2 DEF QueryCacheTypeOK
<1> QED
  BY <1>0, <1>1, <1>2, <1>4, <1>5, WriterStep

LEMMA DropVectorsKeeps ==
    ASSUME QueryCacheInv, NEW w \in QcWriters, DropVectors(w)
    PROVE  QueryCacheInv'
<1>0. QueryCacheTypeOK /\ qcWrite[w].pc \in {"drop", "change"} /\ WriterOK(qcWrite[w])
      /\ StepWrite(w, "invalidate") /\ UNCHANGED <<qcBackend, qcStored, qcCache, qcSearch, qcSilent>>
  BY WriterType DEF QueryCacheInv, DropVectors
<1>1. CacheKept
  BY <1>0, SameCacheKept
<1>2. PICK r : /\ WriterOK(r) /\ qcWrite' = [qcWrite EXCEPT ![w] = r] /\ qcWrite'[w] = r
               /\ r.pc = "invalidate" /\ r.content = qcWrite[w].content
               /\ \A v \in QcWriters \ {w} : qcWrite'[v] = qcWrite[v]
  BY <1>0, StepWriteIs
<1>3. qcMemory' \subseteq qcMemory /\ \A c \in qcMemory \ qcMemory' : QcHome[c] = Written(w)
  BY DEF DropVectors, Written
<1>4. Undecided' = Undecided
  BY <1>0, <1>2, UndecidedSame DEF Doubtful
<1>5. ASSUME NEW k \in DOMAIN qcCache', qcCache'[k].clean PROVE EntryOK(k)'
  <2>1. Announcing(w)' /\ Written(w)' = Written(w) /\ qcWrite'[w].pc # "unstore"
    BY <1>2 DEF Announcing, Written
  <2>2. Settled(k)' = Settled(k) \/ Covers(k, Written(w))
    <3>1. CASE ~Covers(k, Written(w))
      <4>1. \A c : QcHome[c] # Written(w) =>
              /\ c \in qcStored' <=> c \in qcStored
              /\ c \in qcMemory' \ Undecided' <=> c \in qcMemory \ Undecided
        BY <1>0, <1>3, <1>4
      <4> QED
        BY <1>0, <3>1, <4>1, SettledApart
    <3> QED
      BY <3>1
  <2> QED
    BY <1>0, <1>1, <1>2, <1>5, <2>1, <2>2, EntryStep
<1>6. qcMemory' \subseteq QcContents /\ qcStored' \subseteq QcContents
  BY <1>0, <1>3 DEF QueryCacheTypeOK
<1> QED
  BY <1>0, <1>1, <1>2, <1>5, <1>6, WriterStep

LEMMA InvalidateKeeps ==
    ASSUME QueryCacheInv, NEW w \in QcWriters, InvalidateSession(w)
    PROVE  QueryCacheInv'
<1>0. QueryCacheTypeOK /\ qcWrite[w].pc = "invalidate" /\ WriterOK(qcWrite[w])
      /\ qcSilent' = qcSilent \ {Written(w)} /\ UNCHANGED <<qcBackend, qcMemory, qcStored, qcSearch>>
  BY WriterType DEF QueryCacheInv, InvalidateSession
<1>1. CacheKept /\ \A k \in DOMAIN qcCache' : ~Covers(k, Written(w))
  <2>1. PICK gone : gone = {k \in DOMAIN qcCache : Covers(k, Written(w))}
    OBVIOUS
  <2>2. qcCache' = Without(gone)
    BY <2>1 DEF InvalidateSession
  <2>3. CacheKept /\ DOMAIN qcCache' = DOMAIN qcCache \ gone
    BY <1>0, <2>2, WithoutKept
  <2> QED
    BY <2>1, <2>3
<1>2. PICK r : /\ WriterOK(r) /\ qcWrite' = [qcWrite EXCEPT ![w] = r] /\ qcWrite'[w] = r
               /\ r.pc \in {"idle", "unstore"} /\ (r.pc = "unstore" => r.content = qcWrite[w].content)
               /\ \A v \in QcWriters \ {w} : qcWrite'[v] = qcWrite[v]
  <2>1. CASE StepWrite(w, "unstore")
    BY <1>0, <2>1, StepWriteIs
  <2>2. CASE EndWrite(w)
    <3>1. PICK r : /\ WriterOK(r) /\ qcWrite' = [qcWrite EXCEPT ![w] = r] /\ qcWrite'[w] = r
                   /\ r.pc = "idle" /\ \A v \in QcWriters \ {w} : qcWrite'[v] = qcWrite[v]
      BY <1>0, <2>2, EndWriteIs
    <3> QED
      BY <3>1
  <2> QED
    BY <2>1, <2>2 DEF InvalidateSession
<1>3. Undecided' = Undecided
  BY <1>0, <1>2, UndecidedSame DEF Doubtful
<1>4. ASSUME NEW k \in DOMAIN qcCache', qcCache'[k].clean PROVE EntryOK(k)'
  <2>1. Settled(k)' = Settled(k)
    BY <1>0, <1>3, SettledSame
  <2>2. ~Covers(k, Written(w))
    BY <1>1
  <2>3. \A s \in qcSilent : Covers(k, s) => s \in qcSilent'
    BY <1>0, <2>2
  <2>4. qcWrite'[w].pc = "unstore" => ~Covers(k, Written(w)')
    BY <1>2, <2>2 DEF Written
  <2> QED
    BY <1>0, <1>1, <1>2, <1>4, <2>1, <2>2, <2>3, <2>4, EntryStep
<1>5. qcMemory' \subseteq QcContents /\ qcStored' \subseteq QcContents
  BY <1>0 DEF QueryCacheTypeOK
<1> QED
  BY <1>0, <1>1, <1>2, <1>4, <1>5, WriterStep

LEMMA RemoveStoredKeeps ==
    ASSUME QueryCacheInv, NEW w \in QcWriters, RemoveStored(w)
    PROVE  QueryCacheInv'
<1>0. QueryCacheTypeOK /\ qcWrite[w].pc = "unstore" /\ WriterOK(qcWrite[w]) /\ EndWrite(w)
      /\ UNCHANGED <<qcBackend, qcMemory, qcCache, qcSearch, qcSilent>>
  BY WriterType DEF QueryCacheInv, RemoveStored
<1>1. CacheKept
  BY <1>0, SameCacheKept
<1>2. PICK r : /\ WriterOK(r) /\ qcWrite' = [qcWrite EXCEPT ![w] = r] /\ qcWrite'[w] = r
               /\ r.pc = "idle" /\ \A v \in QcWriters \ {w} : qcWrite'[v] = qcWrite[v]
  BY <1>0, EndWriteIs
<1>3. Undecided' = Undecided
  BY <1>0, <1>2, UndecidedSame DEF Doubtful
<1>4. qcStored' \subseteq qcStored /\ \A c \in qcStored \ qcStored' : QcHome[c] = Written(w)
  BY DEF RemoveStored, Written
<1>5. ASSUME NEW k \in DOMAIN qcCache', qcCache'[k].clean PROVE EntryOK(k)'
  <2>1. ~Covers(k, Written(w))
    BY <1>0, <1>5 DEF QueryCacheInv, CleanEntries
  <2>2. \A c : QcHome[c] # Written(w) =>
          /\ c \in qcStored' <=> c \in qcStored
          /\ c \in qcMemory' \ Undecided' <=> c \in qcMemory \ Undecided
    BY <1>0, <1>3, <1>4
  <2>3. Settled(k)' = Settled(k)
    BY <1>0, <2>1, <2>2, SettledApart
  <2>4. qcWrite'[w].pc # "unstore"
    BY <1>2
  <2> QED
    BY <1>0, <1>1, <1>2, <1>5, <2>1, <2>3, <2>4, EntryStep
<1>6. qcMemory' \subseteq QcContents /\ qcStored' \subseteq QcContents
  BY <1>0, <1>4 DEF QueryCacheTypeOK
<1> QED
  BY <1>0, <1>1, <1>2, <1>5, <1>6, WriterStep

LEMMA ClearCacheKeeps ==
    ASSUME QueryCacheInv, NEW w \in QcWriters, ClearCache(w)
    PROVE  QueryCacheInv'
<1>0. QueryCacheTypeOK /\ qcWrite[w].pc = "change" /\ EndWrite(w) /\ qcCache' = <<>>
      /\ UNCHANGED <<qcBackend, qcMemory, qcStored, qcSearch>>
  BY DEF QueryCacheInv, ClearCache
<1>1. DOMAIN qcCache' = {}
  BY <1>0
<1>2. CacheKept
  BY <1>1 DEF CacheKept
<1>3. PICK r : WriterOK(r) /\ qcWrite' = [qcWrite EXCEPT ![w] = r]
  BY <1>0, EndWriteIs
<1>4. qcMemory' \subseteq QcContents /\ qcStored' \subseteq QcContents
  BY <1>0 DEF QueryCacheTypeOK
<1> QED
  BY <1>0, <1>1, <1>2, <1>3, <1>4, WriterStep

(***************************************************************************)
(* QueryCache: the theorem.                                                *)
(***************************************************************************)

LEMMA QueryCacheInitInv ==
    ASSUME QueryCacheInit PROVE QueryCacheInv
<1>1. QueryCacheTypeOK
  BY QueryCacheInitType
<1>2. \A t \in QcSearchers : qcSearch[t].pc = "idle" /\ qcSearch[t].victims = {}
  BY DEF QueryCacheInit, QcIdle
<1>3. DOMAIN qcCache = {}
  BY DEF QueryCacheInit
<1>4. CleanSearches /\ CleanEntries
  BY <1>2, <1>3 DEF CleanSearches, CleanEntries
<1>5. RoomKept
  <2>1. Ready = {} /\ Evicting = {}
    BY <1>2 DEF Ready, Evicting
  <2>2. DOMAIN qcCache \cup ScopesOf(Ready) = {}
    BY <1>3, <2>1 DEF ScopesOf
  <2>3. Bounded({})
    <3>1. Cardinality(QcSearchers) \in Nat /\ QcMaxSize \in Nat \ {0} /\ Cardinality({}) = 0
      BY QueryCacheAssumption, FS_CardinalityType, FS_EmptySet
    <3> QED
      BY <3>1 DEF Bounded
  <2> QED
    BY <2>1, <2>2, <2>3 DEF RoomKept
<1> QED
  BY <1>1, <1>2, <1>4, <1>5 DEF QueryCacheInv

LEMMA QueryCacheStepInv ==
    ASSUME QueryCacheInv, [QueryCacheNext]_queryCacheVars
    PROVE  QueryCacheInv'
<1>1. CASE UNCHANGED queryCacheVars
  <2>1. UNCHANGED worldVars /\ UNCHANGED <<qcCache, qcSearch>>
    BY <1>1 DEF queryCacheVars, worldVars
  <2>2. CacheKept
    BY <2>1, SameCacheKept DEF QueryCacheInv
  <2> QED
    BY <2>1, <2>2, StillKeeps
<1>2. ASSUME NEW t \in QcSearchers,
             \/ Lookup(t) \/ LexicalSearch(t) \/ VectorSearch(t)
             \/ MakeRoom(t) \/ Evict(t) \/ Put(t)
      PROVE  QueryCacheInv'
  BY <1>2, LookupKeeps, LexicalKeeps, VectorKeeps, RoomTestKeeps, EvictionKeeps, InsertKeeps
<1>3. ASSUME NEW w \in QcWriters,
             \/ BeginWrite(w) \/ AddVectors(w) \/ PersistVectors(w) \/ DeleteStored(w)
             \/ DropVectors(w) \/ InvalidateSession(w) \/ RemoveStored(w) \/ ClearCache(w)
      PROVE  QueryCacheInv'
  BY <1>3, BeginWriteKeeps, AddVectorsKeeps, PersistVectorsKeeps, DeleteStoredKeeps,
     DropVectorsKeeps, InvalidateKeeps, RemoveStoredKeeps, ClearCacheKeeps
<1>4. CASE Expire
  BY <1>4, ExpireKeeps
<1> QED
  BY <1>1, <1>2, <1>3, <1>4 DEF QueryCacheNext

\* The query cache is sound (query_cache.rs): while no writer runs, an answer
\* cached by a search no writer overlapped, and over whose sessions nothing was
\* written unannounced since, is the answer the search would compute now; and
\* concurrent inserts overshoot max_cache_size by fewer entries than there are
\* searches.
THEOREM CacheIsSound == QueryCacheSpec => []CacheSound
<1>1. QueryCacheInv => CacheSound
  <2> SUFFICES ASSUME QueryCacheInv PROVE CacheSound
    OBVIOUS
  <2>1. CacheCoherent
    <3> SUFFICES ASSUME QcQuiet, NEW k \in DOMAIN qcCache, qcCache[k].clean,
                        ~(\E s \in qcSilent : Covers(k, s))
                 PROVE  qcCache[k].found = Fresh(k)
      BY DEF CacheCoherent
    <3>1. ~(\E w \in QcWriters : Announcing(w))
      BY DEF QcQuiet, Announcing
    <3>2. qcCache[k].found = Settled(k)
      BY <3>1 DEF QueryCacheInv, CleanEntries
    <3> QED
      BY <3>2, QuietSettled
  <2>2. CacheBounded
    <3>1. Bounded(DOMAIN qcCache)
      BY KeysFinite, BoundedSubset, Ready \in SUBSET QcSearchers DEF QueryCacheInv, RoomKept, Ready
    <3> QED
      BY <3>1 DEF CacheBounded, Bounded
  <2> QED
    BY <2>1, <2>2 DEF CacheSound
<1> QED
  BY <1>1, QueryCacheInitInv, QueryCacheStepInv, PTL DEF QueryCacheSpec

(***************************************************************************)
(* TextChunks.                                                             *)
(***************************************************************************)

LEMMA MaxIsGreatest ==
    ASSUME NEW S \in SUBSET Nat, S # {}, NEW n \in Nat, \A x \in S : x <= n
    PROVE  Max(S) \in S /\ \A y \in S : y <= Max(S)
<1>1. PICK m \in S : \A y \in S : y <= m
  BY GreatestNat
<1>2. \A y \in S : m >= y
  BY <1>1
<1> QED
  BY <1>1, <1>2 DEF Max

LEMMA MinIsLeast ==
    ASSUME NEW S \in SUBSET Nat, S # {}
    PROVE  Min(S) \in S /\ \A y \in S : Min(S) <= y
<1>1. PICK m \in S : \A y \in S : m <= y
  BY LeastNat
<1> QED
  BY <1>1 DEF Min

LEMMA HalfOf ==
    ASSUME NEW n \in Nat \ {0, 1}
    PROVE  n \div 2 \in Nat /\ 1 <= n \div 2 /\ n \div 2 < n
  OBVIOUS

\* A window ends with the text, at the last space of its second half, or, when
\* that half has none, after size characters.
LEMMA WindowEnds ==
    ASSUME ChunksTypeOK, NEW start \in Nat, start < tcText.chars
    PROVE  LET end == WindowEnd(start)
               half == start + tcText.size \div 2
               far == start + tcText.size
           IN  /\ end \in Nat /\ start < end /\ end <= far /\ end <= tcText.chars
               /\ \/ end = tcText.chars
                  \/ /\ end \in tcText.spaces /\ half <= end /\ end < far
                     /\ \A c \in tcText.spaces : half <= c /\ c < far => c <= end
                  \/ end = far /\ \A c \in tcText.spaces : ~(half <= c /\ c < far)
<1> DEFINE half == start + tcText.size \div 2
           far == start + tcText.size
           cuts == {c \in half .. far - 1 : c \in tcText.spaces}
<1>0. tcText.chars \in Nat /\ tcText.size \in Nat \ {0, 1} /\ tcText.spaces \subseteq Nat
  BY DEF ChunksTypeOK
<1>1. tcText.size \div 2 \in Nat /\ 1 <= tcText.size \div 2 /\ tcText.size \div 2 < tcText.size
  BY <1>0, HalfOf
<1>2. half \in Nat /\ far \in Nat /\ start < half /\ half < far
  BY <1>0, <1>1
<1>3. WindowEnd(start) = IF far >= tcText.chars THEN tcText.chars
                         ELSE IF cuts # {} THEN Max(cuts) ELSE far
  BY DEF WindowEnd
<1>4. \A c : c \in cuts <=> c \in tcText.spaces /\ half <= c /\ c < far
  BY <1>0, <1>2
<1>5. CASE far >= tcText.chars
  BY <1>0, <1>2, <1>3, <1>5
<1>6. CASE ~(far >= tcText.chars) /\ cuts # {}
  <2>1. cuts \in SUBSET Nat /\ \A x \in cuts : x <= far
    BY <1>0, <1>2
  <2>2. Max(cuts) \in cuts /\ \A y \in cuts : y <= Max(cuts)
    BY <1>2, <1>6, <2>1, MaxIsGreatest
  <2>3. WindowEnd(start) = Max(cuts)
    BY <1>3, <1>6
  <2>4. PICK m : m = Max(cuts)
    OBVIOUS
  <2> HIDE DEF cuts
  <2>5. m \in tcText.spaces /\ half <= m /\ m < far /\ m \in Nat
    BY <1>0, <1>4, <2>2, <2>4
  <2>6. \A c \in tcText.spaces : half <= c /\ c < far => c <= m
    BY <1>4, <2>2, <2>4
  <2>7. start < m /\ m <= far /\ m <= tcText.chars
    BY <1>0, <1>2, <1>6, <2>5
  <2> HIDE DEF half, far
  <2> QED
    BY <2>3, <2>4, <2>5, <2>6, <2>7 DEF half, far
<1>7. CASE ~(far >= tcText.chars) /\ cuts = {}
  <2>1. WindowEnd(start) = far
    BY <1>3, <1>7
  <2>2. \A c \in tcText.spaces : ~(half <= c /\ c < far)
    BY <1>4, <1>7
  <2> QED
    BY <1>0, <1>2, <1>7, <2>1, <2>2
<1> QED
  BY <1>5, <1>6, <1>7

\* The next window starts inside the last one, after its start, at its end or
\* behind one of its spaces.
LEMMA NextStarts ==
    ASSUME ChunksTypeOK, NEW start \in Nat, NEW end \in Nat, start < end
    PROVE  LET next == NextStart(start, end)
           IN  /\ next \in Nat /\ start < next /\ next <= end
               /\ \/ next = end
                  \/ next - 1 \in tcText.spaces /\ start < next - 1 /\ next - 1 < end
<1> DEFINE S == {Monus(end, tcText.overlap), start + 1}
           spaces == {c \in tcText.spaces : Max(S) <= c /\ c < end}
<1>0. tcText.overlap \in Nat /\ tcText.spaces \subseteq Nat
  BY DEF ChunksTypeOK
<1>1. Monus(end, tcText.overlap) \in Nat /\ Monus(end, tcText.overlap) <= end
  BY <1>0 DEF Monus
<1>2. S \in SUBSET Nat /\ S # {} /\ \A x \in S : x <= end
  BY <1>1
<1>3. Max(S) \in S /\ \A y \in S : y <= Max(S)
  BY <1>2, MaxIsGreatest
<1>4. Max(S) \in Nat /\ start + 1 <= Max(S)
  BY <1>2, <1>3
<1>5. NextStart(start, end) = IF spaces = {} THEN end ELSE Min(spaces) + 1
  BY DEF NextStart
<1>6. CASE spaces = {}
  <2>1. NextStart(start, end) = end
    BY <1>5, <1>6
  <2> HIDE DEF spaces, S
  <2> QED
    BY <2>1
<1>7. CASE spaces # {}
  <2>1. spaces \in SUBSET Nat
    BY <1>0
  <2>2. Min(spaces) \in spaces
    BY <1>7, <2>1, MinIsLeast
  <2>3. PICK m : m = Min(spaces)
    OBVIOUS
  <2>4. m \in tcText.spaces /\ m \in Nat /\ Max(S) <= m /\ m < end
    BY <1>0, <2>2, <2>3
  <2>5. start < m
    BY <1>4, <2>4
  <2>6. NextStart(start, end) = m + 1
    BY <1>5, <1>7, <2>3
  <2>7. m + 1 - 1 = m
    BY <2>4
  <2> HIDE DEF spaces, S
  <2> QED
    BY <2>4, <2>5, <2>6, <2>7
<1> QED
  BY <1>6, <1>7

\* A window ends no earlier than the one before it.
LEMMA EndsGrow ==
    ASSUME ChunksTypeOK, NEW from \in Nat, from < tcText.chars, NEW to, to = WindowEnd(from),
           to < tcText.chars, NEW start, start = NextStart(from, to)
    PROVE  to <= WindowEnd(start)
<1> DEFINE h == tcText.size \div 2
<1>0. tcText.chars \in Nat /\ tcText.size \in Nat \ {0, 1} /\ tcText.spaces \subseteq Nat
  BY DEF ChunksTypeOK
<1>1. h \in Nat
  BY <1>0, HalfOf
<1>2. /\ to \in Nat /\ from < to /\ to <= from + tcText.size
      /\ \/ to \in tcText.spaces /\ to < from + tcText.size
         \/ to = from + tcText.size /\ \A c \in tcText.spaces : ~(from + h <= c /\ c < from + tcText.size)
  BY <1>0, WindowEnds
<1>3. start \in Nat /\ from < start /\ start <= to
  BY <1>2, NextStarts
<1>4. start < tcText.chars
  BY <1>0, <1>2, <1>3
<1>5. PICK end : end = WindowEnd(start)
  OBVIOUS
<1>6. /\ end \in Nat
      /\ \/ end = tcText.chars
         \/ /\ end \in tcText.spaces /\ start + h <= end /\ end < start + tcText.size
            /\ \A c \in tcText.spaces : start + h <= c /\ c < start + tcText.size => c <= end
         \/ end = start + tcText.size
  BY <1>3, <1>4, <1>5, WindowEnds
<1> HIDE DEF h
<1>7. to <= end
  <2>1. CASE end = tcText.chars
    BY <1>0, <1>2, <2>1
  <2>2. CASE end = start + tcText.size
    BY <1>0, <1>2, <1>3, <2>2
  <2>3. CASE /\ end \in tcText.spaces /\ start + h <= end /\ end < start + tcText.size
             /\ \A c \in tcText.spaces : start + h <= c /\ c < start + tcText.size => c <= end
    <3>1. CASE to \in tcText.spaces /\ to < from + tcText.size
      <4>1. CASE start + h <= to
        <5>1. to < start + tcText.size
          BY <1>0, <1>2, <1>3, <3>1
        <5> QED
          BY <2>3, <3>1, <4>1, <5>1
      <4>2. CASE ~(start + h <= to)
        BY <1>1, <1>2, <1>3, <1>6, <2>3, <4>2
      <4> QED
        BY <4>1, <4>2
    <3>2. CASE to = from + tcText.size /\ \A c \in tcText.spaces : ~(from + h <= c /\ c < from + tcText.size)
      <4>1. ~(from + h <= end /\ end < from + tcText.size)
        BY <2>3, <3>2
      <4>2. from + h <= end
        BY <1>1, <1>3, <1>6, <2>3
      <4> QED
        BY <1>0, <1>2, <1>6, <3>2, <4>1, <4>2
    <3> QED
      BY <1>2, <3>1, <3>2
  <2> QED
    BY <1>6, <2>1, <2>2, <2>3
<1> QED
  BY <1>5, <1>7

LEMMA OneMore ==
    ASSUME NEW S, NEW q \in Seq(S), NEW x \in S
    PROVE  LET p == Append(q, x)
           IN  /\ p \in Seq(S) /\ Len(p) = Len(q) + 1 /\ p # <<>> /\ p[Len(q) + 1] = x
               /\ \A k \in 1 .. Len(q) : p[k] = q[k]
               /\ DOMAIN q = 1 .. Len(q) /\ DOMAIN p = 1 .. Len(q) + 1
  OBVIOUS

LEMMA ChunksInitInv ==
    ASSUME ChunksInit PROVE ChunksInv
<1>1. PICK n \in 0 .. MaxChars : \E spaces \in SUBSET (0 .. n - 1), size \in ChunkSizes, overlap \in ChunkOverlaps :
        tcText = [chars |-> n, spaces |-> spaces, size |-> size, overlap |-> overlap]
  BY DEF ChunksInit
<1>2. PICK spaces \in SUBSET (0 .. n - 1), size \in ChunkSizes, overlap \in ChunkOverlaps :
        tcText = [chars |-> n, spaces |-> spaces, size |-> size, overlap |-> overlap]
  BY <1>1
<1>3. n \in Nat /\ spaces \in SUBSET Nat /\ size \in Nat \ {0, 1} /\ overlap \in Nat
  BY <1>1, <1>2, TextChunksAssumption
<1>4. tcStart = 0 /\ tcWindows = <<>>
  BY DEF ChunksInit
<1>5. ChunksTypeOK
  BY <1>2, <1>3, <1>4 DEF ChunksTypeOK
<1>6. LastLeads /\ ChunksCover
  BY <1>4 DEF LastLeads, ChunksCover
<1> QED
  BY <1>5, <1>6 DEF ChunksInv

\* One window more.
LEMMA CutWindowKeeps ==
    ASSUME ChunksInv, CutWindow
    PROVE  ChunksInv'
<1> DEFINE n == Len(tcWindows)
<1>0. /\ ChunksTypeOK /\ tcText' = tcText /\ tcText.chars \in Nat /\ tcText.size \in Nat \ {0, 1}
      /\ tcText.spaces \subseteq Nat /\ tcStart \in Nat /\ tcWindows \in Seq(Nat \X Nat) /\ n \in Nat
  BY DEF ChunksInv, ChunksTypeOK, CutWindow
<1>1. PICK end : end = EndOf(tcStart)
  OBVIOUS
<1>2. PICK next : next = IF end >= tcText.chars THEN tcText.chars ELSE NextStart(tcStart, end)
  OBVIOUS
<1>3. tcWindows' = Append(tcWindows, <<tcStart, end>>) /\ tcStart' = next
  BY <1>1, <1>2 DEF CutWindow, EndOf
<1>4. (WholeText => tcStart = 0 /\ tcWindows = <<>>) /\ (~WholeText => tcStart < tcText.chars)
  <2>1. CASE tcWindows = <<>>
    <3>1. tcStart = 0
      BY <2>1 DEF ChunksInv, LastLeads
    <3> QED
      BY <1>0, <2>1, <3>1 DEF WholeText
  <2>2. CASE tcWindows # <<>>
    <3>1. tcStart < tcText.chars
      BY <2>2 DEF CutWindow
    <3>2. ASSUME WholeText PROVE FALSE
      <4>1. tcWindows[n][2] = tcText.chars
        BY <2>2, <3>2 DEF ChunksInv, LastLeads, EndOf
      <4>2. tcStart = tcText.chars
        BY <1>0, <2>2, <4>1 DEF ChunksInv, LastLeads
      <4> QED
        BY <1>0, <3>1, <4>2
    <3> QED
      BY <3>1, <3>2
  <2> QED
    BY <2>1, <2>2
<1>5. /\ end \in Nat /\ end <= tcText.chars /\ end - tcStart <= tcText.size
      /\ tcStart < end \/ tcText.chars = 0
      /\ tcText.chars = 0 => end = 0
  <2>1. CASE WholeText
    <3>1. end = tcText.chars /\ tcStart = 0
      BY <1>1, <1>4, <2>1 DEF EndOf
    <3> QED
      BY <1>0, <2>1, <3>1 DEF WholeText
  <2>2. CASE ~WholeText
    <3>1. end = WindowEnd(tcStart) /\ tcStart < tcText.chars
      BY <1>1, <1>4, <2>2 DEF EndOf
    <3>2. end \in Nat /\ tcStart < end /\ end <= tcStart + tcText.size /\ end <= tcText.chars
      BY <1>0, <3>1, WindowEnds
    <3> QED
      BY <1>0, <3>1, <3>2
  <2> QED
    BY <2>1, <2>2
<1>6. next \in Nat /\ next <= end /\ next <= tcText.chars /\ (tcStart < next \/ tcText.chars = 0)
  <2>1. CASE end >= tcText.chars
    BY <1>0, <1>2, <1>5, <2>1
  <2>2. CASE ~(end >= tcText.chars)
    <3>1. tcStart < end /\ next = NextStart(tcStart, end)
      BY <1>0, <1>2, <1>5, <2>2
    <3>2. next \in Nat /\ tcStart < next /\ next <= end
      BY <1>0, <1>5, <3>1, NextStarts
    <3>3. end \in Nat /\ end <= tcText.chars /\ tcText.chars \in Nat
      BY <1>0, <1>5
    <3>4. next <= tcText.chars
      BY <3>2, <3>3
    <3> QED
      BY <3>2, <3>4
  <2> QED
    BY <2>1, <2>2
<1>7. /\ tcWindows' \in Seq(Nat \X Nat) /\ Len(tcWindows') = n + 1 /\ tcWindows' # <<>>
      /\ tcWindows'[n + 1] = <<tcStart, end>> /\ \A k \in 1 .. n : tcWindows'[k] = tcWindows[k]
      /\ DOMAIN tcWindows = 1 .. n /\ DOMAIN tcWindows' = 1 .. n + 1
  <2>1. <<tcStart, end>> \in Nat \X Nat
    BY <1>0, <1>5
  <2>2. PICK w \in Nat \X Nat : w = <<tcStart, end>>
    BY <2>1
  <2>3. PICK S : S = Nat \X Nat
    OBVIOUS
  <2>4. w \in S /\ tcWindows \in Seq(S)
    BY <1>0, <2>2, <2>3
  <2>5. PICK p : p = Append(tcWindows, w)
    OBVIOUS
  <2>6. /\ p \in Seq(S) /\ Len(p) = n + 1 /\ p # <<>> /\ p[n + 1] = w
        /\ \A k \in 1 .. n : p[k] = tcWindows[k]
        /\ DOMAIN tcWindows = 1 .. n /\ DOMAIN p = 1 .. n + 1
    BY <2>4, <2>5, OneMore
  <2>7. tcWindows' = p
    BY <1>3, <2>2, <2>5
  <2> HIDE DEF n
  <2> QED
    BY <2>2, <2>3, <2>6, <2>7, Zenon
<1>8. tcWindows'[n + 1][1] = tcStart /\ tcWindows'[n + 1][2] = end
  BY <1>7
<1>9. ChunksTypeOK'
  BY <1>0, <1>3, <1>6, <1>7 DEF ChunksTypeOK
<1>10. EndOf(tcStart) = end /\ \A s : EndOf(s)' = EndOf(s)
  BY <1>0, <1>1 DEF EndOf, WholeText, WindowEnd
<1>11. LastLeads'
  <2>1. \A s, e : NextStart(s, e)' = NextStart(s, e)
    BY <1>0 DEF NextStart, Monus
  <2>2. WholeText' = WholeText
    BY <1>0 DEF WholeText
  <2>3. PICK from, to : from = tcWindows'[Len(tcWindows')][1] /\ to = tcWindows'[Len(tcWindows')][2]
    OBVIOUS
  <2>4. from = tcStart /\ to = end
    BY <1>7, <1>8, <2>3
  <2>5. EndOf(from)' = end /\ NextStart(from, to)' = NextStart(tcStart, end)
    BY <1>10, <2>1, <2>4
  <2>6. WholeText' \/ from < tcText'.chars
    BY <1>0, <1>4, <2>2, <2>4
  <2>7. tcStart' = IF to >= tcText'.chars THEN tcText'.chars ELSE NextStart(from, to)'
    BY <1>0, <1>2, <1>3, <2>4, <2>5
  <2> QED
    BY <1>7, <2>3, <2>4, <2>5, <2>6, <2>7 DEF LastLeads
<1>12. ChunksCover'
  <2>1. ASSUME NEW k \in DOMAIN tcWindows'
        PROVE  /\ tcWindows'[k][2] - tcWindows'[k][1] <= tcText.size
               /\ k > 1 => tcWindows'[k - 1][1] < tcWindows'[k][1] /\ tcWindows'[k - 1][2] <= tcWindows'[k][2]
    <3>0. k \in 1 .. n + 1
      BY <1>7
    <3>1. CASE k \in 1 .. n
      <4>1. k \in DOMAIN tcWindows /\ tcWindows'[k] = tcWindows[k]
        BY <1>7, <3>1
      <4>2. k > 1 => k - 1 \in 1 .. n
        <5>1. n \in Nat
          BY <1>0
        <5> HIDE DEF n
        <5> QED
          BY <3>1, <5>1
      <4>3. k > 1 => tcWindows'[k - 1] = tcWindows[k - 1]
        BY <1>7, <4>2
      <4>4. /\ tcWindows[k][2] - tcWindows[k][1] <= tcText.size
            /\ k > 1 => tcWindows[k - 1][1] < tcWindows[k][1] /\ tcWindows[k - 1][2] <= tcWindows[k][2]
        BY <4>1 DEF ChunksInv, ChunksCover
      <4> QED
        BY <4>1, <4>3, <4>4
    <3>2. CASE k = n + 1
      <4>1. tcWindows'[k][2] - tcWindows'[k][1] <= tcText.size
        BY <1>5, <1>8, <3>2
      <4>2. ASSUME k > 1
            PROVE  tcWindows'[k - 1][1] < tcWindows'[k][1] /\ tcWindows'[k - 1][2] <= tcWindows'[k][2]
        <5>1. n \in 1 .. n /\ tcWindows # <<>> /\ k - 1 = n
          BY <1>0, <3>2, <4>2
        <5>2. tcWindows'[k - 1] = tcWindows[n] /\ tcWindows[n] \in Nat \X Nat
          BY <1>0, <1>7, <5>1, SMTT(30)
        <5>3. ~WholeText /\ tcText.chars # 0
          BY <1>0, <1>4, <5>1 DEF WholeText
        <5>4. PICK from, to : from = tcWindows[n][1] /\ to = tcWindows[n][2]
          OBVIOUS
        <5>5. from \in Nat /\ to \in Nat
          BY <5>2, <5>4
        <5>6. from < tcStart
          BY <5>1, <5>3, <5>4 DEF ChunksInv, ChunksCover
        <5>7. to = WindowEnd(from) /\ from < tcText.chars
              /\ tcStart = IF to >= tcText.chars THEN tcText.chars ELSE NextStart(from, to)
          BY <5>1, <5>3, <5>4 DEF ChunksInv, LastLeads, EndOf
        <5>8. to < tcText.chars /\ tcStart = NextStart(from, to)
          BY <1>0, <1>4, <5>3, <5>5, <5>7
        <5>9. to <= WindowEnd(tcStart)
          BY <1>0, <5>5, <5>7, <5>8, EndsGrow
        <5>10. end = WindowEnd(tcStart)
          BY <1>1, <5>3 DEF EndOf
        <5> QED
          BY <1>8, <3>2, <5>2, <5>4, <5>6, <5>9, <5>10
      <4> QED
        BY <4>1, <4>2
    <3> QED
      BY <1>0, <3>0, <3>1, <3>2
  <2>2. tcWindows'[Len(tcWindows')][1] < tcStart' \/ tcText'.chars = 0
    BY <1>0, <1>3, <1>6, <1>7, <1>8
  <2>3. ASSUME NEW c \in 0 .. tcStart' - 1
        PROVE  \/ c \in tcText.spaces
               \/ \E k \in DOMAIN tcWindows' : tcWindows'[k][1] <= c /\ c < tcWindows'[k][2]
    <3>0. c \in Nat /\ c < next
      BY <1>3, <1>6, <2>3
    <3>1. CASE c < tcStart
      <4>1. c \in 0 .. tcStart - 1
        BY <1>0, <3>0, <3>1
      <4>2. \/ c \in tcText.spaces
            \/ \E k \in DOMAIN tcWindows : tcWindows[k][1] <= c /\ c < tcWindows[k][2]
        BY <4>1 DEF ChunksInv, ChunksCover
      <4>3. \A k \in DOMAIN tcWindows : k \in DOMAIN tcWindows' /\ tcWindows'[k] = tcWindows[k]
        <5>1. n \in Nat
          BY <1>0
        <5>2. \A k \in 1 .. n : k \in 1 .. n + 1
          BY <5>1
        <5> QED
          BY <1>7, <5>2
      <4> QED
        BY <4>2, <4>3
    <3>2. CASE ~(c < tcStart)
      <4>1. n + 1 \in DOMAIN tcWindows'
        BY <1>0, <1>7
      <4>2. tcStart <= c /\ c < end
        BY <1>0, <1>5, <1>6, <3>0, <3>2
      <4> QED
        BY <1>8, <4>1, <4>2
    <3> QED
      BY <3>1, <3>2
  <2> QED
    BY <1>0, <2>1, <2>2, <2>3 DEF ChunksCover
<1> QED
  BY <1>9, <1>11, <1>12 DEF ChunksInv

\* chunk_text loses nothing of a text of any length, whatever its white space,
\* window size and overlap: every character before the next window is in a
\* window or is white space, no window is longer than the size, and windows
\* start and end in order, so the loop makes progress.
THEOREM ChunksAreSound == ChunksSpec => []ChunksCover
<1>1. ChunksInit => ChunksInv
  BY ChunksInitInv
<1>2. ChunksInv /\ [ChunksNext]_chunkVars => ChunksInv'
  <2> SUFFICES ASSUME ChunksInv, [ChunksNext]_chunkVars PROVE ChunksInv'
    OBVIOUS
  <2>1. CASE CutWindow
    BY <2>1, CutWindowKeeps
  <2>2. CASE UNCHANGED chunkVars
    BY <2>2 DEF chunkVars, ChunksInv, ChunksTypeOK, LastLeads, ChunksCover, EndOf, WholeText,
                WindowEnd, NextStart, Monus
  <2> QED
    BY <2>1, <2>2 DEF ChunksNext
<1>3. ChunksInv => ChunksCover
  BY DEF ChunksInv
<1> QED
  BY <1>1, <1>2, <1>3, PTL DEF ChunksSpec

(***************************************************************************)
(* VectorDb: sequences of ids.                                             *)
(***************************************************************************)

\* A collected set of ids, in the order of the code's sorted list.
LEMMA AscendingIs ==
    ASSUME NEW ids \in SUBSET Nat, IsFiniteSet(ids)
    PROVE  Ascending(ids) \in Seq(Nat) /\ IdsIn(Ascending(ids)) = ids
<1>1. PICK n : n = Cardinality(ids)
  OBVIOUS
<1>2. n \in Nat
  BY <1>1, FS_CardinalityType
<1>3. PICK s : s = Ascending(ids)
  OBVIOUS
<1>4. s \in [1..n -> ids] /\ \A j, k \in DOMAIN s : j < k => s[j] < s[k]
  BY <1>1, <1>3, AscendingExists DEF Ascending
<1>5. s \in Seq(Nat)
  <2>1. \A k \in 1..n : s[k] \in Nat
    BY <1>4
  <2>2. s = [k \in 1..n |-> s[k]]
    BY <1>4
  <2>3. [k \in 1..n |-> s[k]] \in Seq(Nat)
    BY <1>2, <2>1
  <2> QED
    BY <2>2, <2>3
<1>6. s \in Injection(1..n, ids)
  <2>1. ASSUME NEW j \in 1..n, NEW k \in 1..n, s[j] = s[k] PROVE j = k
    <3>0. s[j] \in ids /\ s[k] \in ids
      BY <1>4
    <3>a. ids \subseteq Nat
      OBVIOUS
    <3>b. s[j] \in Nat /\ s[k] \in Nat
      BY <3>0, <3>a, Zenon
    <3>c. j \in Int /\ k \in Int
      BY <1>2
    <3>1. s[j] \in Nat /\ s[k] \in Nat /\ j \in Int /\ k \in Int
      BY <3>b, <3>c
    <3>2. DOMAIN s = 1..n
      BY <1>4
    <3>3. ~(j < k) /\ ~(k < j)
      BY <1>4, <2>1, <3>1, <3>2
    <3> QED
      BY <3>1, <3>3
  <2> QED
    BY <1>4, <2>1 DEF Injection, IsInjective
<1>7. IsFiniteSet(1..n) /\ Cardinality(1..n) = n
  BY <1>2, FS_Interval
<1>8. s \in Surjection(1..n, ids)
  BY <1>1, <1>6, <1>7, FS_Injection
<1>9. {s[k] : k \in DOMAIN s} = ids
  BY <1>4, <1>8 DEF Surjection
<1> QED
  BY <1>3, <1>5, <1>9 DEF IdsIn

\* The ids of a list are its head and those of its tail.
LEMMA TailIs ==
    ASSUME NEW s \in Seq(Nat), s # <<>>
    PROVE  /\ Head(s) \in Nat /\ Tail(s) \in Seq(Nat)
           /\ IdsIn(s) = IdsIn(Tail(s)) \cup {Head(s)}
           /\ Head(s) \in IdsIn(s) /\ IdsIn(Tail(s)) \subseteq IdsIn(s)
<1>1. Len(s) \in Nat /\ Len(s) > 0 /\ DOMAIN s = 1..Len(s) /\ Head(s) = s[1]
  OBVIOUS
<1>2. /\ Tail(s) \in Seq(Nat) /\ Len(Tail(s)) = Len(s) - 1
      /\ \A k \in 1..(Len(s) - 1) : Tail(s)[k] = s[k + 1]
  OBVIOUS
<1>3. DOMAIN Tail(s) = 1..(Len(s) - 1)
  BY <1>2
<1>4. Head(s) \in Nat /\ Head(s) \in IdsIn(s)
  BY <1>1 DEF IdsIn
<1>5. ASSUME NEW i \in IdsIn(Tail(s)) PROVE i \in IdsIn(s)
  <2>1. PICK k \in 1..(Len(s) - 1) : i = Tail(s)[k]
    BY <1>3 DEF IdsIn
  <2>2. i = s[k + 1] /\ k + 1 \in DOMAIN s
    BY <1>1, <1>2, <2>1
  <2> QED
    BY <2>2 DEF IdsIn
<1>6. ASSUME NEW i \in IdsIn(s), i # Head(s) PROVE i \in IdsIn(Tail(s))
  <2>1. PICK k \in DOMAIN s : i = s[k]
    BY DEF IdsIn
  <2>2. k # 1 /\ k \in 1..Len(s)
    BY <1>1, <1>6, <2>1
  <2>3. k - 1 \in 1..(Len(s) - 1) /\ (k - 1) + 1 = k
    BY <1>1, <2>2
  <2>4. Tail(s)[k - 1] = i
    BY <1>2, <2>1, <2>3
  <2> QED
    BY <1>3, <2>3, <2>4 DEF IdsIn
<1> QED
  BY <1>2, <1>4, <1>5, <1>6

\* A list without repetitions has none in its tail, which misses its head.
LEMMA TailDistinct ==
    ASSUME NEW s \in Seq(Nat), s # <<>>, \A j, k \in DOMAIN s : s[j] = s[k] => j = k
    PROVE  /\ \A j, k \in DOMAIN Tail(s) : Tail(s)[j] = Tail(s)[k] => j = k
           /\ Head(s) \notin IdsIn(Tail(s))
<1>1. Len(s) \in Nat /\ Len(s) > 0 /\ DOMAIN s = 1..Len(s) /\ Head(s) = s[1]
  OBVIOUS
<1>2. /\ Tail(s) \in Seq(Nat) /\ Len(Tail(s)) = Len(s) - 1
      /\ \A k \in 1..(Len(s) - 1) : Tail(s)[k] = s[k + 1]
  OBVIOUS
<1>3. DOMAIN Tail(s) = 1..(Len(s) - 1)
  BY <1>2
<1>4. ASSUME NEW k \in DOMAIN Tail(s)
      PROVE  k \in Int /\ Tail(s)[k] = s[k + 1] /\ k + 1 \in DOMAIN s /\ k + 1 # 1
  BY <1>1, <1>2, <1>3
<1>5. ASSUME NEW j \in DOMAIN Tail(s), NEW k \in DOMAIN Tail(s), Tail(s)[j] = Tail(s)[k] PROVE j = k
  <2>1. j + 1 = k + 1
    BY <1>4, <1>5
  <2> QED
    BY <1>4, <2>1
<1>6. Head(s) \notin IdsIn(Tail(s))
  <2> SUFFICES ASSUME NEW k \in DOMAIN Tail(s), Tail(s)[k] = Head(s) PROVE FALSE
    BY DEF IdsIn
  <2>1. 1 \in DOMAIN s
    BY <1>1
  <2> QED
    BY <1>1, <1>4, <2>1
<1> QED
  BY <1>5, <1>6

(***************************************************************************)
(* VectorDb: types, and what the step of one thread leaves alone.          *)
(***************************************************************************)

Places ==
    {"start", "index", "lock", "graph", "done"} \cup StoringAt \cup InsertingAt
       \cup BuildingAt \cup RemovingAt

Operations ==
    [pc : Places, todo : Seq(Nat), mine : SUBSET Nat, sel : SUBSET Nat,
     seen : EntryStates, found : EntryStates, layer : Nat]

\* What one thread may be doing.
OperationOK(t, r) ==
    /\ r \in Operations
    /\ IsFiniteSet(r.mine)
    /\ r.pc = "start" => r.mine = {}
    /\ r.pc \in {"describe", "vector", "metadata", "remove"} \cup InsertingAt => r.todo # <<>>
    /\ r.pc \in StoringAt =>
          /\ t \in VdLoaders /\ IdsIn(r.todo) \subseteq IdsIn(VdBatch[t])
          /\ \A j, k \in DOMAIN r.todo : r.todo[j] = r.todo[k] => j = k

LEMMA OperationType ==
    ASSUME VectorTypeOK, NEW t \in VdThreads
    PROVE  OperationOK(t, vdThread[t])
  BY DEF VectorTypeOK, OperationOK, Operations, Places

\* A thread's step changes no other thread.
LEMMA ThreadStep ==
    ASSUME VectorTypeOK, NEW t \in VdThreads, NEW r, vdThread' = [vdThread EXCEPT ![t] = r]
    PROVE  /\ vdThread'[t] = r
           /\ \A u \in VdThreads : u # t => vdThread'[u] = vdThread[u]
  BY DEF VectorTypeOK

LEMMA VectorTypeKept ==
    ASSUME VectorTypeOK, NEW t \in VdThreads, NEW r, OperationOK(t, r),
           vdThread' = [vdThread EXCEPT ![t] = r],
           vdIndexed' \subseteq Nat, vdVectors' \subseteq Nat, vdMetadata' \subseteq Nat,
           IsFiniteSet(vdIndexed'), IsFiniteSet(vdVectors'),
           DOMAIN vdLayers' \subseteq Nat, \A i \in DOMAIN vdLayers' : vdLayers'[i] \in Nat,
           vdEntry' \in EntryStates, vdActive' \in BOOLEAN
    PROVE  VectorTypeOK'
<1>1. ASSUME NEW u \in VdThreads PROVE OperationOK(u, vdThread'[u])
  BY ThreadStep, OperationType
<1>2. PICK S : S = Operations
  OBVIOUS
<1>3. vdThread \in [VdThreads -> S]
  BY <1>2 DEF VectorTypeOK, Operations, Places
<1>4. r \in S
  BY <1>2 DEF OperationOK
<1>5. vdThread' \in [VdThreads -> S]
  BY <1>3, <1>4
<1>6. ASSUME NEW u \in VdThreads
      PROVE  /\ IsFiniteSet(vdThread'[u].mine)
             /\ vdThread'[u].pc = "start" => vdThread'[u].mine = {}
             /\ vdThread'[u].pc \in {"describe", "vector", "metadata", "remove"} \cup InsertingAt =>
                   vdThread'[u].todo # <<>>
             /\ vdThread'[u].pc \in StoringAt =>
                   /\ u \in VdLoaders /\ IdsIn(vdThread'[u].todo) \subseteq IdsIn(VdBatch[u])
                   /\ \A j, k \in DOMAIN vdThread'[u].todo :
                         vdThread'[u].todo[j] = vdThread'[u].todo[k] => j = k
  BY <1>1, <1>6, Zenon DEF OperationOK
<1> QED
  BY <1>2, <1>5, <1>6 DEF VectorTypeOK, Operations, Places, IdsIn, StoringAt, InsertingAt

\* What a thread that does not move has ahead of it, and owes.
LEMMA ThreadSame ==
    ASSUME NEW u, vdThread'[u] = vdThread[u]
    PROVE  /\ Ahead(u)' = Ahead(u) /\ Next1(u)' = Next1(u)
           /\ \A i : Owes(u, i)' <=> Owes(u, i)
  BY DEF Ahead, Next1, Owes, IdsIn, StoringAt, BuildingAt

\* A stored vector that is not in the graph is still owed after the step of t
\* when it was owed by another thread, or is owed by t.
LEMMA AccountedKept ==
    ASSUME VectorTypeOK, Accounted, NEW t \in VdThreads, NEW r,
           vdThread' = [vdThread EXCEPT ![t] = r], vdActive' => vdActive,
           vdVectors' \subseteq vdVectors,
           vdVectors' \cap DOMAIN vdLayers \subseteq DOMAIN vdLayers',
           \A i \in vdVectors' \ DOMAIN vdLayers' : Owes(t, i) => Owes(t, i)'
    PROVE  Accounted'
<1> SUFFICES ASSUME vdActive', NEW i \in vdVectors' \ DOMAIN vdLayers'
             PROVE  \E u \in VdThreads : Owes(u, i)'
  BY DEF Accounted
<1>1. i \in vdVectors \ DOMAIN vdLayers
  OBVIOUS
<1>2. PICK u \in VdThreads : Owes(u, i)
  BY <1>1 DEF Accounted
<1>3. CASE u = t
  BY <1>2, <1>3
<1>4. CASE u # t
  <2>1. vdThread'[u] = vdThread[u]
    BY <1>4, ThreadStep
  <2>2. Owes(u, i)' <=> Owes(u, i)
    BY <2>1, ThreadSame
  <2> QED
    BY <1>2, <2>2
<1> QED
  BY <1>3, <1>4

\* A step that leaves the maps alone.
LEMMA MapsKept ==
    ASSUME VectorTypeOK, NeverStored, RemovedStays, IndexedFirst, NEW t \in VdThreads, NEW r,
           vdThread' = [vdThread EXCEPT ![t] = r], UNCHANGED mapVars,
           Ahead(t)' \subseteq Ahead(t),
           r.pc # "metadata", r.pc # "vector",
           r.pc \in RemovingAt => r.mine = {} \/ (vdThread[t].pc \in RemovingAt /\ r.mine = vdThread[t].mine)
    PROVE  NeverStored' /\ RemovedStays' /\ IndexedFirst'
<1>0. vdVectors' = vdVectors /\ vdMetadata' = vdMetadata /\ vdIndexed' = vdIndexed
  BY DEF mapVars
<1>1. vdThread'[t] = r
  BY ThreadStep
<1>2. ASSUME NEW u \in VdThreads, u # t
      PROVE  vdThread'[u] = vdThread[u] /\ Ahead(u)' = Ahead(u) /\ Next1(u)' = Next1(u)
  <2>1. vdThread'[u] = vdThread[u]
    BY <1>2, ThreadStep
  <2> QED
    BY <2>1, ThreadSame
<1>3. \A u \in VdThreads : Ahead(u)' \subseteq Ahead(u)
  BY <1>2
<1>4. \A u \in VdThreads : vdThread'[u].pc \in RemovingAt =>
         \/ vdThread'[u].mine = {}
         \/ vdThread[u].pc \in RemovingAt /\ vdThread'[u].mine = vdThread[u].mine
  BY <1>1, <1>2
<1>5. NeverStored'
  <2>1. ASSUME NEW v \in VdThreads
        PROVE  /\ Ahead(v)' \cap (vdVectors' \cup vdMetadata') = {}
               /\ vdThread'[v].pc = "metadata" => Next1(v)' \notin vdMetadata'
               /\ \A u \in VdThreads : vdThread'[u].pc \in RemovingAt =>
                     Ahead(v)' \cap vdThread'[u].mine = {}
    <3>1. /\ Ahead(v) \cap (vdVectors \cup vdMetadata) = {}
          /\ vdThread[v].pc = "metadata" => Next1(v) \notin vdMetadata
          /\ \A u \in VdThreads : vdThread[u].pc \in RemovingAt => Ahead(v) \cap vdThread[u].mine = {}
      BY DEF NeverStored
    <3>2. Ahead(v)' \cap (vdVectors' \cup vdMetadata') = {}
      BY <1>0, <1>3, <3>1
    <3>3. vdThread'[v].pc = "metadata" => Next1(v)' \notin vdMetadata'
      BY <1>0, <1>1, <1>2, <3>1
    <3>4. ASSUME NEW u \in VdThreads, vdThread'[u].pc \in RemovingAt
          PROVE  Ahead(v)' \cap vdThread'[u].mine = {}
      BY <1>3, <1>4, <3>1, <3>4
    <3> QED
      BY <3>2, <3>3, <3>4
  <2> QED
    BY <2>1 DEF NeverStored, RemovingAt
<1>6. RemovedStays'
  BY <1>0, <1>4 DEF RemovedStays, RemovingAt
<1>7. IndexedFirst'
  BY <1>0, <1>1, <1>2 DEF IndexedFirst
<1> QED
  BY <1>5, <1>6, <1>7

\* The cap: no vector is added and no loader admitted.
LEMMA CapKeeps ==
    ASSUME VectorTypeOK, CapReserved, NEW t \in VdThreads, NEW r,
           vdThread' = [vdThread EXCEPT ![t] = r],
           r.pc \in {"describe", "vector"} => vdThread[t].pc \in {"describe", "vector"},
           vdVectors' \subseteq vdVectors
    PROVE  CapReserved'
<1>1. Admitted' \subseteq Admitted
  <2>1. ASSUME NEW u \in Admitted' PROVE u \in Admitted
    <3>1. u \in VdLoaders /\ vdThread'[u].pc \in {"describe", "vector"} /\ u \in VdThreads
      BY DEF Admitted, VdThreads
    <3>2. vdThread[u].pc \in {"describe", "vector"}
      <4>1. CASE u = t
        BY <3>1, <4>1, ThreadStep
      <4>2. CASE u # t
        BY <3>1, <4>2, ThreadStep
      <4> QED
        BY <4>1, <4>2
    <3> QED
      BY <3>1, <3>2 DEF Admitted
  <2> QED
    BY <2>1
<1>2. PICK A, B, V, W : A = Admitted /\ B = Admitted' /\ V = vdVectors /\ W = vdVectors'
  OBVIOUS
<1>3. IsFiniteSet(VdLoaders) /\ A \in SUBSET VdLoaders
  BY <1>2, VectorDbAssumption DEF Admitted
<1>4. IsFiniteSet(A)
  BY <1>3, FS_Subset
<1>5. IsFiniteSet(B) /\ Cardinality(B) <= Cardinality(A)
  BY <1>1, <1>2, <1>4, FS_Subset
<1>6. IsFiniteSet(V)
  BY <1>2 DEF VectorTypeOK
<1>7. IsFiniteSet(W) /\ Cardinality(W) <= Cardinality(V)
  BY <1>2, <1>6, FS_Subset
<1>8. /\ Cardinality(A) \in Nat /\ Cardinality(B) \in Nat /\ Cardinality(V) \in Nat
      /\ Cardinality(W) \in Nat /\ Cardinality(VdLoaders) \in Nat /\ MaxVectors \in Nat
  BY <1>3, <1>4, <1>5, <1>6, <1>7, FS_CardinalityType, VectorDbAssumption
<1>9. Cardinality(V) + Cardinality(A) < MaxVectors + Cardinality(VdLoaders)
  BY <1>2 DEF CapReserved
<1>10. Cardinality(W) + Cardinality(B) < MaxVectors + Cardinality(VdLoaders)
  BY <1>5, <1>7, <1>8, <1>9
<1> QED
  BY <1>2, <1>10 DEF CapReserved

\* A thread that builds the graph owes it every stored vector.
LEMMA BuilderOwes ==
    ASSUME NEW t \in VdThreads, vdThread'[t].pc \in BuildingAt
    PROVE  Accounted'
<1>1. \A i : Owes(t, i)'
  BY DEF Owes, BuildingAt
<1> QED
  BY <1>1 DEF Accounted

\* A step that leaves the maps alone and ends outside of the storing of a
\* vector: what is left to show is that it keeps the accounts of the graph.
LEMMA QuietKeeps ==
    ASSUME VectorInv, NEW t \in VdThreads, NEW r, OperationOK(t, r), r.pc \notin StoringAt,
           vdThread' = [vdThread EXCEPT ![t] = r], UNCHANGED mapVars,
           DOMAIN vdLayers' \subseteq Nat, \A i \in DOMAIN vdLayers' : vdLayers'[i] \in Nat,
           vdEntry' \in EntryStates, vdActive' \in BOOLEAN,
           r.pc \in RemovingAt => r.mine = {} \/ (vdThread[t].pc \in RemovingAt /\ r.mine = vdThread[t].mine),
           Accounted'
    PROVE  VectorInv'
<1>0. VectorTypeOK /\ NeverStored /\ RemovedStays /\ IndexedFirst /\ Accounted /\ CapReserved
  BY DEF VectorInv
<1>1. vdVectors' = vdVectors /\ vdMetadata' = vdMetadata /\ vdIndexed' = vdIndexed
  BY DEF mapVars
<1>2. VectorTypeOK'
  <2>1. /\ vdIndexed' \subseteq Nat /\ vdVectors' \subseteq Nat /\ vdMetadata' \subseteq Nat
        /\ IsFiniteSet(vdIndexed') /\ IsFiniteSet(vdVectors')
    BY <1>0, <1>1 DEF VectorTypeOK
  <2> QED
    BY <1>0, <2>1, VectorTypeKept
<1>3. r.pc # "check" /\ r.pc # "describe" /\ r.pc # "vector" /\ r.pc # "metadata"
  BY DEF StoringAt
<1>4. vdThread'[t] = r
  BY <1>0, ThreadStep
<1>5. Ahead(t)' = {}
  BY <1>3, <1>4 DEF Ahead
<1>6. NeverStored' /\ RemovedStays' /\ IndexedFirst'
  BY <1>0, <1>3, <1>5, MapsKept
<1>7. CapReserved'
  BY <1>0, <1>1, <1>3, CapKeeps
<1> QED
  BY <1>2, <1>6, <1>7 DEF VectorInv

\* The fields of an operation.
LEMMA OperationFields ==
    ASSUME NEW t, NEW q, OperationOK(t, q)
    PROVE  /\ q.pc \in Places /\ q.todo \in Seq(Nat) /\ q.mine \in SUBSET Nat /\ q.sel \in SUBSET Nat
           /\ q.seen \in EntryStates /\ q.found \in EntryStates /\ q.layer \in Nat
           /\ IsFiniteSet(q.mine)
  BY DEF OperationOK, Operations

\* An operation that moves on, outside of the storing of a vector.
LEMMA MovedOK ==
    ASSUME NEW t, NEW q, OperationOK(t, q), NEW pc \in Places, pc \notin StoringAt, pc # "start",
           pc \in InsertingAt \cup {"remove"} => q.todo # <<>>,
           NEW r, r = [q EXCEPT !.pc = pc]
    PROVE  /\ OperationOK(t, r)
           /\ r.pc = pc /\ r.todo = q.todo /\ r.mine = q.mine
<1>1. q \in Operations
  BY DEF OperationOK
<1>2. r \in Operations
  BY <1>1 DEF Operations
<1>3. r.pc = pc /\ r.todo = q.todo /\ r.mine = q.mine
  BY <1>1 DEF Operations
<1> QED
  BY <1>2, <1>3 DEF OperationOK, StoringAt

\* An operation outside of the storing of a vector.
LEMMA OutsideOK ==
    ASSUME NEW t,
           NEW r \in Operations,
           IsFiniteSet(r.mine), r.pc \notin StoringAt, r.pc # "start",
           r.pc \in InsertingAt \cup {"remove"} => r.todo # <<>>
    PROVE  OperationOK(t, r)
  BY DEF OperationOK, StoringAt

\* Goto and Become are updates of one thread.
LEMMA GotoIs ==
    ASSUME VectorTypeOK, NEW t \in VdThreads, NEW pc, Goto(t, pc)
    PROVE  vdThread' = [vdThread EXCEPT ![t] = [vdThread[t] EXCEPT !.pc = pc]]
  BY DEF Goto

\* A list in the graph without its head, which is done with.
LEMMA TailOwed ==
    ASSUME NEW s \in Seq(Nat), s # <<>>, NEW i, i # Head(s)
    PROVE  i \in IdsIn(s) => i \in IdsIn(Tail(s))
  BY TailIs

(***************************************************************************)
(* VectorDb: the steps that leave the maps alone.                          *)
(***************************************************************************)

\* The live graph and the list of ids to bring into it.
LEMMA OwesInGraph ==
    ASSUME NEW t, vdThread[t].pc \in {"graph", "layer"}, NEW i
    PROVE  Owes(t, i) <=> i \in IdsIn(vdThread[t].todo)
  BY DEF Owes, StoringAt, BuildingAt

LEMMA OwesInserted ==
    ASSUME NEW t, vdThread[t].pc \in {"edges", "entry", "back"}, NEW i
    PROVE  Owes(t, i) <=> i \in IdsIn(Tail(vdThread[t].todo))
  BY DEF Owes, StoringAt, BuildingAt

LEMMA OwesToIndex ==
    ASSUME NEW t, vdThread[t].pc \in {"index", "lock", "check", "describe", "vector"}, NEW i
    PROVE  Owes(t, i) <=> i \in vdThread[t].mine
  BY DEF Owes, StoringAt, BuildingAt

LEMMA OwesNothing ==
    ASSUME NEW t, vdThread[t].pc \in {"start", "done"} \cup RemovingAt, NEW i
    PROVE  ~Owes(t, i)
  BY DEF Owes, StoringAt, BuildingAt, RemovingAt

\* The same of the state after a step.
LEMMA OwesInGraphNext ==
    ASSUME NEW t, vdThread'[t].pc \in {"graph", "layer"}, NEW i, i \in IdsIn(vdThread'[t].todo)
    PROVE  Owes(t, i)'
  BY DEF Owes, IdsIn

LEMMA OwesInsertedNext ==
    ASSUME NEW t, vdThread'[t].pc \in {"edges", "entry", "back"}, NEW i,
           i \in IdsIn(Tail(vdThread'[t].todo))
    PROVE  Owes(t, i)'
  BY DEF Owes, IdsIn

\* From the collected ids to the insertion into the live graph.
LEMMA ToGraph ==
    ASSUME VectorInv, NEW t \in VdThreads, vdThread[t].pc \in {"index", "lock"},
           Become(t, [vdThread[t] EXCEPT !.pc = "graph", !.todo = Ascending(vdThread[t].mine)]),
           UNCHANGED mapVars, vdLayers' = vdLayers, vdEntry' = vdEntry, vdActive' = vdActive
    PROVE  VectorInv'
<1>0. VectorTypeOK /\ Accounted
  BY DEF VectorInv
<1>1. PICK q : q = vdThread[t]
  OBVIOUS
<1>2. OperationOK(t, q)
  BY <1>0, <1>1, OperationType
<1>3. PICK todo : todo = Ascending(q.mine)
  OBVIOUS
<1>4. todo \in Seq(Nat) /\ IdsIn(todo) = q.mine
  BY <1>2, <1>3, OperationFields, AscendingIs
<1>5. PICK r : r = [q EXCEPT !.pc = "graph", !.todo = todo]
  OBVIOUS
<1>6. vdThread' = [vdThread EXCEPT ![t] = r]
  BY <1>1, <1>3, <1>5 DEF Become
<1>7. OperationOK(t, r) /\ r.pc = "graph" /\ r.todo = todo
  <2>1. /\ "graph" \in Places /\ "graph" \notin StoringAt /\ "graph" \notin InsertingAt \cup {"remove"}
        /\ "graph" # "start"
    BY DEF Places, StoringAt, InsertingAt
  <2>2. q \in Operations
    BY <1>2 DEF OperationOK
  <2>3. /\ r \in Operations
        /\ r.pc = "graph" /\ r.todo = todo /\ r.mine = q.mine
    BY <1>4, <1>5, <2>1, <2>2 DEF Operations
  <2> QED
    BY <1>2, <2>1, <2>3, OperationFields, OutsideOK
<1>8. /\ vdVectors' = vdVectors /\ vdLayers' = vdLayers /\ vdEntry' = vdEntry /\ vdActive' = vdActive
      /\ UNCHANGED mapVars
  BY DEF mapVars
<1>9. ASSUME NEW i, Owes(t, i) PROVE Owes(t, i)'
  <2>1. i \in q.mine
    BY <1>1, <1>9, OwesToIndex
  <2>2. vdThread'[t] = r
    BY <1>0, <1>6, ThreadStep
  <2> QED
    BY <1>4, <1>7, <2>1, <2>2, OwesInGraphNext
<1>10. Accounted'
  <2>1. \A i \in vdVectors' \ DOMAIN vdLayers' : Owes(t, i) => Owes(t, i)'
    BY <1>9
  <2>2. /\ vdActive' => vdActive
        /\ vdVectors' \subseteq vdVectors /\ vdVectors' \cap DOMAIN vdLayers \subseteq DOMAIN vdLayers'
    BY <1>8
  <2> QED
    BY <1>0, <1>6, <2>1, <2>2, AccountedKept
<1>11. r.pc \notin StoringAt /\ r.pc \notin RemovingAt
  BY <1>7 DEF StoringAt, RemovingAt
<1>12. /\ DOMAIN vdLayers' \subseteq Nat /\ \A i \in DOMAIN vdLayers' : vdLayers'[i] \in Nat
       /\ vdEntry' \in EntryStates /\ vdActive' \in BOOLEAN
  BY <1>0, <1>8 DEF VectorTypeOK
<1> QED
  BY <1>6, <1>7, <1>8, <1>10, <1>11, <1>12, QuietKeeps

\* A move of a thread that leaves the maps alone.
LEMMA MoveKeeps ==
    ASSUME VectorInv, NEW t \in VdThreads, NEW pc \in Places, pc \notin StoringAt, pc # "start",
           pc \in InsertingAt \cup {"remove"} => vdThread[t].todo # <<>>,
           pc \in RemovingAt => vdThread[t].pc \in RemovingAt,
           Goto(t, pc), UNCHANGED mapVars,
           DOMAIN vdLayers' \subseteq Nat, \A i \in DOMAIN vdLayers' : vdLayers'[i] \in Nat,
           vdEntry' \in EntryStates, vdActive' \in BOOLEAN, Accounted'
    PROVE  VectorInv'
<1>0. VectorTypeOK
  BY DEF VectorInv
<1>1. PICK q : q = vdThread[t]
  OBVIOUS
<1>2. OperationOK(t, q)
  BY <1>0, <1>1, OperationType
<1>3. PICK r : r = [q EXCEPT !.pc = pc]
  OBVIOUS
<1>4. vdThread' = [vdThread EXCEPT ![t] = r]
  BY <1>0, <1>1, <1>3, GotoIs
<1>5. OperationOK(t, r) /\ r.pc = pc /\ r.mine = q.mine
  BY <1>1, <1>2, <1>3, MovedOK
<1> QED
  BY <1>1, <1>4, <1>5, QuietKeeps

\* Where the thread is after a move, and what it has.
LEMMA Moved ==
    ASSUME VectorTypeOK, NEW t \in VdThreads, NEW pc, Goto(t, pc)
    PROVE  /\ vdThread'[t].pc = pc /\ vdThread'[t].todo = vdThread[t].todo
           /\ vdThread'[t].mine = vdThread[t].mine
<1>1. PICK q : q = vdThread[t]
  OBVIOUS
<1>2. vdThread'[t] = [q EXCEPT !.pc = pc]
  BY <1>1, GotoIs, ThreadStep
<1>3. q \in Operations
  BY <1>1, OperationType DEF OperationOK
<1> QED
  BY <1>1, <1>2, <1>3 DEF Operations

LEMMA GraphTypes ==
    ASSUME VectorTypeOK
    PROVE  /\ DOMAIN vdLayers \subseteq Nat /\ \A i \in DOMAIN vdLayers : vdLayers[i] \in Nat
           /\ vdEntry \in EntryStates /\ vdActive \in BOOLEAN
           /\ vdVectors \subseteq Nat /\ vdIndexed \subseteq Nat /\ vdMetadata \subseteq Nat
           /\ IsFiniteSet(vdVectors) /\ IsFiniteSet(vdIndexed)
  BY DEF VectorTypeOK

LEMMA IndexNewVectorsKeeps ==
    ASSUME VectorInv, NEW t \in VdThreads, IndexNewVectors(t)
    PROVE  VectorInv'
<1>0. VectorTypeOK
  BY DEF VectorInv
<1>1. /\ vdThread[t].pc = "index"
      /\ UNCHANGED mapVars /\ vdLayers' = vdLayers /\ vdEntry' = vdEntry /\ vdActive' = vdActive
  BY DEF IndexNewVectors, At, hnswVars, mapVars
<1>2. CASE vdActive
  <2>1. Become(t, [vdThread[t] EXCEPT !.pc = "graph", !.todo = Ascending(vdThread[t].mine)])
    BY <1>2 DEF IndexNewVectors
  <2>2. vdThread[t].pc \in {"index", "lock"}
    BY <1>1
  <2> QED
    BY <1>1, <2>1, <2>2, ToGraph, Zenon
<1>3. CASE ~vdActive
  <2>1. Accounted'
    BY <1>1, <1>3 DEF Accounted
  <2>2. CASE Goto(t, "done")
    <3>1. "done" \in Places /\ "done" \notin StoringAt /\ "done" \notin InsertingAt \cup {"remove"} \cup RemovingAt
      BY DEF Places, StoringAt, InsertingAt, RemovingAt
    <3> QED
      BY <1>0, <1>1, <2>1, <2>2, <3>1, GraphTypes, MoveKeeps
  <2>3. CASE Goto(t, "lock")
    <3>1. "lock" \in Places /\ "lock" \notin StoringAt /\ "lock" \notin InsertingAt \cup {"remove"} \cup RemovingAt
      BY DEF Places, StoringAt, InsertingAt, RemovingAt
    <3> QED
      BY <1>0, <1>1, <2>1, <2>3, <3>1, GraphTypes, MoveKeeps
  <2> QED
    BY <1>3, <2>2, <2>3 DEF IndexNewVectors
<1> QED
  BY <1>2, <1>3

\* Into the building of the graph, and on to its next step.
LEMMA BuildStep ==
    ASSUME VectorInv, NEW t \in VdThreads, NEW pc \in BuildingAt, Goto(t, pc), UNCHANGED mapVars,
           DOMAIN vdLayers' \subseteq Nat, \A i \in DOMAIN vdLayers' : vdLayers'[i] \in Nat,
           vdEntry' \in EntryStates, vdActive' \in BOOLEAN
    PROVE  VectorInv'
<1>1. /\ pc \in Places /\ pc \notin StoringAt /\ pc # "start"
      /\ pc \notin InsertingAt \cup {"remove"} /\ pc \notin RemovingAt
  BY DEF Places, StoringAt, InsertingAt, RemovingAt, BuildingAt
<1>2. vdThread'[t].pc = pc
  BY Moved DEF VectorInv
<1>3. Accounted'
  BY <1>2, BuilderOwes
<1> QED
  BY <1>1, <1>3, MoveKeeps

LEMMA TakeBuildLockKeeps ==
    ASSUME VectorInv, NEW t \in VdThreads, TakeBuildLock(t)
    PROVE  VectorInv'
<1>0. VectorTypeOK
  BY DEF VectorInv
<1>1. /\ vdThread[t].pc = "lock"
      /\ UNCHANGED mapVars /\ vdLayers' = vdLayers /\ vdEntry' = vdEntry /\ vdActive' = vdActive
  BY DEF TakeBuildLock, At, hnswVars, mapVars
<1>2. CASE vdActive
  <2>1. Become(t, [vdThread[t] EXCEPT !.pc = "graph", !.todo = Ascending(vdThread[t].mine)])
    BY <1>2 DEF TakeBuildLock
  <2>2. vdThread[t].pc \in {"index", "lock"}
    BY <1>1
  <2> QED
    BY <1>1, <2>1, <2>2, ToGraph, Zenon
<1>3. CASE ~vdActive
  <2>1. Goto(t, "clear") /\ "clear" \in BuildingAt
    BY <1>3 DEF TakeBuildLock, BuildingAt
  <2> QED
    BY <1>0, <1>1, <2>1, GraphTypes, BuildStep
<1> QED
  BY <1>2, <1>3

LEMMA BuildIndexKeeps ==
    ASSUME VectorInv, NEW t \in VdThreads, BuildIndex(t)
    PROVE  VectorInv'
<1>0. VectorTypeOK
  BY DEF VectorInv
<1>1. /\ UNCHANGED mapVars /\ vdLayers' = vdLayers /\ vdEntry' = vdEntry /\ vdActive' = vdActive
      /\ Goto(t, "clear") /\ "clear" \in BuildingAt
  BY DEF BuildIndex, hnswVars, mapVars, BuildingAt
<1> QED
  BY <1>0, <1>1, GraphTypes, BuildStep

LEMMA ClearKeeps ==
    ASSUME VectorInv, NEW t \in VdThreads,
           ClearEdges(t) \/ ClearLayers(t) \/ ClearEntry(t) \/ Activate(t)
    PROVE  VectorInv'
<1>0. VectorTypeOK
  BY DEF VectorInv
<1>1. NoEntry \in EntryStates
  BY DEF NoEntry, NoId, EntryStates
<1>2. UNCHANGED mapVars
  BY DEF ClearEdges, ClearLayers, ClearEntry, Activate, mapVars
<1>3. CASE ClearEdges(t)
  <2>1. /\ vdLayers' = vdLayers /\ vdEntry' = vdEntry /\ vdActive' = vdActive
        /\ Goto(t, "clearLayers") /\ "clearLayers" \in BuildingAt
    BY <1>3 DEF ClearEdges, BuildingAt
  <2> QED
    BY <1>0, <1>2, <2>1, GraphTypes, BuildStep
<1>4. CASE ClearLayers(t)
  <2>1. /\ DOMAIN vdLayers' = {} /\ vdEntry' = vdEntry /\ vdActive' = vdActive
        /\ Goto(t, "clearEntry") /\ "clearEntry" \in BuildingAt
    BY <1>4 DEF ClearLayers, BuildingAt
  <2> QED
    BY <1>0, <1>2, <2>1, GraphTypes, BuildStep
<1>5. CASE ClearEntry(t)
  <2>1. /\ vdLayers' = vdLayers /\ vdEntry' = NoEntry /\ vdActive' = vdActive
        /\ Goto(t, "activate") /\ "activate" \in BuildingAt
    BY <1>5 DEF ClearEntry, BuildingAt
  <2> QED
    BY <1>0, <1>1, <1>2, <2>1, GraphTypes, BuildStep
<1>6. CASE Activate(t)
  <2>1. /\ vdLayers' = vdLayers /\ vdEntry' = vdEntry /\ vdActive' = TRUE
        /\ Goto(t, "snapshot") /\ "snapshot" \in BuildingAt
    BY <1>6 DEF Activate, BuildingAt, hnswVars
  <2> QED
    BY <1>0, <1>2, <2>1, GraphTypes, BuildStep
<1> QED
  BY <1>3, <1>4, <1>5, <1>6

\* A step that leaves the maps and the nodes of the graph alone.
LEMMA NodesKept ==
    ASSUME VectorInv, NEW t \in VdThreads, NEW r, OperationOK(t, r), r.pc \notin StoringAt,
           vdThread' = [vdThread EXCEPT ![t] = r], UNCHANGED mapVars,
           vdLayers' = vdLayers, vdActive' = vdActive, vdEntry' \in EntryStates,
           r.pc \in RemovingAt => r.mine = {} \/ (vdThread[t].pc \in RemovingAt /\ r.mine = vdThread[t].mine),
           \A i \in vdVectors \ DOMAIN vdLayers : Owes(t, i) => Owes(t, i)'
    PROVE  VectorInv'
<1>0. VectorTypeOK /\ Accounted
  BY DEF VectorInv
<1>1. vdVectors' = vdVectors
  BY DEF mapVars
<1>2. Accounted'
  <2>1. \A i \in vdVectors' \ DOMAIN vdLayers' : Owes(t, i) => Owes(t, i)'
    BY <1>1
  <2>2. /\ vdActive' => vdActive
        /\ vdVectors' \subseteq vdVectors /\ vdVectors' \cap DOMAIN vdLayers \subseteq DOMAIN vdLayers'
    BY <1>1
  <2> QED
    BY <1>0, <2>1, <2>2, AccountedKept
<1>3. /\ DOMAIN vdLayers' \subseteq Nat /\ \A i \in DOMAIN vdLayers' : vdLayers'[i] \in Nat
      /\ vdActive' \in BOOLEAN
  BY <1>0, GraphTypes
<1> QED
  BY <1>2, <1>3, QuietKeeps

LEMMA SnapshotKeeps ==
    ASSUME VectorInv, NEW t \in VdThreads, Snapshot(t)
    PROVE  VectorInv'
<1>0. VectorTypeOK
  BY DEF VectorInv
<1>1. PICK q : q = vdThread[t]
  OBVIOUS
<1>2. OperationOK(t, q) /\ q \in Operations
  BY <1>0, <1>1, OperationType DEF OperationOK
<1>3. PICK todo : todo = Ascending(vdVectors)
  OBVIOUS
<1>4. todo \in Seq(Nat) /\ IdsIn(todo) = vdVectors
  BY <1>0, <1>3, GraphTypes, AscendingIs
<1>5. PICK r : r = [q EXCEPT !.pc = "graph", !.todo = todo]
  OBVIOUS
<1>6. /\ vdThread' = [vdThread EXCEPT ![t] = r]
      /\ UNCHANGED mapVars /\ vdLayers' = vdLayers /\ vdEntry' = vdEntry /\ vdActive' = vdActive
  BY <1>1, <1>3, <1>5 DEF Snapshot, Become, hnswVars, mapVars
<1>7. /\ "graph" \in Places /\ "graph" \notin StoringAt /\ "graph" \notin InsertingAt \cup {"remove"}
      /\ "graph" # "start" /\ "graph" \notin RemovingAt
  BY DEF Places, StoringAt, InsertingAt, RemovingAt
<1>8. r \in Operations /\ r.pc = "graph" /\ r.todo = todo /\ r.mine = q.mine
  BY <1>2, <1>4, <1>5, <1>7 DEF Operations
<1>9. OperationOK(t, r)
  BY <1>2, <1>7, <1>8, OperationFields, OutsideOK
<1>10. \A i \in vdVectors \ DOMAIN vdLayers : Owes(t, i) => Owes(t, i)'
  <2>1. vdThread'[t] = r
    BY <1>0, <1>6, ThreadStep
  <2> QED
    BY <1>4, <1>8, <2>1, OwesInGraphNext
<1> QED
  BY <1>0, <1>6, <1>7, <1>8, <1>9, <1>10, GraphTypes, NodesKept

\* The head of the list is dropped once the graph need not get it.
LEMMA HeadDone ==
    ASSUME VectorInv, NEW t \in VdThreads, vdThread[t].todo # <<>>, NEW r \in Operations,
           r.pc = "graph", r.todo = Tail(vdThread[t].todo), r.mine = vdThread[t].mine,
           \/ /\ vdThread[t].pc = "graph"
              /\ Next1(t) \in DOMAIN vdLayers \/ Next1(t) \notin vdVectors
           \/ vdThread[t].pc = "back",
           vdThread' = [vdThread EXCEPT ![t] = r],
           UNCHANGED mapVars, vdLayers' = vdLayers, vdEntry' = vdEntry, vdActive' = vdActive
    PROVE  VectorInv'
<1>0. VectorTypeOK
  BY DEF VectorInv
<1>1. PICK q : q = vdThread[t]
  OBVIOUS
<1>2. OperationOK(t, q) /\ q \in Operations
  BY <1>0, <1>1, OperationType DEF OperationOK
<1>3. PICK todo : todo = Tail(q.todo)
  OBVIOUS
<1>4. todo \in Seq(Nat) /\ q.todo \in Seq(Nat) /\ q.todo # <<>>
  BY <1>1, <1>2, <1>3, OperationFields, TailIs
<1>7. /\ "graph" \in Places /\ "graph" \notin StoringAt /\ "graph" \notin InsertingAt \cup {"remove"}
      /\ "graph" # "start" /\ "graph" \notin RemovingAt
  BY DEF Places, StoringAt, InsertingAt, RemovingAt
<1>8. r \in Operations /\ r.pc = "graph" /\ r.todo = todo /\ r.mine = q.mine
  BY <1>1, <1>3
<1>9. OperationOK(t, r)
  BY <1>2, <1>7, <1>8, OperationFields, OutsideOK
<1>10. ASSUME NEW i \in vdVectors \ DOMAIN vdLayers, Owes(t, i) PROVE Owes(t, i)'
  <2>1. vdThread'[t] = r
    BY <1>0, ThreadStep
  <2>2. i \in IdsIn(todo)
    <3>1. CASE q.pc = "graph"
      <4>1. i \in IdsIn(q.todo)
        BY <1>1, <1>10, <3>1, OwesInGraph
      <4>2. i # Head(q.todo)
        BY <1>1, <3>1 DEF Next1
      <4> QED
        BY <1>3, <1>4, <4>1, <4>2, TailOwed
    <3>2. CASE q.pc = "back"
      BY <1>1, <1>3, <1>10, <3>2, OwesInserted
    <3> QED
      BY <1>1, <3>1, <3>2
  <2>3. vdThread'[t].pc \in {"graph", "layer"} /\ i \in IdsIn(vdThread'[t].todo)
    BY <1>8, <2>1, <2>2
  <2> QED
    BY <2>3, OwesInGraphNext
<1> QED
  BY <1>0, <1>7, <1>8, <1>9, <1>10, GraphTypes, NodesKept

LEMMA SkipNodeKeeps ==
    ASSUME VectorInv, NEW t \in VdThreads, SkipNode(t)
    PROVE  VectorInv'
<1>0. VectorTypeOK
  BY DEF VectorInv
<1>1. PICK q : q = vdThread[t]
  OBVIOUS
<1>2. q \in Operations /\ q.pc = "graph"
  BY <1>0, <1>1, OperationType DEF OperationOK, SkipNode, At
<1>3. PICK r : r = [q EXCEPT !.pc = "graph", !.todo = Tail(q.todo)]
  OBVIOUS
<1>4. r = [q EXCEPT !.todo = Tail(q.todo)]
  BY <1>2, <1>3 DEF Operations
<1>5. vdThread' = [vdThread EXCEPT ![t] = r]
  BY <1>0, <1>1, <1>4 DEF SkipNode, VectorTypeOK
<1>6. /\ vdThread[t].todo # <<>>
      /\ Next1(t) \in DOMAIN vdLayers \/ Next1(t) \notin vdVectors
      /\ UNCHANGED mapVars /\ vdLayers' = vdLayers /\ vdEntry' = vdEntry /\ vdActive' = vdActive
  BY DEF SkipNode, mapVars, hnswVars
<1>7. r \in Operations /\ r.pc = "graph" /\ r.todo = Tail(q.todo) /\ r.mine = q.mine
  <2>1. "graph" \in Places
    BY DEF Places
  <2>2. PICK todo : todo = Tail(q.todo)
    OBVIOUS
  <2>3. todo \in Seq(Nat)
    BY <1>1, <1>2, <1>6, <2>2, TailIs DEF Operations
  <2>4. r = [q EXCEPT !.pc = "graph", !.todo = todo]
    BY <1>3, <2>2
  <2> HIDE <1>3
  <2>5. r \in Operations /\ r.pc = "graph" /\ r.todo = todo /\ r.mine = q.mine
    BY <1>2, <2>1, <2>3, <2>4 DEF Operations
  <2> QED
    BY <2>2, <2>5
<1> QED
  BY <1>1, <1>2, <1>5, <1>6, <1>7, HeadDone

LEMMA NodeInsertedKeeps ==
    ASSUME VectorInv, NEW t \in VdThreads, NodeInserted(t)
    PROVE  VectorInv'
<1>0. VectorTypeOK
  BY DEF VectorInv
<1>1. PICK q : q = vdThread[t]
  OBVIOUS
<1>2. q \in Operations /\ q.pc = "back" /\ q.todo # <<>>
  <2>1. OperationOK(t, q) /\ q.pc = "back"
    BY <1>0, <1>1, OperationType DEF NodeInserted, At
  <2> QED
    BY <2>1 DEF OperationOK, InsertingAt
<1>3. PICK r : r = [q EXCEPT !.pc = "graph", !.todo = Tail(q.todo)]
  OBVIOUS
<1>5. vdThread' = [vdThread EXCEPT ![t] = r]
  BY <1>0, <1>1, <1>3 DEF NodeInserted, Become
<1>6. UNCHANGED mapVars /\ vdLayers' = vdLayers /\ vdEntry' = vdEntry /\ vdActive' = vdActive
  BY DEF NodeInserted, mapVars, hnswVars
<1>7. r \in Operations /\ r.pc = "graph" /\ r.todo = Tail(q.todo) /\ r.mine = q.mine
  <2>1. "graph" \in Places
    BY DEF Places
  <2>2. PICK todo : todo = Tail(q.todo)
    OBVIOUS
  <2>3. todo \in Seq(Nat)
    BY <1>1, <1>2, <1>6, <2>2, TailIs DEF Operations
  <2>4. r = [q EXCEPT !.pc = "graph", !.todo = todo]
    BY <1>3, <2>2
  <2> HIDE <1>3
  <2>5. r \in Operations /\ r.pc = "graph" /\ r.todo = todo /\ r.mine = q.mine
    BY <1>2, <2>1, <2>3, <2>4 DEF Operations
  <2> QED
    BY <2>2, <2>5
<1> QED
  BY <1>1, <1>2, <1>5, <1>6, <1>7, HeadDone

LEMMA ChooseNeighboursKeeps ==
    ASSUME VectorInv, NEW t \in VdThreads, ChooseNeighbours(t)
    PROVE  VectorInv'
<1>0. VectorTypeOK
  BY DEF VectorInv
<1>1. PICK q : q = vdThread[t]
  OBVIOUS
<1>2. OperationOK(t, q) /\ q \in Operations /\ q.pc = "graph" /\ q.todo # <<>>
  BY <1>0, <1>1, OperationType DEF OperationOK, ChooseNeighbours, At
<1>3. PICK s \in Nearest((DOMAIN vdLayers \cap vdVectors) \ {Next1(t)}) :
        \E l \in 0..MaxLayer : Become(t, [vdThread[t] EXCEPT !.pc = "layer", !.sel = s, !.layer = l])
  BY Zenon DEF ChooseNeighbours
<1>4. PICK l \in 0..MaxLayer : Become(t, [vdThread[t] EXCEPT !.pc = "layer", !.sel = s, !.layer = l])
  BY <1>3, Zenon
<1>5. s \in SUBSET Nat /\ l \in Nat
  <2>1. s \in SUBSET DOMAIN vdLayers
    BY <1>3 DEF Nearest
  <2> QED
    BY <1>0, <2>1, GraphTypes, VectorDbAssumption
<1>6. PICK r : r = [q EXCEPT !.pc = "layer", !.sel = s, !.layer = l]
  OBVIOUS
<1>7. /\ vdThread' = [vdThread EXCEPT ![t] = r]
      /\ UNCHANGED mapVars /\ vdLayers' = vdLayers /\ vdEntry' = vdEntry /\ vdActive' = vdActive
  BY <1>1, <1>4, <1>6 DEF ChooseNeighbours, Become, hnswVars, mapVars
<1>8. /\ "layer" \in Places /\ "layer" \notin StoringAt /\ "layer" # "start" /\ "layer" \notin RemovingAt
  BY DEF Places, StoringAt, InsertingAt, RemovingAt
<1>9. r \in Operations /\ r.pc = "layer" /\ r.todo = q.todo /\ r.mine = q.mine
  BY <1>2, <1>5, <1>6, <1>8 DEF Operations
<1>10. OperationOK(t, r)
  BY <1>2, <1>8, <1>9, OperationFields, OutsideOK
<1>11. ASSUME NEW i \in vdVectors \ DOMAIN vdLayers, Owes(t, i) PROVE Owes(t, i)'
  <2>1. vdThread'[t] = r
    BY <1>0, <1>7, ThreadStep
  <2>2. i \in IdsIn(q.todo)
    BY <1>1, <1>2, <1>11, OwesInGraph
  <2> QED
    BY <1>9, <2>1, <2>2, OwesInGraphNext
<1> QED
  BY <1>0, <1>7, <1>8, <1>9, <1>10, <1>11, GraphTypes, NodesKept

LEMMA AddLayerKeeps ==
    ASSUME VectorInv, NEW t \in VdThreads, AddLayer(t)
    PROVE  VectorInv'
<1>0. VectorTypeOK /\ Accounted
  BY DEF VectorInv
<1>1. PICK q : q = vdThread[t]
  OBVIOUS
<1>2. OperationOK(t, q) /\ q.pc = "layer"
  BY <1>0, <1>1, OperationType DEF AddLayer, At
<1>3. q.todo \in Seq(Nat) /\ q.todo # <<>> /\ q.layer \in Nat
  BY <1>2, OperationFields DEF OperationOK, InsertingAt
<1>4. PICK h : h = Head(q.todo)
  OBVIOUS
<1>5. h \in Nat
  BY <1>3, <1>4, TailIs
<1>6. /\ vdLayers' = [i \in DOMAIN vdLayers \cup {h} |-> IF i = h THEN q.layer ELSE vdLayers[i]]
      /\ Goto(t, "edges") /\ UNCHANGED mapVars /\ vdEntry' = vdEntry /\ vdActive' = vdActive
  BY <1>1, <1>4 DEF AddLayer, Next1, mapVars
<1>7. /\ DOMAIN vdLayers' = DOMAIN vdLayers \cup {h}
      /\ \A i \in DOMAIN vdLayers' : vdLayers'[i] \in Nat /\ i \in Nat
  BY <1>0, <1>3, <1>5, <1>6, GraphTypes
<1>8. /\ "edges" \in Places /\ "edges" \notin StoringAt /\ "edges" # "start" /\ "edges" \notin RemovingAt
  BY DEF Places, StoringAt, InsertingAt, RemovingAt
<1>9. vdThread'[t].pc = "edges" /\ vdThread'[t].todo = q.todo
  BY <1>0, <1>1, <1>6, Moved
<1>10. Accounted'
  <2>1. vdVectors' = vdVectors
    BY <1>6 DEF mapVars
  <2>2. ASSUME NEW i \in vdVectors' \ DOMAIN vdLayers', Owes(t, i) PROVE Owes(t, i)'
    <3>1. i \in IdsIn(q.todo)
      BY <1>1, <1>2, <2>2, OwesInGraph
    <3>2. i # Head(q.todo)
      BY <1>4, <1>7
    <3>3. i \in IdsIn(Tail(q.todo))
      BY <1>3, <3>1, <3>2, TailOwed
    <3>4. i \in IdsIn(Tail(vdThread'[t].todo)) /\ vdThread'[t].pc \in {"edges", "entry", "back"}
      BY <1>9, <3>3
    <3> QED
      BY <3>4, OwesInsertedNext
  <2>3. /\ vdActive' => vdActive
        /\ vdVectors' \subseteq vdVectors /\ vdVectors' \cap DOMAIN vdLayers \subseteq DOMAIN vdLayers'
    BY <1>6, <1>7, <2>1
  <2>4. \A i \in vdVectors' \ DOMAIN vdLayers' : Owes(t, i) => Owes(t, i)'
    BY <2>2
  <2>5. PICK r : vdThread' = [vdThread EXCEPT ![t] = r]
    BY <1>0, <1>6, GotoIs
  <2> QED
    BY <1>0, <2>3, <2>4, <2>5, AccountedKept
<1> QED
  BY <1>0, <1>1, <1>3, <1>6, <1>7, <1>8, <1>10, GraphTypes, MoveKeeps

\* A move of a thread past the node it has brought into the graph.
LEMMA InsertMove ==
    ASSUME VectorInv, NEW t \in VdThreads, NEW pc \in {"entry", "back"},
           vdThread[t].pc \in {"edges", "entry", "back"}, Goto(t, pc),
           UNCHANGED mapVars, vdLayers' = vdLayers, vdActive' = vdActive, vdEntry' \in EntryStates
    PROVE  VectorInv'
<1>0. VectorTypeOK
  BY DEF VectorInv
<1>1. PICK q : q = vdThread[t]
  OBVIOUS
<1>2. OperationOK(t, q)
  BY <1>0, <1>1, OperationType
<1>3. q.todo # <<>>
  BY <1>1, <1>2 DEF OperationOK, InsertingAt
<1>4. pc \in Places /\ pc \notin StoringAt /\ pc # "start" /\ pc \notin RemovingAt
  BY DEF Places, StoringAt, InsertingAt, RemovingAt
<1>5. PICK r : r = [q EXCEPT !.pc = pc]
  OBVIOUS
<1>6. vdThread' = [vdThread EXCEPT ![t] = r]
  BY <1>0, <1>1, <1>5, GotoIs
<1>7. OperationOK(t, r) /\ r.pc = pc /\ r.todo = q.todo
  BY <1>2, <1>3, <1>4, <1>5, MovedOK
<1>8. ASSUME NEW i \in vdVectors \ DOMAIN vdLayers, Owes(t, i) PROVE Owes(t, i)'
  <2>1. vdThread'[t] = r
    BY <1>0, <1>6, ThreadStep
  <2>2. i \in IdsIn(Tail(q.todo))
    BY <1>1, <1>8, OwesInserted
  <2>3. i \in IdsIn(Tail(vdThread'[t].todo)) /\ vdThread'[t].pc \in {"edges", "entry", "back"}
    BY <1>7, <2>1, <2>2
  <2> QED
    BY <2>3, OwesInsertedNext
<1> QED
  BY <1>4, <1>6, <1>7, <1>8, NodesKept

LEMMA AddEdgesKeeps ==
    ASSUME VectorInv, NEW t \in VdThreads, AddEdges(t) \/ RaiseEntry(t)
    PROVE  VectorInv'
<1>0. VectorTypeOK
  BY DEF VectorInv
<1>1. CASE AddEdges(t)
  <2>1. /\ vdThread[t].pc = "edges" /\ Goto(t, "entry") /\ UNCHANGED mapVars
        /\ vdLayers' = vdLayers /\ vdActive' = vdActive /\ vdEntry' = vdEntry
    BY <1>1 DEF AddEdges, At, mapVars
  <2> QED
    BY <1>0, <2>1, GraphTypes, InsertMove
<1>2. CASE RaiseEntry(t)
  <2>1. PICK q : q = vdThread[t]
    OBVIOUS
  <2>2. OperationOK(t, q) /\ q.pc = "entry"
    BY <1>0, <1>2, <2>1, OperationType DEF RaiseEntry, At
  <2>3. q.todo \in Seq(Nat) /\ q.todo # <<>> /\ q.layer \in Nat
    BY <2>2, OperationFields DEF OperationOK, InsertingAt
  <2>4. Head(q.todo) \in Nat
    BY <2>3, TailIs
  <2>5. PICK h, l : h = Head(q.todo) /\ l = q.layer
    OBVIOUS
  <2>6. vdEntry \in [id : Nat, layer : Nat]
    BY <1>0, GraphTypes DEF EntryStates
  <2>7. vdEntry' = IF vdEntry.id = NoId \/ l >= vdEntry.layer
                   THEN [id |-> h, layer |-> IF l > vdEntry.layer THEN l ELSE vdEntry.layer]
                   ELSE vdEntry
    BY <1>2, <2>1, <2>5 DEF RaiseEntry, Next1
  <2>8. vdEntry' \in EntryStates
    BY <2>3, <2>4, <2>5, <2>6, <2>7 DEF EntryStates
  <2>9. /\ Goto(t, "back") /\ UNCHANGED mapVars /\ vdLayers' = vdLayers /\ vdActive' = vdActive
    BY <1>2 DEF RaiseEntry, mapVars
  <2> QED
    BY <2>1, <2>2, <2>8, <2>9, InsertMove
<1> QED
  BY <1>1, <1>2

LEMMA AddReverseEdgeKeeps ==
    ASSUME VectorInv, NEW t \in VdThreads, AddReverseEdge(t)
    PROVE  VectorInv'
<1>0. VectorTypeOK
  BY DEF VectorInv
<1>1. PICK q : q = vdThread[t]
  OBVIOUS
<1>2. OperationOK(t, q) /\ q \in Operations /\ q.pc = "back"
  BY <1>0, <1>1, OperationType DEF OperationOK, AddReverseEdge, At
<1>3. q.todo # <<>>
  BY <1>2 DEF OperationOK, InsertingAt
<1>4. PICK n \in q.sel : vdThread' = [vdThread EXCEPT ![t].sel = @ \ {n}]
  BY <1>1 DEF AddReverseEdge
<1>5. PICK r : r = [q EXCEPT !.sel = q.sel \ {n}]
  OBVIOUS
<1>6. vdThread' = [vdThread EXCEPT ![t] = r]
  BY <1>0, <1>1, <1>4, <1>5 DEF VectorTypeOK
<1>7. UNCHANGED mapVars /\ vdLayers' = vdLayers /\ vdActive' = vdActive /\ vdEntry' = vdEntry
  BY DEF AddReverseEdge, mapVars
<1>8. /\ "back" \in Places /\ "back" \notin StoringAt /\ "back" # "start" /\ "back" \notin RemovingAt
  BY DEF Places, StoringAt, InsertingAt, RemovingAt
<1>9. r \in Operations /\ r.pc = "back" /\ r.todo = q.todo /\ r.mine = q.mine
  BY <1>2, <1>5 DEF Operations
<1>10. OperationOK(t, r)
  BY <1>2, <1>3, <1>8, <1>9, OperationFields, OutsideOK
<1>11. ASSUME NEW i \in vdVectors \ DOMAIN vdLayers, Owes(t, i) PROVE Owes(t, i)'
  <2>1. vdThread'[t] = r
    BY <1>0, <1>6, ThreadStep
  <2>2. i \in IdsIn(Tail(q.todo))
    BY <1>1, <1>2, <1>11, OwesInserted
  <2>3. i \in IdsIn(Tail(vdThread'[t].todo)) /\ vdThread'[t].pc \in {"edges", "entry", "back"}
    BY <1>9, <2>1, <2>2
  <2> QED
    BY <2>3, OwesInsertedNext
<1> QED
  BY <1>0, <1>6, <1>7, <1>8, <1>9, <1>10, <1>11, GraphTypes, NodesKept

LEMMA GraphDoneKeeps ==
    ASSUME VectorInv, NEW t \in VdThreads, GraphDone(t)
    PROVE  VectorInv'
<1>0. VectorTypeOK
  BY DEF VectorInv
<1>1. PICK q : q = vdThread[t]
  OBVIOUS
<1>2. OperationOK(t, q) /\ q.pc = "graph" /\ q.todo = <<>> /\ Goto(t, "done")
  BY <1>0, <1>1, OperationType DEF GraphDone, At
<1>3. UNCHANGED mapVars /\ vdLayers' = vdLayers /\ vdActive' = vdActive /\ vdEntry' = vdEntry
  BY DEF GraphDone, mapVars, hnswVars
<1>4. /\ "done" \in Places /\ "done" \notin StoringAt /\ "done" # "start" /\ "done" \notin RemovingAt
      /\ "done" \notin InsertingAt \cup {"remove"}
  BY DEF Places, StoringAt, InsertingAt, RemovingAt
<1>5. PICK r : r = [q EXCEPT !.pc = "done"]
  OBVIOUS
<1>6. vdThread' = [vdThread EXCEPT ![t] = r]
  BY <1>0, <1>1, <1>2, <1>5, GotoIs
<1>7. OperationOK(t, r) /\ r.pc = "done"
  BY <1>2, <1>4, <1>5, MovedOK
<1>8. \A i : ~Owes(t, i)
  <2>1. IdsIn(q.todo) = {}
    BY <1>2 DEF IdsIn
  <2> QED
    BY <1>1, <1>2, <2>1, OwesInGraph
<1> QED
  BY <1>0, <1>3, <1>4, <1>6, <1>7, <1>8, GraphTypes, NodesKept

\* A remover owes the graph nothing.
LEMMA RemoverStep ==
    ASSUME VectorInv, NEW t \in VdThreads, vdThread[t].pc \in RemovingAt \cup {"start"},
           NEW r, OperationOK(t, r), r.pc \notin StoringAt,
           vdThread' = [vdThread EXCEPT ![t] = r], UNCHANGED mapVars,
           vdActive' = vdActive, vdEntry' \in EntryStates,
           DOMAIN vdLayers' \subseteq Nat, \A i \in DOMAIN vdLayers' : vdLayers'[i] \in Nat,
           vdVectors \cap DOMAIN vdLayers \subseteq DOMAIN vdLayers',
           r.mine = vdThread[t].mine
    PROVE  VectorInv'
<1>0. VectorTypeOK /\ Accounted
  BY DEF VectorInv
<1>1. \A i : ~Owes(t, i)
  BY OwesNothing DEF RemovingAt
<1>2. vdVectors' = vdVectors
  BY DEF mapVars
<1>3. Accounted'
  BY <1>0, <1>1, <1>2, AccountedKept
<1>4. r.mine = {} \/ (vdThread[t].pc \in RemovingAt /\ r.mine = vdThread[t].mine)
  <2>1. CASE vdThread[t].pc = "start"
    BY <1>0, <2>1, OperationType DEF OperationOK
  <2> QED
    BY <2>1
<1>5. vdActive' \in BOOLEAN
  BY <1>0, GraphTypes
<1> QED
  BY <1>3, <1>4, <1>5, QuietKeeps

LEMMA RemoveSourceKeeps ==
    ASSUME VectorInv, NEW t \in VdThreads, RemoveSource(t)
    PROVE  VectorInv'
<1>0. VectorTypeOK
  BY DEF VectorInv
<1>1. PICK q : q = vdThread[t]
  OBVIOUS
<1>2. OperationOK(t, q) /\ q \in Operations /\ q.pc = "start"
  BY <1>0, <1>1, OperationType DEF OperationOK, RemoveSource, At
<1>3. PICK ids : ids = {i \in vdIndexed : VdSource[i] = VdDoomed[t]}
  OBVIOUS
<1>4. ids \in SUBSET Nat /\ IsFiniteSet(ids)
  <2>1. ids \in SUBSET vdIndexed
    BY <1>3
  <2>2. IsFiniteSet(vdIndexed) /\ vdIndexed \subseteq Nat
    BY <1>0, GraphTypes
  <2> QED
    BY <2>1, <2>2, FS_Subset
<1>5. PICK todo : todo = Ascending(ids)
  OBVIOUS
<1>6. todo \in Seq(Nat)
  BY <1>4, <1>5, AscendingIs
<1>7. PICK r : r = [q EXCEPT !.pc = "unindex", !.todo = todo]
  OBVIOUS
<1>8. /\ vdThread' = [vdThread EXCEPT ![t] = r] /\ UNCHANGED mapVars
      /\ vdLayers' = vdLayers /\ vdActive' = vdActive /\ vdEntry' = vdEntry
  BY <1>1, <1>3, <1>5, <1>7 DEF RemoveSource, Become, mapVars, hnswVars
<1>9. /\ "unindex" \in Places /\ "unindex" \notin StoringAt /\ "unindex" # "start"
      /\ "unindex" \notin InsertingAt \cup {"remove"}
  BY DEF Places, StoringAt, InsertingAt, RemovingAt
<1>10. r \in Operations /\ r.pc = "unindex" /\ r.mine = q.mine
  BY <1>2, <1>6, <1>7, <1>9 DEF Operations
<1>11. OperationOK(t, r)
  BY <1>2, <1>9, <1>10, OperationFields, OutsideOK
<1> QED
  BY <1>0, <1>1, <1>2, <1>8, <1>9, <1>10, <1>11, GraphTypes, RemoverStep

LEMMA RemoveNodesKeeps ==
    ASSUME VectorInv, NEW t \in VdThreads, RemoveNodes(t)
    PROVE  VectorInv'
<1>0. VectorTypeOK /\ RemovedStays
  BY DEF VectorInv
<1>1. PICK q : q = vdThread[t]
  OBVIOUS
<1>2. OperationOK(t, q) /\ q.pc = "unindex"
  BY <1>0, <1>1, OperationType DEF RemoveNodes, At
<1>3. PICK pc \in {"done", "reselect"} : Goto(t, pc)
  BY DEF RemoveNodes
<1>4. /\ pc \in Places /\ pc \notin StoringAt /\ pc # "start" /\ pc \notin InsertingAt \cup {"remove"}
  BY DEF Places, StoringAt, InsertingAt, RemovingAt
<1>5. PICK r : r = [q EXCEPT !.pc = pc]
  OBVIOUS
<1>6. vdThread' = [vdThread EXCEPT ![t] = r]
  BY <1>0, <1>1, <1>3, <1>5, GotoIs
<1>7. OperationOK(t, r) /\ r.pc = pc /\ r.mine = q.mine
  BY <1>2, <1>4, <1>5, MovedOK
<1>8. /\ vdLayers' = [i \in DOMAIN vdLayers \ q.mine |-> vdLayers[i]]
      /\ UNCHANGED mapVars /\ vdActive' = vdActive /\ vdEntry' = vdEntry
  BY <1>1 DEF RemoveNodes, mapVars
<1>9. "unindex" \in RemovingAt
  BY DEF RemovingAt
<1>10. q.mine \cap vdVectors = {}
  BY <1>0, <1>1, <1>2, <1>9 DEF RemovedStays
<1>11. /\ DOMAIN vdLayers' \subseteq Nat /\ \A i \in DOMAIN vdLayers' : vdLayers'[i] \in Nat
       /\ vdVectors \cap DOMAIN vdLayers \subseteq DOMAIN vdLayers'
  BY <1>0, <1>8, <1>10, GraphTypes
<1>12. vdEntry' \in EntryStates
  BY <1>0, <1>8, GraphTypes
<1> QED
  BY <1>1, <1>2, <1>4, <1>6, <1>7, <1>8, <1>9, <1>11, <1>12, RemoverStep

LEMMA HighestType ==
    ASSUME VectorTypeOK
    PROVE  Highest \in EntryStates
<1> DEFINE top == {i \in DOMAIN vdLayers : \A j \in DOMAIN vdLayers : vdLayers[j] <= vdLayers[i]}
<1>1. top \in SUBSET Nat /\ \A i \in top : vdLayers[i] \in Nat
  BY GraphTypes
<1>2. CASE top = {}
  BY <1>2 DEF Highest, NoEntry, NoId, EntryStates
<1>3. CASE top # {}
  <2>1. PICK T : T = top
    OBVIOUS
  <2>2. \E i \in T : \A j \in T : i <= j
    BY <1>1, <1>3, <2>1, LeastNat
  <2>3. PICK m : m = CHOOSE i \in T : \A j \in T : i <= j
    OBVIOUS
  <2>4. m \in T
    BY <2>2, <2>3
  <2>5. Highest = [id |-> m, layer |-> vdLayers[m]]
    BY <1>3, <2>1, <2>3 DEF Highest
  <2> QED
    BY <1>1, <2>1, <2>4, <2>5 DEF EntryStates
<1> QED
  BY <1>2, <1>3

LEMMA ReselectKeeps ==
    ASSUME VectorInv, NEW t \in VdThreads, ReselectScan(t) \/ ReselectSwap(t)
    PROVE  VectorInv'
<1>0. VectorTypeOK
  BY DEF VectorInv
<1>1. PICK q : q = vdThread[t]
  OBVIOUS
<1>2. OperationOK(t, q) /\ q \in Operations /\ q.pc \in RemovingAt
  BY <1>0, <1>1, OperationType DEF OperationOK, ReselectScan, ReselectSwap, At, RemovingAt
<1>3. UNCHANGED mapVars /\ vdLayers' = vdLayers /\ vdActive' = vdActive
  BY DEF ReselectScan, ReselectSwap, mapVars, hnswVars
<1>4. /\ DOMAIN vdLayers' \subseteq Nat /\ \A i \in DOMAIN vdLayers' : vdLayers'[i] \in Nat
      /\ vdVectors \cap DOMAIN vdLayers \subseteq DOMAIN vdLayers'
  BY <1>0, <1>3, GraphTypes
<1>5. ASSUME NEW pc \in {"done", "cas", "reselect"}
      PROVE  /\ pc \in Places /\ pc \notin StoringAt /\ pc # "start" /\ pc \notin InsertingAt \cup {"remove"}
  BY DEF Places, StoringAt, InsertingAt, RemovingAt
<1>6. vdEntry \in EntryStates /\ NoEntry \in EntryStates
  BY <1>0, GraphTypes DEF NoEntry, NoId, EntryStates
<1>7. ASSUME NEW r \in Operations, r.pc \in {"done", "cas", "reselect"}, r.mine = q.mine,
             vdThread' = [vdThread EXCEPT ![t] = r], vdEntry' \in EntryStates
      PROVE  VectorInv'
  <2>1. OperationOK(t, r)
    BY <1>2, <1>5, <1>7, OperationFields, OutsideOK
  <2> QED
    BY <1>1, <1>2, <1>3, <1>4, <1>5, <1>7, <2>1, RemoverStep
<1>8. CASE ReselectScan(t)
  <2>0. vdEntry' = vdEntry
    BY <1>8 DEF ReselectScan, hnswVars
  <2>1. CASE EntryServes(vdEntry)
    <3>1. PICK r : r = [q EXCEPT !.pc = "done"]
      OBVIOUS
    <3>2. Goto(t, "done")
      BY <1>8, <2>1 DEF ReselectScan
    <3>3. vdThread' = [vdThread EXCEPT ![t] = r]
      BY <1>0, <1>1, <3>1, <3>2, GotoIs
    <3>4. r \in Operations /\ r.pc = "done" /\ r.mine = q.mine
      BY <1>2, <1>5, <3>1 DEF Operations
    <3> QED
      BY <1>6, <1>7, <2>0, <3>3, <3>4
  <2>2. CASE ~EntryServes(vdEntry)
    <3>1. PICK e : e = Highest
      OBVIOUS
    <3>2. PICK s : s = vdEntry
      OBVIOUS
    <3>3. PICK r : r = [q EXCEPT !.pc = "cas", !.seen = s, !.found = e]
      OBVIOUS
    <3>4. vdThread' = [vdThread EXCEPT ![t] = r]
      BY <1>1, <1>8, <2>2, <3>1, <3>2, <3>3 DEF ReselectScan, Become
    <3>5. e \in EntryStates /\ s \in EntryStates
      BY <1>0, <1>6, <3>1, <3>2, HighestType
    <3>6. r \in Operations /\ r.pc = "cas" /\ r.mine = q.mine
      BY <1>2, <1>5, <3>3, <3>5 DEF Operations
    <3> QED
      BY <1>6, <1>7, <2>0, <3>4, <3>6
  <2> QED
    BY <2>1, <2>2
<1>9. CASE ReselectSwap(t)
  <2>1. PICK e : e = NoEntry
    OBVIOUS
  <2>2. PICK r : r = [q EXCEPT !.pc = "reselect", !.found = e, !.seen = e]
    OBVIOUS
  <2>3. vdThread' = [vdThread EXCEPT ![t] = r]
    BY <1>1, <1>9, <2>1, <2>2 DEF ReselectSwap, Become
  <2>4. r \in Operations /\ r.pc = "reselect" /\ r.mine = q.mine
    BY <1>2, <1>5, <1>6, <2>1, <2>2 DEF Operations
  <2>5. q.found \in EntryStates
    BY <1>2, OperationFields
  <2>6. vdEntry' = IF vdEntry = q.seen THEN q.found ELSE vdEntry
    BY <1>1, <1>9 DEF ReselectSwap
  <2>7. vdEntry' \in EntryStates
    BY <1>6, <2>5, <2>6
  <2> QED
    BY <1>7, <2>3, <2>4, <2>7
<1> QED
  BY <1>8, <1>9

(***************************************************************************)
(* VectorDb: the steps that change the maps.                               *)
(***************************************************************************)

LEMMA OthersStill ==
    ASSUME VectorTypeOK, NEW t \in VdThreads, NEW r, vdThread' = [vdThread EXCEPT ![t] = r],
           NEW u \in VdThreads, u # t
    PROVE  vdThread'[u] = vdThread[u] /\ Ahead(u)' = Ahead(u) /\ Next1(u)' = Next1(u)
<1>1. vdThread'[u] = vdThread[u]
  BY ThreadStep
<1> QED
  BY <1>1, ThreadSame

\* What is stored or removed by a step must be ahead of no loader.
LEMMA NeverStoredKept ==
    ASSUME VectorTypeOK, NeverStored, NEW t \in VdThreads, NEW r,
           vdThread' = [vdThread EXCEPT ![t] = r], Ahead(t)' \subseteq Ahead(t),
           \A v \in VdThreads : \A i \in Ahead(v)' :
              i \in vdVectors' \cup vdMetadata' => i \in vdVectors \cup vdMetadata,
           r.pc = "metadata" => Next1(t)' \notin vdMetadata',
           \A v \in VdThreads : v # t /\ vdThread[v].pc = "metadata" /\ Next1(v) \in vdMetadata' =>
              Next1(v) \in vdMetadata,
           r.pc \in RemovingAt => \A v \in VdThreads : Ahead(v)' \cap r.mine = {}
    PROVE  NeverStored'
<1>1. vdThread'[t] = r
  BY ThreadStep
<1>2. ASSUME NEW u \in VdThreads, u # t
      PROVE  vdThread'[u] = vdThread[u] /\ Ahead(u)' = Ahead(u) /\ Next1(u)' = Next1(u)
  BY <1>2, OthersStill
<1>3. \A u \in VdThreads : Ahead(u)' \subseteq Ahead(u)
  BY <1>2
<1>4. ASSUME NEW v \in VdThreads
      PROVE  /\ Ahead(v)' \cap (vdVectors' \cup vdMetadata') = {}
             /\ vdThread'[v].pc = "metadata" => Next1(v)' \notin vdMetadata'
             /\ \A u \in VdThreads : vdThread'[u].pc \in RemovingAt =>
                   Ahead(v)' \cap vdThread'[u].mine = {}
  <2>1. /\ Ahead(v) \cap (vdVectors \cup vdMetadata) = {}
        /\ vdThread[v].pc = "metadata" => Next1(v) \notin vdMetadata
        /\ \A u \in VdThreads : vdThread[u].pc \in RemovingAt => Ahead(v) \cap vdThread[u].mine = {}
    BY DEF NeverStored
  <2>2. Ahead(v)' \cap (vdVectors' \cup vdMetadata') = {}
    BY <1>3, <2>1
  <2>3. vdThread'[v].pc = "metadata" => Next1(v)' \notin vdMetadata'
    BY <1>1, <1>2, <2>1
  <2>4. ASSUME NEW u \in VdThreads, vdThread'[u].pc \in RemovingAt
        PROVE  Ahead(v)' \cap vdThread'[u].mine = {}
    <3>1. CASE u = t
      BY <1>1, <2>4, <3>1
    <3>2. CASE u # t
      BY <1>2, <1>3, <2>1, <2>4, <3>2
    <3> QED
      BY <3>1, <3>2
  <2> QED
    BY <2>2, <2>3, <2>4
<1> QED
  BY <1>4 DEF NeverStored, RemovingAt

\* The batches have no id in common.
LEMMA BatchesDiffer ==
    ASSUME VectorTypeOK, NEW t \in VdThreads, NEW u \in VdThreads, t # u,
           vdThread[t].pc \in StoringAt, vdThread[u].pc \in StoringAt,
           NEW i \in IdsIn(vdThread[t].todo)
    PROVE  i \notin IdsIn(vdThread[u].todo)
<1>1. t \in VdLoaders /\ u \in VdLoaders
  BY OperationType DEF OperationOK
<1>2. i \in IdsIn(VdBatch[t])
  BY OperationType DEF OperationOK
<1> SUFFICES ASSUME i \in IdsIn(vdThread[u].todo) PROVE FALSE
  OBVIOUS
<1>3. i \in IdsIn(VdBatch[u])
  BY OperationType DEF OperationOK
<1>4. PICK j \in DOMAIN VdBatch[t] : i = VdBatch[t][j]
  BY <1>2 DEF IdsIn
<1>5. PICK k \in DOMAIN VdBatch[u] : i = VdBatch[u][k]
  BY <1>3 DEF IdsIn
<1> QED
  BY <1>1, <1>4, <1>5, VectorDbAssumption, ZenonT(40)

\* What is ahead of a thread is on its list.
LEMMA AheadIs ==
    ASSUME VectorTypeOK, NEW u \in VdThreads
    PROVE  /\ Ahead(u) \subseteq IdsIn(vdThread[u].todo)
           /\ vdThread[u].pc \in {"check", "describe", "vector"} => Ahead(u) = IdsIn(vdThread[u].todo)
           /\ vdThread[u].pc = "metadata" => Ahead(u) = IdsIn(Tail(vdThread[u].todo))
           /\ vdThread[u].pc \notin StoringAt => Ahead(u) = {}
<1>1. PICK q : q = vdThread[u]
  OBVIOUS
<1>2. q.pc = "metadata" => IdsIn(Tail(q.todo)) \subseteq IdsIn(q.todo)
  <2> SUFFICES ASSUME q.pc = "metadata" PROVE IdsIn(Tail(q.todo)) \subseteq IdsIn(q.todo)
    OBVIOUS
  <2>1. OperationOK(u, q)
    BY <1>1, OperationType
  <2>2. q.todo \in Seq(Nat) /\ q.todo # <<>>
    BY <2>1, OperationFields DEF OperationOK
  <2> QED
    BY <2>2, TailIs
<1> QED
  BY <1>1, <1>2 DEF Ahead, StoringAt

\* A loader that goes on storing.
LEMMA StoredOK ==
    ASSUME NEW t, NEW q, OperationOK(t, q), q.pc \in StoringAt, NEW r \in Operations,
           IsFiniteSet(r.mine), r.pc \in StoringAt, r.pc # "check" => r.todo # <<>>,
           \/ r.todo = q.todo
           \/ r.todo = <<>>
           \/ q.todo # <<>> /\ r.todo = Tail(q.todo)
    PROVE  OperationOK(t, r) /\ IdsIn(r.todo) \subseteq IdsIn(q.todo)
<1>1. /\ t \in VdLoaders /\ IdsIn(q.todo) \subseteq IdsIn(VdBatch[t]) /\ q.todo \in Seq(Nat)
      /\ \A j, k \in DOMAIN q.todo : q.todo[j] = q.todo[k] => j = k
  BY OperationFields DEF OperationOK
<1>2. /\ IdsIn(r.todo) \subseteq IdsIn(q.todo)
      /\ \A j, k \in DOMAIN r.todo : r.todo[j] = r.todo[k] => j = k
  <2>1. CASE r.todo = q.todo
    BY <1>1, <2>1
  <2>2. CASE r.todo = <<>>
    BY <2>2 DEF IdsIn
  <2>3. CASE q.todo # <<>> /\ r.todo = Tail(q.todo)
    BY <1>1, <2>3, TailIs, TailDistinct
  <2> QED
    BY <2>1, <2>2, <2>3
<1>3. r.pc # "start" /\ r.pc # "remove" /\ r.pc \notin InsertingAt
  BY DEF StoringAt, InsertingAt
<1>4. r.pc \in {"describe", "vector", "metadata", "remove"} \cup InsertingAt => r.todo # <<>>
  BY <1>3
<1> QED
  BY <1>1, <1>2, <1>3, <1>4 DEF OperationOK

\* The same of the state after a step.
LEMMA OwesStoredNext ==
    ASSUME NEW t, vdThread'[t].pc \in StoringAt \cup {"index"}, NEW i, i \in vdThread'[t].mine
    PROVE  Owes(t, i)'
  BY DEF Owes, StoringAt

\* The cap, when a loader passes its test.
LEMMA CapTested ==
    ASSUME VectorTypeOK, ~AtCapacity, vdVectors' = vdVectors
    PROVE  CapReserved'
<1>1. PICK B, V : B = Admitted' /\ V = vdVectors
  OBVIOUS
<1>2. IsFiniteSet(VdLoaders) /\ B \in SUBSET VdLoaders
  BY <1>1, VectorDbAssumption DEF Admitted
<1>3. IsFiniteSet(B) /\ Cardinality(B) <= Cardinality(VdLoaders)
  BY <1>2, FS_Subset
<1>4. IsFiniteSet(V)
  BY <1>1, GraphTypes
<1>5. /\ Cardinality(B) \in Nat /\ Cardinality(V) \in Nat
      /\ Cardinality(VdLoaders) \in Nat /\ MaxVectors \in Nat
  BY <1>2, <1>3, <1>4, FS_CardinalityType, VectorDbAssumption
<1>6. Cardinality(V) < MaxVectors
  BY <1>1, <1>5 DEF AtCapacity
<1>7. Cardinality(V) + Cardinality(B) < MaxVectors + Cardinality(VdLoaders)
  BY <1>3, <1>5, <1>6
<1> QED
  BY <1>1, <1>7 DEF CapReserved

\* A step of the storing that leaves the vectors, the metadata and what the
\* thread has collected alone, and keeps its list or shortens it.
LEMMA StoringMove ==
    ASSUME VectorInv, NEW t \in VdThreads, vdThread[t].pc \in {"check", "describe"},
           NEW r \in Operations, r.pc \in {"check", "describe", "vector"}, r.mine = vdThread[t].mine,
           r.pc # "check" => r.todo # <<>>,
           \/ r.todo = vdThread[t].todo
           \/ r.todo = <<>>
           \/ vdThread[t].todo # <<>> /\ r.todo = Tail(vdThread[t].todo),
           vdThread' = [vdThread EXCEPT ![t] = r],
           vdVectors' = vdVectors, vdMetadata' = vdMetadata, vdIndexed \subseteq vdIndexed',
           vdIndexed' \subseteq Nat, IsFiniteSet(vdIndexed'),
           r.pc = "vector" => Head(r.todo) \in vdIndexed',
           vdLayers' = vdLayers, vdEntry' = vdEntry, vdActive' = vdActive, CapReserved'
    PROVE  VectorInv'
<1>0. VectorTypeOK /\ NeverStored /\ RemovedStays /\ IndexedFirst /\ Accounted
  BY DEF VectorInv
<1>1. PICK q : q = vdThread[t]
  OBVIOUS
<1>2. OperationOK(t, q) /\ q.pc \in StoringAt
  BY <1>0, <1>1, OperationType DEF StoringAt
<1>3. r.pc \in StoringAt /\ r.pc \notin RemovingAt /\ r.pc # "metadata"
  BY DEF StoringAt, RemovingAt
<1>4. OperationOK(t, r) /\ IdsIn(r.todo) \subseteq IdsIn(q.todo)
  BY <1>1, <1>2, <1>3, OperationFields, StoredOK
<1>5. VectorTypeOK'
  <2>1. /\ vdIndexed' \subseteq Nat /\ vdVectors' \subseteq Nat /\ vdMetadata' \subseteq Nat
        /\ IsFiniteSet(vdIndexed') /\ IsFiniteSet(vdVectors')
        /\ DOMAIN vdLayers' \subseteq Nat /\ \A i \in DOMAIN vdLayers' : vdLayers'[i] \in Nat
        /\ vdEntry' \in EntryStates /\ vdActive' \in BOOLEAN
    BY <1>0, GraphTypes
  <2> QED
    BY <1>0, <1>4, <2>1, VectorTypeKept
<1>6. vdThread'[t] = r
  BY <1>0, ThreadStep
<1>7. Ahead(t)' = IdsIn(r.todo) /\ Ahead(t) = IdsIn(q.todo)
  <2>1. Ahead(t) = IdsIn(q.todo)
    BY <1>0, <1>1, AheadIs
  <2>2. Ahead(t)' = IdsIn(r.todo)
    BY <1>6 DEF Ahead, IdsIn
  <2> QED
    BY <2>1, <2>2
<1>8. NeverStored'
  <2>1. Ahead(t)' \subseteq Ahead(t)
    BY <1>4, <1>7
  <2>2. \A v \in VdThreads : \A i \in Ahead(v)' :
           i \in vdVectors' \cup vdMetadata' => i \in vdVectors \cup vdMetadata
    OBVIOUS
  <2>3. \A v \in VdThreads : v # t /\ vdThread[v].pc = "metadata" /\ Next1(v) \in vdMetadata' =>
           Next1(v) \in vdMetadata
    OBVIOUS
  <2> QED
    BY <1>0, <1>3, <2>1, <2>2, <2>3, NeverStoredKept
<1>9. ASSUME NEW u \in VdThreads, u # t
      PROVE  vdThread'[u] = vdThread[u] /\ Next1(u)' = Next1(u)
  BY <1>0, <1>9, OthersStill
<1>10. RemovedStays'
  <2>1. ASSUME NEW u \in VdThreads, vdThread'[u].pc \in RemovingAt
        PROVE  vdThread'[u].mine \cap vdVectors' = {}
    BY <1>0, <1>3, <1>6, <1>9, <2>1 DEF RemovedStays
  <2> QED
    BY <2>1 DEF RemovedStays, RemovingAt
<1>11. IndexedFirst'
  <2>1. vdMetadata' \subseteq vdIndexed'
    BY <1>0 DEF IndexedFirst
  <2>2. ASSUME NEW u \in VdThreads, vdThread'[u].pc \in {"vector", "metadata"}
        PROVE  Next1(u)' \in vdIndexed'
    <3>1. CASE u = t
      BY <1>3, <1>6, <2>2, <3>1 DEF Next1
    <3>2. CASE u # t
      BY <1>0, <1>9, <2>2, <3>2 DEF IndexedFirst
    <3> QED
      BY <3>1, <3>2
  <2> QED
    BY <2>1, <2>2 DEF IndexedFirst
<1>12. Accounted'
  <2>1. ASSUME NEW i \in vdVectors' \ DOMAIN vdLayers', Owes(t, i) PROVE Owes(t, i)'
    <3>1. i \in q.mine
      BY <1>1, <2>1, OwesToIndex
    <3>2. i \in vdThread'[t].mine /\ vdThread'[t].pc \in StoringAt \cup {"index"}
      BY <1>1, <1>3, <1>6, <3>1
    <3> QED
      BY <3>2, OwesStoredNext
  <2>2. /\ vdActive' => vdActive
        /\ vdVectors' \subseteq vdVectors /\ vdVectors' \cap DOMAIN vdLayers \subseteq DOMAIN vdLayers'
    OBVIOUS
  <2>3. \A i \in vdVectors' \ DOMAIN vdLayers' : Owes(t, i) => Owes(t, i)'
    BY <2>1
  <2> QED
    BY <1>0, <2>2, <2>3, AccountedKept
<1> QED
  BY <1>5, <1>8, <1>10, <1>11, <1>12 DEF VectorInv

LEMMA CheckCapacityKeeps ==
    ASSUME VectorInv, NEW t \in VdThreads, CheckCapacity(t)
    PROVE  VectorInv'
<1>0. VectorTypeOK /\ CapReserved
  BY DEF VectorInv
<1>1. PICK q : q = vdThread[t]
  OBVIOUS
<1>2. OperationOK(t, q) /\ q \in Operations /\ q.pc = "check"
  BY <1>0, <1>1, OperationType DEF OperationOK, CheckCapacity, At
<1>3. /\ UNCHANGED mapVars /\ vdVectors' = vdVectors /\ vdMetadata' = vdMetadata /\ vdIndexed' = vdIndexed
      /\ vdLayers' = vdLayers /\ vdEntry' = vdEntry /\ vdActive' = vdActive
  BY DEF CheckCapacity, mapVars, hnswVars
<1>4. vdIndexed' \subseteq Nat /\ IsFiniteSet(vdIndexed') /\ vdIndexed \subseteq vdIndexed'
  BY <1>0, <1>3, GraphTypes
<1>5. CASE q.todo = <<>>
  <2>1. Goto(t, "index")
    BY <1>1, <1>5 DEF CheckCapacity
  <2>2. PICK r : r = [q EXCEPT !.pc = "index"]
    OBVIOUS
  <2>3. vdThread' = [vdThread EXCEPT ![t] = r]
    BY <1>0, <1>1, <2>1, <2>2, GotoIs
  <2>4. /\ "index" \in Places /\ "index" \notin StoringAt /\ "index" # "start"
        /\ "index" \notin InsertingAt \cup {"remove"} \cup RemovingAt
    BY DEF Places, StoringAt, InsertingAt, RemovingAt
  <2>5. OperationOK(t, r) /\ r.pc = "index" /\ r.mine = q.mine
    BY <1>2, <2>2, <2>4, MovedOK
  <2>6. ASSUME NEW i \in vdVectors \ DOMAIN vdLayers, Owes(t, i) PROVE Owes(t, i)'
    <3>1. i \in q.mine
      BY <1>1, <1>2, <2>6, OwesToIndex
    <3>2. vdThread'[t] = r
      BY <1>0, <2>3, ThreadStep
    <3> QED
      BY <2>5, <3>1, <3>2, OwesStoredNext
  <2> QED
    BY <1>0, <1>3, <2>3, <2>4, <2>5, <2>6, GraphTypes, NodesKept
<1>6. CASE q.todo # <<>> /\ ~AtCapacity
  <2>1. Goto(t, "describe")
    BY <1>1, <1>6 DEF CheckCapacity
  <2>2. PICK r : r = [q EXCEPT !.pc = "describe"]
    OBVIOUS
  <2>3. vdThread' = [vdThread EXCEPT ![t] = r]
    BY <1>0, <1>1, <2>1, <2>2, GotoIs
  <2>4. "describe" \in Places
    BY DEF Places, StoringAt
  <2>5. r \in Operations /\ r.pc = "describe" /\ r.mine = q.mine /\ r.todo = q.todo
    BY <1>2, <2>2, <2>4 DEF Operations
  <2>6. CapReserved'
    BY <1>0, <1>3, <1>6, CapTested
  <2> QED
    BY <1>1, <1>2, <1>3, <1>4, <1>6, <2>3, <2>5, <2>6, StoringMove
<1>7. CASE q.todo # <<>> /\ AtCapacity
  <2>1. PICK rest \in {<<>>, Tail(q.todo)} : vdThread' = [vdThread EXCEPT ![t].todo = rest]
    BY <1>1, <1>7 DEF CheckCapacity
  <2>2. PICK r : r = [q EXCEPT !.todo = rest]
    OBVIOUS
  <2>3. vdThread' = [vdThread EXCEPT ![t] = r]
    BY <1>0, <1>1, <2>1, <2>2 DEF VectorTypeOK
  <2>4. rest \in Seq(Nat)
    <3>1. q.todo \in Seq(Nat)
      BY <1>2, OperationFields
    <3>2. Tail(q.todo) \in Seq(Nat)
      BY <1>7, <3>1, TailIs
    <3>3. <<>> \in Seq(Nat)
      OBVIOUS
    <3> QED
      BY <2>1, <3>2, <3>3
  <2>5. r \in Operations /\ r.pc = "check" /\ r.mine = q.mine /\ r.todo = rest
    BY <1>2, <2>2, <2>4 DEF Operations
  <2>6. CapReserved'
    BY <1>0, <1>3, <2>3, <2>5, CapKeeps
  <2> QED
    BY <1>1, <1>2, <1>3, <1>4, <1>7, <2>1, <2>3, <2>5, <2>6, StoringMove
<1> QED
  BY <1>5, <1>6, <1>7

LEMMA IndexMetadataKeeps ==
    ASSUME VectorInv, NEW t \in VdThreads, IndexMetadata(t)
    PROVE  VectorInv'
<1>0. VectorTypeOK /\ CapReserved
  BY DEF VectorInv
<1>1. PICK q : q = vdThread[t]
  OBVIOUS
<1>2. OperationOK(t, q) /\ q \in Operations /\ q.pc = "describe"
  BY <1>0, <1>1, OperationType DEF OperationOK, IndexMetadata, At
<1>3. q.todo \in Seq(Nat) /\ q.todo # <<>>
  BY <1>2, OperationFields DEF OperationOK
<1>4. PICK h : h = Head(q.todo)
  OBVIOUS
<1>5. h \in Nat
  BY <1>3, <1>4, TailIs
<1>6. /\ vdIndexed' = vdIndexed \cup {h} /\ vdVectors' = vdVectors /\ vdMetadata' = vdMetadata
      /\ vdLayers' = vdLayers /\ vdEntry' = vdEntry /\ vdActive' = vdActive /\ Goto(t, "vector")
  BY <1>1, <1>4 DEF IndexMetadata, Next1, hnswVars
<1>7. vdIndexed' \subseteq Nat /\ IsFiniteSet(vdIndexed') /\ vdIndexed \subseteq vdIndexed'
  <2>1. IsFiniteSet(vdIndexed) /\ vdIndexed \subseteq Nat
    BY <1>0, GraphTypes
  <2>2. PICK S : S = vdIndexed
    OBVIOUS
  <2>3. IsFiniteSet(S \cup {h})
    BY <2>1, <2>2, FS_AddElement
  <2> QED
    BY <1>5, <1>6, <2>1, <2>2, <2>3
<1>8. PICK r : r = [q EXCEPT !.pc = "vector"]
  OBVIOUS
<1>9. vdThread' = [vdThread EXCEPT ![t] = r]
  BY <1>0, <1>1, <1>6, <1>8, GotoIs
<1>10. "vector" \in Places
  BY DEF Places, StoringAt
<1>11. r \in Operations /\ r.pc = "vector" /\ r.mine = q.mine /\ r.todo = q.todo
  BY <1>2, <1>8, <1>10 DEF Operations
<1>12. CapReserved'
  BY <1>0, <1>1, <1>2, <1>6, <1>9, CapKeeps
<1>13. Head(r.todo) \in vdIndexed'
  BY <1>4, <1>6, <1>11
<1> QED
  BY <1>1, <1>2, <1>3, <1>6, <1>7, <1>9, <1>11, <1>12, <1>13, StoringMove

\* The head of a storing loader's list: no other loader has it, and it does
\* not come again.
LEMMA StoringHead ==
    ASSUME VectorTypeOK, NEW t \in VdThreads, vdThread[t].pc \in {"vector", "metadata"},
           NEW h, h = Head(vdThread[t].todo)
    PROVE  /\ h \in Nat /\ h \in IdsIn(vdThread[t].todo) /\ vdThread[t].todo # <<>>
           /\ vdThread[t].todo \in Seq(Nat)
           /\ h \notin IdsIn(Tail(vdThread[t].todo))
           /\ IdsIn(Tail(vdThread[t].todo)) \subseteq IdsIn(vdThread[t].todo)
           /\ \A v \in VdThreads : v # t => h \notin Ahead(v)
           /\ \A v \in VdThreads : v # t /\ vdThread[v].pc = "metadata" => Next1(v) # h
<1>1. PICK q : q = vdThread[t]
  OBVIOUS
<1>2. OperationOK(t, q)
  BY <1>1, OperationType
<1>3. /\ q.todo \in Seq(Nat) /\ q.todo # <<>> /\ q.pc \in StoringAt
      /\ \A j, k \in DOMAIN q.todo : q.todo[j] = q.todo[k] => j = k
  BY <1>1, <1>2, OperationFields DEF OperationOK, StoringAt
<1>4. /\ h \in Nat /\ h \in IdsIn(q.todo) /\ h \notin IdsIn(Tail(q.todo))
      /\ IdsIn(Tail(q.todo)) \subseteq IdsIn(q.todo)
  BY <1>1, <1>3, TailIs, TailDistinct
<1>5. ASSUME NEW v \in VdThreads, v # t PROVE h \notin Ahead(v)
  <2>1. CASE vdThread[v].pc \notin StoringAt
    BY <2>1, AheadIs
  <2>2. CASE vdThread[v].pc \in StoringAt
    <3>1. h \notin IdsIn(vdThread[v].todo)
      BY <1>1, <1>3, <1>4, <1>5, <2>2, BatchesDiffer
    <3> QED
      BY <3>1, AheadIs
  <2> QED
    BY <2>1, <2>2
<1>6. ASSUME NEW v \in VdThreads, v # t, vdThread[v].pc = "metadata" PROVE Next1(v) # h
  <2>1. PICK p : p = vdThread[v]
    OBVIOUS
  <2>2. OperationOK(v, p)
    BY <2>1, OperationType
  <2>3. p.todo \in Seq(Nat) /\ p.todo # <<>> /\ p.pc \in StoringAt
    BY <1>6, <2>1, <2>2, OperationFields DEF OperationOK, StoringAt
  <2>4. Next1(v) \in IdsIn(p.todo)
    BY <2>1, <2>3, TailIs DEF Next1
  <2>5. h \notin IdsIn(p.todo)
    BY <1>1, <1>3, <1>4, <1>6, <2>1, <2>3, BatchesDiffer
  <2> QED
    BY <2>4, <2>5
<1> QED
  BY <1>1, <1>3, <1>4, <1>5, <1>6

\* The cap, when an admitted loader stores its vector.
LEMMA CapStored ==
    ASSUME VectorTypeOK, CapReserved, NEW t \in VdThreads, vdThread[t].pc = "vector",
           NEW r, r.pc = "metadata", vdThread' = [vdThread EXCEPT ![t] = r],
           NEW h, vdVectors' = vdVectors \cup {h}
    PROVE  CapReserved'
<1>1. t \in VdLoaders
  BY OperationType DEF OperationOK, StoringAt
<1>2. t \in Admitted
  BY <1>1 DEF Admitted
<1>3. Admitted' \subseteq Admitted \ {t}
  <2>1. ASSUME NEW u \in Admitted' PROVE u \in Admitted \ {t}
    <3>1. u \in VdLoaders /\ vdThread'[u].pc \in {"describe", "vector"} /\ u \in VdThreads
      BY DEF Admitted, VdThreads
    <3>2. u # t
      BY <3>1, ThreadStep
    <3>3. vdThread'[u] = vdThread[u]
      BY <3>1, <3>2, ThreadStep
    <3> QED
      BY <3>1, <3>2, <3>3 DEF Admitted
  <2> QED
    BY <2>1
<1>4. PICK A, B, V, W : A = Admitted /\ B = Admitted' /\ V = vdVectors /\ W = vdVectors'
  OBVIOUS
<1>5. IsFiniteSet(VdLoaders) /\ A \in SUBSET VdLoaders
  BY <1>4, VectorDbAssumption DEF Admitted
<1>6. IsFiniteSet(A)
  BY <1>5, FS_Subset
<1>7. IsFiniteSet(A \ {t}) /\ Cardinality(A \ {t}) = Cardinality(A) - 1
  BY <1>2, <1>4, <1>6, FS_RemoveElement
<1>8. IsFiniteSet(B) /\ Cardinality(B) <= Cardinality(A \ {t})
  <2>1. B \in SUBSET (A \ {t})
    BY <1>3, <1>4
  <2> QED
    BY <1>7, <2>1, FS_Subset
<1>9. IsFiniteSet(V)
  BY <1>4, GraphTypes
<1>10. /\ IsFiniteSet(W)
       /\ Cardinality(W) = IF h \in V THEN Cardinality(V) ELSE Cardinality(V) + 1
  <2>1. W = V \cup {h}
    BY <1>4
  <2> QED
    BY <1>9, <2>1, FS_AddElement
<1>11. /\ Cardinality(A) \in Nat /\ Cardinality(B) \in Nat /\ Cardinality(V) \in Nat
       /\ Cardinality(W) \in Nat /\ Cardinality(VdLoaders) \in Nat /\ MaxVectors \in Nat
  BY <1>5, <1>6, <1>8, <1>9, <1>10, FS_CardinalityType, VectorDbAssumption
<1>12. Cardinality(V) + Cardinality(A) < MaxVectors + Cardinality(VdLoaders)
  BY <1>4 DEF CapReserved
<1>13. Cardinality(W) <= Cardinality(V) + 1
  BY <1>10, <1>11
<1>14. Cardinality(B) <= Cardinality(A) - 1
  BY <1>7, <1>8
<1>15. Cardinality(W) + Cardinality(B) < MaxVectors + Cardinality(VdLoaders)
  BY <1>11, <1>12, <1>13, <1>14
<1> QED
  BY <1>4, <1>15 DEF CapReserved

LEMMA StoreVectorKeeps ==
    ASSUME VectorInv, NEW t \in VdThreads, StoreVector(t)
    PROVE  VectorInv'
<1>0. VectorTypeOK /\ NeverStored /\ RemovedStays /\ IndexedFirst /\ Accounted /\ CapReserved
  BY DEF VectorInv
<1>1. PICK q : q = vdThread[t]
  OBVIOUS
<1>2. OperationOK(t, q) /\ q \in Operations /\ q.pc = "vector"
  BY <1>0, <1>1, OperationType DEF OperationOK, StoreVector, At
<1>3. PICK h : h = Head(q.todo)
  OBVIOUS
<1>4. /\ h \in Nat /\ h \in IdsIn(q.todo) /\ q.todo # <<>>
      /\ h \notin IdsIn(Tail(q.todo)) /\ IdsIn(Tail(q.todo)) \subseteq IdsIn(q.todo)
      /\ \A v \in VdThreads : v # t => h \notin Ahead(v)
  BY <1>0, <1>1, <1>2, <1>3, StoringHead
<1>5. /\ vdVectors' = vdVectors \cup {h} /\ vdIndexed' = vdIndexed /\ vdMetadata' = vdMetadata
      /\ vdLayers' = vdLayers /\ vdEntry' = vdEntry /\ vdActive' = vdActive /\ Goto(t, "metadata")
  BY <1>1, <1>3 DEF StoreVector, Next1, hnswVars
<1>6. PICK r : r = [q EXCEPT !.pc = "metadata"]
  OBVIOUS
<1>7. vdThread' = [vdThread EXCEPT ![t] = r]
  BY <1>0, <1>1, <1>5, <1>6, GotoIs
<1>8. "metadata" \in Places /\ "metadata" \in StoringAt /\ "vector" \in StoringAt /\ "metadata" \notin RemovingAt
  BY DEF Places, StoringAt, RemovingAt
<1>9. r \in Operations /\ r.pc = "metadata" /\ r.mine = q.mine /\ r.todo = q.todo
  BY <1>2, <1>6, <1>8 DEF Operations
<1>10. OperationOK(t, r)
  BY <1>2, <1>4, <1>8, <1>9, OperationFields, StoredOK
<1>11. vdThread'[t] = r
  BY <1>0, <1>7, ThreadStep
<1>12. VectorTypeOK'
  <2>1. PICK V : V = vdVectors
    OBVIOUS
  <2>2. V \subseteq Nat /\ IsFiniteSet(V)
    BY <1>0, <2>1, GraphTypes
  <2>3. IsFiniteSet(V \cup {h})
    BY <2>2, FS_AddElement
  <2>4. IsFiniteSet(vdVectors') /\ vdVectors' \subseteq Nat
    BY <1>4, <1>5, <2>1, <2>2, <2>3
  <2>5. /\ vdIndexed' \subseteq Nat /\ vdMetadata' \subseteq Nat /\ IsFiniteSet(vdIndexed')
        /\ DOMAIN vdLayers' \subseteq Nat /\ \A i \in DOMAIN vdLayers' : vdLayers'[i] \in Nat
        /\ vdEntry' \in EntryStates /\ vdActive' \in BOOLEAN
    BY <1>0, <1>5, GraphTypes
  <2> QED
    BY <1>0, <1>7, <1>10, <2>4, <2>5, VectorTypeKept
<1>13. Ahead(t) = IdsIn(q.todo) /\ Ahead(t)' = IdsIn(Tail(q.todo))
  <2>1. Ahead(t) = IdsIn(q.todo)
    BY <1>0, <1>1, <1>2, AheadIs
  <2>2. Ahead(t)' = IdsIn(Tail(r.todo))
    BY <1>9, <1>11 DEF Ahead, IdsIn
  <2> QED
    BY <1>9, <2>1, <2>2
<1>14. ASSUME NEW u \in VdThreads, u # t
      PROVE  vdThread'[u] = vdThread[u] /\ Next1(u)' = Next1(u) /\ Ahead(u)' = Ahead(u)
  BY <1>0, <1>7, <1>14, OthersStill
<1>15. h \notin vdMetadata /\ \A u \in VdThreads : vdThread[u].pc \in RemovingAt => h \notin vdThread[u].mine
  BY <1>0, <1>4, <1>13 DEF NeverStored
<1>16. NeverStored'
  <2>1. Ahead(t)' \subseteq Ahead(t)
    BY <1>4, <1>13
  <2>2. ASSUME NEW v \in VdThreads, NEW i \in Ahead(v)', i \in vdVectors' \cup vdMetadata'
        PROVE  i \in vdVectors \cup vdMetadata
    <3>1. i # h
      <4>1. CASE v = t
        BY <1>4, <1>13, <2>2, <4>1
      <4>2. CASE v # t
        BY <1>4, <1>14, <2>2, <4>2
      <4> QED
        BY <4>1, <4>2
    <3> QED
      BY <1>5, <2>2, <3>1
  <2>3. Next1(t)' \notin vdMetadata'
    BY <1>3, <1>5, <1>9, <1>11, <1>15 DEF Next1
  <2>4. \A v \in VdThreads : v # t /\ vdThread[v].pc = "metadata" /\ Next1(v) \in vdMetadata' =>
           Next1(v) \in vdMetadata
    BY <1>5
  <2>5. r.pc \notin RemovingAt
    BY <1>8, <1>9
  <2> QED
    BY <1>0, <1>7, <2>1, <2>2, <2>3, <2>4, <2>5, NeverStoredKept
<1>17. RemovedStays'
  <2>1. ASSUME NEW u \in VdThreads, vdThread'[u].pc \in RemovingAt
        PROVE  vdThread'[u].mine \cap vdVectors' = {}
    <3>1. u # t
      BY <1>8, <1>9, <1>11, <2>1
    <3>2. vdThread'[u] = vdThread[u]
      BY <1>14, <3>1
    <3>3. vdThread[u].mine \cap vdVectors = {}
      BY <1>0, <2>1, <3>2 DEF RemovedStays
    <3> QED
      BY <1>5, <1>15, <2>1, <3>2, <3>3
  <2> QED
    BY <2>1 DEF RemovedStays, RemovingAt
<1>18. IndexedFirst'
  <2>1. vdMetadata' \subseteq vdIndexed'
    BY <1>0, <1>5 DEF IndexedFirst
  <2>2. ASSUME NEW u \in VdThreads, vdThread'[u].pc \in {"vector", "metadata"}
        PROVE  Next1(u)' \in vdIndexed'
    <3>1. CASE u = t
      <4>1. Next1(t) \in vdIndexed
        BY <1>0, <1>1, <1>2 DEF IndexedFirst
      <4>2. Next1(t)' = Next1(t)
        BY <1>1, <1>9, <1>11 DEF Next1
      <4> QED
        BY <1>5, <3>1, <4>1, <4>2
    <3>2. CASE u # t
      BY <1>0, <1>5, <1>14, <2>2, <3>2 DEF IndexedFirst
    <3> QED
      BY <3>1, <3>2
  <2> QED
    BY <2>1, <2>2 DEF IndexedFirst
<1>19. Accounted'
  <2> SUFFICES ASSUME vdActive', NEW i \in vdVectors' \ DOMAIN vdLayers'
               PROVE  \E u \in VdThreads : Owes(u, i)'
    BY DEF Accounted
  <2>1. CASE i = h
    <3>1. Next1(t)' = h
      BY <1>3, <1>9, <1>11 DEF Next1
    <3>2. Owes(t, h)'
      BY <1>9, <1>11, <3>1 DEF Owes
    <3> QED
      BY <2>1, <3>2
  <2>2. CASE i # h
    <3>1. vdActive /\ i \in vdVectors \ DOMAIN vdLayers
      BY <1>5, <2>2
    <3>2. PICK u \in VdThreads : Owes(u, i)
      BY <1>0, <3>1 DEF Accounted
    <3>3. CASE u = t
      <4>1. i \in q.mine
        BY <1>1, <1>2, <3>2, <3>3, OwesToIndex
      <4>2. i \in vdThread'[t].mine /\ vdThread'[t].pc \in StoringAt \cup {"index"}
        BY <1>8, <1>9, <1>11, <4>1
      <4>3. Owes(t, i)'
        BY <4>2, OwesStoredNext
      <4> QED
        BY <4>3
    <3>4. CASE u # t
      <4>1. Owes(u, i)' <=> Owes(u, i)
        BY <1>14, <3>4, ThreadSame
      <4> QED
        BY <3>2, <4>1
    <3> QED
      BY <3>3, <3>4
  <2> QED
    BY <2>1, <2>2
<1>20. CapReserved'
  BY <1>0, <1>1, <1>2, <1>5, <1>7, <1>9, CapStored
<1> QED
  BY <1>12, <1>16, <1>17, <1>18, <1>19, <1>20 DEF VectorInv

LEMMA StoreMetadataKeeps ==
    ASSUME VectorInv, NEW t \in VdThreads, StoreMetadata(t)
    PROVE  VectorInv'
<1>0. VectorTypeOK /\ NeverStored /\ RemovedStays /\ IndexedFirst /\ Accounted /\ CapReserved
  BY DEF VectorInv
<1>1. PICK q : q = vdThread[t]
  OBVIOUS
<1>2. OperationOK(t, q) /\ q \in Operations /\ q.pc = "metadata"
  BY <1>0, <1>1, OperationType DEF OperationOK, StoreMetadata, At
<1>3. PICK h : h = Head(q.todo)
  OBVIOUS
<1>4. /\ h \in Nat /\ h \in IdsIn(q.todo) /\ q.todo # <<>> /\ q.todo \in Seq(Nat)
      /\ h \notin IdsIn(Tail(q.todo)) /\ IdsIn(Tail(q.todo)) \subseteq IdsIn(q.todo)
      /\ \A v \in VdThreads : v # t => h \notin Ahead(v)
      /\ \A v \in VdThreads : v # t /\ vdThread[v].pc = "metadata" => Next1(v) # h
  BY <1>0, <1>1, <1>2, <1>3, StoringHead
<1>5. PICK todo, mine : todo = Tail(q.todo) /\ mine = q.mine \cup {h}
  OBVIOUS
<1>6. PICK r : r = [q EXCEPT !.pc = "check", !.todo = todo, !.mine = mine]
  OBVIOUS
<1>7. /\ vdMetadata' = vdMetadata \cup {h} /\ vdIndexed' = vdIndexed /\ vdVectors' = vdVectors
      /\ vdLayers' = vdLayers /\ vdEntry' = vdEntry /\ vdActive' = vdActive
  BY <1>1, <1>3 DEF StoreMetadata, Next1, hnswVars
<1>a. vdThread' = [vdThread EXCEPT ![t] = r]
  BY <1>1, <1>2, <1>3, <1>5, <1>6 DEF StoreMetadata, Next1, Become, Operations
<1>8. "check" \in Places /\ "metadata" \in StoringAt /\ "check" \in StoringAt /\ "check" \notin RemovingAt
  BY DEF Places, StoringAt, RemovingAt
<1>b. todo \in Seq(Nat) /\ mine \in SUBSET Nat /\ IsFiniteSet(mine)
  <2>1. todo \in Seq(Nat)
    BY <1>4, <1>5, TailIs
  <2>2. IsFiniteSet(q.mine) /\ q.mine \in SUBSET Nat
    BY <1>2, OperationFields
  <2> QED
    BY <1>4, <1>5, <2>1, <2>2, FS_AddElement
<1>9. r \in Operations /\ r.pc = "check" /\ r.mine = mine /\ r.todo = todo
  BY <1>2, <1>6, <1>8, <1>b DEF Operations
<1>10. OperationOK(t, r)
  BY <1>2, <1>4, <1>5, <1>8, <1>9, <1>b, StoredOK
<1>11. vdThread'[t] = r
  BY <1>0, <1>a, ThreadStep
<1>12. VectorTypeOK'
  <2>1. /\ vdIndexed' \subseteq Nat /\ vdMetadata' \subseteq Nat /\ vdVectors' \subseteq Nat
        /\ IsFiniteSet(vdIndexed') /\ IsFiniteSet(vdVectors')
        /\ DOMAIN vdLayers' \subseteq Nat /\ \A i \in DOMAIN vdLayers' : vdLayers'[i] \in Nat
        /\ vdEntry' \in EntryStates /\ vdActive' \in BOOLEAN
    BY <1>0, <1>4, <1>7, GraphTypes
  <2> QED
    BY <1>0, <1>a, <1>10, <2>1, VectorTypeKept
<1>13. Ahead(t) = IdsIn(Tail(q.todo)) /\ Ahead(t)' = IdsIn(Tail(q.todo))
  <2>1. Ahead(t) = IdsIn(Tail(q.todo))
    BY <1>0, <1>1, <1>2, AheadIs
  <2>2. Ahead(t)' = IdsIn(r.todo)
    BY <1>9, <1>11 DEF Ahead, IdsIn
  <2> QED
    BY <1>5, <1>9, <2>1, <2>2
<1>14. ASSUME NEW u \in VdThreads, u # t
      PROVE  vdThread'[u] = vdThread[u] /\ Next1(u)' = Next1(u) /\ Ahead(u)' = Ahead(u)
  BY <1>0, <1>a, <1>14, OthersStill
<1>16. NeverStored'
  <2>1. Ahead(t)' \subseteq Ahead(t)
    BY <1>13
  <2>2. ASSUME NEW v \in VdThreads, NEW i \in Ahead(v)', i \in vdVectors' \cup vdMetadata'
        PROVE  i \in vdVectors \cup vdMetadata
    <3>1. i # h
      <4>1. CASE v = t
        BY <1>4, <1>13, <2>2, <4>1
      <4>2. CASE v # t
        BY <1>4, <1>14, <2>2, <4>2
      <4> QED
        BY <4>1, <4>2
    <3> QED
      BY <1>7, <2>2, <3>1
  <2>4. \A v \in VdThreads : v # t /\ vdThread[v].pc = "metadata" /\ Next1(v) \in vdMetadata' =>
           Next1(v) \in vdMetadata
    BY <1>4, <1>7
  <2>5. r.pc \notin RemovingAt /\ r.pc # "metadata"
    BY <1>8, <1>9
  <2> QED
    BY <1>0, <1>a, <2>1, <2>2, <2>4, <2>5, NeverStoredKept
<1>17. RemovedStays'
  <2>1. ASSUME NEW u \in VdThreads, vdThread'[u].pc \in RemovingAt
        PROVE  vdThread'[u].mine \cap vdVectors' = {}
    <3>1. u # t
      BY <1>8, <1>9, <1>11, <2>1
    <3> QED
      BY <1>0, <1>7, <1>14, <2>1, <3>1 DEF RemovedStays
  <2> QED
    BY <2>1 DEF RemovedStays, RemovingAt
<1>18. IndexedFirst'
  <2>0. h \in vdIndexed
    BY <1>0, <1>1, <1>2, <1>3 DEF IndexedFirst, Next1
  <2>1. vdMetadata' \subseteq vdIndexed'
    BY <1>0, <1>7, <2>0 DEF IndexedFirst
  <2>2. ASSUME NEW u \in VdThreads, vdThread'[u].pc \in {"vector", "metadata"}
        PROVE  Next1(u)' \in vdIndexed'
    <3>1. u # t
      BY <1>9, <1>11, <2>2
    <3> QED
      BY <1>0, <1>7, <1>14, <2>2, <3>1 DEF IndexedFirst
  <2> QED
    BY <2>1, <2>2 DEF IndexedFirst
<1>19. Accounted'
  <2>1. ASSUME NEW i \in vdVectors' \ DOMAIN vdLayers', Owes(t, i) PROVE Owes(t, i)'
    <3>1. i \in mine
      BY <1>1, <1>2, <1>3, <1>5, <2>1 DEF Owes, Next1, BuildingAt
    <3>2. i \in vdThread'[t].mine /\ vdThread'[t].pc \in StoringAt \cup {"index"}
      BY <1>8, <1>9, <1>11, <3>1
    <3> QED
      BY <3>2, OwesStoredNext
  <2>2. /\ vdActive' => vdActive
        /\ vdVectors' \subseteq vdVectors /\ vdVectors' \cap DOMAIN vdLayers \subseteq DOMAIN vdLayers'
    BY <1>7
  <2>3. \A i \in vdVectors' \ DOMAIN vdLayers' : Owes(t, i) => Owes(t, i)'
    BY <2>1
  <2> QED
    BY <1>0, <1>a, <2>2, <2>3, AccountedKept
<1>20. CapReserved'
  BY <1>0, <1>7, <1>9, <1>a, CapKeeps
<1> QED
  BY <1>12, <1>16, <1>17, <1>18, <1>19, <1>20 DEF VectorInv

\* The steps of a remover on the maps.
LEMMA RemoverMaps ==
    ASSUME VectorInv, NEW t \in VdThreads, vdThread[t].pc \in RemovingAt,
           NEW r, OperationOK(t, r), r.pc \in RemovingAt, NEW h,
           vdThread' = [vdThread EXCEPT ![t] = r],
           \/ /\ h \in vdMetadata /\ vdMetadata' = vdMetadata \ {h} /\ vdIndexed' = vdIndexed \ {h}
           \/ vdMetadata' = vdMetadata /\ vdIndexed' = vdIndexed,
           \/ /\ vdVectors' = vdVectors /\ r.mine = vdThread[t].mine
           \/ /\ vdVectors' = vdVectors \ {h}
              /\ r.mine = IF h \in vdVectors THEN vdThread[t].mine \cup {h} ELSE vdThread[t].mine,
           vdLayers' = vdLayers, vdEntry' = vdEntry, vdActive' = vdActive
    PROVE  VectorInv'
<1>0. VectorTypeOK /\ NeverStored /\ RemovedStays /\ IndexedFirst /\ Accounted /\ CapReserved
  BY DEF VectorInv
<1>1. PICK q : q = vdThread[t]
  OBVIOUS
<1>2. vdVectors' \subseteq vdVectors /\ vdMetadata' \subseteq vdMetadata /\ vdIndexed' \subseteq vdIndexed
  OBVIOUS
<1>3. r.pc \notin StoringAt /\ r.pc # "metadata" /\ r.pc # "vector" /\ r.pc # "check" /\ r.pc # "describe"
  BY DEF StoringAt, RemovingAt
<1>4. VectorTypeOK'
  <2>1. PICK V, I, W, J : V = vdVectors /\ I = vdIndexed /\ W = vdVectors' /\ J = vdIndexed'
    OBVIOUS
  <2>2. IsFiniteSet(V) /\ IsFiniteSet(I) /\ W \in SUBSET V /\ J \in SUBSET I
    BY <1>0, <1>2, <2>1, GraphTypes
  <2>3. IsFiniteSet(W) /\ IsFiniteSet(J)
    BY <2>2, FS_Subset
  <2>4. /\ vdIndexed' \subseteq Nat /\ vdMetadata' \subseteq Nat /\ vdVectors' \subseteq Nat
        /\ DOMAIN vdLayers' \subseteq Nat /\ \A i \in DOMAIN vdLayers' : vdLayers'[i] \in Nat
        /\ vdEntry' \in EntryStates /\ vdActive' \in BOOLEAN
    BY <1>0, <1>2, GraphTypes
  <2> QED
    BY <1>0, <2>1, <2>3, <2>4, VectorTypeKept
<1>5. vdThread'[t] = r
  BY <1>0, ThreadStep
<1>6. Ahead(t)' = {}
  BY <1>3, <1>5 DEF Ahead
<1>7. ASSUME NEW u \in VdThreads, u # t
      PROVE  vdThread'[u] = vdThread[u] /\ Next1(u)' = Next1(u) /\ Ahead(u)' = Ahead(u)
  BY <1>0, <1>7, OthersStill
<1>8. r.mine \subseteq q.mine \cup (vdVectors \ vdVectors')
  BY <1>1
<1>9. NeverStored'
  <2>1. ASSUME NEW v \in VdThreads PROVE Ahead(v)' \cap r.mine = {}
    <3>1. CASE v = t
      BY <1>6, <3>1
    <3>2. CASE v # t
      <4>1. Ahead(v) \cap vdVectors = {} /\ Ahead(v) \cap q.mine = {}
        BY <1>0, <1>1 DEF NeverStored
      <4> QED
        BY <1>7, <1>8, <3>2, <4>1
    <3> QED
      BY <3>1, <3>2
  <2>2. \A v \in VdThreads : \A i \in Ahead(v)' :
           i \in vdVectors' \cup vdMetadata' => i \in vdVectors \cup vdMetadata
    BY <1>2
  <2>3. \A v \in VdThreads : v # t /\ vdThread[v].pc = "metadata" /\ Next1(v) \in vdMetadata' =>
           Next1(v) \in vdMetadata
    BY <1>2
  <2> QED
    BY <1>0, <1>3, <1>6, <2>1, <2>2, <2>3, NeverStoredKept
<1>10. RemovedStays'
  <2>1. ASSUME NEW u \in VdThreads, vdThread'[u].pc \in RemovingAt
        PROVE  vdThread'[u].mine \cap vdVectors' = {}
    <3>1. CASE u = t
      <4>1. q.mine \cap vdVectors = {}
        BY <1>0, <1>1 DEF RemovedStays
      <4> QED
        BY <1>2, <1>5, <1>8, <3>1, <4>1
    <3>2. CASE u # t
      BY <1>0, <1>2, <1>7, <2>1, <3>2 DEF RemovedStays
    <3> QED
      BY <3>1, <3>2
  <2> QED
    BY <2>1 DEF RemovedStays, RemovingAt
<1>11. IndexedFirst'
  <2>1. vdMetadata' \subseteq vdIndexed'
    BY <1>0 DEF IndexedFirst
  <2>2. ASSUME NEW u \in VdThreads, vdThread'[u].pc \in {"vector", "metadata"}
        PROVE  Next1(u)' \in vdIndexed'
    <3>1. u # t
      BY <1>3, <1>5, <2>2
    <3>2. vdThread[u].pc \in {"vector", "metadata"} /\ Next1(u)' = Next1(u)
      BY <1>7, <2>2, <3>1
    <3>3. Next1(u) \in vdIndexed
      BY <1>0, <3>2 DEF IndexedFirst
    <3>4. Next1(u) \notin vdMetadata
      <4>1. CASE vdThread[u].pc = "metadata"
        BY <1>0, <4>1 DEF NeverStored
      <4>2. CASE vdThread[u].pc = "vector"
        <5>1. PICK x : x = Head(vdThread[u].todo)
          OBVIOUS
        <5>2. x \in IdsIn(vdThread[u].todo)
          BY <1>0, <3>2, <5>1, StoringHead
        <5>3. x \in Ahead(u)
          BY <1>0, <4>2, <5>2, AheadIs
        <5>4. x \notin vdMetadata
          BY <1>0, <5>3 DEF NeverStored
        <5> QED
          BY <5>1, <5>4 DEF Next1
      <4> QED
        BY <3>2, <4>1, <4>2
    <3> QED
      BY <3>2, <3>3, <3>4
  <2> QED
    BY <2>1, <2>2 DEF IndexedFirst
<1>12. Accounted'
  <2>1. \A i : ~Owes(t, i)
    BY OwesNothing
  <2>2. /\ vdActive' => vdActive
        /\ vdVectors' \cap DOMAIN vdLayers \subseteq DOMAIN vdLayers'
    BY <1>2
  <2> QED
    BY <1>0, <1>2, <2>1, <2>2, AccountedKept
<1>13. CapReserved'
  BY <1>0, <1>2, <1>3, CapKeeps
<1> QED
  BY <1>4, <1>9, <1>10, <1>11, <1>12, <1>13 DEF VectorInv

LEMMA UnindexMetadataKeeps ==
    ASSUME VectorInv, NEW t \in VdThreads, UnindexMetadata(t)
    PROVE  VectorInv'
<1>0. VectorTypeOK
  BY DEF VectorInv
<1>1. PICK q : q = vdThread[t]
  OBVIOUS
<1>2. OperationOK(t, q) /\ q.pc = "unindex" /\ q.todo # <<>>
  BY <1>0, <1>1, OperationType DEF UnindexMetadata, At
<1>3. PICK h : h = Head(q.todo)
  OBVIOUS
<1>4. /\ \/ /\ h \in vdMetadata /\ vdMetadata' = vdMetadata \ {h} /\ vdIndexed' = vdIndexed \ {h}
         \/ vdMetadata' = vdMetadata /\ vdIndexed' = vdIndexed
      /\ vdVectors' = vdVectors
      /\ vdLayers' = vdLayers /\ vdEntry' = vdEntry /\ vdActive' = vdActive /\ Goto(t, "remove")
  BY <1>1, <1>3 DEF UnindexMetadata, Next1, hnswVars
<1>5. PICK r : r = [q EXCEPT !.pc = "remove"]
  OBVIOUS
<1>6. vdThread' = [vdThread EXCEPT ![t] = r]
  BY <1>0, <1>1, <1>4, <1>5, GotoIs
<1>7. /\ "remove" \in Places /\ "remove" \notin StoringAt /\ "remove" # "start"
      /\ "remove" \in RemovingAt /\ "unindex" \in RemovingAt
  BY DEF Places, StoringAt, RemovingAt
<1>8. OperationOK(t, r) /\ r.pc = "remove" /\ r.mine = q.mine
  BY <1>2, <1>5, <1>7, MovedOK
<1> QED
  BY <1>1, <1>2, <1>4, <1>6, <1>7, <1>8, RemoverMaps

LEMMA RemoveVectorKeeps ==
    ASSUME VectorInv, NEW t \in VdThreads, RemoveVector(t)
    PROVE  VectorInv'
<1>0. VectorTypeOK
  BY DEF VectorInv
<1>1. PICK q : q = vdThread[t]
  OBVIOUS
<1>2. OperationOK(t, q) /\ q \in Operations /\ q.pc = "remove"
  BY <1>0, <1>1, OperationType DEF OperationOK, RemoveVector, At
<1>3. q.todo \in Seq(Nat) /\ q.todo # <<>> /\ IsFiniteSet(q.mine) /\ q.mine \in SUBSET Nat
  BY <1>2, OperationFields DEF OperationOK
<1>4. PICK h, todo, mine : /\ h = Head(q.todo) /\ todo = Tail(q.todo)
                           /\ mine = IF h \in vdVectors THEN q.mine \cup {h} ELSE q.mine
  OBVIOUS
<1>5. h \in Nat /\ todo \in Seq(Nat)
  BY <1>3, <1>4, TailIs
<1>6. mine \in SUBSET Nat /\ IsFiniteSet(mine)
  BY <1>3, <1>4, <1>5, FS_AddElement
<1>7. PICK r : r = [q EXCEPT !.pc = "unindex", !.todo = todo, !.mine = mine]
  OBVIOUS
<1>8. vdThread' = [vdThread EXCEPT ![t] = r]
  BY <1>1, <1>2, <1>4, <1>7 DEF RemoveVector, Next1, Become, Operations
<1>9. /\ vdVectors' = vdVectors \ {h} /\ vdMetadata' = vdMetadata /\ vdIndexed' = vdIndexed
      /\ vdLayers' = vdLayers /\ vdEntry' = vdEntry /\ vdActive' = vdActive
  BY <1>1, <1>4 DEF RemoveVector, Next1, hnswVars
<1>10. /\ "unindex" \in Places /\ "unindex" \notin StoringAt /\ "unindex" # "start"
       /\ "remove" \in RemovingAt /\ "unindex" \in RemovingAt /\ "unindex" \notin InsertingAt \cup {"remove"}
  BY DEF Places, StoringAt, RemovingAt, InsertingAt
<1>11. r \in Operations /\ r.pc = "unindex" /\ r.mine = mine
  BY <1>2, <1>5, <1>6, <1>7, <1>10 DEF Operations
<1>12. OperationOK(t, r)
  BY <1>6, <1>10, <1>11, OutsideOK
<1> QED
  BY <1>1, <1>2, <1>4, <1>8, <1>9, <1>10, <1>11, <1>12, RemoverMaps

(***************************************************************************)
(* VectorDb: the invariant.                                                *)
(***************************************************************************)

LEMMA VectorInitInv ==
    ASSUME VectorInit
    PROVE  VectorInv
<1>0. /\ vdIndexed = {} /\ vdVectors = {} /\ vdMetadata = {} /\ vdLayers = <<>>
      /\ vdEntry = NoEntry /\ vdActive = FALSE
      /\ vdThread = [t \in VdThreads |->
                       IF t \in VdLoaders
                       THEN [NoOperation EXCEPT !.pc = "check", !.todo = VdBatch[t]]
                       ELSE NoOperation]
  BY Zenon DEF VectorInit
<1>1. /\ vdIndexed = {} /\ vdVectors = {} /\ vdMetadata = {} /\ DOMAIN vdLayers = {}
      /\ vdEntry = NoEntry /\ vdActive = FALSE
  <2>1. DOMAIN vdLayers = {}
    <3>1. vdLayers = <<>>
      BY <1>0, Zenon
    <3> QED
      BY <3>1
  <2> QED
    BY <1>0, <2>1, Zenon
<1>2. NoEntry \in EntryStates
  BY DEF NoEntry, NoId, EntryStates
<1>3. IsFiniteSet({}) /\ Cardinality({}) = 0
  BY FS_EmptySet
<1>4. "check" \in StoringAt /\ "start" \in Places /\ "check" \in Places
      /\ "start" \notin StoringAt /\ "start" \notin InsertingAt /\ "start" \notin RemovingAt
      /\ "check" \notin InsertingAt /\ "check" \notin RemovingAt
  BY DEF Places, StoringAt, InsertingAt, RemovingAt
<1>5. NoOperation \in Operations /\ NoOperation.mine = {} /\ NoOperation.pc = "start"
  <2>1. <<>> \in Seq(Nat)
    OBVIOUS
  <2> QED
    BY <1>2, <1>4, <2>1 DEF NoOperation, Operations
<1>6. ASSUME NEW t \in VdThreads
      PROVE  /\ OperationOK(t, vdThread[t]) /\ vdThread[t] \in Operations
             /\ vdThread[t].pc \in {"start", "check"} /\ vdThread[t].mine = {}
  <2>1. CASE t \in VdLoaders
    <3>1. PICK b : b = VdBatch[t]
      OBVIOUS
    <3>2. PICK r : r = [NoOperation EXCEPT !.pc = "check", !.todo = b]
      OBVIOUS
    <3>3. vdThread[t] = r
      BY <1>0, <2>1, <3>1, <3>2, Zenon
    <3>4. b \in Seq(Nat) /\ \A j, k \in DOMAIN b : b[j] = b[k] => j = k
      BY <2>1, <3>1, VectorDbAssumption
    <3>5. r \in Operations /\ r.pc = "check" /\ r.todo = b /\ r.mine = {}
      BY <1>4, <1>5, <3>2, <3>4 DEF Operations
    <3>6. OperationOK(t, r)
      BY <1>3, <1>4, <2>1, <3>1, <3>4, <3>5 DEF OperationOK
    <3> QED
      BY <3>3, <3>5, <3>6
  <2>2. CASE t \notin VdLoaders
    <3>1. vdThread[t] = NoOperation
      BY <1>0, <2>2, Zenon
    <3>2. OperationOK(t, NoOperation)
      BY <1>3, <1>4, <1>5 DEF OperationOK
    <3> QED
      BY <1>5, <3>1, <3>2
  <2> QED
    BY <2>1, <2>2
<1>7. VectorTypeOK
  <2>1. vdThread \in [VdThreads -> Operations]
    <3>1. vdThread = [t \in VdThreads |-> vdThread[t]]
      BY <1>0, Zenon
    <3>2. \A t \in VdThreads : vdThread[t] \in Operations
      BY <1>6
    <3> QED
      BY <3>1, <3>2, Zenon
  <2>2. \A t \in VdThreads : OperationOK(t, vdThread[t])
    BY <1>6
  <2> QED
    BY <1>1, <1>2, <1>3, <2>1, <2>2 DEF VectorTypeOK, Operations, Places, OperationOK
<1>8. NeverStored /\ RemovedStays /\ IndexedFirst /\ Accounted
  BY <1>1, <1>4, <1>6 DEF NeverStored, RemovedStays, IndexedFirst, Accounted
<1>9. CapReserved
  <2>1. Admitted = {}
    BY <1>6 DEF Admitted, VdThreads
  <2>2. Cardinality(VdLoaders) \in Nat /\ MaxVectors \in Nat \ {0}
    BY FS_CardinalityType, VectorDbAssumption
  <2> QED
    BY <1>1, <1>3, <2>1, <2>2 DEF CapReserved
<1> QED
  BY <1>7, <1>8, <1>9 DEF VectorInv

LEMMA VectorStepInv ==
    ASSUME VectorInv, [VectorNext]_vectorVars
    PROVE  VectorInv'
<1>1. CASE UNCHANGED vectorVars
  <2>1. /\ vdIndexed' = vdIndexed /\ vdVectors' = vdVectors /\ vdMetadata' = vdMetadata
        /\ vdLayers' = vdLayers /\ vdEntry' = vdEntry /\ vdActive' = vdActive /\ vdThread' = vdThread
    BY <1>1 DEF vectorVars
  <2>2. ASSUME NEW u
        PROVE  /\ Ahead(u)' = Ahead(u) /\ Next1(u)' = Next1(u) /\ \A i : Owes(u, i)' <=> Owes(u, i)
    BY <2>1, ThreadSame
  <2>3. VectorTypeOK'
    <3>0. VectorTypeOK
      BY DEF VectorInv
    <3>1. vdThread' \in [VdThreads -> Operations]
      BY <2>1, <3>0 DEF VectorTypeOK, Operations, Places
    <3>2. ASSUME NEW u \in VdThreads
          PROVE  /\ IsFiniteSet(vdThread'[u].mine)
                 /\ vdThread'[u].pc = "start" => vdThread'[u].mine = {}
                 /\ vdThread'[u].pc \in {"describe", "vector", "metadata", "remove"} \cup InsertingAt =>
                       vdThread'[u].todo # <<>>
                 /\ vdThread'[u].pc \in StoringAt =>
                       /\ u \in VdLoaders /\ IdsIn(vdThread'[u].todo) \subseteq IdsIn(VdBatch[u])
                       /\ \A j, k \in DOMAIN vdThread'[u].todo :
                             vdThread'[u].todo[j] = vdThread'[u].todo[k] => j = k
      <4>1. OperationOK(u, vdThread'[u])
        BY <2>1, <3>0, OperationType
      <4> QED
        BY <4>1, Zenon DEF OperationOK
    <3>3. /\ vdIndexed' \subseteq Nat /\ vdMetadata' \subseteq Nat /\ vdVectors' \subseteq Nat
          /\ IsFiniteSet(vdIndexed') /\ IsFiniteSet(vdVectors')
          /\ DOMAIN vdLayers' \subseteq Nat /\ \A i \in DOMAIN vdLayers' : vdLayers'[i] \in Nat
          /\ vdEntry' \in EntryStates /\ vdActive' \in BOOLEAN
      BY <2>1, <3>0, GraphTypes
    <3> QED
      BY <3>1, <3>2, <3>3 DEF VectorTypeOK, Operations, Places, IdsIn, StoringAt, InsertingAt
  <2>4. NeverStored' /\ RemovedStays' /\ IndexedFirst'
    BY <2>1, <2>2 DEF VectorInv, NeverStored, RemovedStays, IndexedFirst, RemovingAt
  <2>5. Accounted'
    BY <2>1, <2>2 DEF VectorInv, Accounted
  <2>6. CapReserved'
    BY <2>1 DEF VectorInv, CapReserved, Admitted
  <2> QED
    BY <2>3, <2>4, <2>5, <2>6 DEF VectorInv
<1>2. CASE VectorNext
  <2>1. PICK t \in VdThreads : Loading(t) \/ Building(t) \/ Inserting(t) \/ Removing(t)
    BY <1>2 DEF VectorNext
  <2>2. CASE Loading(t)
    BY <2>2, CheckCapacityKeeps, IndexMetadataKeeps, StoreVectorKeeps, StoreMetadataKeeps,
       IndexNewVectorsKeeps, TakeBuildLockKeeps DEF Loading
  <2>3. CASE Building(t)
    BY <2>3, BuildIndexKeeps, ClearKeeps, SnapshotKeeps DEF Building
  <2>4. CASE Inserting(t)
    BY <2>4, SkipNodeKeeps, ChooseNeighboursKeeps, AddLayerKeeps, AddEdgesKeeps, AddReverseEdgeKeeps,
       NodeInsertedKeeps, GraphDoneKeeps DEF Inserting
  <2>5. CASE Removing(t)
    BY <2>5, RemoveSourceKeeps, UnindexMetadataKeeps, RemoveVectorKeeps, RemoveNodesKeeps,
       ReselectKeeps DEF Removing
  <2> QED
    BY <2>1, <2>2, <2>3, <2>4, <2>5
<1> QED
  BY <1>1, <1>2

\* Whatever the interleaving of loads, builds and removals, a stored vector
\* that the live graph misses is on the list of a thread that has yet to
\* insert it, so none is missed once every thread is done; the cap is
\* overshot by fewer vectors than there are loaders; and a vector with its
\* metadata is found by its source (vector_db/core.rs, hnsw_index.rs).
THEOREM IndexIsSound == VectorSpec => []IndexSound
<1>1. ASSUME VectorInv PROVE IndexSound
  <2>0. VectorTypeOK /\ IndexedFirst /\ Accounted /\ CapReserved
    BY <1>1 DEF VectorInv
  <2>1. NoneMissed
    <3> SUFFICES ASSUME VectorsQuiet, vdActive, NEW i \in vdVectors, i \notin DOMAIN vdLayers PROVE FALSE
      BY DEF NoneMissed
    <3>1. PICK t \in VdThreads : Owes(t, i)
      BY <2>0 DEF Accounted
    <3>2. vdThread[t].pc \in {"start", "done"}
      BY DEF VectorsQuiet, At
    <3> QED
      BY <3>1, <3>2, OwesNothing
  <2>2. CapKept
    <3>1. PICK V, A : V = vdVectors /\ A = Admitted
      OBVIOUS
    <3>2. IsFiniteSet(V) /\ IsFiniteSet(VdLoaders) /\ A \in SUBSET VdLoaders
      BY <2>0, <3>1, GraphTypes, VectorDbAssumption DEF Admitted
    <3>3. IsFiniteSet(A)
      BY <3>2, FS_Subset
    <3>4. /\ Cardinality(V) \in Nat /\ Cardinality(A) \in Nat
          /\ Cardinality(VdLoaders) \in Nat /\ MaxVectors \in Nat
      BY <3>2, <3>3, FS_CardinalityType, VectorDbAssumption
    <3>5. Cardinality(V) + Cardinality(A) < MaxVectors + Cardinality(VdLoaders)
      BY <2>0, <3>1 DEF CapReserved
    <3>6. Cardinality(V) < MaxVectors + Cardinality(VdLoaders)
      BY <3>4, <3>5
    <3>7. vdVectors \cap vdMetadata \subseteq vdIndexed
      BY <2>0 DEF IndexedFirst
    <3> QED
      BY <3>1, <3>6, <3>7 DEF CapKept
  <2> QED
    BY <2>1, <2>2 DEF IndexSound
<1> QED
  BY <1>1, VectorInitInv, VectorStepInv, PTL DEF VectorSpec

(***************************************************************************)
(* Requests.                                                               *)
(***************************************************************************)

\* The plans, one after the other: what follows each step.
LEMMA ShortTuples ==
    /\ \A a : Head(<<a>>) = a /\ Len(<<a>>) = 1
    /\ \A a, b : Head(<<a, b>>) = a /\ Len(<<a, b>>) = 2 /\ Tail(<<a, b>>) = <<b>>
    /\ \A a, b, c : /\ Head(<<a, b, c>>) = a /\ Len(<<a, b, c>>) = 3
                    /\ Tail(<<a, b, c>>) = <<b, c>>
    /\ \A a, b, c, d : /\ Head(<<a, b, c, d>>) = a /\ Len(<<a, b, c, d>>) = 4
                       /\ Tail(<<a, b, c, d>>) = <<b, c, d>>
OBVIOUS

LEMMA PlanSequences ==
    ASSUME NEW p \in RqPlans
    PROVE  /\ p # <<>> /\ Len(p) \in Nat \ {0}
           /\ \E S : p \in Seq(S)
<1>1. \/ \E a : p = <<a>>
      \/ \E a, b : p = <<a, b>>
      \/ \E a, b, c : p = <<a, b, c>>
      \/ \E a, b, c, d : p = <<a, b, c, d>>
  BY DEF RqPlans
<1>2. ASSUME NEW a, p = <<a>>
      PROVE p # <<>> /\ Len(p) \in Nat \ {0} /\ p \in Seq({a})
  BY <1>2
<1>3. ASSUME NEW a, NEW b, p = <<a, b>>
      PROVE p # <<>> /\ Len(p) \in Nat \ {0} /\ p \in Seq({a, b})
  BY <1>3
<1>4. ASSUME NEW a, NEW b, NEW c, p = <<a, b, c>>
      PROVE p # <<>> /\ Len(p) \in Nat \ {0} /\ p \in Seq({a, b, c})
  BY <1>4
<1>5. ASSUME NEW a, NEW b, NEW c, NEW d, p = <<a, b, c, d>>
      PROVE p # <<>> /\ Len(p) \in Nat \ {0} /\ p \in Seq({a, b, c, d})
  BY <1>5
<1> QED BY <1>1, <1>2, <1>3, <1>4, <1>5

\* The rest of a plan reads only if the plan does.
LEMMA ReadingRest ==
    ASSUME NEW p \in RqPlans, NEW i \in DOMAIN Tail(p)
    PROVE  i + 1 \in DOMAIN p /\ Tail(p)[i] = p[i + 1]
<1>1. PICK S : p \in Seq(S)
  BY PlanSequences
<1> QED BY <1>1, PlanSequences

LEMMA PlanEnds ==
    ASSUME NEW p \in RqPlans,
           Head(p) \in {"rename", "eraseEntity", "queueMerged", "remove", "retire", "queuePurge",
                        "readInfo", "readAll", "readEntities", "checkpoint", "vectorize", "delete",
                        "overlay", "mergeGraphs", "search", "health"}
    PROVE  Len(p) = 1
BY DEF RqPlans

LEMMA PlanLoads ==
    ASSUME NEW p \in RqPlans, Head(p) = "load"
    PROVE  p \in {<<"load", "rename">>, <<"load", "dropEntity", "eraseEntity">>,
                  <<"load", "merge", "eraseMerged", "queueMerged">>,
                  <<"load", "remove">>, <<"load", "retire">>,
                  <<"load", "purge", "clearGraph", "queuePurge">>,
                  <<"load", "readInfo">>, <<"load", "readAll">>, <<"load", "readEntities">>,
                  <<"load", "readRecords">>, <<"load", "readRecords", "checkpoint">>,
                  <<"load", "vectorize">>}
BY DEF RqPlans

LEMMA PlanInside ==
    ASSUME NEW p \in RqPlans
    PROVE  /\ Head(p) = "dropEntity" => p = <<"dropEntity", "eraseEntity">>
           /\ Head(p) = "merge" => p = <<"merge", "eraseMerged", "queueMerged">>
           /\ Head(p) = "eraseMerged" => p = <<"eraseMerged", "queueMerged">>
           /\ Head(p) = "purge" => p = <<"purge", "clearGraph", "queuePurge">>
           /\ Head(p) = "clearGraph" => p = <<"clearGraph", "queuePurge">>
           /\ Head(p) = "readRecords" => p = <<"readRecords">> \/ p = <<"readRecords", "checkpoint">>
           /\ Head(p) = "rows" => p = <<"rows", "overlay">>
           /\ Head(p) = "gather" => p = <<"gather", "mergeGraphs">>
BY DEF RqPlans

LEMMA PlanRest ==
    ASSUME NEW p \in RqPlans, Len(p) # 1 PROVE Tail(p) \in RqPlans
<1>1. Head(p) \in {"load", "dropEntity", "merge", "eraseMerged", "purge", "clearGraph",
                   "readRecords", "rows", "gather"}
  BY DEF RqPlans
<1>2. CASE Head(p) = "load"
  <2>1. \/ \E b \in {"rename", "remove", "retire", "readInfo", "readAll", "readEntities",
                     "readRecords", "vectorize"} : p = <<"load", b>>
        \/ p = <<"load", "dropEntity", "eraseEntity">>
        \/ p = <<"load", "readRecords", "checkpoint">>
        \/ p = <<"load", "merge", "eraseMerged", "queueMerged">>
        \/ p = <<"load", "purge", "clearGraph", "queuePurge">>
    BY <1>2, PlanLoads
  <2>2. ASSUME NEW b \in {"rename", "remove", "retire", "readInfo", "readAll", "readEntities",
                          "readRecords", "vectorize"}, p = <<"load", b>>
        PROVE  Tail(p) \in RqPlans
    <3>1. Tail(p) = <<b>>
      BY <2>2, ShortTuples
    <3> QED BY <3>1 DEF RqPlans
  <2>3. CASE p = <<"load", "dropEntity", "eraseEntity">>
    <3>1. Tail(p) = <<"dropEntity", "eraseEntity">>
      BY <2>3, ShortTuples
    <3> QED BY <3>1 DEF RqPlans
  <2>4. CASE p = <<"load", "readRecords", "checkpoint">>
    <3>1. Tail(p) = <<"readRecords", "checkpoint">>
      BY <2>4, ShortTuples
    <3> QED BY <3>1 DEF RqPlans
  <2>5. CASE p = <<"load", "merge", "eraseMerged", "queueMerged">>
    <3>1. Tail(p) = <<"merge", "eraseMerged", "queueMerged">>
      BY <2>5, ShortTuples
    <3> QED BY <3>1 DEF RqPlans
  <2>6. CASE p = <<"load", "purge", "clearGraph", "queuePurge">>
    <3>1. Tail(p) = <<"purge", "clearGraph", "queuePurge">>
      BY <2>6, ShortTuples
    <3> QED BY <3>1 DEF RqPlans
  <2> QED BY <2>1, <2>2, <2>3, <2>4, <2>5, <2>6
<1>3. CASE Head(p) # "load"
  <2>1. \/ \E a, b : p = <<a, b>> /\ b \in {"eraseEntity", "queueMerged", "queuePurge",
                                            "checkpoint", "overlay", "mergeGraphs"}
        \/ p = <<"merge", "eraseMerged", "queueMerged">>
        \/ p = <<"purge", "clearGraph", "queuePurge">>
        \/ Len(p) = 1
    BY <1>1, <1>3, PlanInside, ShortTuples
  <2>2. ASSUME NEW a, NEW b \in {"eraseEntity", "queueMerged", "queuePurge", "checkpoint",
                                 "overlay", "mergeGraphs"}, p = <<a, b>>
        PROVE  Tail(p) \in RqPlans
    <3>1. Tail(p) = <<b>>
      BY <2>2, ShortTuples
    <3> QED BY <3>1 DEF RqPlans
  <2>3. CASE p = <<"merge", "eraseMerged", "queueMerged">>
    <3>1. Tail(p) = <<"eraseMerged", "queueMerged">>
      BY <2>3, ShortTuples
    <3> QED BY <3>1 DEF RqPlans
  <2>4. CASE p = <<"purge", "clearGraph", "queuePurge">>
    <3>1. Tail(p) = <<"clearGraph", "queuePurge">>
      BY <2>4, ShortTuples
    <3> QED BY <3>1 DEF RqPlans
  <2> QED BY <2>1, <2>2, <2>3, <2>4
<1> QED BY <1>2, <1>3

\* What a request does after its load, and after each later step.
LEMMA PlanNext ==
    ASSUME NEW p \in RqPlans
    PROVE  /\ Head(p) = "load" => /\ Len(p) # 1
                                  /\ Head(Tail(p)) \in SessionSteps \ {"clearGraph", "queuePurge"}
                                  /\ Head(Tail(p)) # "checkpoint"
           /\ Head(p) = "dropEntity" => Len(p) # 1 /\ Head(Tail(p)) = "eraseEntity"
           /\ Head(p) = "merge" => Len(p) # 1 /\ Head(Tail(p)) = "eraseMerged"
           /\ Head(p) = "eraseMerged" => Len(p) # 1 /\ Head(Tail(p)) = "queueMerged"
           /\ Head(p) = "purge" => Len(p) # 1 /\ Head(Tail(p)) = "clearGraph"
           /\ Head(p) = "clearGraph" => Len(p) # 1 /\ Head(Tail(p)) = "queuePurge"
           /\ Head(p) = "readRecords" => Len(p) = 1 \/ Head(Tail(p)) = "checkpoint"
           /\ Head(p) = "rows" => Len(p) # 1 /\ Head(Tail(p)) = "overlay"
           /\ Head(p) = "gather" => Len(p) # 1 /\ Head(Tail(p)) = "mergeGraphs"
<1>1. CASE Head(p) = "load"
  <2>1. Len(p) # 1 /\ Head(Tail(p)) \in {"rename", "dropEntity", "merge", "remove", "retire",
                "purge", "readInfo", "readAll", "readEntities", "readRecords", "vectorize"}
    BY <1>1, PlanLoads, ShortTuples
  <2> QED BY <1>1, <2>1 DEF SessionSteps, ReadSteps
<1>2. CASE Head(p) # "load"
  BY <1>2, PlanInside, ShortTuples
<1> QED BY <1>1, <1>2

RequestFields ==
    {"plan", "missing", "sess", "tgt", "into", "handle", "todo", "view", "acted", "did", "answer"}

\* The request goes on, or is answered.
LEMMA GoesOn ==
    ASSUME RequestTypeOK, NEW c \in RqClients, Underway(c), NEW r, r.plan = rqReq[c].plan,
           DOMAIN r = RequestFields, Goes(c, r)
    PROVE  /\ DOMAIN rqReq' = RqClients /\ \A d \in RqClients \ {c} : rqReq'[d] = rqReq[d]
           /\ rqReq'[c].view = r.view /\ rqReq'[c].acted = r.acted /\ rqReq'[c].did = r.did
           /\ Reading(rqReq'[c]) => Reading(rqReq[c])
           /\ Len(r.plan) = 1 =>
                /\ rqReq'[c].plan = <<>>
                /\ DOMAIN rqReq'[c] = {"plan", "answer", "view", "acted", "did"}
                /\ rqReq'[c].answer = IF r.view # <<>> THEN "shown"
                                      ELSE IF r.acted THEN "done" ELSE "noop"
           /\ Len(r.plan) # 1 =>
                /\ rqReq'[c].plan = Tail(r.plan) /\ rqReq'[c].plan # <<>>
                /\ rqReq'[c].plan \in RqPlans /\ DOMAIN rqReq'[c] = RequestFields
                /\ rqReq'[c].sess = r.sess /\ rqReq'[c].tgt = r.tgt /\ rqReq'[c].into = r.into
                /\ rqReq'[c].handle = r.handle /\ rqReq'[c].todo = r.todo
                /\ rqReq'[c].answer = r.answer /\ rqReq'[c].missing = r.missing
<1>1. DOMAIN rqReq = RqClients /\ rqReq[c].plan \in RqPlans
  BY DEF RequestTypeOK, Underway
<1>2. CASE Len(r.plan) = 1
  <2>1. rqReq' = [rqReq EXCEPT ![c] = [NoRequest EXCEPT
            !.answer = IF r.view # <<>> THEN "shown" ELSE IF r.acted THEN "done" ELSE "noop",
            !.view = r.view, !.acted = r.acted, !.did = r.did]]
    BY <1>2 DEF Goes, Reply
  <2>2. rqReq'[c] = [plan |-> <<>>, view |-> r.view, acted |-> r.acted, did |-> r.did,
            answer |-> IF r.view # <<>> THEN "shown" ELSE IF r.acted THEN "done" ELSE "noop"]
    BY <1>1, <2>1 DEF NoRequest
  <2>3. ~Reading(rqReq'[c])
    BY <2>2 DEF Reading
  <2>4. /\ rqReq'[c].plan = <<>> /\ rqReq'[c].view = r.view
        /\ rqReq'[c].acted = r.acted /\ rqReq'[c].did = r.did
        /\ rqReq'[c].answer = IF r.view # <<>> THEN "shown" ELSE IF r.acted THEN "done" ELSE "noop"
    BY <2>2
  <2>5. DOMAIN rqReq'[c] = {"plan", "answer", "view", "acted", "did"}
    BY <2>2
  <2>6. DOMAIN rqReq' = RqClients /\ \A d \in RqClients \ {c} : rqReq'[d] = rqReq[d]
    BY <1>1, <2>1
  <2> QED BY <1>2, <2>3, <2>4, <2>5, <2>6
<1>3. CASE Len(r.plan) # 1
  <2>1. rqReq' = [rqReq EXCEPT ![c] = [r EXCEPT !.plan = Tail(@)]]
    BY <1>3 DEF Goes
  <2>2. rqReq'[c] = [r EXCEPT !.plan = Tail(@)]
    BY <1>1, <2>1
  <2>3. /\ rqReq'[c].plan = Tail(r.plan) /\ DOMAIN rqReq'[c] = RequestFields
        /\ rqReq'[c].sess = r.sess /\ rqReq'[c].tgt = r.tgt /\ rqReq'[c].into = r.into
        /\ rqReq'[c].handle = r.handle /\ rqReq'[c].todo = r.todo
        /\ rqReq'[c].answer = r.answer /\ rqReq'[c].missing = r.missing
        /\ rqReq'[c].view = r.view /\ rqReq'[c].acted = r.acted /\ rqReq'[c].did = r.did
    BY <2>2 DEF RequestFields
  <2>4. rqReq'[c].plan \in RqPlans
    BY <1>1, <1>3, <2>3, PlanRest
  <2>5. rqReq'[c].plan # <<>>
    BY <2>4, PlanSequences
  <2>6. Reading(rqReq'[c]) => Reading(rqReq[c])
    <3> SUFFICES ASSUME Reading(rqReq'[c]) PROVE Reading(rqReq[c])
      OBVIOUS
    <3>1. PICK i \in DOMAIN Tail(r.plan) :
            Tail(r.plan)[i] \in ReadSteps \cup {"rows", "overlay", "gather", "mergeGraphs"}
      BY <2>3 DEF Reading
    <3>2. i + 1 \in DOMAIN r.plan /\ Tail(r.plan)[i] = r.plan[i + 1]
      BY <1>1, ReadingRest
    <3> QED BY <3>1, <3>2 DEF Reading
  <2> QED BY <1>1, <1>3, <2>1, <2>3, <2>4, <2>5, <2>6
<1> QED BY <1>2, <1>3

LEMMA IsAnswered ==
    ASSUME RequestTypeOK, NEW c \in RqClients, NEW r, NEW answer, Reply(c, r, answer)
    PROVE  /\ DOMAIN rqReq' = RqClients /\ \A d \in RqClients \ {c} : rqReq'[d] = rqReq[d]
           /\ rqReq'[c].view = r.view /\ rqReq'[c].acted = r.acted /\ rqReq'[c].did = r.did
           /\ rqReq'[c].plan = <<>> /\ rqReq'[c].answer = answer
           /\ DOMAIN rqReq'[c] = {"plan", "answer", "view", "acted", "did"}
           /\ ~Reading(rqReq'[c])
<1>1. DOMAIN rqReq = RqClients
  BY DEF RequestTypeOK
<1>2. rqReq' = [rqReq EXCEPT ![c] = [NoRequest EXCEPT !.answer = answer, !.view = r.view,
                                             !.acted = r.acted, !.did = r.did]]
  BY DEF Reply
<1>3. rqReq'[c] = [plan |-> <<>>, view |-> r.view, acted |-> r.acted, did |-> r.did,
                   answer |-> answer]
  BY <1>1, <1>2 DEF NoRequest
<1>4. ~Reading(rqReq'[c])
  BY <1>3 DEF Reading
<1> QED BY <1>1, <1>2, <1>3, <1>4

\* What was seen stays seen while it is needed, and a reading request sees
\* every state.
LEMMA SeenKept ==
    ASSUME Observes, NEW c \in RqClients, NEW s \in RqSessions
    PROVE  /\ Reading(rqReq[c]) => rqSeen'[c][s] = rqSeen[c][s] \cup States(c, s)'
           /\ ~Reading(rqReq[c]) /\ Reading(rqReq'[c]) =>
                rqSeen'[c][s] = {Content(s), Content(s)'}
           /\ ~Reading(rqReq[c]) /\ ~Reading(rqReq'[c]) /\ rqReq'[c].view # <<>> =>
                rqSeen'[c][s] = rqSeen[c][s]
BY DEF Observes

LEMMA ViewStays ==
    ASSUME RequestInv, Observes, NEW c \in RqClients, rqReq'[c].view = rqReq[c].view,
           Reading(rqReq'[c]) => Reading(rqReq[c])
    PROVE  rqReq'[c].view # <<>> =>
             \A s \in DOMAIN rqReq'[c].view.shown : s \in RqSessions /\ WasSeen(c, s)'
<1> SUFFICES ASSUME rqReq'[c].view # <<>>, NEW s \in DOMAIN rqReq'[c].view.shown
             PROVE  s \in RqSessions /\ WasSeen(c, s)'
  OBVIOUS
<1>1. s \in RqSessions /\ WasSeen(c, s)
  BY DEF RequestInv, ViewsSeen
<1>2. rqSeen[c][s] \subseteq rqSeen'[c][s]
  BY <1>1, SeenKept
<1> QED BY <1>1, <1>2 DEF WasSeen

\* A step in which the requests of D move: the others stay as they were.
LEMMA StepKeeps ==
    ASSUME RequestInv, NEW D \in SUBSET RqClients, Observes,
           rqObj' \in [RqSessions -> [Handles -> RqStates]],
           rqDisk' \in [RqSessions -> RqStates], rqNext' \in [RqSessions -> Handles],
           rqLive' \in [RqSessions -> 0..MaxHandles],
           rqRetired' \in [RqSessions -> 0..MaxHandles], DOMAIN rqQueue' = RqSessions,
           HandlesInOrder', RemovalsLast', MergeCached',
           \A s \in RqSessions : rqNext[s] <= rqNext'[s],
           \A c \in RqClients \ D : Underway(c) =>
             \A s \in RqSessions : \A h \in 1..rqNext[s] : rqObj'[s][h].recs \subseteq rqObj[s][h].recs,
           DOMAIN rqReq' = RqClients, \A c \in RqClients \ D : rqReq'[c] = rqReq[c],
           \A c \in D :
             /\ Reading(rqReq'[c]) => Reading(rqReq[c]) \/ rqReq'[c].handle = 0
             /\ Underway(c)' =>
                  /\ DOMAIN rqReq'[c] = RequestFields /\ rqReq'[c].plan \in RqPlans
                  /\ rqReq'[c].sess \in RqSessions /\ rqReq'[c].todo \subseteq RqSessions
                  /\ rqReq'[c].missing \in {"error", "not_found", "invalid", "told"}
                  /\ StepsFit(c)' /\ ViewFits(c)'
             /\ ~Underway(c)' =>
                  /\ DOMAIN rqReq'[c] = {"plan", "answer", "view", "acted", "did"}
                  /\ AnswerFits(c)'
             /\ rqReq'[c].view # <<>> =>
                  \A s \in DOMAIN rqReq'[c].view.shown : s \in RqSessions /\ WasSeen(c, s)'
    PROVE  RequestInv'
<1>1. RequestTypeOK'
  BY DEF RequestInv, RequestTypeOK, Underway, RequestFields
<1>2. RequestsFit'
  <2> SUFFICES ASSUME NEW c \in RqClients
               PROVE  IF Underway(c)' THEN StepsFit(c)' ELSE AnswerFits(c)'
    BY DEF RequestsFit
  <2>1. CASE c \in D
    BY <2>1
  <2>2. CASE c \notin D /\ ~Underway(c)
    BY <2>2 DEF RequestInv, RequestsFit, Underway, AnswerFits
  <2>3. CASE c \notin D /\ Underway(c)
    <3>1. /\ rqReq'[c] = rqReq[c] /\ Underway(c)' /\ StepsFit(c) /\ rqReq[c].sess \in RqSessions
          /\ rqNext \in [RqSessions -> Handles] /\ MaxHandles \in Nat
      BY <2>3, RequestAssumption DEF RequestInv, RequestsFit, Underway, RequestTypeOK
    <3>2. PICK s \in RqSessions : s = rqReq[c].sess
      BY <3>1
    <3>3. PICK n \in Nat, m \in Nat : n = rqNext[s] /\ m = rqNext'[s] /\ n <= m
      BY <3>1 DEF Handles
    <3>4. Head(rqReq[c].plan) \in SessionSteps => rqReq[c].handle \in 1..n
      BY <3>1, <3>2, <3>3 DEF StepsFit
    <3>5. Head(rqReq[c].plan) \in SessionSteps => rqReq[c].handle \in 1..m
      BY <3>3, <3>4
    <3>6. Head(rqReq[c].plan) \in {"clearGraph", "queuePurge"} =>
             rqReq[c].tgt \notin rqObj'[s][rqReq[c].handle].recs
      <4>1. Head(rqReq[c].plan) \in {"clearGraph", "queuePurge"} =>
              Head(rqReq[c].plan) \in SessionSteps
        BY DEF SessionSteps
      <4> QED BY <2>3, <3>1, <3>2, <3>3, <3>4, <4>1 DEF StepsFit, Held
    <3> QED BY <3>1, <3>2, <3>3, <3>5, <3>6 DEF StepsFit, Held
  <2> QED BY <2>1, <2>2, <2>3
<1>3. ViewsSeen'
  <2> SUFFICES ASSUME NEW c \in RqClients
               PROVE  /\ Underway(c)' => ViewFits(c)'
                      /\ rqReq'[c].view # <<>> =>
                           \A s \in DOMAIN rqReq'[c].view.shown : s \in RqSessions /\ WasSeen(c, s)'
    BY DEF ViewsSeen
  <2>1. CASE c \in D
    BY <2>1
  <2>2. CASE c \notin D
    <3>1. rqReq'[c] = rqReq[c]
      BY <2>2
    <3>2. Underway(c)' => ViewFits(c)'
      BY <3>1 DEF RequestInv, ViewsSeen, ViewFits, Underway
    <3> QED BY <3>1, <3>2, ViewStays
  <2> QED BY <2>1, <2>2
<1>4. SeenCurrent'
  <2> SUFFICES ASSUME NEW c \in RqClients, Reading(rqReq'[c]), NEW s \in RqSessions
               PROVE  States(c, s)' \subseteq rqSeen'[c][s]
    BY DEF SeenCurrent
  <2>1. CASE Reading(rqReq[c])
    BY <2>1, SeenKept
  <2>2. CASE ~Reading(rqReq[c])
    <3>1. rqReq'[c].handle = 0
      BY <2>2
    <3>2. States(c, s)' = {Content(s)'}
      BY <3>1 DEF States
    <3> QED BY <2>2, <3>2, SeenKept
  <2> QED BY <2>1, <2>2
<1> QED BY <1>1, <1>2, <1>3, <1>4 DEF RequestInv

\* What holds of the sessions' memory and storage, and what a step may do to them.
MemoryOK ==
    /\ rqObj \in [RqSessions -> [Handles -> RqStates]] /\ rqDisk \in [RqSessions -> RqStates]
    /\ rqNext \in [RqSessions -> Handles] /\ rqLive \in [RqSessions -> 0..MaxHandles]
    /\ rqRetired \in [RqSessions -> 0..MaxHandles] /\ DOMAIN rqQueue = RqSessions
    /\ HandlesInOrder /\ RemovalsLast
HandlesKept ==
    /\ \A s \in RqSessions : rqNext[s] <= rqNext'[s]
    /\ \A s \in RqSessions : \A h \in 1..rqNext[s] : rqObj'[s][h].recs \subseteq rqObj[s][h].recs

LEMMA MemoryHolds == ASSUME RequestInv PROVE MemoryOK /\ MergeCached
BY DEF RequestInv, RequestTypeOK, MemoryOK

LEMMA MemorySame ==
    ASSUME MemoryOK, UNCHANGED <<handleVars, rqDisk, rqQueue, rqErased>>
    PROVE  MemoryOK' /\ HandlesKept
<1>1. rqNext \in [RqSessions -> Nat]
  BY DEF MemoryOK, Handles
<1> QED BY <1>1 DEF MemoryOK, HandlesInOrder, RemovalsLast, HandlesKept, handleVars

\* Handles by number: the one that is live, or not retired, is the last.
LEMMA HandleOrder ==
    ASSUME MemoryOK, NEW s \in RqSessions
    PROVE  /\ rqNext[s] \in Nat /\ rqRetired[s] \in Nat /\ rqNext[s] \in 1..MaxHandles
           /\ \A h \in 1..rqNext[s] : /\ h \in Handles /\ rqObj[s][h].name # "none"
                                      /\ h > rqRetired[s] => rqLive[s] = h
           /\ rqLive[s] # 0 => rqLive[s] = rqNext[s] /\ rqLive[s] \in 1..rqNext[s]
           /\ rqDisk[s] # NoSession => rqDisk[s].name # "none"
<1>1. PICK n \in 1..MaxHandles, l \in 0..MaxHandles, t \in 0..MaxHandles :
        n = rqNext[s] /\ l = rqLive[s] /\ t = rqRetired[s]
  BY DEF MemoryOK, Handles
<1>2. /\ IF l # 0 THEN l = n /\ t = n - 1 ELSE t = n
      /\ rqDisk[s].name = "none" => rqDisk[s] = NoSession
      /\ \A h \in 1..n : rqObj[s][h].name # "none"
  BY <1>1 DEF MemoryOK, HandlesInOrder
<1>3. MaxHandles \in Nat
  BY RequestAssumption
<1>4. \A h \in 1..n : h \in 1..MaxHandles /\ (h > t => l = h)
  BY <1>1, <1>2, <1>3
<1> QED BY <1>1, <1>2, <1>3, <1>4 DEF Handles

\* A compare-and-swap in a handle, its queued save and what it answered.
LEMMA MemoryCas ==
    ASSUME MemoryOK, NEW s \in RqSessions, NEW h \in 1..rqNext[s], NEW new \in RqStates, NEW gone,
           NEW changed \in BOOLEAN,
           rqObj' = IF changed THEN [rqObj EXCEPT ![s][h] = new] ELSE rqObj,
           changed => new.name # "none" /\ new.recs \subseteq rqObj[s][h].recs,
           UNCHANGED <<rqLive, rqRetired, rqNext, rqDisk>>,
           \/ rqQueue' = rqQueue /\ rqErased' = rqErased
           \/ /\ rqQueue' = Queued(s, h, gone)
              /\ rqErased' = rqErased \cup (IF h <= rqRetired[s] THEN {} ELSE {s} \X gone)
              /\ gone \cap rqObj'[s][h].recs = {}
    PROVE  MemoryOK' /\ HandlesKept
<1>1. h \in Handles /\ rqObj[s] \in [Handles -> RqStates] /\ rqObj \in [RqSessions -> [Handles -> RqStates]]
  BY HandleOrder DEF MemoryOK
<1>2. /\ rqObj' \in [RqSessions -> [Handles -> RqStates]]
      /\ changed => rqObj'[s][h] = new
      /\ ~changed => rqObj' = rqObj
      /\ \A t \in RqSessions, k \in Handles : t # s \/ k # h => rqObj'[t][k] = rqObj[t][k]
  BY <1>1
<1>3. \A t \in RqSessions, k \in Handles : rqObj'[t][k].recs \subseteq rqObj[t][k].recs
  BY <1>1, <1>2
<1>4. \A t \in RqSessions, k \in Handles : rqObj[t][k].name # "none" => rqObj'[t][k].name # "none"
  BY <1>1, <1>2
<1>5. /\ DOMAIN rqQueue' = RqSessions
      /\ \A t \in RqSessions : /\ rqQueue[t].on => rqQueue'[t].on
                               /\ rqQueue[t].gone \subseteq rqQueue'[t].gone
  BY DEF Queued, MemoryOK
<1>6. HandlesInOrder'
  <2> SUFFICES ASSUME NEW t \in RqSessions
               PROVE  \A k \in 1..rqNext[t] : rqObj'[t][k].name # "none"
    BY DEF HandlesInOrder, MemoryOK
  <2> QED BY <1>4, HandleOrder
<1>7. RemovalsLast'
  <2> SUFFICES ASSUME NEW e \in rqErased'
               PROVE  /\ e[1] \in RqSessions /\ rqLive[e[1]] # 0
                      /\ e[2] \notin rqObj'[e[1]][rqLive[e[1]]].recs
                      /\ e[2] \in rqDisk[e[1]].recs => rqQueue'[e[1]].on /\ e[2] \in rqQueue'[e[1]].gone
    BY DEF RemovalsLast
  <2>1. CASE e \in rqErased
    <3>1. /\ e[1] \in RqSessions /\ rqLive[e[1]] # 0 /\ e[2] \notin rqObj[e[1]][rqLive[e[1]]].recs
          /\ e[2] \in rqDisk[e[1]].recs => rqQueue[e[1]].on /\ e[2] \in rqQueue[e[1]].gone
      BY <2>1 DEF MemoryOK, RemovalsLast
    <3>2. rqLive[e[1]] \in Handles
      BY <3>1, HandleOrder
    <3> QED BY <1>3, <1>5, <3>1, <3>2
  <2>2. CASE e \notin rqErased
    <3>1. /\ e \in {s} \X gone /\ ~(h <= rqRetired[s]) /\ rqQueue' = Queued(s, h, gone)
          /\ gone \cap rqObj'[s][h].recs = {}
      BY <2>2
    <3>2. rqLive[s] = h /\ h # 0
      BY <3>1, HandleOrder
    <3>3. rqQueue'[s].on /\ gone \subseteq rqQueue'[s].gone
      BY <3>1 DEF Queued, MemoryOK
    <3> QED BY <3>1, <3>2, <3>3
  <2> QED BY <2>1, <2>2
<1>8. HandlesKept
  BY <1>3, HandleOrder DEF HandlesKept
<1> QED BY <1>2, <1>5, <1>6, <1>7, <1>8 DEF MemoryOK

\* get_session.
LEMMA MemoryLoads ==
    ASSUME MemoryOK, NEW s \in RqSessions, CanLoad(s), GetSession(s),
           UNCHANGED <<rqDisk, rqQueue, rqErased>>
    PROVE  /\ MemoryOK' /\ HandlesKept
           /\ rqLive'[s] \in 1..rqNext'[s] /\ rqLive'[s] # 0
           /\ Content(s)' = Content(s)
<1>1. CASE rqLive[s] # 0
  <2>1. UNCHANGED handleVars
    BY <1>1 DEF GetSession
  <2> QED BY <1>1, <2>1, MemorySame, HandleOrder DEF handleVars, Content
<1>2. CASE rqLive[s] = 0
  <2>1. PICK n \in Nat : n = rqNext[s] /\ n \in 1..MaxHandles
    BY HandleOrder
  <2>2. /\ n < MaxHandles /\ rqNext' = [rqNext EXCEPT ![s] = n + 1]
        /\ rqLive' = [rqLive EXCEPT ![s] = n + 1] /\ rqObj' = [rqObj EXCEPT ![s][n + 1] = rqDisk[s]]
        /\ rqRetired' = rqRetired
    BY <1>2, <2>1 DEF GetSession
  <2>3. MaxHandles \in Nat /\ n + 1 \in Handles /\ n + 1 \in 0..MaxHandles /\ n + 1 # 0
    BY <2>1, <2>2, RequestAssumption DEF Handles
  <2>4. rqDisk[s].name # "none" /\ rqDisk[s] \in RqStates
    BY <1>2, HandleOrder DEF CanLoad, MemoryOK
  <2>5. /\ rqObj' \in [RqSessions -> [Handles -> RqStates]] /\ rqObj'[s][n + 1] = rqDisk[s]
        /\ \A t \in RqSessions, k \in Handles : t # s \/ k # n + 1 => rqObj'[t][k] = rqObj[t][k]
    BY <2>2, <2>3, <2>4 DEF MemoryOK
  <2>6. /\ rqNext' \in [RqSessions -> Handles] /\ rqLive' \in [RqSessions -> 0..MaxHandles]
        /\ rqNext'[s] = n + 1 /\ rqLive'[s] = n + 1
        /\ \A t \in RqSessions \ {s} : rqNext'[t] = rqNext[t] /\ rqLive'[t] = rqLive[t]
    BY <2>2, <2>3 DEF MemoryOK
  <2>7. \A t \in RqSessions : \A k \in 1..rqNext[t] : k \in Handles /\ rqObj'[t][k] = rqObj[t][k]
    <3> SUFFICES ASSUME NEW t \in RqSessions, NEW k \in 1..rqNext[t]
                 PROVE  k \in Handles /\ rqObj'[t][k] = rqObj[t][k]
      OBVIOUS
    <3>1. k \in Handles
      BY HandleOrder
    <3>2. t = s => k # n + 1
      BY <2>1
    <3> QED BY <2>5, <3>1, <3>2
  <2>8. HandlesInOrder'
    <3> SUFFICES ASSUME NEW t \in RqSessions
                 PROVE  /\ IF rqLive'[t] # 0
                           THEN rqLive'[t] = rqNext'[t] /\ rqRetired[t] = rqNext'[t] - 1
                           ELSE rqRetired[t] = rqNext'[t]
                        /\ rqDisk[t].name = "none" => rqLive'[t] = 0 /\ rqDisk[t] = NoSession
                        /\ \A h \in 1..rqNext'[t] : rqObj'[t][h].name # "none"
      BY <2>2 DEF HandlesInOrder
    <3>1. CASE t # s
      BY <3>1, <2>6, <2>7 DEF MemoryOK, HandlesInOrder
    <3>2. CASE t = s
      <4>1. rqRetired[s] = n /\ n = (n + 1) - 1
        BY <1>2, <2>1 DEF MemoryOK, HandlesInOrder
      <4>2. \A h \in 1..(n + 1) : h = n + 1 \/ h \in 1..n
        BY <2>1
      <4>3. \A h \in 1..n : rqObj'[s][h].name # "none"
        BY <2>1, <2>7, HandleOrder
      <4> QED BY <3>2, <2>3, <2>4, <2>5, <2>6, <4>1, <4>2, <4>3
    <3> QED BY <3>1, <3>2
  <2>9. RemovalsLast'
    <3> SUFFICES ASSUME NEW e \in rqErased
                 PROVE  /\ e[1] \in RqSessions /\ rqLive'[e[1]] # 0
                        /\ e[2] \notin rqObj'[e[1]][rqLive'[e[1]]].recs
                        /\ e[2] \in rqDisk[e[1]].recs => rqQueue[e[1]].on /\ e[2] \in rqQueue[e[1]].gone
      BY DEF RemovalsLast
    <3>1. /\ e[1] \in RqSessions /\ rqLive[e[1]] # 0 /\ e[2] \notin rqObj[e[1]][rqLive[e[1]]].recs
          /\ e[2] \in rqDisk[e[1]].recs => rqQueue[e[1]].on /\ e[2] \in rqQueue[e[1]].gone
      BY DEF MemoryOK, RemovalsLast
    <3>2. e[1] # s /\ rqLive[e[1]] \in 1..rqNext[e[1]]
      BY <1>2, <3>1, HandleOrder
    <3> QED BY <2>6, <2>7, <3>1, <3>2
  <2>10. HandlesKept
    <3>1. \A t \in RqSessions : rqNext[t] <= rqNext'[t]
      <4> SUFFICES ASSUME NEW t \in RqSessions PROVE rqNext[t] <= rqNext'[t]
        OBVIOUS
      <4>1. rqNext[t] \in Nat /\ (t = s => rqNext[t] = n)
        BY <2>1, HandleOrder
      <4> QED BY <2>1, <2>6, <4>1
    <3> QED BY <3>1, <2>7 DEF HandlesKept
  <2>11. Content(s)' = Content(s)
    BY <1>2, <2>3, <2>5, <2>6 DEF Content
  <2>12. rqLive'[s] \in 1..rqNext'[s] /\ rqLive'[s] # 0
    BY <2>1, <2>6
  <2> QED BY <2>2, <2>5, <2>6, <2>8, <2>9, <2>10, <2>11, <2>12 DEF MemoryOK
<1> QED BY <1>1, <1>2

\* A change of what storage holds of one session, and of its queued save.
LEMMA MemoryStored ==
    ASSUME MemoryOK, NEW s \in RqSessions, NEW x \in RqStates, UNCHANGED handleVars,
           rqDisk' = [rqDisk EXCEPT ![s] = x], DOMAIN rqQueue' = RqSessions,
           \A t \in RqSessions \ {s} : rqQueue'[t] = rqQueue[t],
           x.name = "none" => rqLive[s] = 0 /\ x = NoSession, UNCHANGED rqErased,
           \A e \in rqErased : e[1] = s /\ e[2] \in x.recs =>
                                 rqQueue'[s].on /\ e[2] \in rqQueue'[s].gone
    PROVE  MemoryOK' /\ HandlesKept
<1>1. /\ rqDisk' \in [RqSessions -> RqStates] /\ rqDisk'[s] = x
      /\ \A t \in RqSessions \ {s} : rqDisk'[t] = rqDisk[t]
  BY DEF MemoryOK
<1>2. HandlesInOrder'
  BY <1>1 DEF MemoryOK, HandlesInOrder, handleVars
<1>3. RemovalsLast'
  BY <1>1 DEF MemoryOK, RemovalsLast, handleVars
<1>4. HandlesKept
  BY HandleOrder DEF HandlesKept, handleVars
<1> QED BY <1>1, <1>2, <1>3, <1>4 DEF MemoryOK, handleVars

LEMMA MemorySaves ==
    ASSUME MemoryOK, NEW s \in RqSessions, Save(s) PROVE MemoryOK' /\ HandlesKept
<1>1. PICK l \in Handles : l = rqLive[s] /\ l # 0 /\ rqObj[s][l].name # "none"
  BY HandleOrder DEF Save
<1>2. PICK x \in RqStates, d \in RqStates : x = rqObj[s][l] /\ d = rqDisk[s] /\ x = Content(s)
  BY <1>1 DEF MemoryOK, Content
<1>3. PICK g : g = rqQueue[s].gone
  OBVIOUS
<1>4. PICK y : y = [name |-> x.name, recs |-> (d.recs \cup x.recs) \ g,
            retired |-> ((d.recs \cup x.recs) \ g) \cap (x.retired \cup (d.retired \ x.recs)),
            ents |-> IF rqBackend = "rocksdb" THEN x.ents ELSE d.ents \cup x.ents]
  OBVIOUS
<1>5. rqDisk' = [rqDisk EXCEPT ![s] = y]
  BY <1>2, <1>3, <1>4 DEF Save, SavedRecs, MemoryOK
<1>6. y \in RqStates
  BY <1>2, <1>4 DEF RqStates
<1>7. y.name # "none" /\ y.recs = (d.recs \cup x.recs) \ g
  BY <1>1, <1>2, <1>4
<1>8. \A e \in rqErased : e[1] = s => e[2] \notin y.recs
  <2> SUFFICES ASSUME NEW e \in rqErased, e[1] = s PROVE e[2] \notin y.recs
    OBVIOUS
  <2>1. e[2] \notin x.recs /\ (e[2] \in d.recs => e[2] \in g)
    BY <1>1, <1>2, <1>3 DEF MemoryOK, RemovalsLast
  <2> QED BY <1>7, <2>1
<1>9. DOMAIN rqQueue' = RqSessions /\ \A t \in RqSessions \ {s} : rqQueue'[t] = rqQueue[t]
  BY DEF Save, MemoryOK
<1>10. UNCHANGED handleVars /\ UNCHANGED rqErased
  BY DEF Save
<1> QED BY <1>5, <1>6, <1>7, <1>8, <1>9, <1>10, MemoryStored

LEMMA MemoryErases ==
    ASSUME MemoryOK, NEW s \in RqSessions, NEW gone,
           UNCHANGED <<handleVars, rqQueue, rqErased>>,
           rqDisk' = [rqDisk EXCEPT ![s].ents = ErasedEnts(s, gone)]
    PROVE  MemoryOK' /\ HandlesKept
<1>1. PICK d \in RqStates : d = rqDisk[s]
  BY DEF MemoryOK
<1>2. PICK y : y = [d EXCEPT !.ents = ErasedEnts(s, gone)]
  OBVIOUS
<1>3. ErasedEnts(s, gone) \subseteq d.ents
  BY <1>1 DEF ErasedEnts
<1>4. /\ y \in RqStates /\ y.name = d.name /\ y.recs = d.recs
  BY <1>2, <1>3 DEF RqStates
<1>5. d = NoSession => y = NoSession
  BY <1>2, <1>3 DEF NoSession
<1>6. rqDisk' = [rqDisk EXCEPT ![s] = y]
  BY <1>1, <1>2 DEF MemoryOK
<1>7. y.name = "none" => rqLive[s] = 0 /\ y = NoSession
  BY <1>1, <1>4, <1>5 DEF MemoryOK, HandlesInOrder
<1>8. \A e \in rqErased : e[1] = s /\ e[2] \in y.recs => rqQueue'[s].on /\ e[2] \in rqQueue'[s].gone
  BY <1>1, <1>4 DEF MemoryOK, RemovalsLast
<1>9. DOMAIN rqQueue' = RqSessions /\ UNCHANGED handleVars
  BY DEF MemoryOK
<1> QED BY <1>4, <1>6, <1>7, <1>8, <1>9, MemoryStored

LEMMA MemoryDeletes ==
    ASSUME MemoryOK, NEW s \in RqSessions, rqLive' = [rqLive EXCEPT ![s] = 0],
           rqRetired' = [rqRetired EXCEPT ![s] = rqNext[s]],
           rqQueue' = [rqQueue EXCEPT ![s] = NoQueue], rqErased' = {e \in rqErased : e[1] # s},
           UNCHANGED <<rqObj, rqNext>>,
           rqDisk' = rqDisk \/ rqDisk' = [rqDisk EXCEPT ![s] = NoSession]
    PROVE  MemoryOK' /\ HandlesKept
<1>1. NoSession \in RqStates /\ NoSession.name = "none"
  BY DEF NoSession, RqStates
<1>2. PICK n \in 0..MaxHandles : n = rqNext[s]
  BY RequestAssumption, HandleOrder
<1>3. MaxHandles \in Nat
  BY RequestAssumption
<1>4. /\ rqRetired' = [rqRetired EXCEPT ![s] = n] /\ n \in 0..MaxHandles /\ 0 \in 0..MaxHandles
  BY <1>2, <1>3
<1>5. /\ rqLive' \in [RqSessions -> 0..MaxHandles] /\ rqRetired' \in [RqSessions -> 0..MaxHandles]
      /\ rqDisk' \in [RqSessions -> RqStates] /\ DOMAIN rqQueue' = RqSessions
  BY <1>1, <1>4 DEF MemoryOK
<1>6. /\ rqLive'[s] = 0 /\ rqRetired'[s] = n
      /\ \A t \in RqSessions \ {s} : /\ rqLive'[t] = rqLive[t] /\ rqRetired'[t] = rqRetired[t]
                                     /\ rqQueue'[t] = rqQueue[t] /\ rqDisk'[t] = rqDisk[t]
      /\ rqDisk'[s] = NoSession \/ rqDisk'[s] = rqDisk[s]
  BY <1>4 DEF MemoryOK
<1>7. HandlesInOrder'
  BY <1>2, <1>6 DEF MemoryOK, HandlesInOrder
<1>8. RemovalsLast'
  BY <1>6 DEF MemoryOK, RemovalsLast
<1>9. HandlesKept
  BY HandleOrder DEF HandlesKept
<1> QED BY <1>5, <1>7, <1>8, <1>9 DEF MemoryOK

LEMMA MemoryReloads ==
    ASSUME MemoryOK, NEW s \in RqSessions, rqLive[s] # 0, ~rqQueue[s].on,
           rqObj' = [rqObj EXCEPT ![s][rqLive[s]] = rqDisk[s]],
           UNCHANGED <<rqLive, rqRetired, rqNext, rqDisk, rqQueue, rqErased>>
    PROVE  MemoryOK'
<1>1. PICK l \in Handles : l = rqLive[s]
  BY HandleOrder
<1>2. PICK d \in RqStates : d = rqDisk[s] /\ d.name # "none"
  BY DEF MemoryOK, HandlesInOrder
<1>3. rqObj' = [rqObj EXCEPT ![s][l] = d]
  BY <1>1, <1>2
<1>4. /\ rqObj' \in [RqSessions -> [Handles -> RqStates]] /\ rqObj'[s][l] = d
      /\ \A t \in RqSessions, k \in Handles : t # s \/ k # l => rqObj'[t][k] = rqObj[t][k]
  BY <1>1, <1>2, <1>3 DEF MemoryOK
<1>5. HandlesInOrder'
  <2>1. ASSUME NEW t \in RqSessions, NEW k \in 1..rqNext[t]
        PROVE  rqObj'[t][k].name # "none"
    <3>1. k \in Handles /\ rqObj[t][k].name # "none"
      BY HandleOrder
    <3> QED BY <1>2, <1>4, <3>1
  <2> QED BY <2>1 DEF MemoryOK, HandlesInOrder
<1>6. RemovalsLast'
  <2> SUFFICES ASSUME NEW e \in rqErased
               PROVE  /\ e[1] \in RqSessions /\ rqLive[e[1]] # 0
                      /\ e[2] \notin rqObj'[e[1]][rqLive[e[1]]].recs
                      /\ e[2] \in rqDisk[e[1]].recs => rqQueue[e[1]].on /\ e[2] \in rqQueue[e[1]].gone
    BY DEF RemovalsLast
  <2>1. /\ e[1] \in RqSessions /\ rqLive[e[1]] # 0
        /\ e[2] \notin rqObj[e[1]][rqLive[e[1]]].recs
        /\ e[2] \in rqDisk[e[1]].recs => rqQueue[e[1]].on /\ e[2] \in rqQueue[e[1]].gone
    BY DEF MemoryOK, RemovalsLast
  <2>2. rqLive[e[1]] \in Handles
    BY <2>1, HandleOrder
  <2> QED BY <1>1, <1>2, <1>4, <2>1, <2>2
<1> QED BY <1>4, <1>5, <1>6 DEF MemoryOK

\* A step in which one request moves.
LEMMA OneMoves ==
    ASSUME RequestInv, MemoryOK', HandlesKept, MergeCached', Observes, NEW c \in RqClients,
           DOMAIN rqReq' = RqClients, \A d \in RqClients \ {c} : rqReq'[d] = rqReq[d],
           Reading(rqReq'[c]) => Reading(rqReq[c]) \/ rqReq'[c].handle = 0,
           Underway(c)' =>
                /\ DOMAIN rqReq'[c] = RequestFields /\ rqReq'[c].plan \in RqPlans
                /\ rqReq'[c].sess \in RqSessions /\ rqReq'[c].todo \subseteq RqSessions
                /\ rqReq'[c].missing \in {"error", "not_found", "invalid", "told"}
                /\ StepsFit(c)' /\ ViewFits(c)',
           ~Underway(c)' =>
                /\ DOMAIN rqReq'[c] = {"plan", "answer", "view", "acted", "did"}
                /\ AnswerFits(c)',
           rqReq'[c].view # <<>> =>
                \A s \in DOMAIN rqReq'[c].view.shown : s \in RqSessions /\ WasSeen(c, s)'
    PROVE  RequestInv'
<1>1. {c} \in SUBSET RqClients
  OBVIOUS
<1>2. \A d \in {c} :
         /\ Reading(rqReq'[d]) => Reading(rqReq[d]) \/ rqReq'[d].handle = 0
         /\ Underway(d)' =>
              /\ DOMAIN rqReq'[d] = RequestFields /\ rqReq'[d].plan \in RqPlans
              /\ rqReq'[d].sess \in RqSessions /\ rqReq'[d].todo \subseteq RqSessions
              /\ rqReq'[d].missing \in {"error", "not_found", "invalid", "told"}
              /\ StepsFit(d)' /\ ViewFits(d)'
         /\ ~Underway(d)' =>
              /\ DOMAIN rqReq'[d] = {"plan", "answer", "view", "acted", "did"}
              /\ AnswerFits(d)'
         /\ rqReq'[d].view # <<>> =>
              \A s \in DOMAIN rqReq'[d].view.shown : s \in RqSessions /\ WasSeen(d, s)'
  OBVIOUS
<1>3. /\ \A s \in RqSessions : rqNext[s] <= rqNext'[s]
      /\ \A d \in RqClients \ {c} : Underway(d) =>
           \A s \in RqSessions : \A h \in 1..rqNext[s] : rqObj'[s][h].recs \subseteq rqObj[s][h].recs
  BY DEF HandlesKept
<1>4. /\ rqObj' \in [RqSessions -> [Handles -> RqStates]]
      /\ rqDisk' \in [RqSessions -> RqStates] /\ rqNext' \in [RqSessions -> Handles]
      /\ rqLive' \in [RqSessions -> 0..MaxHandles] /\ rqRetired' \in [RqSessions -> 0..MaxHandles]
      /\ DOMAIN rqQueue' = RqSessions /\ HandlesInOrder' /\ RemovalsLast'
  BY DEF MemoryOK
<1> QED BY <1>1, <1>2, <1>3, <1>4, StepKeeps

\* What holds of a request under way.
LEMMA Going ==
    ASSUME RequestInv, NEW c \in RqClients, Underway(c)
    PROVE  /\ DOMAIN rqReq[c] = RequestFields /\ rqReq[c].plan \in RqPlans
           /\ rqReq[c].sess \in RqSessions /\ rqReq[c].todo \subseteq RqSessions
           /\ rqReq[c].missing \in {"error", "not_found", "invalid", "told"}
           /\ StepsFit(c) /\ ViewFits(c) /\ DOMAIN rqReq = RqClients
           /\ rqReq[c].view # <<>> =>
                \A s \in DOMAIN rqReq[c].view.shown : s \in RqSessions /\ WasSeen(c, s)
           /\ RequestTypeOK
BY DEF RequestInv, RequestTypeOK, RequestsFit, ViewsSeen, RequestFields

\* A request that is answered without having shown anything.
LEMMA AnswerKeeps ==
    ASSUME RequestInv, MemoryOK', HandlesKept, MergeCached', Observes, NEW c \in RqClients,
           Underway(c), NEW r, NEW answer, Reply(c, r, answer), r.view = rqReq[c].view,
           answer # "shown", answer = "done" => r.did,
           answer \in {"invalid", "not_found", "noop"} => ~r.did
    PROVE  RequestInv'
<1>1. /\ DOMAIN rqReq' = RqClients /\ \A d \in RqClients \ {c} : rqReq'[d] = rqReq[d]
      /\ rqReq'[c].view = r.view /\ rqReq'[c].did = r.did
      /\ rqReq'[c].plan = <<>> /\ rqReq'[c].answer = answer
      /\ DOMAIN rqReq'[c] = {"plan", "answer", "view", "acted", "did"}
      /\ ~Reading(rqReq'[c])
  BY Going, IsAnswered
<1>2. rqReq'[c].view # <<>> =>
        \A s \in DOMAIN rqReq'[c].view.shown : s \in RqSessions /\ WasSeen(c, s)'
  BY <1>1, ViewStays
<1>3. AnswerFits(c)' /\ ~Underway(c)'
  BY <1>1 DEF AnswerFits, Underway
<1> QED BY <1>1, <1>2, <1>3, OneMoves

\* A request that goes on, with nothing to show yet.
LEMMA GoingOnKeeps ==
    ASSUME RequestInv, MemoryOK', HandlesKept, MergeCached', Observes, NEW c \in RqClients,
           Underway(c),
           Head(rqReq[c].plan) \notin {"gather", "mergeGraphs", "overlay", "rows", "checkpoint",
                                       "readRecords"},
           NEW r, r.plan = rqReq[c].plan, DOMAIN r = RequestFields, Goes(c, r),
           r.view = rqReq[c].view, r.sess = rqReq[c].sess, r.tgt = rqReq[c].tgt,
           r.todo = rqReq[c].todo, r.missing = rqReq[c].missing, r.answer = rqReq[c].answer,
           r.acted = r.did,
           Len(r.plan) # 1 => r.handle \in 1..rqNext'[r.sess],
           Head(r.plan) \in {"purge", "clearGraph"} => r.tgt \notin rqObj'[r.sess][r.handle].recs
    PROVE  RequestInv'
<1>1. /\ rqReq[c].plan \in RqPlans /\ rqReq[c].sess \in RqSessions
      /\ rqReq[c].todo \subseteq RqSessions /\ rqReq[c].answer = "none"
      /\ rqReq[c].missing \in {"error", "not_found", "invalid", "told"}
      /\ rqReq[c].view = <<>>
  BY Going DEF StepsFit, ViewFits
<1>2. /\ DOMAIN rqReq' = RqClients /\ \A d \in RqClients \ {c} : rqReq'[d] = rqReq[d]
      /\ rqReq'[c].view = r.view /\ rqReq'[c].acted = r.acted /\ rqReq'[c].did = r.did
      /\ Reading(rqReq'[c]) => Reading(rqReq[c])
  BY Going, GoesOn
<1>3. CASE Len(r.plan) = 1
  <2>1. /\ rqReq'[c].plan = <<>>
        /\ DOMAIN rqReq'[c] = {"plan", "answer", "view", "acted", "did"}
        /\ rqReq'[c].answer = IF r.view # <<>> THEN "shown" ELSE IF r.acted THEN "done" ELSE "noop"
    BY <1>3, Going, GoesOn
  <2>2. AnswerFits(c)' /\ ~Underway(c)'
    BY <1>1, <1>2, <2>1 DEF AnswerFits, Underway
  <2> QED BY <1>1, <1>2, <2>1, <2>2, OneMoves
<1>4. CASE Len(r.plan) # 1
  <2>1. /\ rqReq'[c].plan = Tail(r.plan) /\ rqReq'[c].plan # <<>>
        /\ rqReq'[c].plan \in RqPlans /\ DOMAIN rqReq'[c] = RequestFields
        /\ rqReq'[c].sess = r.sess /\ rqReq'[c].tgt = r.tgt
        /\ rqReq'[c].handle = r.handle /\ rqReq'[c].todo = r.todo
        /\ rqReq'[c].answer = r.answer /\ rqReq'[c].missing = r.missing
    BY <1>4, Going, GoesOn
  <2>2. /\ Head(r.plan) \in {"load", "dropEntity", "merge", "eraseMerged", "purge", "clearGraph"}
        /\ Head(Tail(r.plan)) \notin {"load", "mergeGraphs", "overlay", "checkpoint"}
        /\ Head(Tail(r.plan)) \in {"clearGraph", "queuePurge"} =>
              Head(r.plan) \in {"purge", "clearGraph"}
    <3>1. Head(r.plan) \in {"load", "dropEntity", "merge", "eraseMerged", "purge", "clearGraph"}
      BY <1>1, <1>4 DEF RqPlans
    <3>2. "load" \notin SessionSteps /\ "mergeGraphs" \notin SessionSteps /\ "overlay" \notin SessionSteps
      BY DEF SessionSteps, ReadSteps
    <3> QED BY <1>1, <3>1, <3>2, PlanNext
  <2>3. StepsFit(c)'
    BY <1>1, <1>2, <1>4, <2>1, <2>2 DEF StepsFit, Held
  <2>4. ViewFits(c)'
    BY <1>1, <1>2, <2>1, <2>2 DEF ViewFits
  <2>5. Underway(c)'
    BY <2>1 DEF Underway
  <2> QED BY <1>1, <1>2, <2>1, <2>3, <2>4, <2>5, OneMoves
<1> QED BY <1>3, <1>4

\* A request that shows something and goes on.
LEMMA ShowingKeeps ==
    ASSUME RequestInv, UNCHANGED <<handleVars, rqDisk, rqQueue, rqErased>>, MergeCached', Observes,
           NEW c \in RqClients, Underway(c),
           Head(rqReq[c].plan) \in ReadSteps \cup {"rows", "overlay", "gather", "mergeGraphs",
                                                   "checkpoint", "search", "vectorize", "health"},
           NEW r, r.plan = rqReq[c].plan, DOMAIN r = RequestFields, Goes(c, r), r.view # <<>>,
           r.sess = rqReq[c].sess, r.todo = rqReq[c].todo, r.missing = rqReq[c].missing,
           r.answer = rqReq[c].answer, r.handle = rqReq[c].handle,
           r.acted = rqReq[c].acted, r.did = rqReq[c].did,
           Head(r.plan) \in {"rows", "overlay"} => r.view.kind = "list",
           Head(r.plan) \in {"gather", "mergeGraphs"} => r.view.kind = "graph",
           Head(r.plan) \in ReadSteps => r.view.kind \in ReadSteps,
           Head(r.plan) \in {"checkpoint", "search", "vectorize", "health"} =>
             r.view.kind # "graph",
           Head(r.plan) = "mergeGraphs" =>
             r.view.graph = UNION {r.view.shown[s] : s \in DOMAIN r.view.shown},
           rqReq'[c].view = r.view =>
             \A s \in DOMAIN r.view.shown : s \in RqSessions /\ WasSeen(c, s)'
    PROVE  RequestInv'
<1>1. /\ rqReq[c].plan \in RqPlans /\ rqReq[c].sess \in RqSessions
      /\ rqReq[c].todo \subseteq RqSessions /\ rqReq[c].answer = "none"
      /\ rqReq[c].missing \in {"error", "not_found", "invalid", "told"}
      /\ rqReq[c].acted = rqReq[c].did
  BY Going DEF StepsFit
<1>2. /\ DOMAIN rqReq' = RqClients /\ \A d \in RqClients \ {c} : rqReq'[d] = rqReq[d]
      /\ rqReq'[c].view = r.view /\ rqReq'[c].acted = r.acted /\ rqReq'[c].did = r.did
      /\ Reading(rqReq'[c]) => Reading(rqReq[c])
  BY Going, GoesOn
<1>3. MemoryOK' /\ HandlesKept
  BY MemoryHolds, MemorySame
<1>4. "graph" \notin ReadSteps /\ "overlay" \notin ReadSteps /\ "mergeGraphs" \notin ReadSteps
  BY DEF ReadSteps
<1>5. CASE Len(r.plan) = 1
  <2>1. /\ rqReq'[c].plan = <<>>
        /\ DOMAIN rqReq'[c] = {"plan", "answer", "view", "acted", "did"}
        /\ rqReq'[c].answer = "shown"
    BY <1>5, Going, GoesOn
  <2>2. Head(r.plan) \notin {"rows", "gather"}
    BY <1>1, <1>5, PlanNext
  <2>3. r.view.kind = "graph" => Head(r.plan) = "mergeGraphs"
    BY <1>4, <2>2
  <2>4. AnswerFits(c)' /\ ~Underway(c)'
    BY <1>1, <1>2, <2>1, <2>3 DEF AnswerFits, Underway
  <2> QED BY <1>1, <1>2, <1>3, <2>1, <2>4, OneMoves
<1>6. CASE Len(r.plan) # 1
  <2>1. /\ rqReq'[c].plan = Tail(r.plan) /\ rqReq'[c].plan # <<>>
        /\ rqReq'[c].plan \in RqPlans /\ DOMAIN rqReq'[c] = RequestFields
        /\ rqReq'[c].sess = r.sess /\ rqReq'[c].tgt = r.tgt
        /\ rqReq'[c].handle = r.handle /\ rqReq'[c].todo = r.todo
        /\ rqReq'[c].answer = r.answer /\ rqReq'[c].missing = r.missing
    BY <1>6, Going, GoesOn
  <2>2. Head(r.plan) \in {"readRecords", "rows", "gather"}
    BY <1>1, <1>6, PlanEnds DEF ReadSteps
  <2>3. /\ Head(r.plan) = "readRecords" => Head(Tail(r.plan)) = "checkpoint"
        /\ Head(r.plan) = "rows" => Head(Tail(r.plan)) = "overlay"
        /\ Head(r.plan) = "gather" => Head(Tail(r.plan)) = "mergeGraphs"
    BY <1>1, <1>6, PlanNext
  <2>4. /\ "overlay" \notin SessionSteps /\ "mergeGraphs" \notin SessionSteps
        /\ "readRecords" \in SessionSteps /\ "readRecords" \in ReadSteps
    BY DEF SessionSteps, ReadSteps
  <2>5. StepsFit(c)'
    <3>1. Head(r.plan) = "readRecords" => r.handle \in 1..rqNext'[r.sess]
      BY <1>1, <2>4, Going DEF StepsFit, handleVars
    <3> QED BY <1>1, <1>2, <2>1, <2>2, <2>3, <2>4, <3>1 DEF StepsFit
  <2>6. ViewFits(c)'
    BY <1>2, <2>1, <2>2, <2>3, <2>4 DEF ViewFits
  <2>7. Underway(c)'
    BY <2>1 DEF Underway
  <2> QED BY <1>1, <1>2, <1>3, <2>1, <2>5, <2>6, <2>7, OneMoves
<1> QED BY <1>5, <1>6

\* The steps that change a session.
LEMMA HasHandle ==
    ASSUME RequestInv, NEW c \in RqClients, Underway(c), Head(rqReq[c].plan) \in SessionSteps
    PROVE  /\ rqReq[c].sess \in RqSessions /\ rqReq[c].handle \in 1..rqNext[rqReq[c].sess]
           /\ Held(c) \in RqStates /\ Held(c).name # "none"
           /\ Held(c) = rqObj[rqReq[c].sess][rqReq[c].handle]
<1>1. rqReq[c].sess \in RqSessions /\ rqReq[c].handle \in 1..rqNext[rqReq[c].sess]
  BY Going DEF StepsFit
<1>2. PICK s \in RqSessions : s = rqReq[c].sess
  BY <1>1
<1>2h. PICK h \in 1..rqNext[s] : h = rqReq[c].handle
  BY <1>1, <1>2
<1>3. h \in Handles /\ rqObj[s][h].name # "none" /\ rqObj \in [RqSessions -> [Handles -> RqStates]]
  BY MemoryHolds, HandleOrder DEF MemoryOK
<1>4. rqObj[s][h] \in RqStates
  BY <1>3
<1> QED BY <1>1, <1>2, <1>2h, <1>3, <1>4 DEF Held

LEMMA CasAnswerFields ==
    ASSUME NEW c \in RqClients, DOMAIN rqReq[c] = RequestFields, NEW changed, NEW r,
           r = CasAnswer(c, changed)
    PROVE  /\ DOMAIN r = RequestFields /\ r.plan = rqReq[c].plan /\ r.view = rqReq[c].view
           /\ r.sess = rqReq[c].sess /\ r.tgt = rqReq[c].tgt /\ r.todo = rqReq[c].todo
           /\ r.missing = rqReq[c].missing /\ r.answer = rqReq[c].answer
           /\ r.handle = rqReq[c].handle /\ r.acted = changed /\ r.did = changed
BY DEF CasAnswer, RequestFields

\* A compare-and-swap that always goes on: update_session_metadata and the
\* entity's removal from the graph.
LEMMA CasKeeps ==
    ASSUME RequestInv, Observes, NEW c \in RqClients, Underway(c),
           Head(rqReq[c].plan) \in {"rename", "dropEntity"}, NEW new \in RqStates,
           new.name # "none", new.recs \subseteq Held(c).recs, NEW changed \in BOOLEAN,
           Changes(c, new, changed), Goes(c, CasAnswer(c, changed)),
           \/ rqQueue' = rqQueue
           \/ rqQueue' = Queued(rqReq[c].sess, rqReq[c].handle, {}),
           UNCHANGED <<rqLive, rqRetired, rqNext, rqDisk, rqMerged, rqErased>>
    PROVE  RequestInv'
<1>1. Head(rqReq[c].plan) \in SessionSteps
  BY DEF SessionSteps
<1>2a. PICK s \in RqSessions : s = rqReq[c].sess
  BY <1>1, HasHandle
<1>2b. PICK h \in 1..rqNext[s] : h = rqReq[c].handle /\ Held(c) = rqObj[s][h]
  BY <1>1, <1>2a, HasHandle
<1>2. s = rqReq[c].sess /\ h = rqReq[c].handle /\ Held(c) = rqObj[s][h]
  BY <1>2a, <1>2b
<1>3. rqObj' = IF changed THEN [rqObj EXCEPT ![s][h] = new] ELSE rqObj
  BY <1>2 DEF Changes
<1>4. \/ rqQueue' = rqQueue /\ rqErased' = rqErased
      \/ /\ rqQueue' = Queued(s, h, {})
         /\ rqErased' = rqErased \cup (IF h <= rqRetired[s] THEN {} ELSE {s} \X {})
         /\ {} \cap rqObj'[s][h].recs = {}
  BY <1>2
<1>5. MemoryOK' /\ HandlesKept
  BY <1>2, <1>3, <1>4, MemoryHolds, MemoryCas
<1>6. MergeCached'
  BY MemoryHolds DEF MergeCached
<1>7. rqReq[c].handle \in 1..rqNext'[rqReq[c].sess]
  BY <1>2
<1>8. PICK r : r = CasAnswer(c, changed)
  OBVIOUS
<1>9. DOMAIN rqReq[c] = RequestFields
  BY Going
<1>10. /\ DOMAIN r = RequestFields /\ r.plan = rqReq[c].plan /\ r.view = rqReq[c].view
       /\ r.sess = rqReq[c].sess /\ r.tgt = rqReq[c].tgt /\ r.todo = rqReq[c].todo
       /\ r.missing = rqReq[c].missing /\ r.answer = rqReq[c].answer
       /\ r.handle = rqReq[c].handle /\ r.acted = changed /\ r.did = changed
  BY <1>8, <1>9, CasAnswerFields
<1>11. Goes(c, r)
  BY <1>8
<1> QED BY <1>5, <1>6, <1>7, <1>10, <1>11, GoingOnKeeps

LEMMA RenameKeeps ==
    ASSUME RequestInv, Observes, NEW c \in RqClients, Rename(c) PROVE RequestInv'
<1>1. Underway(c) /\ Head(rqReq[c].plan) = "rename" /\ Head(rqReq[c].plan) \in SessionSteps
  BY DEF Rename, AtStep, Underway, SessionSteps
<1>2. PICK x \in RqStates : x = Held(c) /\ x.name # "none"
  BY <1>1, HasHandle
<1>3. PICK y : y = [x EXCEPT !.name = IF rqReq[c].tgt = "new" THEN "new" ELSE @]
  OBVIOUS
<1>4. y \in RqStates /\ y.name # "none" /\ y.recs \subseteq x.recs
  BY <1>2, <1>3 DEF RqStates
<1>5. Changes(c, y, TRUE)
  BY <1>2, <1>3 DEF Rename
<1>6. /\ rqQueue' = Queued(rqReq[c].sess, rqReq[c].handle, {}) /\ Goes(c, CasAnswer(c, TRUE))
      /\ UNCHANGED <<rqLive, rqRetired, rqNext, rqDisk, rqMerged, rqErased>>
  BY DEF Rename
<1> QED BY <1>1, <1>2, <1>4, <1>5, <1>6, CasKeeps

LEMMA DropEntityKeeps ==
    ASSUME RequestInv, Observes, NEW c \in RqClients, DropEntity(c) PROVE RequestInv'
<1>1. /\ Underway(c) /\ Head(rqReq[c].plan) = "dropEntity" /\ Head(rqReq[c].plan) \in SessionSteps
  BY DEF DropEntity, AtStep, Underway, SessionSteps
<1>2. PICK x \in RqStates : x = Held(c) /\ x.name # "none"
  BY <1>1, HasHandle
<1>3. PICK y : y = [x EXCEPT !.ents = @ \ {rqReq[c].tgt}]
  OBVIOUS
<1>4. y \in RqStates /\ y.name # "none" /\ y.recs \subseteq x.recs
  BY <1>2, <1>3 DEF RqStates
<1>5. PICK there \in BOOLEAN : there = (rqReq[c].tgt \in x.ents)
  <2>1. (rqReq[c].tgt \in x.ents) \in BOOLEAN
    OBVIOUS
  <2> QED BY <2>1
<1>6. /\ Changes(c, y, there) /\ Goes(c, CasAnswer(c, there))
      /\ rqQueue' = IF there THEN Queued(rqReq[c].sess, rqReq[c].handle, {}) ELSE rqQueue
      /\ UNCHANGED <<rqLive, rqRetired, rqNext, rqDisk, rqMerged, rqErased>>
  BY <1>2, <1>3, <1>5 DEF DropEntity
<1> QED BY <1>1, <1>2, <1>4, <1>6, CasKeeps

\* A compare-and-swap that ends the request when there is nothing to change.
LEMMA CasOrNoopKeeps ==
    ASSUME RequestInv, Observes, NEW c \in RqClients, NEW step \in {"merge", "remove", "retire", "purge"},
           NEW new \in RqStates, new.name # "none", new.recs \subseteq Held(c).recs,
           NEW changed \in BOOLEAN, NEW gone, gone \cap new.recs = {}, NEW later \in BOOLEAN,
           later => gone = {}, step = "purge" => rqReq[c].tgt \notin new.recs,
           CasOrNoop(c, step, new, changed, gone, later)
    PROVE  RequestInv'
<1>1. Underway(c) /\ Head(rqReq[c].plan) = step /\ Head(rqReq[c].plan) \in SessionSteps
  BY DEF CasOrNoop, AtStep, Underway, SessionSteps
<1>2a. PICK s \in RqSessions : s = rqReq[c].sess
  BY <1>1, HasHandle
<1>2b. PICK h \in 1..rqNext[s] : h = rqReq[c].handle /\ Held(c) = rqObj[s][h]
  BY <1>1, <1>2a, HasHandle
<1>2. s = rqReq[c].sess /\ h = rqReq[c].handle /\ Held(c) = rqObj[s][h]
  BY <1>2a, <1>2b
<1>3. rqObj' = IF changed THEN [rqObj EXCEPT ![s][h] = new] ELSE rqObj
  BY <1>2 DEF Changes, CasOrNoop
<1>4. changed => rqObj'[s][h] = new
  BY <1>3, MemoryHolds, HandleOrder DEF MemoryOK
<1>5. \/ rqQueue' = rqQueue /\ rqErased' = rqErased
      \/ /\ rqQueue' = Queued(s, h, gone)
         /\ rqErased' = rqErased \cup (IF h <= rqRetired[s] THEN {} ELSE {s} \X gone)
         /\ gone \cap rqObj'[s][h].recs = {}
  <2>1. CASE ~changed
    BY <2>1 DEF CasOrNoop
  <2>2. CASE changed /\ later
    BY <1>2, <2>2 DEF CasOrNoop, Kept
  <2>3. CASE changed /\ ~later
    BY <1>2, <1>4, <2>3 DEF CasOrNoop, Kept
  <2> QED BY <2>1, <2>2, <2>3
<1>6. UNCHANGED <<rqLive, rqRetired, rqNext, rqDisk, rqMerged>>
  BY DEF CasOrNoop
<1>7. MemoryOK' /\ HandlesKept
  BY <1>2, <1>3, <1>5, <1>6, MemoryHolds, MemoryCas
<1>8. MergeCached'
  BY <1>6, MemoryHolds DEF MergeCached
<1>9. CASE changed
  <2>1. Goes(c, CasAnswer(c, TRUE))
    BY <1>9 DEF CasOrNoop
  <2>2. rqReq[c].handle \in 1..rqNext'[rqReq[c].sess]
    BY <1>2, <1>6
  <2>3. Head(rqReq[c].plan) \in {"purge", "clearGraph"} =>
           rqReq[c].tgt \notin rqObj'[rqReq[c].sess][rqReq[c].handle].recs
    BY <1>1, <1>2, <1>4, <1>9
  <2>4. PICK r : r = CasAnswer(c, TRUE)
    OBVIOUS
  <2>8. DOMAIN rqReq[c] = RequestFields
    BY <1>1, Going
  <2>5. /\ DOMAIN r = RequestFields /\ r.plan = rqReq[c].plan /\ r.view = rqReq[c].view
        /\ r.sess = rqReq[c].sess /\ r.tgt = rqReq[c].tgt /\ r.todo = rqReq[c].todo
        /\ r.missing = rqReq[c].missing /\ r.answer = rqReq[c].answer
        /\ r.handle = rqReq[c].handle /\ r.acted = r.did
    BY <2>4, <2>8 DEF CasAnswer, RequestFields
  <2>6. Goes(c, r)
    BY <2>1, <2>4
  <2>7. Head(rqReq[c].plan) \notin {"gather", "mergeGraphs", "overlay", "rows", "checkpoint",
                                    "readRecords"}
    BY <1>1
  <2> QED BY <1>1, <1>7, <1>8, <2>2, <2>3, <2>5, <2>6, <2>7, GoingOnKeeps
<1>10. CASE ~changed
  <2>1. Reply(c, CasAnswer(c, FALSE), "noop")
    BY <1>10 DEF CasOrNoop
  <2>2. PICK r : r = CasAnswer(c, FALSE)
    OBVIOUS
  <2>3. DOMAIN rqReq[c] = RequestFields
    BY <1>1, Going
  <2>4. r.view = rqReq[c].view /\ r.did = FALSE
    BY <2>2, <2>3 DEF CasAnswer, RequestFields
  <2>5. Reply(c, r, "noop")
    BY <2>1, <2>2
  <2> QED BY <1>1, <1>7, <1>8, <2>4, <2>5, AnswerKeeps
<1> QED BY <1>9, <1>10

LEMMA RemovalsKeep ==
    ASSUME RequestInv, Observes, NEW c \in RqClients,
           Merge(c) \/ RemoveStep(c) \/ Retire(c) \/ Purge(c)
    PROVE  RequestInv'
<1>1. /\ Underway(c) /\ Head(rqReq[c].plan) \in SessionSteps
  BY DEF Merge, RemoveStep, Retire, Purge, CasOrNoop, AtStep, Underway, SessionSteps
<1>2. PICK x \in RqStates : x = Held(c) /\ x.name # "none"
  BY <1>1, HasHandle
<1>3. PICK t : t = rqReq[c].tgt
  OBVIOUS
<1>4. CASE Merge(c)
  <2>1. PICK y : y = [x EXCEPT !.ents = @ \ {t}]
    OBVIOUS
  <2>2. y \in RqStates /\ y.name # "none" /\ y.recs \subseteq x.recs
    BY <1>2, <2>1 DEF RqStates
  <2>3. PICK changed \in BOOLEAN : changed = ({t, rqReq[c].into} \subseteq x.ents /\ t # rqReq[c].into)
    OBVIOUS
  <2>4. CasOrNoop(c, "merge", y, changed, {}, TRUE)
    BY <1>2, <1>3, <1>4, <2>1, <2>3 DEF Merge
  <2> QED BY <1>2, <2>2, <2>4, CasOrNoopKeeps
<1>5. CASE RemoveStep(c)
  <2>1. PICK y : y = WithoutRecord(x, t)
    OBVIOUS
  <2>2. y \in RqStates /\ y.name # "none" /\ y.recs = x.recs \ {t}
    BY <1>2, <2>1 DEF RqStates, WithoutRecord
  <2>3. PICK changed \in BOOLEAN : changed = (t \in x.recs)
    <3>1. (t \in x.recs) \in BOOLEAN
      OBVIOUS
    <3> QED BY <3>1
  <2>4. CasOrNoop(c, "remove", y, changed, {t}, FALSE)
    BY <1>2, <1>3, <1>5, <2>1, <2>3 DEF RemoveStep
  <2>5. y.recs \subseteq Held(c).recs /\ {t} \cap y.recs = {}
    BY <1>2, <2>2
  <2> QED BY <2>2, <2>4, <2>5, CasOrNoopKeeps
<1>6. CASE Retire(c)
  <2>1. PICK y : y = [x EXCEPT !.retired = @ \cup {t}]
    OBVIOUS
  <2>2. PICK changed \in BOOLEAN : changed = (t \in x.recs \ x.retired)
    <3>1. (t \in x.recs \ x.retired) \in BOOLEAN
      OBVIOUS
    <3> QED BY <3>1
  <2>3. CasOrNoop(c, "retire", y, changed, {}, FALSE)
    BY <1>2, <1>3, <1>6, <2>1, <2>2 DEF Retire
  <2>4. y.name # "none" /\ y.recs \subseteq x.recs
    BY <1>2, <2>1 DEF RqStates
  <2>5. CASE changed
    <3>1. y \in RqStates
      BY <1>2, <2>1, <2>2, <2>5 DEF RqStates
    <3> QED BY <1>2, <2>3, <2>4, <3>1, CasOrNoopKeeps
  <2>6. CASE ~changed
    <3>1. CasOrNoop(c, "retire", x, changed, {}, FALSE)
      BY <2>3, <2>6 DEF CasOrNoop, Changes
    <3> QED BY <1>2, <3>1, CasOrNoopKeeps
  <2> QED BY <2>5, <2>6
<1>7. CASE Purge(c)
  <2>1. PICK y : y = Rebuilt(WithoutRecord(x, t))
    OBVIOUS
  <2>2. y.name # "none" /\ y.recs = x.recs \ {t} /\ y \in RqStates
    <3>1. Mentioned(x.recs \ {t}) \subseteq RqEntities
      BY <1>2 DEF RqStates, Mentioned, RqEntities
    <3>2. PICK w : w = WithoutRecord(x, t)
      OBVIOUS
    <3>3. w \in RqStates /\ w.name # "none" /\ w.recs = x.recs \ {t}
      BY <1>2, <3>2 DEF RqStates, WithoutRecord
    <3>4. PICK m \in SUBSET RqEntities : m = Mentioned(w.recs)
      BY <3>1, <3>3
    <3>5. y = [w EXCEPT !.ents = m]
      BY <2>1, <3>2, <3>4 DEF Rebuilt
    <3> QED BY <3>3, <3>4, <3>5 DEF RqStates
  <2>3. PICK changed \in BOOLEAN : changed = (t \in x.recs)
    <3>1. (t \in x.recs) \in BOOLEAN
      OBVIOUS
    <3> QED BY <3>1
  <2>4. CasOrNoop(c, "purge", y, changed, {}, TRUE)
    BY <1>2, <1>3, <1>7, <2>1, <2>3 DEF Purge
  <2>5. y.recs \subseteq Held(c).recs /\ rqReq[c].tgt \notin y.recs
    BY <1>2, <1>3, <2>2
  <2> QED BY <2>2, <2>4, <2>5, CasOrNoopKeeps
<1> QED BY <1>4, <1>5, <1>6, <1>7

LEMMA EraseKeeps ==
    ASSUME RequestInv, Observes, NEW c \in RqClients, Erase(c) PROVE RequestInv'
<1>1. /\ Underway(c) /\ Head(rqReq[c].plan) \in {"eraseEntity", "eraseMerged", "clearGraph"}
      /\ Head(rqReq[c].plan) \in SessionSteps
  BY DEF Erase, AtStep, Underway, SessionSteps
<1>2a. PICK r : r = rqReq[c]
  OBVIOUS
<1>2b. PICK s \in RqSessions : s = r.sess
  BY <1>1, <1>2a, Going
<1>2. r = rqReq[c] /\ s = r.sess
  BY <1>2a, <1>2b
<1>3. PICK gone : gone = IF AtStep(c, "clearGraph") THEN RqEntities ELSE {r.tgt}
  OBVIOUS
<1>4. /\ rqDisk' = [rqDisk EXCEPT ![s].ents = ErasedEnts(s, gone)] /\ Goes(c, r)
      /\ UNCHANGED <<handleVars, rqQueue, rqErased>> /\ UNCHANGED rqMerged
  BY <1>2, <1>3 DEF Erase
<1>5. MemoryOK' /\ HandlesKept
  BY <1>4, MemoryHolds, MemoryErases
<1>6. MergeCached'
  BY <1>4, MemoryHolds DEF MergeCached
<1>7. r.handle \in 1..rqNext'[s] /\ Held(c) = rqObj'[s][r.handle]
  BY <1>1, <1>2, <1>4, HasHandle DEF handleVars
<1>8. /\ r.acted = r.did
      /\ Head(r.plan) = "clearGraph" => r.tgt \notin rqObj'[s][r.handle].recs
  BY <1>1, <1>2, <1>7, Going DEF StepsFit
<1>9. DOMAIN r = RequestFields
  BY <1>1, <1>2, Going
<1> QED BY <1>1, <1>2, <1>4, <1>5, <1>6, <1>7, <1>8, <1>9, GoingOnKeeps

LEMMA QueueLateKeeps ==
    ASSUME RequestInv, Observes, NEW c \in RqClients, QueueLate(c) PROVE RequestInv'
<1>1. /\ Underway(c) /\ Head(rqReq[c].plan) \in {"queueMerged", "queuePurge"}
      /\ Head(rqReq[c].plan) \in SessionSteps
  BY DEF QueueLate, AtStep, Underway, SessionSteps
<1>2a. PICK r : r = rqReq[c]
  OBVIOUS
<1>2b. PICK s \in RqSessions : s = r.sess
  BY <1>1, <1>2a, Going
<1>2. r = rqReq[c] /\ s = r.sess
  BY <1>2a, <1>2b
<1>3. PICK h \in 1..rqNext[s] : h = r.handle /\ Held(c) = rqObj[s][h]
  BY <1>1, <1>2, HasHandle
<1>4. PICK gone : gone = IF AtStep(c, "queuePurge") THEN {r.tgt} ELSE {}
  OBVIOUS
<1>5. /\ rqQueue' = Queued(s, h, gone) /\ Goes(c, r)
      /\ rqErased' = rqErased \cup (IF h <= rqRetired[s] THEN {} ELSE {s} \X gone)
      /\ UNCHANGED handleVars /\ UNCHANGED rqDisk /\ UNCHANGED rqMerged
  BY <1>2, <1>3, <1>4 DEF QueueLate, Kept
<1>6. gone \cap rqObj'[s][h].recs = {}
  <2>1. CASE AtStep(c, "queuePurge")
    <3>1. r.tgt \notin Held(c).recs
      BY <1>1, <1>2, <2>1, Going DEF StepsFit, AtStep
    <3> QED BY <1>3, <1>4, <1>5, <2>1, <3>1 DEF handleVars
  <2>2. CASE ~AtStep(c, "queuePurge")
    BY <1>4, <2>2
  <2> QED BY <2>1, <2>2
<1>7. UNCHANGED <<rqLive, rqRetired, rqNext, rqDisk>> /\ rqObj' = rqObj
  BY <1>5 DEF handleVars
<1>8. PICK new \in RqStates : new = rqObj[s][h]
  BY <1>1, <1>3, HasHandle
<1>9. MemoryOK' /\ HandlesKept
  <2>1. rqObj' = IF FALSE THEN [rqObj EXCEPT ![s][h] = new] ELSE rqObj
    BY <1>7
  <2>2. FALSE \in BOOLEAN
    OBVIOUS
  <2> QED BY <1>5, <1>6, <1>7, <2>1, <2>2, MemoryHolds, MemoryCas
<1>10. MergeCached'
  BY <1>5, MemoryHolds DEF MergeCached
<1>11. r.handle \in 1..rqNext'[s] /\ r.acted = r.did /\ DOMAIN r = RequestFields
  BY <1>1, <1>2, <1>3, <1>7, Going DEF StepsFit
<1> QED BY <1>1, <1>2, <1>5, <1>9, <1>10, <1>11, GoingOnKeeps

LEMMA DeleteKeeps ==
    ASSUME RequestInv, Observes, NEW c \in RqClients, Delete(c) PROVE RequestInv'
<1>1. Underway(c) /\ Head(rqReq[c].plan) = "delete"
  BY DEF Delete, AtStep, Underway
<1>2a. PICK r : r = rqReq[c]
  OBVIOUS
<1>2b. PICK s \in RqSessions : s = r.sess
  BY <1>1, <1>2a, Going
<1>2. r = rqReq[c] /\ s = r.sess
  BY <1>2a, <1>2b
<1>3. /\ rqLive' = [rqLive EXCEPT ![s] = 0] /\ rqRetired' = [rqRetired EXCEPT ![s] = rqNext[s]]
      /\ rqQueue' = [rqQueue EXCEPT ![s] = NoQueue] /\ rqErased' = {e \in rqErased : e[1] # s}
      /\ UNCHANGED <<rqObj, rqNext>> /\ UNCHANGED rqMerged
  BY <1>2 DEF Delete
<1>4. \/ /\ rqDisk' = [rqDisk EXCEPT ![s] = NoSession]
         /\ Goes(c, [r EXCEPT !.acted = rqDisk[s] # NoSession, !.did = rqDisk[s] # NoSession])
      \/ Reply(c, r, "error") /\ UNCHANGED rqDisk
  BY <1>2 DEF Delete
<1>5. MemoryOK' /\ HandlesKept
  BY <1>3, <1>4, MemoryHolds, MemoryDeletes
<1>6. MergeCached'
  BY <1>3, MemoryHolds DEF MergeCached
<1>7. CASE Reply(c, r, "error")
  BY <1>1, <1>2, <1>5, <1>6, <1>7, AnswerKeeps
<1>8. CASE Goes(c, [r EXCEPT !.acted = rqDisk[s] # NoSession, !.did = rqDisk[s] # NoSession])
  <2>1. PICK d : d = (rqDisk[s] # NoSession)
    OBVIOUS
  <2>2. PICK q : q = [r EXCEPT !.acted = d, !.did = d]
    OBVIOUS
  <2>3. DOMAIN r = RequestFields
    BY <1>1, <1>2, Going
  <2>4. /\ DOMAIN q = RequestFields /\ q.plan = r.plan /\ q.view = r.view /\ q.sess = r.sess
        /\ q.tgt = r.tgt /\ q.todo = r.todo /\ q.missing = r.missing /\ q.answer = r.answer
        /\ q.acted = q.did
    BY <2>2, <2>3 DEF RequestFields
  <2>5. Goes(c, q)
    BY <1>8, <2>1, <2>2
  <2>6. Len(q.plan) = 1
    BY <1>1, <1>2, <2>4, Going, PlanEnds
  <2> QED BY <1>1, <1>2, <1>5, <1>6, <2>4, <2>5, <2>6, GoingOnKeeps
<1> QED BY <1>4, <1>7, <1>8

LEMMA LoadKeeps ==
    ASSUME RequestInv, Observes, NEW c \in RqClients, Load(c) PROVE RequestInv'
<1>1. /\ Underway(c) /\ Head(rqReq[c].plan) = "load"
      /\ UNCHANGED <<rqDisk, rqQueue, rqErased>> /\ UNCHANGED rqMerged
  BY DEF Load, AtStep, Underway
<1>2a. PICK r : r = rqReq[c]
  OBVIOUS
<1>2b. PICK s \in RqSessions : s = r.sess
  BY <1>1, <1>2a, Going
<1>2. r = rqReq[c] /\ s = r.sess
  BY <1>2a, <1>2b
<1>3. MergeCached'
  BY <1>1, MemoryHolds DEF MergeCached
<1>4. /\ ~r.did /\ r.acted = r.did /\ r.missing \in {"error", "not_found", "invalid", "told"}
      /\ DOMAIN r = RequestFields
  BY <1>1, <1>2, Going DEF StepsFit
<1>5. CASE CanLoad(s)
  <2>1. GetSession(s) /\ Goes(c, [r EXCEPT !.handle = rqLive'[s]])
    BY <1>2, <1>5 DEF Load
  <2>2. MemoryOK' /\ HandlesKept /\ rqLive'[s] \in 1..rqNext'[s]
    BY <1>1, <1>5, <2>1, MemoryHolds, MemoryLoads
  <2>3. PICK h : h = rqLive'[s]
    OBVIOUS
  <2>4. PICK q : q = [r EXCEPT !.handle = h]
    OBVIOUS
  <2>5. /\ DOMAIN q = RequestFields /\ q.plan = r.plan /\ q.view = r.view /\ q.sess = r.sess
        /\ q.tgt = r.tgt /\ q.todo = r.todo /\ q.missing = r.missing /\ q.answer = r.answer
        /\ q.acted = r.acted /\ q.did = r.did /\ q.handle = h
    BY <1>4, <2>4 DEF RequestFields
  <2>6. Goes(c, q)
    BY <2>1, <2>3, <2>4
  <2>7. q.handle \in 1..rqNext'[q.sess]
    BY <1>2, <2>2, <2>3, <2>5
  <2> QED BY <1>1, <1>2, <1>3, <1>4, <2>2, <2>5, <2>6, <2>7, GoingOnKeeps
<1>6. CASE ~CanLoad(s)
  <2>1. Reply(c, r, r.missing) /\ UNCHANGED handleVars
    BY <1>2, <1>6 DEF Load
  <2>2. MemoryOK' /\ HandlesKept
    BY <1>1, <2>1, MemoryHolds, MemorySame
  <2> QED BY <1>1, <1>2, <1>3, <1>4, <2>1, <2>2, AnswerKeeps
<1> QED BY <1>5, <1>6

LEMMA FailsKeeps ==
    ASSUME RequestInv, Observes, NEW c \in RqClients, Fails(c) PROVE RequestInv'
<1>1. /\ Underway(c) /\ Reply(c, rqReq[c], "error") /\ UNCHANGED rqMerged
      /\ UNCHANGED <<handleVars, rqDisk, rqQueue, rqErased>>
  BY DEF Fails, Underway
<1>2. MemoryOK' /\ HandlesKept
  BY <1>1, MemoryHolds, MemorySame
<1>3. MergeCached'
  BY <1>1, MemoryHolds DEF MergeCached
<1> QED BY <1>1, <1>2, <1>3, AnswerKeeps

\* Every handler's plan is one of the plans, and begins before it has a handle.
HandlerFits(h) ==
    /\ h.steps \in RqPlans
    /\ Head(h.steps) \in {"load", "delete", "rows", "gather", "search", "health"}
    /\ h.missing \in {"error", "not_found", "invalid", "told"}

LEMMA HandlersFit == ASSUME NEW h \in RequestHandlers PROVE HandlerFits(h)
<1>1. HandlerFits(GrpcHealth) /\ HandlerFits(GrpcListSessions) /\
      HandlerFits(GrpcLoadSession) /\ HandlerFits(GrpcSearchSessions) /\
      HandlerFits(GrpcUpdateSessionMetadata) /\ HandlerFits(GrpcDeleteSession)
  BY DEF HandlerFits, Handler, RqPlans, GrpcHealth, GrpcListSessions, GrpcLoadSession,
         GrpcSearchSessions, GrpcUpdateSessionMetadata, GrpcDeleteSession, ListSummaries,
         UpdateSessionMetadata, DeleteSession
<1>2. HandlerFits(GrpcDeleteEntity) /\ HandlerFits(GrpcMergeEntities) /\
      HandlerFits(GrpcForgetUpdate) /\ HandlerFits(GrpcPurgeUpdate) /\
      HandlerFits(GrpcGetGraphView) /\ HandlerFits(GrpcGetGraphViewOfWorkspace)
  BY DEF HandlerFits, Handler, RqPlans, GrpcDeleteEntity, GrpcMergeEntities,
         GrpcForgetUpdate, GrpcPurgeUpdate, GrpcGetGraphView, GrpcGetGraphViewOfWorkspace,
         DeleteEntityRequest, MergeRequest, ForgetUpdate, PurgeUpdate
<1>3. HandlerFits(GrpcCreateCheckpoint) /\ HandlerFits(GrpcQueryContext) /\
      HandlerFits(GrpcSemanticSearch) /\ HandlerFits(GrpcFindRelatedContent) /\
      HandlerFits(GrpcVectorizeSession) /\ HandlerFits(GrpcGetStructuredSummary)
  BY DEF HandlerFits, Handler, RqPlans, GrpcCreateCheckpoint, GrpcQueryContext,
         GrpcSemanticSearch, GrpcFindRelatedContent, GrpcVectorizeSession,
         GrpcGetStructuredSummary
<1>4. HandlerFits(GrpcGetKeyDecisions) /\ HandlerFits(GrpcGetKeyInsights) /\
      HandlerFits(GrpcGetEntityImportance) /\ HandlerFits(GrpcGetEntityNetwork) /\
      HandlerFits(GrpcGetSessionStatistics) /\ HandlerFits(GrpcAssembleContext)
  BY DEF HandlerFits, Handler, RqPlans, GrpcGetKeyDecisions, GrpcGetKeyInsights,
         GrpcGetEntityImportance, GrpcGetEntityNetwork, GrpcGetSessionStatistics,
         GrpcAssembleContext
<1>5. HandlerFits(GrpcAssembleContextOfWorkspace) /\ HandlerFits(McpListSessions) /\
      HandlerFits(McpLoadSession) /\ HandlerFits(McpSearchSessions) /\
      HandlerFits(McpUpdateMetadata) /\ HandlerFits(McpDeleteSession)
  BY DEF HandlerFits, Handler, RqPlans, GrpcAssembleContextOfWorkspace, McpListSessions,
         McpLoadSession, McpSearchSessions, McpUpdateMetadata, McpDeleteSession,
         ToolListSessions, ListSummaries, UpdateSessionMetadata, DeleteSession
<1>6. HandlerFits(McpDeleteEntity) /\ HandlerFits(McpMergeEntities) /\
      HandlerFits(McpDeleteUpdate) /\ HandlerFits(McpForget) /\ HandlerFits(McpPurge) /\
      HandlerFits(McpQuery)
  BY DEF HandlerFits, Handler, RqPlans, McpDeleteEntity, McpMergeEntities, McpDeleteUpdate,
         McpForget, McpPurge, McpQuery, DeleteEntityRequest, MergeRequest, DeleteUpdate,
         ForgetUpdate, PurgeUpdate, ToolQuery
<1>7. HandlerFits(McpEntityImportance) /\ HandlerFits(McpEntityNetwork) /\
      HandlerFits(McpKeyDecisions) /\ HandlerFits(McpKeyInsights) /\
      HandlerFits(McpSessionStatistics) /\ HandlerFits(McpStructuredSummary)
  BY DEF HandlerFits, Handler, RqPlans, McpEntityImportance, McpEntityNetwork,
         McpKeyDecisions, McpKeyInsights, McpSessionStatistics, McpStructuredSummary,
         ToolImportance, ToolNetwork, ToolDecisions, ToolInsights, ToolStatistics,
         ToolSummary
<1>8. HandlerFits(McpFindRelatedContent) /\ HandlerFits(McpGraphView) /\
      HandlerFits(McpGraphViewOfWorkspace) /\ HandlerFits(McpVectorizeSession) /\
      HandlerFits(McpCreateCheckpoint) /\ HandlerFits(McpSearchSession)
  BY DEF HandlerFits, Handler, RqPlans, McpFindRelatedContent, McpGraphView,
         McpGraphViewOfWorkspace, McpVectorizeSession, McpCreateCheckpoint, McpSearchSession,
         ToolRelated, ToolCheckpoint, ToolSearchSession
<1>9. HandlerFits(McpSearchGlobal) /\ HandlerFits(McpHealth) /\
      HandlerFits(McpVectorizeStats) /\ HandlerFits(GrpcGetVectorizationStats) /\
      HandlerFits(McpAssembleContext) /\ HandlerFits(McpAssembleContextOfWorkspace)
  BY DEF HandlerFits, Handler, RqPlans, McpSearchGlobal, McpHealth, McpVectorizeStats,
         GrpcGetVectorizationStats, McpAssembleContext, McpAssembleContextOfWorkspace,
         ToolSearchGlobal
<1>10. HandlerFits(RestListSessions) /\ HandlerFits(RestDeleteSession) /\
      HandlerFits(RestGraphView) /\ HandlerFits(RestGraphViewOfWorkspace)
  BY DEF HandlerFits, Handler, RqPlans, RestListSessions, RestDeleteSession, RestGraphView,
         RestGraphViewOfWorkspace, ListSummaries, DeleteSession
<1> QED BY <1>1, <1>2, <1>3, <1>4, <1>5, <1>6, <1>7, <1>8, <1>9, <1>10 DEF RequestHandlers

LEMMA StartKeeps ==
    ASSUME RequestInv, Observes, NEW c \in RqClients, StartRequest(c) PROVE RequestInv'
<1>1. /\ ~Underway(c) /\ UNCHANGED rqMerged /\ UNCHANGED <<handleVars, rqDisk, rqQueue, rqErased>>
  BY DEF StartRequest, Underway
<1>2. MemoryOK' /\ HandlesKept
  BY <1>1, MemoryHolds, MemorySame
<1>3. MergeCached'
  BY <1>1, MemoryHolds DEF MergeCached
<1>4. DOMAIN rqReq = RqClients
  BY DEF RequestInv, RequestTypeOK
<1>5. PICK h \in RequestHandlers, arg \in ArgShapes, s \in RqSessions :
        \E x \in Targets(h, arg), y \in Targets(h, arg) :
            rqReq' = [rqReq EXCEPT ![c] =
                IF arg \in h.refuses THEN [NoRequest EXCEPT !.answer = "invalid"]
                ELSE [plan |-> h.steps, missing |-> h.missing, sess |-> s, tgt |-> x, into |-> y,
                      handle |-> 0, todo |-> RqSessions, view |-> <<>>, acted |-> FALSE,
                      did |-> FALSE, answer |-> "none"]]
  BY DEF StartRequest
<1>6. HandlerFits(h)
  BY HandlersFit
<1>7. DOMAIN rqReq' = RqClients /\ \A d \in RqClients \ {c} : rqReq'[d] = rqReq[d]
  BY <1>4, <1>5
<1>8. CASE arg \in h.refuses
  <2>1. rqReq'[c] = [NoRequest EXCEPT !.answer = "invalid"]
    BY <1>4, <1>5, <1>8
  <2>2. /\ rqReq'[c].plan = <<>> /\ rqReq'[c].view = <<>> /\ rqReq'[c].answer = "invalid"
        /\ rqReq'[c].did = FALSE
        /\ DOMAIN rqReq'[c] = {"plan", "answer", "view", "acted", "did"}
    BY <2>1 DEF NoRequest
  <2>3. ~Underway(c)' /\ AnswerFits(c)' /\ ~Reading(rqReq'[c])
    BY <2>2 DEF Underway, AnswerFits, Reading
  <2> QED BY <1>2, <1>3, <1>7, <2>2, <2>3, OneMoves
<1>9. CASE arg \notin h.refuses
  <2>1. PICK x, y : rqReq'[c] = [plan |-> h.steps, missing |-> h.missing, sess |-> s, tgt |-> x,
                      into |-> y, handle |-> 0, todo |-> RqSessions, view |-> <<>>,
                      acted |-> FALSE, did |-> FALSE, answer |-> "none"]
    BY <1>4, <1>5, <1>9
  <2>2. /\ rqReq'[c].plan = h.steps /\ rqReq'[c].missing = h.missing /\ rqReq'[c].sess = s
        /\ rqReq'[c].handle = 0 /\ rqReq'[c].todo = RqSessions /\ rqReq'[c].view = <<>>
        /\ rqReq'[c].acted = FALSE /\ rqReq'[c].did = FALSE /\ rqReq'[c].answer = "none"
        /\ DOMAIN rqReq'[c] = RequestFields
    BY <2>1 DEF RequestFields
  <2>3. Head(h.steps) \notin SessionSteps \cup {"mergeGraphs", "overlay", "checkpoint"}
    BY <1>6 DEF HandlerFits, SessionSteps, ReadSteps
  <2>4. Head(h.steps) \notin {"clearGraph", "queuePurge"}
    BY <2>3 DEF SessionSteps
  <2>5. StepsFit(c)'
    BY <2>2, <2>3, <2>4 DEF StepsFit
  <2>6. ViewFits(c)'
    BY <2>2, <2>3 DEF ViewFits
  <2>7. /\ rqReq'[c].plan \in RqPlans
        /\ rqReq'[c].missing \in {"error", "not_found", "invalid", "told"}
        /\ rqReq'[c].sess \in RqSessions /\ rqReq'[c].todo \subseteq RqSessions
    BY <1>6, <2>2 DEF HandlerFits
  <2>8. Underway(c)'
    BY <2>7, PlanSequences DEF Underway
  <2> QED BY <1>2, <1>3, <1>7, <2>2, <2>5, <2>6, <2>7, <2>8, OneMoves
<1> QED BY <1>8, <1>9

\* The steps that read.
LEMMA ReadsNow ==
    ASSUME RequestInv, NEW c \in RqClients, Underway(c),
           Head(rqReq[c].plan) \in ReadSteps \cup {"rows", "overlay", "gather", "mergeGraphs"}
    PROVE  Reading(rqReq[c])
<1>1. PICK p \in RqPlans : p = rqReq[c].plan
  BY Going
<1>2. PICK S : p \in Seq(S)
  BY PlanSequences
<1>3. 1 \in DOMAIN p /\ Head(p) = p[1]
  BY <1>2, PlanSequences
<1> QED BY <1>1, <1>3 DEF Reading

LEMMA ViewedFields ==
    ASSUME NEW q, DOMAIN q = RequestFields, NEW kind, NEW shown, NEW r, r = Viewed(q, kind, shown)
    PROVE  /\ DOMAIN r = RequestFields /\ r.plan = q.plan /\ r.sess = q.sess /\ r.todo = q.todo
           /\ r.missing = q.missing /\ r.answer = q.answer /\ r.handle = q.handle
           /\ r.acted = q.acted /\ r.did = q.did /\ r.tgt = q.tgt
           /\ r.view # <<>> /\ r.view.kind = kind /\ r.view.shown = shown
<1>1. PICK v : v = [kind |-> kind, shown |-> shown]
  OBVIOUS
<1>2. v # <<>> /\ v.kind = kind /\ v.shown = shown
  <2>1. DOMAIN v = {"kind", "shown"} /\ DOMAIN <<>> = {}
    BY <1>1
  <2> QED BY <1>1, <2>1
<1>3. r = [q EXCEPT !.view = v]
  BY <1>1 DEF Viewed
<1>4. r.view = v
  BY <1>3 DEF RequestFields
<1>5. /\ DOMAIN r = RequestFields /\ r.plan = q.plan /\ r.sess = q.sess /\ r.todo = q.todo
      /\ r.missing = q.missing /\ r.answer = q.answer /\ r.handle = q.handle
      /\ r.acted = q.acted /\ r.did = q.did /\ r.tgt = q.tgt
  BY <1>3 DEF RequestFields
<1> QED BY <1>2, <1>4, <1>5

LEMMA ReadKeeps ==
    ASSUME RequestInv, Observes, NEW c \in RqClients, Read(c) PROVE RequestInv'
<1>1. /\ Underway(c) /\ Head(rqReq[c].plan) \in ReadSteps /\ Head(rqReq[c].plan) \in SessionSteps
      /\ UNCHANGED <<handleVars, rqDisk, rqQueue, rqErased>> /\ UNCHANGED rqMerged
  BY DEF Read, Underway, SessionSteps
<1>2a. PICK k \in ReadSteps : k = Head(rqReq[c].plan)
  BY <1>1
<1>2b. PICK s, x : s = rqReq[c].sess /\ x = Held(c)
  OBVIOUS
<1>2. k = Head(rqReq[c].plan) /\ s = rqReq[c].sess /\ x = Held(c)
  BY <1>2a, <1>2b
<1>3. PICK shown : shown = [t \in {s} |-> Part(k, x)]
  OBVIOUS
<1>4. PICK r : r = Viewed(rqReq[c], k, shown)
  OBVIOUS
<1>5. Goes(c, r)
  BY <1>2, <1>3, <1>4 DEF Read
<1>6. DOMAIN rqReq[c] = RequestFields /\ s \in RqSessions
  BY <1>1, <1>2, Going
<1>7. /\ DOMAIN r = RequestFields /\ r.plan = rqReq[c].plan /\ r.sess = rqReq[c].sess
      /\ r.todo = rqReq[c].todo /\ r.missing = rqReq[c].missing /\ r.answer = rqReq[c].answer
      /\ r.handle = rqReq[c].handle /\ r.acted = rqReq[c].acted /\ r.did = rqReq[c].did
      /\ r.view # <<>> /\ r.view.kind = k /\ r.view.shown = shown
  BY <1>4, <1>6, ViewedFields
<1>8. MergeCached'
  BY <1>1, MemoryHolds DEF MergeCached
<1>9. x \in rqSeen'[c][s]
  <2>1. Reading(rqReq[c]) /\ rqReq[c].handle # 0
    <3>1. rqReq[c].handle \in 1..rqNext[s] /\ rqNext[s] \in Nat
      BY <1>1, <1>2, <1>6, HasHandle, MemoryHolds, HandleOrder
    <3> QED BY <1>1, <3>1, ReadsNow
  <2>2. x \in States(c, s)
    BY <1>1, <1>2, <2>1 DEF States, Underway
  <2> QED BY <1>6, <2>1, <2>2, SeenKept DEF RequestInv, SeenCurrent
<1>10. rqReq'[c].view = r.view =>
         \A t \in DOMAIN r.view.shown : t \in RqSessions /\ WasSeen(c, t)'
  <2> SUFFICES ASSUME rqReq'[c].view = r.view, NEW t \in DOMAIN r.view.shown
               PROVE  t \in RqSessions /\ WasSeen(c, t)'
    OBVIOUS
  <2>1. t = s /\ shown[s] = Part(k, x)
    BY <1>3, <1>7
  <2>2. k # "list" /\ k # "graph"
    BY DEF ReadSteps
  <2>3. \E y \in rqSeen'[c][s] : shown[s] = Part(k, y)
    BY <1>9, <2>1
  <2> QED BY <1>6, <1>7, <2>1, <2>2, <2>3 DEF WasSeen, Part
<1>11. k \notin {"rows", "overlay", "gather", "mergeGraphs", "checkpoint", "search", "vectorize", "health"}
  BY DEF ReadSteps
<1>12. Head(rqReq[c].plan) = k /\ k \in ReadSteps
  BY <1>2
<1> QED BY <1>1, <1>5, <1>7, <1>8, <1>10, <1>11, <1>12, ShowingKeeps

LEMMA ContentNamed ==
    ASSUME MemoryOK, NEW s \in RqSessions, rqDisk[s] # NoSession \/ rqLive[s] # 0
    PROVE  Content(s).name # "none" /\ Content(s) # NoSession
<1>1. Content(s).name # "none"
  BY HandleOrder DEF Content
<1> QED BY <1>1 DEF NoSession

LEMMA RowsKeep ==
    ASSUME RequestInv, Observes, NEW c \in RqClients, RequestRows(c) PROVE RequestInv'
<1>1. /\ Underway(c) /\ Head(rqReq[c].plan) = "rows"
      /\ UNCHANGED <<handleVars, rqDisk, rqQueue, rqErased>> /\ UNCHANGED rqMerged
  BY DEF RequestRows, AtStep, Underway
<1>2. PICK shown : shown = [s \in {t \in RqSessions : rqDisk[t] # NoSession} |-> rqDisk[s].name]
  OBVIOUS
<1>3. PICK r : r = Viewed(rqReq[c], "list", shown)
  OBVIOUS
<1>4. Goes(c, r)
  BY <1>2, <1>3 DEF RequestRows
<1>5. DOMAIN rqReq[c] = RequestFields
  BY <1>1, Going
<1>6. /\ DOMAIN r = RequestFields /\ r.plan = rqReq[c].plan /\ r.sess = rqReq[c].sess
      /\ r.todo = rqReq[c].todo /\ r.missing = rqReq[c].missing /\ r.answer = rqReq[c].answer
      /\ r.handle = rqReq[c].handle /\ r.acted = rqReq[c].acted /\ r.did = rqReq[c].did
      /\ r.view # <<>> /\ r.view.kind = "list" /\ r.view.shown = shown
  BY <1>3, <1>5, ViewedFields
<1>7. MergeCached'
  BY <1>1, MemoryHolds DEF MergeCached
<1>8. rqReq'[c].view = r.view =>
         \A t \in DOMAIN r.view.shown : t \in RqSessions /\ WasSeen(c, t)'
  <2> SUFFICES ASSUME rqReq'[c].view = r.view, NEW t \in DOMAIN r.view.shown
               PROVE  t \in RqSessions /\ WasSeen(c, t)'
    OBVIOUS
  <2>1. t \in RqSessions /\ rqDisk[t] # NoSession
    BY <1>2, <1>6
  <2>2. Content(t) # NoSession
    BY <2>1, MemoryHolds, ContentNamed
  <2>3. Content(t) \in rqSeen'[c][t]
    <3>1. Reading(rqReq[c])
      BY <1>1, ReadsNow
    <3> QED BY <2>1, <3>1, SeenKept DEF RequestInv, SeenCurrent, States
  <2> QED BY <1>6, <2>1, <2>2, <2>3 DEF WasSeen
<1>9. "rows" \notin ReadSteps
  BY DEF ReadSteps
<1> QED BY <1>1, <1>4, <1>6, <1>7, <1>8, <1>9, ShowingKeeps

LEMMA OverlayKeeps ==
    ASSUME RequestInv, Observes, NEW c \in RqClients, Overlay(c) PROVE RequestInv'
<1>1. /\ Underway(c) /\ Head(rqReq[c].plan) = "overlay"
      /\ UNCHANGED <<handleVars, rqDisk, rqQueue, rqErased>> /\ UNCHANGED rqMerged
  BY DEF Overlay, AtStep, Underway
<1>2. PICK rows : rows = rqReq[c].view.shown
  OBVIOUS
<1>3. PICK shown : shown = [s \in DOMAIN rows |-> IF rqLive[s] # 0 THEN Content(s).name ELSE rows[s]]
  OBVIOUS
<1>4. PICK r : r = Viewed(rqReq[c], "list", shown)
  OBVIOUS
<1>5. Goes(c, r)
  BY <1>2, <1>3, <1>4 DEF Overlay
<1>6. DOMAIN rqReq[c] = RequestFields /\ rqReq[c].view # <<>> /\ rqReq[c].view.kind = "list"
  BY <1>1, Going DEF ViewFits
<1>7. /\ DOMAIN r = RequestFields /\ r.plan = rqReq[c].plan /\ r.sess = rqReq[c].sess
      /\ r.todo = rqReq[c].todo /\ r.missing = rqReq[c].missing /\ r.answer = rqReq[c].answer
      /\ r.handle = rqReq[c].handle /\ r.acted = rqReq[c].acted /\ r.did = rqReq[c].did
      /\ r.view # <<>> /\ r.view.kind = "list" /\ r.view.shown = shown
  BY <1>4, <1>6, ViewedFields
<1>8. MergeCached'
  BY <1>1, MemoryHolds DEF MergeCached
<1>9. rqReq'[c].view = r.view =>
         \A t \in DOMAIN r.view.shown : t \in RqSessions /\ WasSeen(c, t)'
  <2> SUFFICES ASSUME rqReq'[c].view = r.view, NEW t \in DOMAIN r.view.shown
               PROVE  t \in RqSessions /\ WasSeen(c, t)'
    OBVIOUS
  <2>1. t \in DOMAIN rqReq[c].view.shown
    BY <1>2, <1>3, <1>7
  <2>2. t \in RqSessions /\ WasSeen(c, t)
    BY <1>1, <1>6, <2>1, Going
  <2>3. \E x \in rqSeen[c][t] : x # NoSession
    BY <1>6, <2>2 DEF WasSeen
  <2>4. Reading(rqReq[c])
    BY <1>1, ReadsNow
  <2>5. \E x \in rqSeen'[c][t] : x # NoSession
    BY <2>2, <2>3, <2>4, SeenKept
  <2> QED BY <1>7, <2>2, <2>5 DEF WasSeen
<1>10. "overlay" \notin ReadSteps
  BY DEF ReadSteps
<1> QED BY <1>1, <1>5, <1>7, <1>8, <1>9, <1>10, ShowingKeeps

\* What was shown before is still a state that was seen.
LEMMA GatheredSeen ==
    ASSUME RequestInv, Observes, NEW c \in RqClients, Underway(c), Reading(rqReq[c]),
           rqReq[c].view # <<>>, rqReq[c].view.kind = "graph",
           NEW t \in DOMAIN rqReq[c].view.shown
    PROVE  t \in RqSessions /\ \E x \in rqSeen'[c][t] : rqReq[c].view.shown[t] = x.ents
<1>1. t \in RqSessions /\ WasSeen(c, t)
  BY Going
<1>2. \E x \in rqSeen[c][t] : rqReq[c].view.shown[t] = x.ents
  BY <1>1 DEF WasSeen
<1> QED BY <1>1, <1>2, SeenKept

LEMMA MergeGraphsKeeps ==
    ASSUME RequestInv, Observes, NEW c \in RqClients, MergeGraphs(c) PROVE RequestInv'
<1>1. /\ Underway(c) /\ Head(rqReq[c].plan) = "mergeGraphs"
      /\ UNCHANGED <<handleVars, rqDisk, rqQueue, rqErased>>
  BY DEF MergeGraphs, AtStep, Underway
<1>2. PICK sources : sources = rqReq[c].view.shown
  OBVIOUS
<1>3. PICK graph : graph = MergedGraph(sources)
  OBVIOUS
<1>4. graph = UNION {sources[s] : s \in DOMAIN sources}
  BY <1>3, MemoryHolds DEF MergedGraph, CacheHit, MergeCached
<1>5. MergeCached'
  <2>1. rqMerged' = [from |-> IF CacheHit(sources) THEN rqMerged.from ELSE sources, graph |-> graph]
    BY <1>2, <1>3 DEF MergeGraphs
  <2>2. rqMerged'.from = sources /\ rqMerged'.graph = graph
    BY <2>1 DEF CacheHit
  <2> QED BY <1>4, <2>2 DEF MergeCached
<1>6. PICK v : v = [kind |-> "graph", shown |-> sources, graph |-> graph]
  OBVIOUS
<1>7. v # <<>> /\ v.kind = "graph" /\ v.shown = sources /\ v.graph = graph
  <2>1. DOMAIN v = {"kind", "shown", "graph"} /\ DOMAIN <<>> = {}
    BY <1>6
  <2> QED BY <1>6, <2>1
<1>8. PICK r : r = [rqReq[c] EXCEPT !.view = v]
  OBVIOUS
<1>9. Goes(c, r)
  BY <1>2, <1>3, <1>6, <1>8 DEF MergeGraphs
<1>10. DOMAIN rqReq[c] = RequestFields /\ rqReq[c].view # <<>> /\ rqReq[c].view.kind = "graph"
  BY <1>1, Going DEF ViewFits
<1>11. /\ DOMAIN r = RequestFields /\ r.plan = rqReq[c].plan /\ r.sess = rqReq[c].sess
       /\ r.todo = rqReq[c].todo /\ r.missing = rqReq[c].missing /\ r.answer = rqReq[c].answer
       /\ r.handle = rqReq[c].handle /\ r.acted = rqReq[c].acted /\ r.did = rqReq[c].did
       /\ r.view = v
  BY <1>8, <1>10 DEF RequestFields
<1>12. rqReq'[c].view = r.view =>
         \A t \in DOMAIN r.view.shown : t \in RqSessions /\ WasSeen(c, t)'
  <2> SUFFICES ASSUME rqReq'[c].view = v, NEW t \in DOMAIN sources
               PROVE  t \in RqSessions /\ WasSeen(c, t)'
    BY <1>7, <1>11
  <2>1. Reading(rqReq[c])
    BY <1>1, ReadsNow
  <2>2. t \in RqSessions /\ \E x \in rqSeen'[c][t] : sources[t] = x.ents
    BY <1>1, <1>2, <1>10, <2>1, GatheredSeen
  <2> QED BY <1>7, <2>2 DEF WasSeen
<1>13. "mergeGraphs" \notin ReadSteps
  BY DEF ReadSteps
<1> QED BY <1>1, <1>4, <1>5, <1>7, <1>9, <1>11, <1>12, <1>13, ShowingKeeps

LEMMA GatherKeeps ==
    ASSUME RequestInv, Observes, NEW c \in RqClients, Gather(c) PROVE RequestInv'
<1>1. /\ Underway(c) /\ Head(rqReq[c].plan) = "gather" /\ UNCHANGED <<rqDisk, rqQueue, rqErased>>
      /\ UNCHANGED rqMerged
  BY DEF Gather, AtStep, Underway
<1>2. PICK q : q = rqReq[c]
  OBVIOUS
<1>3. PICK shown : shown = IF q.view = <<>> THEN <<>> ELSE q.view.shown
  OBVIOUS
<1>4. /\ DOMAIN q = RequestFields /\ q.plan \in RqPlans /\ q.plan # <<>> /\ q.sess \in RqSessions
      /\ q.todo \subseteq RqSessions /\ q.missing \in {"error", "not_found", "invalid", "told"}
      /\ q.answer = "none" /\ q.acted = q.did /\ DOMAIN rqReq = RqClients
      /\ q.view # <<>> => q.view.kind = "graph"
  BY <1>1, <1>2, Going DEF StepsFit, ViewFits, Underway
<1>5. MergeCached'
  BY <1>1, MemoryHolds DEF MergeCached
<1>6. Reading(rqReq[c])
  BY <1>1, ReadsNow
<1>7. \A t \in DOMAIN shown : t \in RqSessions /\ \E x \in rqSeen'[c][t] : shown[t] = x.ents
  <2>1. CASE q.view = <<>>
    BY <1>3, <2>1
  <2>2. CASE q.view # <<>>
    BY <1>1, <1>2, <1>3, <1>4, <1>6, <2>2, GatheredSeen
  <2> QED BY <2>1, <2>2
<1>8. "gather" \notin ReadSteps /\ "gather" \notin SessionSteps
  BY DEF ReadSteps, SessionSteps
<1>9. CASE q.todo = {}
  <2>1. PICK r : r = Viewed(q, "graph", shown)
    OBVIOUS
  <2>2. Goes(c, r) /\ UNCHANGED handleVars
    BY <1>2, <1>3, <1>9, <2>1 DEF Gather
  <2>3. /\ DOMAIN r = RequestFields /\ r.plan = q.plan /\ r.sess = q.sess /\ r.todo = q.todo
        /\ r.missing = q.missing /\ r.answer = q.answer /\ r.handle = q.handle
        /\ r.acted = q.acted /\ r.did = q.did
        /\ r.view # <<>> /\ r.view.kind = "graph" /\ r.view.shown = shown
    BY <1>4, <2>1, ViewedFields
  <2>4. rqReq'[c].view = r.view =>
          \A t \in DOMAIN r.view.shown : t \in RqSessions /\ WasSeen(c, t)'
    BY <1>7, <2>3 DEF WasSeen
  <2> QED BY <1>1, <1>2, <1>5, <1>8, <2>2, <2>3, <2>4, ShowingKeeps
<1>10. ASSUME NEW s \in q.todo, NEW all, NEW next, next = [q EXCEPT !.todo = @ \ {s}],
              rqReq' = [rqReq EXCEPT ![c] = Viewed(next, "graph", all)],
              \A t \in DOMAIN all : t \in RqSessions /\ \E x \in rqSeen'[c][t] : all[t] = x.ents,
              MemoryOK', HandlesKept
       PROVE  RequestInv'
  <2>1. /\ DOMAIN next = RequestFields /\ next.plan = q.plan /\ next.sess = q.sess
        /\ next.todo \subseteq RqSessions /\ next.missing = q.missing /\ next.answer = q.answer
        /\ next.handle = q.handle /\ next.acted = q.acted /\ next.did = q.did
    BY <1>4, <1>10 DEF RequestFields
  <2>2. PICK r : r = Viewed(next, "graph", all)
    OBVIOUS
  <2>3. /\ DOMAIN r = RequestFields /\ r.plan = q.plan /\ r.sess = q.sess
        /\ r.todo \subseteq RqSessions /\ r.missing = q.missing /\ r.answer = q.answer
        /\ r.acted = r.did
        /\ r.view # <<>> /\ r.view.kind = "graph" /\ r.view.shown = all
    BY <1>4, <2>1, <2>2, ViewedFields
  <2>4. DOMAIN rqReq' = RqClients /\ rqReq'[c] = r /\ \A d \in RqClients \ {c} : rqReq'[d] = rqReq[d]
    BY <1>4, <1>10, <2>2
  <2>5. Head(r.plan) = "gather"
    BY <1>1, <1>2, <2>3
  <2>6. StepsFit(c)'
    BY <1>4, <1>8, <2>3, <2>4, <2>5 DEF StepsFit
  <2>7. ViewFits(c)'
    BY <2>3, <2>4, <2>5 DEF ViewFits
  <2>8. \A t \in DOMAIN rqReq'[c].view.shown : t \in RqSessions /\ WasSeen(c, t)'
    <3> SUFFICES ASSUME NEW t \in DOMAIN all PROVE t \in RqSessions /\ WasSeen(c, t)'
      BY <2>3, <2>4
    <3>1. t \in RqSessions /\ \E x \in rqSeen'[c][t] : all[t] = x.ents
      BY <1>10
    <3>2. rqReq'[c].view.kind = "graph" /\ rqReq'[c].view.shown = all
      BY <2>3, <2>4
    <3> QED BY <3>1, <3>2 DEF WasSeen
  <2>9. Underway(c)'
    BY <1>4, <2>3, <2>4 DEF Underway
  <2> QED BY <1>4, <1>5, <1>6, <1>10, <2>3, <2>4, <2>6, <2>7, <2>8, <2>9, OneMoves
<1>11. CASE q.todo # {}
  <2>1. PICK s \in q.todo :
          LET next == [q EXCEPT !.todo = @ \ {s}] IN
          IF CanLoad(s)
          THEN /\ GetSession(s)
               /\ rqReq' = [rqReq EXCEPT ![c] = Viewed(next, "graph",
                      [t \in DOMAIN shown \cup {s} |->
                          IF t = s THEN Content(s).ents ELSE shown[t]])]
          ELSE rqReq' = [rqReq EXCEPT ![c] = Viewed(next, "graph", shown)]
               /\ UNCHANGED handleVars
    BY <1>2, <1>3, <1>11 DEF Gather
  <2>2. PICK next : next = [q EXCEPT !.todo = @ \ {s}]
    OBVIOUS
  <2>3. s \in RqSessions
    BY <1>4
  <2>4. CASE CanLoad(s)
    <3>1. PICK x : x = Content(s)
      OBVIOUS
    <3>2. PICK all : all = [t \in DOMAIN shown \cup {s} |-> IF t = s THEN x.ents ELSE shown[t]]
      OBVIOUS
    <3>3. GetSession(s) /\ rqReq' = [rqReq EXCEPT ![c] = Viewed(next, "graph", all)]
      BY <2>1, <2>2, <2>4, <3>1, <3>2
    <3>4. MemoryOK' /\ HandlesKept
      BY <1>1, <2>3, <2>4, <3>3, MemoryHolds, MemoryLoads
    <3>5. x \in rqSeen'[c][s]
      BY <1>6, <2>3, <3>1, SeenKept DEF RequestInv, SeenCurrent, States
    <3>6. \A t \in DOMAIN all : t \in RqSessions /\ \E y \in rqSeen'[c][t] : all[t] = y.ents
      <4> SUFFICES ASSUME NEW t \in DOMAIN all
                   PROVE  t \in RqSessions /\ \E y \in rqSeen'[c][t] : all[t] = y.ents
        OBVIOUS
      <4>1. CASE t = s
        BY <2>3, <3>2, <3>5, <4>1
      <4>2. CASE t # s
        <5>1. t \in DOMAIN shown /\ all[t] = shown[t]
          BY <3>2, <4>2
        <5> QED BY <1>7, <5>1
      <4> QED BY <4>1, <4>2
    <3> QED BY <1>10, <2>2, <3>3, <3>4, <3>6
  <2>5. CASE ~CanLoad(s)
    <3>1. UNCHANGED handleVars /\ rqReq' = [rqReq EXCEPT ![c] = Viewed(next, "graph", shown)]
      BY <2>1, <2>2, <2>5
    <3>2. MemoryOK' /\ HandlesKept
      BY <1>1, <3>1, MemoryHolds, MemorySame
    <3> QED BY <1>7, <1>10, <2>2, <3>1, <3>2
  <2> QED BY <2>4, <2>5
<1> QED BY <1>9, <1>11

LEMMA PassKeeps ==
    ASSUME RequestInv, Observes, NEW c \in RqClients, Pass(c) PROVE RequestInv'
<1>1. /\ Underway(c) /\ Head(rqReq[c].plan) \in {"health", "search", "vectorize", "checkpoint"}
      /\ UNCHANGED <<handleVars, rqDisk, rqQueue, rqErased>> /\ UNCHANGED rqMerged
  BY DEF Pass, AtStep, Underway
<1>2. MergeCached'
  BY <1>1, MemoryHolds DEF MergeCached
<1>3. DOMAIN rqReq[c] = RequestFields
  BY <1>1, Going
<1>4. Head(rqReq[c].plan) \notin ReadSteps \cup {"rows", "overlay", "gather", "mergeGraphs"}
  BY <1>1 DEF ReadSteps
<1>5. CASE rqReq[c].view = <<>>
  <2>1. PICK r : r = Viewed(rqReq[c], "report", <<>>)
    OBVIOUS
  <2>2. Goes(c, r)
    BY <1>5, <2>1 DEF Pass
  <2>3. /\ DOMAIN r = RequestFields /\ r.plan = rqReq[c].plan /\ r.sess = rqReq[c].sess
        /\ r.todo = rqReq[c].todo /\ r.missing = rqReq[c].missing /\ r.answer = rqReq[c].answer
        /\ r.handle = rqReq[c].handle /\ r.acted = rqReq[c].acted /\ r.did = rqReq[c].did
        /\ r.view # <<>> /\ r.view.kind = "report" /\ r.view.shown = <<>>
    BY <1>3, <2>1, ViewedFields
  <2>4. DOMAIN r.view.shown = {}
    BY <2>3
  <2> QED BY <1>1, <1>2, <1>4, <2>2, <2>3, <2>4, ShowingKeeps
<1>6. CASE rqReq[c].view # <<>>
  <2>1. PICK r : r = rqReq[c]
    OBVIOUS
  <2>2. Goes(c, r)
    BY <1>6, <2>1 DEF Pass
  <2>3. r.view.kind # "graph"
    BY <1>1, <1>6, <2>1, Going DEF ViewFits, ReadSteps
  <2>4. Reading(rqReq'[c]) => Reading(rqReq[c])
    BY <1>1, <1>3, <2>1, <2>2, Going, GoesOn
  <2>5. rqReq'[c].view = r.view =>
          \A t \in DOMAIN r.view.shown : t \in RqSessions /\ WasSeen(c, t)'
    BY <1>6, <2>1, <2>4, ViewStays
  <2> QED BY <1>1, <1>2, <1>3, <1>4, <1>6, <2>1, <2>2, <2>3, <2>5, ShowingKeeps
<1> QED BY <1>5, <1>6

\* Steps of the persister, and steps that change nothing.
LEMMA NoneMoves ==
    ASSUME RequestInv, MemoryOK', MergeCached', Observes, UNCHANGED rqReq, UNCHANGED rqNext,
           HandlesKept \/ \A c \in RqClients : ~Underway(c)
    PROVE  RequestInv'
<1>1. {} \in SUBSET RqClients
  OBVIOUS
<1>2. /\ \A s \in RqSessions : rqNext[s] <= rqNext'[s]
      /\ \A d \in RqClients \ {} : Underway(d) =>
           \A s \in RqSessions : \A h \in 1..rqNext[s] : rqObj'[s][h].recs \subseteq rqObj[s][h].recs
  <2>1. \A s \in RqSessions : rqNext[s] <= rqNext'[s]
    BY MemoryHolds, HandleOrder
  <2> QED BY <2>1 DEF HandlesKept
<1>3. /\ rqObj' \in [RqSessions -> [Handles -> RqStates]]
      /\ rqDisk' \in [RqSessions -> RqStates] /\ rqNext' \in [RqSessions -> Handles]
      /\ rqLive' \in [RqSessions -> 0..MaxHandles] /\ rqRetired' \in [RqSessions -> 0..MaxHandles]
      /\ DOMAIN rqQueue' = RqSessions /\ HandlesInOrder' /\ RemovalsLast'
  BY DEF MemoryOK
<1>4. DOMAIN rqReq' = RqClients /\ \A c \in RqClients \ {} : rqReq'[c] = rqReq[c]
  BY DEF RequestInv, RequestTypeOK
<1> QED BY <1>1, <1>2, <1>3, <1>4, StepKeeps

LEMMA SaveKeeps ==
    ASSUME RequestInv, Observes, NEW s \in RqSessions, Save(s) PROVE RequestInv'
<1>1. MemoryOK' /\ HandlesKept
  BY MemoryHolds, MemorySaves
<1>2. UNCHANGED rqReq /\ UNCHANGED rqNext /\ UNCHANGED rqMerged
  BY DEF Save, handleVars
<1>3. MergeCached'
  BY <1>2, MemoryHolds DEF MergeCached
<1> QED BY <1>1, <1>2, <1>3, NoneMoves

LEMMA ReloadKeeps ==
    ASSUME RequestInv, Observes, NEW s \in RqSessions, RequestReload(s) PROVE RequestInv'
<1>1. MemoryOK'
  BY MemoryHolds, MemoryReloads DEF RequestReload
<1>2. UNCHANGED rqReq /\ UNCHANGED rqNext /\ UNCHANGED rqMerged /\ \A c \in RqClients : ~Underway(c)
  BY DEF RequestReload, Underway
<1>3. MergeCached'
  BY <1>2, MemoryHolds DEF MergeCached
<1> QED BY <1>1, <1>2, <1>3, NoneMoves

LEMMA RequestStutters ==
    ASSUME RequestInv, UNCHANGED requestVars PROVE RequestInv'
<1>1. RequestTypeOK'
  BY DEF RequestInv, RequestTypeOK, requestVars, Underway
<1>2. HandlesInOrder' /\ RemovalsLast' /\ MergeCached'
  BY DEF RequestInv, HandlesInOrder, RemovalsLast, MergeCached, requestVars
<1>3. RequestsFit'
  BY DEF RequestInv, RequestsFit, StepsFit, AnswerFits, Underway, Held, requestVars
<1>4. ViewsSeen'
  BY DEF RequestInv, ViewsSeen, ViewFits, WasSeen, Underway, requestVars
<1>5. SeenCurrent'
  BY DEF RequestInv, SeenCurrent, Reading, States, Content, Held, requestVars
<1> QED BY <1>1, <1>2, <1>3, <1>4, <1>5 DEF RequestInv

LEMMA RequestStarts == RequestInit => RequestInv
<1> SUFFICES ASSUME RequestInit PROVE RequestInv
  OBVIOUS
<1>1. FullSession \in RqStates /\ NoSession \in RqStates /\ FullSession.name = "old"
  BY DEF FullSession, NoSession, RqStates, Mentioned, RqEntities
<1>2. 1 \in Handles /\ 1 \in 0..MaxHandles /\ 0 \in 0..MaxHandles
  BY RequestAssumption DEF Handles
<1>3. \A c \in RqClients : /\ ~Underway(c) /\ ~Reading(rqReq[c]) /\ rqReq[c].view = <<>>
                           /\ rqReq[c].answer = "none"
                           /\ DOMAIN rqReq[c] = {"plan", "answer", "view", "acted", "did"}
  BY DEF RequestInit, NoRequest, Underway, Reading
<1>4. RequestTypeOK
  <2>1. rqObj \in [RqSessions -> [Handles -> RqStates]]
    BY <1>1 DEF RequestInit
  <2>2. /\ rqDisk \in [RqSessions -> RqStates]
        /\ rqNext \in [RqSessions -> Handles] /\ rqLive \in [RqSessions -> 0..MaxHandles]
        /\ rqRetired \in [RqSessions -> 0..MaxHandles]
        /\ DOMAIN rqQueue = RqSessions /\ DOMAIN rqReq = RqClients
    BY <1>1, <1>2 DEF RequestInit
  <2> QED BY <1>3, <2>1, <2>2 DEF RequestTypeOK
<1>5. HandlesInOrder
  BY <1>1, <1>2 DEF RequestInit, HandlesInOrder
<1>6. RequestsFit
  BY <1>3 DEF RequestsFit, AnswerFits
<1>7. ViewsSeen /\ SeenCurrent
  BY <1>3 DEF ViewsSeen, SeenCurrent
<1>8. RemovalsLast
  BY DEF RequestInit, RemovalsLast
<1>9. MergeCached
  BY DEF RequestInit, MergeCached, NoMerge
<1> QED BY <1>4, <1>5, <1>6, <1>7, <1>8, <1>9 DEF RequestInv

LEMMA RequestSteps ==
    ASSUME RequestInv, [RequestNext]_requestVars PROVE RequestInv'
<1>1. CASE UNCHANGED requestVars
  BY <1>1, RequestStutters
<1>2. CASE RequestNext
  <2>1. Observes
    BY <1>2 DEF RequestNext
  <2>2. ASSUME NEW s \in RqSessions, Save(s) \/ RequestReload(s) PROVE RequestInv'
    BY <2>1, <2>2, SaveKeeps, ReloadKeeps
  <2>3. ASSUME NEW c \in RqClients,
               \/ StartRequest(c) \/ Load(c) \/ Rename(c) \/ DropEntity(c) \/ Merge(c)
               \/ RemoveStep(c) \/ Retire(c) \/ Purge(c) \/ Erase(c) \/ QueueLate(c) \/ Delete(c)
               \/ Fails(c) \/ Read(c) \/ RequestRows(c) \/ Overlay(c) \/ Gather(c)
               \/ MergeGraphs(c) \/ Pass(c)
        PROVE  RequestInv'
    BY <2>1, <2>3, StartKeeps, LoadKeeps, RenameKeeps, DropEntityKeeps, RemovalsKeep, EraseKeeps,
       QueueLateKeeps, DeleteKeeps, FailsKeeps, ReadKeeps, RowsKeep, OverlayKeeps, GatherKeeps,
       MergeGraphsKeeps, PassKeeps
  <2> QED BY <1>2, <2>2, <2>3 DEF RequestNext
<1> QED BY <1>1, <1>2

LEMMA RequestShows == RequestInv => RequestsHonest
<1> SUFFICES ASSUME RequestInv PROVE AnswersTrue /\ RemovedStaysOut
  BY DEF RequestsHonest
<1>1. RemovedStaysOut
  <2> SUFFICES ASSUME NEW e \in rqErased PROVE e[2] \notin Content(e[1]).recs
    BY DEF RemovedStaysOut
  <2> QED BY DEF RequestInv, RemovalsLast, Content
<1>2. ASSUME NEW c \in RqClients
      PROVE  LET a == rqReq[c]
                 shown == a.view.shown
                 merged == UNION {shown[s] : s \in DOMAIN shown}
             IN  /\ a.answer = "done" => a.did
                 /\ a.answer \in {"invalid", "not_found", "noop"} => ~a.did
                 /\ a.answer = "shown" =>
                     /\ a.view.kind = "graph" => a.view.graph = merged
                     /\ \A s \in DOMAIN shown :
                         CASE a.view.kind = "list" -> rqSeen[c][s] # {NoSession}
                           [] a.view.kind = "graph" -> shown[s] \in {x.ents : x \in rqSeen[c][s]}
                           [] OTHER -> shown[s] \in {Part(a.view.kind, x) : x \in rqSeen[c][s]}
  <2>1. CASE Underway(c)
    <3>1. rqReq[c].answer = "none"
      BY <2>1, Going DEF StepsFit
    <3> QED BY <3>1
  <2>2. CASE ~Underway(c)
    <3>1. AnswerFits(c)
      BY <2>2 DEF RequestInv, RequestsFit
    <3>2. ASSUME rqReq[c].answer = "shown", NEW s \in DOMAIN rqReq[c].view.shown
          PROVE  WasSeen(c, s)
      BY <3>1, <3>2 DEF RequestInv, ViewsSeen, AnswerFits
    <3>3. ASSUME rqReq[c].answer = "shown", NEW s \in DOMAIN rqReq[c].view.shown
          PROVE  CASE rqReq[c].view.kind = "list" -> rqSeen[c][s] # {NoSession}
                   [] rqReq[c].view.kind = "graph" ->
                        rqReq[c].view.shown[s] \in {x.ents : x \in rqSeen[c][s]}
                   [] OTHER -> rqReq[c].view.shown[s] \in
                                 {Part(rqReq[c].view.kind, x) : x \in rqSeen[c][s]}
      <4>1. WasSeen(c, s)
        BY <3>2, <3>3
      <4> QED BY <4>1 DEF WasSeen
    <3> QED BY <3>1, <3>3 DEF AnswerFits
  <2> QED BY <2>1, <2>2
<1> QED BY <1>1, <1>2 DEF AnswersTrue

\* RequestsHonest of every execution, with any number of sessions, records,
\* requests and handles and either backend, storage failing or not: an answer
\* says "done" of what this request changed and of nothing else, shows only
\* states the session was in while the request ran, and what was removed does
\* not come back.
THEOREM RequestsAreHonest == RequestSpec => []RequestsHonest
<1>1. RequestSpec => []RequestInv
  BY RequestStarts, RequestSteps, PTL DEF RequestSpec
<1> QED BY <1>1, RequestShows, PTL


(***************************************************************************)
(* What a search returns.                                                  *)
(***************************************************************************)

\* q is the n elements of S in some order.
Enumerates(q, S, n) ==
    /\ q \in [1..n -> S]
    /\ \A i, j \in 1..n : i # j => q[i] # q[j]
    /\ \A x \in S : \E i \in 1..n : q[i] = x

LEMMA SeqsEnumerate ==
    ASSUME NEW S, IsFiniteSet(S), NEW q \in SetToSeqs(S)
    PROVE  Enumerates(q, S, Cardinality(S)) /\ Cardinality(S) \in Nat
<1>1. PICK n \in Nat : n = Cardinality(S)
  BY FS_CardinalityType
<1>2. q \in [1..Cardinality(S) -> S] /\ \A i, j \in 1..Cardinality(S) : i # j => q[i] # q[j]
  BY DEF SetToSeqs
<1>3. \A x \in S : \E i \in 1..Cardinality(S) : q[i] = x
  BY <1>2, FillsSet
<1> QED
  BY <1>1, <1>2, <1>3 DEF Enumerates

LEMMA ByScoreIs ==
    ASSUME NEW S \in SUBSET Nat, IsFiniteSet(S), NEW score \in [S -> Nat]
    PROVE  Enumerates(ByScore(score), S, Cardinality(S)) /\ Cardinality(S) \in Nat
<1> DEFINE before(x, y) == score[x] > score[y] \/ (score[x] = score[y] /\ x < y)
<1>2. PICK R : R = {x \in S \X S : before(x[1], x[2])}
  OBVIOUS
<1>3. \A x, y \in S : <<x, y>> \in R <=> before(x, y)
  BY <1>2
<1>4. \A x \in S : score[x] \in Nat /\ x \in Nat
  OBVIOUS
<1>5. \A x \in S : <<x, x>> \notin R
  BY <1>3, <1>4
<1>6. ASSUME NEW x \in S, NEW y \in S, NEW z \in S, <<x, y>> \in R, <<y, z>> \in R
      PROVE <<x, z>> \in R
  <2>1. PICK a \in Nat, b \in Nat, c \in Nat : a = score[x] /\ b = score[y] /\ c = score[z]
    BY <1>4
  <2>2. (a > b \/ (a = b /\ x < y)) /\ (b > c \/ (b = c /\ y < z))
    BY <1>3, <1>6, <2>1
  <2>3. a > c \/ (a = c /\ x < z)
    BY <1>4, <2>2
  <2> QED
    BY <1>3, <2>1, <2>3
<1>7. PICK q \in [1..Cardinality(S) -> S] :
         /\ \A i, j \in 1..Cardinality(S) : i # j => q[i] # q[j]
         /\ \A i, j \in 1..Cardinality(S) : <<q[i], q[j]>> \in R => i < j
  <2>1. R \in SUBSET (S \X S)
    BY <1>2
  <2> QED
    BY <1>5, <1>6, <2>1, SortExists
<1>8. q \in SetToSeqs(S) /\ \A i, j \in DOMAIN q : before(q[i], q[j]) => i < j
  <2>1. q \in SetToSeqs(S)
    BY <1>7 DEF SetToSeqs
  <2>2. DOMAIN q = 1..Cardinality(S)
    BY <1>7
  <2>3. ASSUME NEW i \in 1..Cardinality(S), NEW j \in 1..Cardinality(S), before(q[i], q[j]) PROVE i < j
    <3>1. q[i] \in S /\ q[j] \in S
      BY <1>7
    <3>2. <<q[i], q[j]>> \in R
      BY <1>3, <2>3, <3>1
    <3> QED
      BY <1>7, <3>2
  <2> HIDE DEF before
  <2> QED
    BY <2>1, <2>2, <2>3
<1>9. DOMAIN score = S
  OBVIOUS
<1>10. ByScore(score) = CHOOSE p \in SetToSeqs(S) : \A i, j \in DOMAIN p : before(p[i], p[j]) => i < j
  BY <1>9 DEF ByScore
<1> HIDE DEF before
<1>11. ByScore(score) \in SetToSeqs(S)
  BY <1>8, <1>10
<1> QED
  BY <1>11, SeqsEnumerate

\* A sequence in another order: the same elements, at other places.
Permuted(t, s, p) ==
    /\ Enumerates(p, 1..Len(s), Len(s))
    /\ t = [i \in 1..Len(s) |-> s[p[i]]]

LEMMA ReorderedIs ==
    ASSUME NEW s, Len(s) \in Nat, NEW score \in [1..Len(s) -> Nat]
    PROVE  \E p : Permuted(Reordered(s, score), s, p)
<1>1. PICK N \in Nat : N = Len(s)
  OBVIOUS
<1>2. PICK S : S = 1..N
  OBVIOUS
<1>3. IsFiniteSet(S) /\ Cardinality(S) = N
  <2>1. 1 \in Int /\ N \in Int
    BY <1>1
  <2>2. IsFiniteSet(1..N) /\ Cardinality(1..N) = IF 1 > N THEN 0 ELSE N - 1 + 1
    BY <2>1, FS_Interval
  <2>3. Cardinality(1..N) = N
    BY <1>1, <2>2
  <2> QED
    BY <1>2, <2>2, <2>3
<1>4. S \in SUBSET Nat /\ score \in [S -> Nat]
  BY <1>1, <1>2
<1>5. PICK p : p = ByScore(score)
  OBVIOUS
<1>6. Enumerates(p, S, N)
  BY <1>3, <1>4, <1>5, ByScoreIs
<1>7. DOMAIN p = 1..N
  BY <1>6 DEF Enumerates
<1>8. Reordered(s, score) = [i \in 1..N |-> s[p[i]]]
  BY <1>5, <1>7 DEF Reordered
<1> QED
  BY <1>1, <1>2, <1>6, <1>8 DEF Permuted

LEMMA UptoIs ==
    ASSUME NEW X, NEW s \in Seq(X), NEW k \in Nat
    PROVE  /\ Upto(k, s) \in Seq(X) /\ Len(Upto(k, s)) = Smaller(k, Len(s))
           /\ Len(Upto(k, s)) \in Nat /\ Len(Upto(k, s)) <= k /\ Len(Upto(k, s)) <= Len(s)
           /\ \A i \in 1..Len(Upto(k, s)) : i \in 1..Len(s) /\ Upto(k, s)[i] = s[i]
<1>1. PICK N \in Nat : N = Len(s)
  BY LenProperties
<1>2. PICK m \in 0..N : m = Smaller(k, N) /\ m <= k
  BY <1>1 DEF Smaller
<1>3. PICK t : t = SubSeq(s, 1, m)
  OBVIOUS
<1>4. 1 \in 1..(N + 1) /\ m \in 0..N
  BY <1>1, <1>2
<1>5. t \in Seq(X) /\ Len(t) = (IF 1 <= m THEN m - 1 + 1 ELSE 0)
      /\ \A i \in 1..(m - 1 + 1) : t[i] = s[1 + i - 1]
  BY <1>1, <1>3, <1>4, SubSeqProperties
<1>6. Len(t) = m /\ \A i \in 1..m : t[i] = s[i]
  <2>1. (IF 1 <= m THEN m - 1 + 1 ELSE 0) = m
    BY <1>2
  <2>2. ASSUME NEW i \in 1..m PROVE i \in 1..(m - 1 + 1) /\ 1 + i - 1 = i
    BY <1>2
  <2>3. ASSUME NEW i \in 1..m PROVE t[i] = s[i]
    BY <1>5, <2>2
  <2> QED
    BY <1>5, <2>1, <2>3
<1>7. t = Upto(k, s)
  BY <1>1, <1>2, <1>3 DEF Upto
<1> QED
  BY <1>1, <1>2, <1>5, <1>6, <1>7

\* A ranking: a list of vectors.
Ranking(list) == list \in Seq(SrIds)

LEMMA TopKIs ==
    ASSUME NEW ids \in SUBSET SrIds, NEW score \in Scores, NEW k \in Nat
    PROVE  Ranking(TopK(ids, score, k))
<1>1. IsFiniteSet(ids) /\ ids \in SUBSET Nat
  BY SearchRankingAssumption, FS_Subset
<1>2. PICK own : own = [v \in ids |-> score[v]]
  OBVIOUS
<1>3. own \in [ids -> Nat]
  <2>1. SrTop \in Nat
    BY SearchRankingAssumption
  <2>2. \A v \in SrIds : score[v] \in Nat
    BY <2>1 DEF Scores
  <2> QED
    BY <1>2, <2>2
<1>4. PICK q, n : q = ByScore(own) /\ n \in Nat /\ Enumerates(q, ids, n)
  BY <1>1, <1>3, ByScoreIs
<1>5. q \in Seq(SrIds)
  <2>1. q \in [1..n -> ids]
    BY <1>4 DEF Enumerates
  <2>2. q = [i \in 1..n |-> q[i]] /\ \A i \in 1..n : q[i] \in SrIds
    BY <2>1
  <2>3. [i \in 1..n |-> q[i]] \in Seq(SrIds)
    BY <1>4, <2>2
  <2> QED
    BY <2>2, <2>3
<1>6. TopK(ids, score, k) = Upto(k, q)
  BY <1>2, <1>4 DEF TopK
<1>7. Upto(k, q) \in Seq(SrIds)
  BY <1>5, UptoIs
<1> QED
  BY <1>6, <1>7 DEF Ranking

\* Where the runs of equal texts begin, up to the k-th record.
RunStarts(list, k) ==
    {j \in 1..k : j = 1 \/ SrVector[list[j]].text # SrVector[list[j - 1]].text}

LEMMA RankAtIs ==
    ASSUME NEW list, NEW k \in Nat \ {0}
    PROVE  /\ RankAt(list, k) \in Nat
           /\ RankAt(list, k) + 1 \in RunStarts(list, k)
           /\ \A j \in RunStarts(list, k) : j <= RankAt(list, k) + 1
<1>1. PICK T : T = RunStarts(list, k)
  OBVIOUS
<1>2. T \in SUBSET Nat /\ 1 \in T /\ \A j \in T : j <= k /\ j \in 1..k
  BY <1>1 DEF RunStarts
<1>3. \E x \in T : \A y \in T : y <= x
  <2>1. k \in Nat /\ T # {} /\ \A j \in T : j <= k
    BY <1>2
  <2> QED
    BY <1>2, <2>1, GreatestNat
<1>4. PICK m : m = CHOOSE x \in T : \A y \in T : x >= y
  OBVIOUS
<1>5. m \in T /\ \A y \in T : m >= y
  <2>1. PICK x \in T : \A y \in T : y <= x
    BY <1>3
  <2>2. \A y \in T : x >= y
    BY <1>2, <2>1
  <2> QED
    BY <1>4, <2>2
<1>6. RankAt(list, k) = m - 1
  BY <1>1, <1>4 DEF RankAt, RunStarts, Max
<1>7. m \in Nat \ {0}
  BY <1>2, <1>5
<1>8. m - 1 \in Nat /\ m - 1 + 1 = m /\ \A y \in T : y <= m
  BY <1>2, <1>5, <1>7
<1> QED
  BY <1>1, <1>5, <1>6, <1>8

LEMMA RanksGrow ==
    ASSUME NEW list, NEW k \in Nat \ {0}, NEW n \in Nat \ {0}, k <= n
    PROVE  RankAt(list, k) <= RankAt(list, n)
<1>1. RunStarts(list, k) \subseteq RunStarts(list, n)
  BY DEF RunStarts
<1>2. RankAt(list, k) + 1 <= RankAt(list, n) + 1
  BY <1>1, RankAtIs
<1> QED
  BY <1>2, RankAtIs

LEMMA QuotientsShrink ==
    ASSUME NEW u \in Nat, NEW a \in Nat \ {0}, NEW b \in Nat \ {0}, a <= b
    PROVE  u \div b <= u \div a /\ u \div b \in Nat
OBVIOUS

\* The further ahead, the larger the share.
LEMMA SharesShrink ==
    ASSUME NEW i \in Nat, NEW j \in Nat, i <= j
    PROVE  RankUnit \div (61 + j) <= RankUnit \div (61 + i) /\ RankUnit \div (61 + j) \in Nat
<1>1. RankUnit \in Nat
  BY DEF RankUnit
<1>2. 61 + i \in Nat \ {0} /\ 61 + j \in Nat \ {0} /\ 61 + i <= 61 + j
  OBVIOUS
<1> QED
  BY <1>1, <1>2, QuotientsShrink

LEMMA PositionIs ==
    ASSUME NEW list, Ranking(list), NEW v, Listed(v, list)
    PROVE  PositionOf(v, list) \in Nat \ {0} /\ PositionOf(v, list) \in DOMAIN list
<1>1. DOMAIN list = 1..Len(list) /\ Len(list) \in Nat
  BY LenProperties DEF Ranking
<1>2. PositionOf(v, list) \in DOMAIN list
  BY DEF PositionOf, Listed
<1> QED
  BY <1>1, <1>2 DEF Ranking

\* What a list gives a vector.
ShareOf(v, list) == IF Listed(v, list) THEN Share(v, list) ELSE 0

LEMMA ShareIs ==
    ASSUME NEW list, Ranking(list), NEW v
    PROVE  ShareOf(v, list) \in Nat
<1>1. CASE Listed(v, list)
  <2>1. PositionOf(v, list) \in Nat \ {0}
    BY <1>1, PositionIs
  <2>2. PICK r \in Nat : r = RankIn(v, list)
    BY <2>1, RankAtIs DEF RankIn
  <2> QED
    BY <1>1, <2>2, SharesShrink DEF ShareOf, Share
<1>2. CASE ~Listed(v, list)
  BY <1>2 DEF ShareOf
<1> QED
  BY <1>1, <1>2

LEMMA AheadGetsMore ==
    ASSUME NEW list, Ranking(list), NEW a, NEW b,
           Listed(b, list) => Listed(a, list) /\ PositionOf(a, list) <= PositionOf(b, list)
    PROVE  ShareOf(b, list) <= ShareOf(a, list)
<1>1. CASE Listed(b, list)
  <2>1. PICK k \in Nat \ {0} : k = PositionOf(a, list)
    BY <1>1, PositionIs
  <2>2. PICK n \in Nat \ {0} : n = PositionOf(b, list)
    BY <1>1, PositionIs
  <2>3. PICK i \in Nat : i = RankIn(a, list)
    BY <2>1, RankAtIs DEF RankIn
  <2>4. PICK j \in Nat : j = RankIn(b, list)
    BY <2>2, RankAtIs DEF RankIn
  <2>5. k <= n
    BY <1>1, <2>1, <2>2
  <2>6. i <= j
    BY <2>1, <2>2, <2>3, <2>4, <2>5, RanksGrow DEF RankIn
  <2>7. RankUnit \div (61 + j) <= RankUnit \div (61 + i)
    BY <2>6, SharesShrink
  <2> QED
    BY <1>1, <2>3, <2>4, <2>7 DEF ShareOf, Share
<1>2. CASE ~Listed(b, list)
  <2>1. ShareOf(b, list) = 0
    BY <1>2 DEF ShareOf
  <2> QED
    BY <2>1, ShareIs
<1> QED
  BY <1>1, <1>2

Lists == /\ Ranking(srLists[1]) /\ Ranking(srLists[2])

LEMMA FusedIs ==
    ASSUME Lists, NEW v
    PROVE  FusedScore(v) = ShareOf(v, srLists[1]) + ShareOf(v, srLists[2]) /\ FusedScore(v) \in Nat
<1>1. FusedScore(v) = ShareOf(v, srLists[1]) + ShareOf(v, srLists[2])
  BY DEF FusedScore, ShareOf
<1>2. ShareOf(v, srLists[1]) \in Nat /\ ShareOf(v, srLists[2]) \in Nat
  BY ShareIs DEF Lists
<1> QED
  BY <1>1, <1>2


-----------------------------------------------------------------------------
(* The results: one per content id, the best of its vectors.                *)

Beats(results, i, j) ==
    \/ Better(results[i], results[j])
    \/ ~Better(results[j], results[i]) /\ i < j
Scored(results, n) ==
    n \in Nat /\ DOMAIN results = 1..n
    /\ \A k \in 1..n : results[k].score \in Nat /\ results[k].old \in BOOLEAN

LEMMA BeatsOrders ==
    ASSUME NEW results, NEW n, Scored(results, n)
    PROVE  /\ \A i \in 1..n : ~Beats(results, i, i)
           /\ \A i, j, k \in 1..n :
                 Beats(results, i, j) /\ Beats(results, j, k) => Beats(results, i, k)
           /\ \A i, j \in 1..n : i # j => Beats(results, i, j) \/ Beats(results, j, i)
           /\ \A i, j \in 1..n : ~(Beats(results, i, j) /\ Beats(results, j, i))
           /\ \A i, j \in 1..n : Beats(results, i, j) => results[i].score >= results[j].score
<1>1. PICK score : score = [k \in 1..n |-> results[k].score]
  OBVIOUS
<1>2. PICK age : age = [k \in 1..n |-> IF results[k].old THEN 1 ELSE 0]
  OBVIOUS
<1>3. \A k \in 1..n : score[k] \in Nat /\ age[k] \in 0..1 /\ score[k] = results[k].score
  BY <1>1, <1>2 DEF Scored
<1>4. ASSUME NEW i \in 1..n, NEW j \in 1..n
      PROVE  Better(results[i], results[j])
                <=> (score[i] > score[j] \/ (score[i] = score[j] /\ age[i] < age[j]))
  <2>1. results[i].old \in BOOLEAN /\ results[j].old \in BOOLEAN
    BY DEF Scored
  <2>2. age[i] = (IF results[i].old THEN 1 ELSE 0) /\ age[j] = (IF results[j].old THEN 1 ELSE 0)
    BY <1>2
  <2>3. CASE results[i].old
    <3>1. age[i] = 1 /\ ~(age[i] < age[j])
      BY <2>2, <2>3
    <3>2. Better(results[i], results[j]) <=> results[i].score > results[j].score
      BY <2>3 DEF Better
    <3> QED
      BY <1>3, <3>1, <3>2
  <2>4. CASE ~results[i].old /\ results[j].old
    <3>1. age[i] = 0 /\ age[j] = 1
      BY <2>2, <2>4
    <3>2. Better(results[i], results[j])
             <=> (results[i].score > results[j].score \/ results[i].score = results[j].score)
      BY <2>4 DEF Better
    <3> QED
      BY <1>3, <3>1, <3>2
  <2>5. CASE ~results[i].old /\ ~results[j].old
    <3>1. age[i] = 0 /\ age[j] = 0
      BY <2>2, <2>5
    <3>2. Better(results[i], results[j]) <=> results[i].score > results[j].score
      BY <2>5 DEF Better
    <3> QED
      BY <1>3, <3>1, <3>2
  <2> QED
    BY <2>3, <2>4, <2>5
<1>5. \A i, j \in 1..n : Beats(results, i, j) <=>
         \/ score[i] > score[j]
         \/ score[i] = score[j] /\ (age[i] < age[j] \/ (age[i] = age[j] /\ i < j))
  BY <1>3, <1>4 DEF Beats
<1>6. n \in Nat
  BY DEF Scored
<1>7. ASSUME NEW i \in 1..n, NEW j \in 1..n, NEW k \in 1..n,
             Beats(results, i, j), Beats(results, j, k)
      PROVE  Beats(results, i, k)
  <2>1. /\ score[i] \in Nat /\ score[j] \in Nat /\ score[k] \in Nat
        /\ age[i] \in Nat /\ age[j] \in Nat /\ age[k] \in Nat
    BY <1>3
  <2>2. /\ \/ score[i] > score[j]
           \/ score[i] = score[j] /\ (age[i] < age[j] \/ (age[i] = age[j] /\ i < j))
        /\ \/ score[j] > score[k]
           \/ score[j] = score[k] /\ (age[j] < age[k] \/ (age[j] = age[k] /\ j < k))
    BY <1>5, <1>7
  <2>3. \/ score[i] > score[k]
        \/ score[i] = score[k] /\ (age[i] < age[k] \/ (age[i] = age[k] /\ i < k))
    BY <2>1, <2>2
  <2> QED
    BY <1>5, <2>3
<1>8. \A i, j \in 1..n : i # j => Beats(results, i, j) \/ Beats(results, j, i)
  BY <1>3, <1>5, <1>6
<1>9. \A i, j \in 1..n : ~(Beats(results, i, j) /\ Beats(results, j, i))
  BY <1>3, <1>5, <1>6
<1>10. \A i, j \in 1..n : Beats(results, i, j) => results[i].score >= results[j].score
  BY <1>3, <1>5
<1>11. \A i \in 1..n : ~Beats(results, i, i)
  BY <1>9
<1> QED
  BY <1>7, <1>8, <1>9, <1>10, <1>11

\* Some index with the content id of k beats all the others.
LEMMA BestExists ==
    ASSUME NEW results, NEW n, Scored(results, n), NEW k \in 1..n
    PROVE  \E b \in 1..n :
              /\ results[b].id = results[k].id
              /\ \A i \in 1..n : results[i].id = results[b].id /\ i # b => Beats(results, b, i)
<1>1. n \in Nat
  BY DEF Scored
<1>2. PICK S : S = {j \in 1..n : results[j].id = results[k].id}
  OBVIOUS
<1>3. IsFiniteSet(S)
  <2>1. 1 \in Int /\ n \in Int
    BY <1>1
  <2>2. IsFiniteSet(1..n)
    BY <2>1, FS_Interval
  <2>3. S \in SUBSET (1..n)
    BY <1>2
  <2> QED
    BY <2>2, <2>3, FS_Subset
<1>4. PICK R : R = {x \in S \X S : Beats(results, x[1], x[2])}
  OBVIOUS
<1>5. \A x, y \in S : <<x, y>> \in R <=> Beats(results, x, y)
  BY <1>4
<1>6. PICK q \in [1..Cardinality(S) -> S] :
         /\ \A i, j \in 1..Cardinality(S) : i # j => q[i] # q[j]
         /\ \A i, j \in 1..Cardinality(S) : <<q[i], q[j]>> \in R => i < j
  <2>1. R \in SUBSET (S \X S)
    BY <1>4
  <2>2. \A x \in S : <<x, x>> \notin R
    BY <1>2, <1>5, BeatsOrders
  <2>3. \A x, y, z \in S : <<x, y>> \in R /\ <<y, z>> \in R => <<x, z>> \in R
    BY <1>2, <1>5, BeatsOrders
  <2> QED
    BY <1>3, <2>1, <2>2, <2>3, SortExists
<1>7. \A x \in S : \E i \in 1..Cardinality(S) : q[i] = x
  BY <1>3, <1>6, FillsSet
<1>8. PICK c \in Nat : c = Cardinality(S)
  BY <1>3, FS_CardinalityType
<1>9. 1 \in 1..c
  <2>1. k \in S
    BY <1>2
  <2>2. PICK i \in 1..c : q[i] = k
    BY <1>7, <1>8, <2>1
  <2> QED
    BY <1>8, <2>2
<1>10. PICK b \in S : b = q[1]
  BY <1>6, <1>8, <1>9
<1>11. ASSUME NEW i \in S, i # b PROVE Beats(results, b, i)
  <2>1. PICK m \in 1..c : q[m] = i
    BY <1>7, <1>8
  <2>2. m # 1 /\ ~(m < 1)
    BY <1>10, <1>11, <2>1
  <2>3. <<i, b>> \notin R
    BY <1>6, <1>8, <1>9, <1>10, <2>1, <2>2
  <2>4. ~Beats(results, i, b)
    BY <1>5, <1>10, <2>3
  <2> QED
    BY <1>2, <1>10, <1>11, <2>4, BeatsOrders
<1> QED
  BY <1>2, <1>10, <1>11

LEMMA DeduplicatedIs ==
    ASSUME NEW results, NEW n, Scored(results, n)
    PROVE  /\ IsFiniteSet(Deduplicated(results))
           /\ \A r \in Deduplicated(results) : \E k \in 1..n : r = results[k]
           /\ \A k \in 1..n : \E r \in Deduplicated(results) :
                 r.id = results[k].id /\ r.score >= results[k].score
           /\ \A r, s \in Deduplicated(results) : r.id = s.id => r = s
<1>1. n \in Nat /\ DOMAIN results = 1..n
  BY DEF Scored
<1>2. PICK J : J = {j \in 1..n : \A i \in 1..n :
                       results[i].id = results[j].id /\ i # j => Beats(results, j, i)}
  OBVIOUS
<1>3. PICK D : D = {results[j] : j \in J}
  OBVIOUS
<1>4. Deduplicated(results) = D
  BY <1>1, <1>2, <1>3 DEF Deduplicated, Beats
<1>5. IsFiniteSet(D)
  <2>1. 1 \in Int /\ n \in Int
    BY <1>1
  <2>2. IsFiniteSet(1..n)
    BY <2>1, FS_Interval
  <2>3. J \in SUBSET (1..n)
    BY <1>2
  <2>4. IsFiniteSet(J)
    BY <2>2, <2>3, FS_Subset
  <2>5. PICK F : F = [j \in J |-> results[j]]
    OBVIOUS
  <2>6. F \in [J -> D] /\ \A y \in D : \E x \in J : F[x] = y
    BY <1>3, <2>5
  <2>7. F \in Surjection(J, D)
    BY <2>6 DEF Surjection
  <2> QED
    BY <2>4, <2>7, FS_Surjection
<1>6. ASSUME NEW k \in 1..n
      PROVE \E r \in D : r.id = results[k].id /\ r.score >= results[k].score
  <2>1. PICK b \in 1..n :
           /\ results[b].id = results[k].id
           /\ \A i \in 1..n : results[i].id = results[b].id /\ i # b => Beats(results, b, i)
    BY BestExists
  <2>2. b \in J
    BY <1>2, <2>1
  <2>3. results[b].score >= results[k].score
    <3>1. CASE b = k
      BY <3>1 DEF Scored
    <3>2. CASE b # k
      BY <2>1, <3>2, BeatsOrders
    <3> QED
      BY <3>1, <3>2
  <2> QED
    BY <1>3, <2>1, <2>2, <2>3
<1>7. ASSUME NEW r \in D, NEW s \in D, r.id = s.id PROVE r = s
  <2>1. PICK j \in J : r = results[j]
    BY <1>3
  <2>2. PICK k \in J : s = results[k]
    BY <1>3
  <2>3. CASE j # k
    <3>1. Beats(results, j, k) /\ Beats(results, k, j)
      BY <1>2, <1>7, <2>1, <2>2, <2>3
    <3> QED
      BY <1>2, <3>1, BeatsOrders
  <2> QED
    BY <2>1, <2>2, <2>3
<1>8. \A r \in D : \E k \in 1..n : r = results[k]
  BY <1>2, <1>3
<1> QED
  BY <1>4, <1>5, <1>6, <1>7, <1>8


-----------------------------------------------------------------------------
(* Completion.                                                              *)

HitFields == {"session", "id", "score", "old", "of"}
GoodHits(hits) ==
    /\ Len(hits) \in Nat /\ DOMAIN hits = 1..Len(hits)
    /\ \A k \in 1..Len(hits) : DOMAIN hits[k] = HitFields /\ hits[k].score \in Nat
    /\ \A j, k \in 1..Len(hits) : hits[j].id = hits[k].id => j = k

\* e is a neighbour of the k-th hit and not a hit itself.
Neighbour(e, hits, k) ==
    /\ e.session = hits[k].session /\ e.of = hits[k].id /\ e.score = hits[k].score
    /\ \E w \in Window(hits[k]) : SrUpdates[hits[k].session][w] = e.id
    /\ \A j \in 1..Len(hits) : ~(hits[j].session = e.session /\ hits[j].id = e.id)
Element(e, hits) ==
    \/ \E j \in 1..Len(hits) : e = hits[j]
    \/ \E k \in 1..Len(hits) : Located(hits[k]) /\ Neighbour(e, hits, k)

LEMMA PlaceIs ==
    ASSUME NEW hit, Located(hit)
    PROVE  /\ FirstBeside(hit) \in Nat /\ LastBeside(hit) \in Nat
           /\ PlaceOf(hit) \in FirstBeside(hit)..LastBeside(hit)
           /\ SrUpdates[hit.session][PlaceOf(hit)] = hit.id
<1>1. PICK s : s = SrUpdates[hit.session]
  OBVIOUS
<1>2. PICK L \in Nat : L = Len(s) /\ DOMAIN s = 1..L
  BY <1>1, SearchRankingAssumption DEF Located
<1>3. PICK p : p = PlaceOf(hit)
  OBVIOUS
<1>4. p \in DOMAIN s /\ s[p] = hit.id
  BY <1>1, <1>3 DEF PlaceOf, PositionOf, Located, Listed
<1>5. Radius \in Nat
  BY SearchRankingAssumption
<1>6. FirstBeside(hit) = (IF p - Radius > 1 THEN p - Radius ELSE 1)
      /\ LastBeside(hit) = (IF p + Radius < L THEN p + Radius ELSE L)
  BY <1>1, <1>2, <1>3 DEF FirstBeside, LastBeside, Larger, Smaller
<1> QED
  BY <1>1, <1>2, <1>3, <1>4, <1>5, <1>6

HitOrNext(e, u, hits, k) ==
    \/ \E j \in 1..Len(hits) : e = hits[j]
    \/ /\ e = [hits[k] EXCEPT !.id = u, !.of = hits[k].id]
       /\ \A j \in 1..Len(hits) : ~(hits[j].session = hits[k].session /\ hits[j].id = u)

LEMMA BesideIs ==
    ASSUME NEW hits, GoodHits(hits), NEW k \in 1..Len(hits), NEW u
    PROVE  /\ u = hits[k].id => Beside(u, hits[k], hits) = hits[k]
           /\ HitOrNext(Beside(u, hits[k], hits), u, hits, k)
<1>1. PICK own : own = {j \in 1..Len(hits) : hits[j].session = hits[k].session /\ hits[j].id = u}
  OBVIOUS
<1>2. Beside(u, hits[k], hits) = IF own # {} THEN hits[CHOOSE j \in own : TRUE]
                                 ELSE [hits[k] EXCEPT !.id = u, !.of = hits[k].id]
  BY <1>1 DEF Beside, GoodHits
<1>3. CASE own # {}
  <2>1. PICK j \in own : j = CHOOSE i \in own : TRUE
    BY <1>3
  <2>2. Beside(u, hits[k], hits) = hits[j] /\ j \in 1..Len(hits) /\ hits[j].id = u
    BY <1>1, <1>2, <1>3, <2>1
  <2>3. u = hits[k].id => j = k
    BY <2>2 DEF GoodHits
  <2> QED
    BY <2>2, <2>3 DEF HitOrNext
<1>4. CASE own = {}
  <2>1. u # hits[k].id
    BY <1>1, <1>4
  <2>2. Beside(u, hits[k], hits) = [hits[k] EXCEPT !.id = u, !.of = hits[k].id]
    BY <1>2, <1>4
  <2>3. \A j \in 1..Len(hits) : ~(hits[j].session = hits[k].session /\ hits[j].id = u)
    BY <1>1, <1>4
  <2> QED
    BY <2>1, <2>2, <2>3 DEF HitOrNext
<1> QED
  BY <1>3, <1>4

\* What a hit contributes is made of hits and neighbours of it, itself among them.
LEMMA ContributionIs ==
    ASSUME NEW hits, GoodHits(hits), NEW k \in 1..Len(hits)
    PROVE  \E M \in Nat : \E f :
              /\ Contribution(hits[k], hits) = [n \in 1..M |-> f[n]]
              /\ \A n \in 1..M : Element(f[n], hits)
              /\ \E n \in 1..M : f[n] = hits[k]
<1>1. PICK hit : hit = hits[k]
  OBVIOUS
<1>2. CASE ~Located(hit)
  <2>1. Contribution(hits[k], hits) = <<hit>>
    BY <1>1, <1>2 DEF Contribution
  <2>2. PICK f : f = <<hit>>
    OBVIOUS
  <2>3. f = [n \in 1..1 |-> f[n]] /\ f[1] = hit
    BY <2>2
  <2>4. \A n \in 1..1 : Element(f[n], hits)
    BY <1>1, <2>3 DEF Element
  <2>5. 1 \in Nat /\ 1 \in 1..1
    OBVIOUS
  <2> QED
    BY <1>1, <2>1, <2>2, <2>3, <2>4, <2>5
<1>3. CASE Located(hit)
  <2>1. PICK a, b, p :
           /\ a \in Nat /\ b \in Nat /\ p \in a..b
           /\ a = FirstBeside(hit) /\ b = LastBeside(hit) /\ p = PlaceOf(hit)
           /\ SrUpdates[hit.session][p] = hit.id
    BY <1>3, PlaceIs
  <2>2. PICK M : M = b - a + 1
    OBVIOUS
  <2>3. a \in Nat /\ b \in Nat /\ p \in Nat /\ a <= p /\ p <= b /\ M \in Nat
    <3>1. a \in Nat /\ b \in Nat /\ p \in a..b
      BY ONLY <2>1
    <3> QED
      BY ONLY <2>2, <3>1
  <2>4. PICK f : f = [n \in 1..M |-> Beside(SrUpdates[hit.session][a + n - 1], hit, hits)]
    OBVIOUS
  <2>5. Contribution(hits[k], hits) = f /\ f = [n \in 1..M |-> f[n]]
    BY <1>1, <1>3, <2>1, <2>2, <2>4 DEF Contribution
  <2>6. ASSUME NEW n \in 1..M PROVE Element(f[n], hits)
    <3>1. PICK u : u = SrUpdates[hit.session][a + n - 1]
      OBVIOUS
    <3>2. a + n - 1 \in a..b
      BY ONLY <2>2, <2>3, n \in 1..M
    <3>3. f[n] = Beside(u, hit, hits)
      BY <2>4, <3>1
    <3>4. CASE \E j \in 1..Len(hits) : Beside(u, hit, hits) = hits[j]
      BY <3>3, <3>4 DEF Element
    <3>5. CASE /\ Beside(u, hit, hits) = [hit EXCEPT !.id = u, !.of = hit.id]
               /\ \A j \in 1..Len(hits) : ~(hits[j].session = hit.session /\ hits[j].id = u)
      <4>1. PICK e : e = f[n]
        OBVIOUS
      <4>2. DOMAIN hit = HitFields
        BY <1>1 DEF GoodHits
      <4>3. e.id = u /\ e.of = hit.id /\ e.session = hit.session /\ e.score = hit.score
        BY <3>3, <3>5, <4>1, <4>2 DEF HitFields
      <4>4. a + n - 1 \in Window(hit)
        BY <2>1, <3>2 DEF Window
      <4>5. Neighbour(e, hits, k)
        BY <1>1, <3>1, <3>5, <4>3, <4>4 DEF Neighbour
      <4> QED
        BY <1>1, <1>3, <4>1, <4>5 DEF Element
    <3>6. HitOrNext(Beside(u, hits[k], hits), u, hits, k)
      BY BesideIs
    <3> QED
      BY <1>1, <3>4, <3>5, <3>6 DEF HitOrNext
  <2>7. \E n \in 1..M : f[n] = hit
    <3>1. PICK n : n = p - a + 1
      OBVIOUS
    <3>2. n \in 1..M /\ a + n - 1 = p
      BY ONLY <2>2, <2>3, <3>1
    <3>3. f[n] = Beside(hit.id, hit, hits)
      BY <2>1, <2>4, <3>2
    <3>4. PICK u : u = hits[k].id
      OBVIOUS
    <3>5. Beside(u, hits[k], hits) = hits[k]
      BY <3>4, BesideIs
    <3> QED
      BY <1>1, <3>2, <3>3, <3>4, <3>5
  <2> QED
    BY <1>1, <2>3, <2>5, <2>6, <2>7
<1> QED
  BY <1>2, <1>3

LEMMA ReachesEnd ==
    ASSUME NEW N \in Nat, NEW W \in SUBSET (0..N), 0 \in W,
           \A n \in 1..N : n - 1 \in W => n \in W
    PROVE  N \in W
<1>1. PICK T : T = {n \in 0..N : n \notin W}
  OBVIOUS
<1>2. T = {}
  <2> SUFFICES ASSUME T # {} PROVE FALSE
    OBVIOUS
  <2>1. T \in SUBSET Nat
    BY <1>1
  <2>2. PICK m \in T : \A y \in T : m <= y
    BY <2>1, LeastNat
  <2>3. m \in 1..N /\ m - 1 \in 0..N
    BY <1>1, <2>2
  <2>4. m - 1 \notin T
    BY <2>2, <2>3
  <2> QED
    BY <1>1, <2>2, <2>3, <2>4
<1> QED
  BY <1>1, <1>2

\* What is contributed by the hits up to the n-th.
Collected(c, hits, n) ==
    /\ \A i \in 1..Len(c) : Element(c[i], hits)
    /\ \A k \in 1..n : \E i \in 1..Len(c) : c[i] = hits[k]
Records(hits) == UNION {{Contribution(hits[k], hits)[n] : n \in DOMAIN Contribution(hits[k], hits)}
                          : k \in 1..Len(hits)}

LEMMA ContributedIs ==
    ASSUME NEW hits, GoodHits(hits)
    PROVE  /\ Contributed(hits) \in Seq(Records(hits))
           /\ Collected(Contributed(hits), hits, Len(hits))
<1>0. Len(hits) \in Nat
  BY Zenon DEF GoodHits
<1>1. PICK N \in Nat : N = Len(hits)
  BY <1>0
<1>2. PICK X : X = Records(hits)
  OBVIOUS
<1>3. ASSUME NEW k \in 1..N
      PROVE  /\ Contribution(hits[k], hits) \in Seq(X)
             /\ \A i \in 1..Len(Contribution(hits[k], hits)) :
                   Element(Contribution(hits[k], hits)[i], hits)
             /\ \E i \in 1..Len(Contribution(hits[k], hits)) :
                   Contribution(hits[k], hits)[i] = hits[k]
  <2>0. PICK M \in Nat : \E f :
              /\ Contribution(hits[k], hits) = [n \in 1..M |-> f[n]]
              /\ \A n \in 1..M : Element(f[n], hits)
              /\ \E n \in 1..M : f[n] = hits[k]
    BY <1>1, ContributionIs
  <2>1. PICK f, c : /\ c = Contribution(hits[k], hits) /\ c = [n \in 1..M |-> f[n]]
                    /\ \A n \in 1..M : Element(f[n], hits)
                    /\ \E n \in 1..M : f[n] = hits[k]
    BY <2>0
  <2>2. DOMAIN c = 1..M /\ \A n \in 1..M : c[n] = f[n]
    BY <2>1
  <2>3. ASSUME NEW n \in 1..M PROVE f[n] \in X
    <3>1. f[n] \in {Contribution(hits[k], hits)[i] : i \in DOMAIN Contribution(hits[k], hits)}
      BY <2>1, <2>2
    <3> QED
      BY <1>1, <1>2, <3>1 DEF Records
  <2>4. [n \in 1..M |-> f[n]] \in Seq(X)
    BY <2>0, <2>3
  <2>5. c \in Seq(X)
    BY <2>1, <2>4
  <2>6. Len(c) = M
    BY <2>1, <2>2, <2>5, LenProperties
  <2> QED
    BY <2>1, <2>2, <2>5, <2>6
<1> DEFINE Loop(f) == f = [n \in 0..Len(hits) |->
               IF n = 0 THEN <<>> ELSE f[n - 1] \o Contribution(hits[n], hits)]
<1>4. PICK next : next = [x \in (1..N) \X Seq(X) |-> x[2] \o Contribution(hits[x[1]], hits)]
  OBVIOUS
<1>5. PICK f : f \in [0..N -> Seq(X)] /\ f[0] = <<>> /\ \A n \in 1..N : f[n] = next[<<n, f[n - 1]>>]
  <2>1. ASSUME NEW x \in (1..N) \X Seq(X) PROVE x[2] \o Contribution(hits[x[1]], hits) \in Seq(X)
    <3>1. PICK s \in Seq(X), t \in Seq(X) : s = x[2] /\ t = Contribution(hits[x[1]], hits)
      BY <1>3
    <3>2. s \o t \in Seq(X)
      BY <3>1, ConcatProperties
    <3> QED
      BY <3>1, <3>2
  <2>2. next \in [(1..N) \X Seq(X) -> Seq(X)]
    BY <1>4, <2>1
  <2>3. N \in Nat /\ <<>> \in Seq(X)
    BY <1>1, EmptySeq
  <2>4. \E g : Runs(N, Seq(X), <<>>, next, g)
    BY <2>2, <2>3, LoopRuns
  <2> QED
    BY <2>4 DEF Runs
<1>6. ASSUME NEW n \in 1..N PROVE f[n] = f[n - 1] \o Contribution(hits[n], hits)
  <2>1. n - 1 \in 0..N
    OBVIOUS
  <2>2. <<n, f[n - 1]>> \in (1..N) \X Seq(X)
    BY <1>5, <2>1
  <2> QED
    BY <1>4, <1>5, <2>2
<1>7. Loop(f)
  <2>1. ASSUME NEW n \in 0..N
        PROVE  f[n] = IF n = 0 THEN <<>> ELSE f[n - 1] \o Contribution(hits[n], hits)
    <3>1. CASE n = 0
      BY <1>5, <3>1
    <3>2. CASE n # 0
      <4>1. n \in 1..N
        BY <3>2
      <4> QED
        BY <1>6, <3>2, <4>1
    <3> QED
      BY <3>1, <3>2
  <2> QED
    BY <1>1, <1>5, <2>1
<1>8. PICK g : Loop(g) /\ Contributed(hits) = g[Len(hits)]
  BY <1>7 DEF Contributed
<1>9. g[0] = <<>> /\ \A n \in 1..N : g[n] = g[n - 1] \o Contribution(hits[n], hits)
  <2>1. \A n \in 0..N : g[n] = IF n = 0 THEN <<>> ELSE g[n - 1] \o Contribution(hits[n], hits)
    BY ONLY <1>1, <1>8
  <2>2. g[0] = <<>>
    BY <1>1, <2>1
  <2>3. ASSUME NEW n \in 1..N PROVE g[n] = g[n - 1] \o Contribution(hits[n], hits)
    <3>1. n \in 0..N /\ n # 0
      OBVIOUS
    <3> QED
      BY <2>1, <3>1
  <2> QED
    BY <2>2, <2>3
<1> HIDE DEF Loop
<1> DEFINE Whole == {n \in 0..N : g[n] \in Seq(X) /\ Collected(g[n], hits, n)}
<1>10. ASSUME NEW n \in 1..N, g[n - 1] \in Seq(X), Collected(g[n - 1], hits, n - 1)
       PROVE  g[n] \in Seq(X) /\ Collected(g[n], hits, n)
  <2>1. PICK s, t, u : s \in Seq(X) /\ t \in Seq(X) /\ s = g[n - 1] /\ t = Contribution(hits[n], hits) /\ u = g[n]
    BY <1>3, <1>10
  <2>2. PICK a \in Nat, b \in Nat : a = Len(s) /\ b = Len(t)
    BY <2>1, LenProperties
  <2>3. u = s \o t
    BY <1>9, <2>1
  <2>4. /\ u \in Seq(X) /\ Len(u) = a + b
        /\ \A i \in 1..(a + b) : u[i] = IF i <= a THEN s[i] ELSE t[i - a]
    <3>1. /\ s \o t \in Seq(X) /\ Len(s \o t) = Len(s) + Len(t)
          /\ \A i \in 1..(Len(s) + Len(t)) :
                (s \o t)[i] = IF i <= Len(s) THEN s[i] ELSE t[i - Len(s)]
      BY <2>1, ConcatProperties
    <3> QED
      BY <2>2, <2>3, <3>1
  <2>5. ASSUME NEW i \in 1..(a + b) PROVE Element(u[i], hits)
    <3>1. CASE i <= a
      <4>1. u[i] = s[i] /\ i \in 1..a
        BY <2>4, <3>1
      <4> QED
        BY <1>10, <2>1, <2>2, <4>1 DEF Collected
    <3>2. CASE ~(i <= a)
      <4>1. u[i] = t[i - a] /\ i - a \in 1..b
        BY <2>2, <2>4, <3>2
      <4> QED
        BY <1>3, <2>1, <2>2, <4>1
    <3> QED
      BY <3>1, <3>2
  <2>6. ASSUME NEW k \in 1..n PROVE \E i \in 1..(a + b) : u[i] = hits[k]
    <3>1. CASE k = n
      <4>1. PICK i \in 1..b : t[i] = hits[n]
        BY <1>3, <2>1, <2>2
      <4>2. i + a \in 1..(a + b) /\ ~(i + a <= a) /\ i + a - a = i
        BY <2>2
      <4>3. u[i + a] = t[i]
        BY <2>4, <4>2
      <4> QED
        BY <3>1, <4>1, <4>2, <4>3
    <3>2. CASE k # n
      <4>1. k \in 1..(n - 1)
        BY <3>2
      <4>2. PICK i \in 1..a : s[i] = hits[k]
        BY <1>10, <2>1, <2>2, <4>1 DEF Collected
      <4>3. i \in 1..(a + b) /\ i <= a
        BY <2>2
      <4> QED
        BY <2>4, <4>2, <4>3
    <3> QED
      BY <3>1, <3>2
  <2> QED
    BY <2>1, <2>4, <2>5, <2>6 DEF Collected
<1>11. 0 \in Whole
  <2>1. <<>> \in Seq(X) /\ Len(<<>>) = 0
    BY EmptySeq
  <2>2. Collected(<<>>, hits, 0)
    BY <2>1 DEF Collected
  <2>3. 0 \in 0..N /\ g[0] = <<>>
    BY <1>1, <1>9
  <2> QED
    BY <2>1, <2>2, <2>3
<1>12. ASSUME NEW n \in 1..N, n - 1 \in Whole PROVE n \in Whole
  <2>1. g[n - 1] \in Seq(X) /\ Collected(g[n - 1], hits, n - 1)
    BY <1>12
  <2>2. g[n] \in Seq(X) /\ Collected(g[n], hits, n)
    BY <1>10, <2>1
  <2> QED
    BY <2>2
<1>13. Whole \in SUBSET (0..N)
  OBVIOUS
<1>14. N \in Whole
  <2> HIDE DEF Whole
  <2> QED
    BY <1>1, <1>11, <1>12, <1>13, ReachesEnd
<1> QED
  BY <1>1, <1>2, <1>8, <1>14


\* u is the first n records of c without repeats.
Distinct(u, c, n) ==
    /\ \A i \in 1..Len(u) : \E m \in 1..n : u[i] = c[m]
    /\ \A m \in 1..n : \E i \in 1..Len(u) : SameRecord(u[i], c[m])
    /\ \A i, j \in 1..Len(u) : SameRecord(u[i], u[j]) => i = j

LEMMA UnrepeatedIs ==
    ASSUME NEW X, NEW c \in Seq(X)
    PROVE  Unrepeated(c) \in Seq(X) /\ Distinct(Unrepeated(c), c, Len(c))
<1>1. PICK N \in Nat : N = Len(c) /\ \A n \in 1..N : c[n] \in X
  BY LenProperties, ElementOfSeq
<1> DEFINE Again(n) == \E j \in 1..(n - 1) : SameRecord(c[j], c[n])
           Loop(f) == f = [n \in 0..Len(c) |-> IF n = 0 THEN <<>>
                              ELSE IF Again(n) THEN f[n - 1] ELSE Append(f[n - 1], c[n])]
<1>2. PICK next : next = [x \in (1..N) \X Seq(X) |->
                            IF Again(x[1]) THEN x[2] ELSE Append(x[2], c[x[1]])]
  OBVIOUS
<1>3. PICK f : f \in [0..N -> Seq(X)] /\ f[0] = <<>> /\ \A n \in 1..N : f[n] = next[<<n, f[n - 1]>>]
  <2> HIDE DEF Again
  <2>1. ASSUME NEW x \in (1..N) \X Seq(X)
        PROVE  (IF Again(x[1]) THEN x[2] ELSE Append(x[2], c[x[1]])) \in Seq(X)
    <3>1. x[2] \in Seq(X) /\ c[x[1]] \in X
      BY <1>1
    <3>2. Append(x[2], c[x[1]]) \in Seq(X)
      BY <3>1, AppendProperties
    <3> QED
      BY <3>1, <3>2
  <2>2. next \in [(1..N) \X Seq(X) -> Seq(X)]
    BY <1>2, <2>1
  <2>3. N \in Nat /\ <<>> \in Seq(X)
    BY <1>1, EmptySeq
  <2>4. \E g : Runs(N, Seq(X), <<>>, next, g)
    BY <2>2, <2>3, LoopRuns
  <2> QED
    BY <2>4 DEF Runs
<1>4. ASSUME NEW n \in 1..N PROVE f[n] = IF Again(n) THEN f[n - 1] ELSE Append(f[n - 1], c[n])
  <2> HIDE DEF Again
  <2>1. n - 1 \in 0..N
    OBVIOUS
  <2>2. <<n, f[n - 1]>> \in (1..N) \X Seq(X)
    BY <1>3, <2>1
  <2> QED
    BY <1>2, <1>3, <2>2
<1>5. Loop(f)
  <2> HIDE DEF Again
  <2>1. ASSUME NEW n \in 0..N
        PROVE  f[n] = IF n = 0 THEN <<>> ELSE IF Again(n) THEN f[n - 1] ELSE Append(f[n - 1], c[n])
    <3>1. CASE n = 0
      BY <1>3, <3>1
    <3>2. CASE n # 0
      <4>1. n \in 1..N
        BY <3>2
      <4> QED
        BY <1>4, <3>2, <4>1
    <3> QED
      BY <3>1, <3>2
  <2> QED
    BY <1>1, <1>3, <2>1
<1>6. PICK g : Loop(g) /\ Unrepeated(c) = g[Len(c)]
  BY <1>5 DEF Unrepeated
<1>7. g[0] = <<>> /\ \A n \in 1..N : g[n] = IF Again(n) THEN g[n - 1] ELSE Append(g[n - 1], c[n])
  <2> HIDE DEF Again
  <2>1. \A n \in 0..N : g[n] = IF n = 0 THEN <<>>
                               ELSE IF Again(n) THEN g[n - 1] ELSE Append(g[n - 1], c[n])
    BY ONLY <1>1, <1>6
  <2>2. g[0] = <<>>
    BY <1>1, <2>1
  <2>3. ASSUME NEW n \in 1..N
        PROVE g[n] = IF Again(n) THEN g[n - 1] ELSE Append(g[n - 1], c[n])
    <3>1. n \in 0..N /\ n # 0
      OBVIOUS
    <3> QED
      BY <2>1, <3>1
  <2> QED
    BY <2>2, <2>3
<1> HIDE DEF Loop
<1>8. ASSUME NEW n \in 1..N, g[n - 1] \in Seq(X), Distinct(g[n - 1], c, n - 1)
      PROVE  g[n] \in Seq(X) /\ Distinct(g[n], c, n)
  <2>1. PICK s, u : s \in Seq(X) /\ s = g[n - 1] /\ u = g[n] /\ Distinct(s, c, n - 1)
    BY <1>8
  <2>2. PICK L \in Nat : L = Len(s)
    BY <2>1, LenProperties
  <2>3. /\ \A i \in 1..L : \E m \in 1..(n - 1) : s[i] = c[m]
        /\ \A m \in 1..(n - 1) : \E i \in 1..L : SameRecord(s[i], c[m])
        /\ \A i, j \in 1..L : SameRecord(s[i], s[j]) => i = j
    BY <2>1, <2>2 DEF Distinct
  <2>4. CASE Again(n)
    <3>1. u = s
      BY <1>7, <2>1, <2>4
    <3>2. PICK m \in 1..(n - 1) : SameRecord(c[m], c[n])
      BY <2>4
    <3>3. PICK i \in 1..L : SameRecord(s[i], c[m])
      BY <2>3, <3>2
    <3>4. SameRecord(s[i], c[n])
      BY <3>2, <3>3 DEF SameRecord
    <3>5. ASSUME NEW k \in 1..n PROVE \E j \in 1..L : SameRecord(s[j], c[k])
      <4>1. CASE k = n
        BY <3>3, <3>4, <4>1
      <4>2. CASE k # n
        <5>1. k \in 1..(n - 1)
          BY <4>2
        <5> QED
          BY <2>3, <5>1
      <4> QED
        BY <4>1, <4>2
    <3>6. \A j \in 1..L : \E k \in 1..n : s[j] = c[k]
      <4>1. \A k \in 1..(n - 1) : k \in 1..n
        OBVIOUS
      <4> QED
        BY <2>3, <4>1
    <3>7. Distinct(s, c, n)
      BY <2>2, <2>3, <3>5, <3>6 DEF Distinct
    <3> QED
      BY <2>1, <3>1, <3>7
  <2>5. CASE ~Again(n)
    <3>1. u = Append(s, c[n])
      BY <1>7, <2>1, <2>5
    <3>2. /\ u \in Seq(X) /\ Len(u) = L + 1
          /\ \A i \in 1..L : u[i] = s[i]
          /\ u[L + 1] = c[n]
      <4>1. c[n] \in X
        BY <1>1
      <4>2. /\ Append(s, c[n]) \in Seq(X) /\ Len(Append(s, c[n])) = Len(s) + 1
            /\ \A i \in 1..Len(s) : Append(s, c[n])[i] = s[i]
            /\ Append(s, c[n])[Len(s) + 1] = c[n]
        BY <2>1, <4>1, AppendProperties
      <4> QED
        BY <2>2, <3>1, <4>2
    <3>3. \A m \in 1..(n - 1) : ~SameRecord(c[m], c[n]) /\ m \in 1..n
      BY <2>5
    <3>4. ASSUME NEW i \in 1..(L + 1) PROVE \E m \in 1..n : u[i] = c[m]
      <4>1. CASE i = L + 1
        <5>1. n \in 1..n
          OBVIOUS
        <5> QED
          BY <3>2, <4>1, <5>1
      <4>2. CASE i # L + 1
        <5>1. i \in 1..L
          BY <4>2
        <5>2. PICK m \in 1..(n - 1) : s[i] = c[m]
          BY <2>3, <5>1
        <5>3. m \in 1..n /\ u[i] = c[m]
          BY <3>2, <5>1, <5>2
        <5> QED
          BY <5>3
      <4> QED
        BY <4>1, <4>2
    <3>5. ASSUME NEW m \in 1..n PROVE \E i \in 1..(L + 1) : SameRecord(u[i], c[m])
      <4>1. CASE m = n
        <5>1. L + 1 \in 1..(L + 1) /\ SameRecord(u[L + 1], c[m])
          BY <3>2, <4>1 DEF SameRecord
        <5> QED
          BY <5>1
      <4>2. CASE m # n
        <5>1. m \in 1..(n - 1)
          BY <4>2
        <5>2. PICK i \in 1..L : SameRecord(s[i], c[m])
          BY <2>3, <5>1
        <5>3. i \in 1..(L + 1) /\ SameRecord(u[i], c[m])
          BY <3>2, <5>2
        <5> QED
          BY <5>3
      <4> QED
        BY <4>1, <4>2
    <3>6. ASSUME NEW i \in 1..L PROVE ~SameRecord(u[i], u[L + 1]) /\ ~SameRecord(u[L + 1], u[i])
      <4>1. PICK m \in 1..(n - 1) : s[i] = c[m]
        BY <2>3
      <4>2. ~SameRecord(c[m], c[n])
        BY <3>3
      <4> QED
        BY <3>2, <4>1, <4>2 DEF SameRecord
    <3>7. ASSUME NEW i \in 1..(L + 1), NEW j \in 1..(L + 1), SameRecord(u[i], u[j]) PROVE i = j
      <4>1. CASE i \in 1..L /\ j \in 1..L
        BY <2>3, <3>2, <3>7, <4>1
      <4>2. CASE i \in 1..L /\ j = L + 1
        BY <3>6, <3>7, <4>2
      <4>3. CASE i = L + 1 /\ j \in 1..L
        BY <3>6, <3>7, <4>3
      <4> QED
        BY <4>1, <4>2, <4>3
    <3> QED
      BY <2>1, <3>2, <3>4, <3>5, <3>7 DEF Distinct
  <2> QED
    BY <2>4, <2>5
<1> HIDE DEF Again
<1>9. PICK W : W = {n \in 0..N : g[n] \in Seq(X) /\ Distinct(g[n], c, n)}
  OBVIOUS
<1>10. 0 \in W
  <2>1. <<>> \in Seq(X) /\ Len(<<>>) = 0
    BY EmptySeq
  <2>2. Distinct(<<>>, c, 0)
    BY <2>1 DEF Distinct
  <2>3. 0 \in 0..N
    BY <1>1
  <2>4. PICK e : e = <<>>
    OBVIOUS
  <2>5. g[0] = e /\ e \in Seq(X) /\ Distinct(e, c, 0)
    BY <1>7, <2>1, <2>2, <2>4
  <2>6. g[0] \in Seq(X) /\ Distinct(g[0], c, 0)
    BY ONLY <2>5
  <2> QED
    BY ONLY <1>9, <2>3, <2>6
<1>11. ASSUME NEW n \in 1..N, n - 1 \in W PROVE n \in W
  <2>1. g[n - 1] \in Seq(X) /\ Distinct(g[n - 1], c, n - 1)
    BY <1>9, <1>11
  <2>2. g[n] \in Seq(X) /\ Distinct(g[n], c, n)
    BY <1>8, <2>1
  <2> QED
    BY <1>9, <2>2
<1>12. N \in W
  <2>1. W \in SUBSET (0..N)
    BY <1>9
  <2> QED
    BY <1>1, <1>10, <1>11, <2>1, ReachesEnd
<1> QED
  BY <1>1, <1>6, <1>9, <1>12

\* Completing the hits keeps them, repeats nothing and adds only neighbours.
Completed(results, hits) ==
    /\ \A j, k \in DOMAIN results : SameRecord(results[j], results[k]) => j = k
    /\ \A k \in DOMAIN hits : Listed(hits[k], results)
    /\ \A k \in DOMAIN results :
          \/ Listed(results[k], hits)
          \/ \E h \in DOMAIN hits :
                /\ hits[h].session = results[k].session
                /\ hits[h].id = results[k].of /\ hits[h].score = results[k].score
                /\ \E w \in Window(hits[h]) :
                      SrUpdates[hits[h].session][w] = results[k].id

LEMMA CompletedIs ==
    ASSUME NEW hits, GoodHits(hits)
    PROVE  Completed(Unrepeated(Contributed(hits)), hits)
<1>1. PICK X, c, u : X = Records(hits) /\ c = Contributed(hits) /\ u = Unrepeated(c)
  OBVIOUS
<1>2. PICK N : N = Len(hits) /\ N \in Nat /\ DOMAIN hits = 1..N
  BY Zenon DEF GoodHits
<1>3. c \in Seq(X) /\ Collected(c, hits, N)
  BY <1>1, <1>2, ContributedIs
<1>4. u \in Seq(X) /\ Distinct(u, c, Len(c))
  BY <1>1, <1>3, UnrepeatedIs
<1>5. PICK L \in Nat, M \in Nat : L = Len(c) /\ M = Len(u) /\ DOMAIN u = 1..M
  BY <1>3, <1>4, LenProperties
<1>6. /\ \A i \in 1..M : \E m \in 1..L : u[i] = c[m]
      /\ \A m \in 1..L : \E i \in 1..M : SameRecord(u[i], c[m])
      /\ \A i, j \in 1..M : SameRecord(u[i], u[j]) => i = j
  BY <1>4, <1>5 DEF Distinct
<1>7. \A i \in 1..M : Element(u[i], hits)
  BY <1>3, <1>5, <1>6 DEF Collected
<1>8. ASSUME NEW k \in 1..N PROVE Listed(hits[k], u)
  <2>1. PICK m \in 1..L : c[m] = hits[k]
    BY <1>3, <1>5 DEF Collected
  <2>2. PICK i \in 1..M : SameRecord(u[i], hits[k])
    BY <1>6, <2>1
  <2>3. u[i].session = hits[k].session /\ u[i].id = hits[k].id
    BY <2>2 DEF SameRecord
  <2>4. CASE \E j \in 1..N : u[i] = hits[j]
    <3>1. PICK j \in 1..N : u[i] = hits[j]
      BY <2>4
    <3>2. j = k
      BY <1>2, <2>3, <3>1 DEF GoodHits
    <3> QED
      BY <1>5, <3>1, <3>2 DEF Listed
  <2>5. CASE ~\E j \in 1..N : u[i] = hits[j]
    <3>1. PICK h \in 1..N : Neighbour(u[i], hits, h)
      BY <1>2, <1>7, <2>5 DEF Element
    <3>2. ~(hits[k].session = u[i].session /\ hits[k].id = u[i].id)
      BY <1>2, <3>1 DEF Neighbour
    <3> QED
      BY <2>3, <3>2
  <2> QED
    BY <2>4, <2>5
<1>9. ASSUME NEW i \in DOMAIN u
      PROVE  \/ Listed(u[i], hits)
             \/ \E h \in DOMAIN hits :
                   /\ hits[h].session = u[i].session
                   /\ hits[h].id = u[i].of /\ hits[h].score = u[i].score
                   /\ \E w \in Window(hits[h]) : SrUpdates[hits[h].session][w] = u[i].id
  <2>1. CASE \E j \in 1..N : u[i] = hits[j]
    BY <1>2, <2>1 DEF Listed
  <2>2. CASE ~\E j \in 1..N : u[i] = hits[j]
    <3>1. PICK h \in 1..N : Neighbour(u[i], hits, h)
      BY <1>2, <1>5, <1>7, <2>2 DEF Element
    <3> QED
      BY <1>2, <3>1 DEF Neighbour
  <2> QED
    BY <2>1, <2>2
<1>10. \A j, k \in DOMAIN u : SameRecord(u[j], u[k]) => j = k
  BY <1>5, <1>6
<1>11. \A k \in DOMAIN hits : Listed(hits[k], u)
  BY <1>2, <1>8
<1>12. Completed(u, hits)
  BY <1>9, <1>10, <1>11, Zenon DEF Completed
<1> QED
  BY <1>1, <1>12


-----------------------------------------------------------------------------
(* The invariant, step by step.                                             *)

LEMMA OneIs == One \in Nat
<1>1. 7624512 \div 61 = 124992
  OBVIOUS
<1>2. RankUnit = 7624512
  BY DEF RankUnit
<1> QED
  BY <1>1, <1>2 DEF One

LEMMA RankedTypes ==
    ASSUME NEW s, NEW n \in Nat, DOMAIN s = 1..n, s = [k \in 1..n |-> s[k]],
           \A k \in 1..n : s[k].vector \in SrIds /\ s[k].relevance \in Nat
                           /\ s[k] = [vector |-> s[k].vector, relevance |-> s[k].relevance]
    PROVE  s \in Seq(RankedType)
<1>1. \A k \in 1..n : s[k] \in RankedType
  BY DEF RankedType
<1>2. [k \in 1..n |-> s[k]] \in Seq(RankedType)
  BY <1>1
<1> QED
  BY <1>2

LEMMA RetrieveStep ==
    ASSUME RankingInv, Retrieve
    PROVE  RankingInv'
<1>1. srQuery.limit \in Nat /\ srQuery.similarity \in Scores
      /\ srQuery.bm25 \in Scores
  BY DEF RankingInv
<1>2. FusionDepth \in Nat /\ RerankPool \in Nat
  BY SearchRankingAssumption
<1>3. PoolDepth \in Nat
  BY <1>2 DEF PoolDepth
<1>4. Larger(srQuery.limit, PoolDepth) \in Nat
  BY <1>1, <1>3 DEF Larger
<1>5. PICK lexical \in LexicalLists :
         srLists' = <<TopK({v \in SourceIds : Admits(v)}, srQuery.similarity, SearchDepth(lexical)), lexical>>
  BY DEF Retrieve
<1>6. Ranking(lexical)
  <2>1. CASE lexical = <<>>
    <3>1. <<>> \in Seq(SrIds) /\ Len(<<>>) = 0
      BY EmptySeq
    <3> QED
      BY <2>1, <3>1 DEF Ranking
  <2>2. CASE lexical # <<>>
    <3>1. PICK hits : hits = {v \in SourceIds : Admits(v) /\ srQuery.bm25[v] > 0}
      OBVIOUS
    <3>2. hits \in SUBSET SrIds
      BY <3>1 DEF SourceIds
    <3>3. lexical = TopK(hits, srQuery.bm25, Larger(srQuery.limit, PoolDepth))
      BY <1>5, <2>2, <3>1 DEF LexicalLists
    <3> QED
      BY <1>1, <1>4, <3>2, <3>3, TopKIs
  <2> QED
    BY <2>1, <2>2
<1>7. PICK list : list = TopK({v \in SourceIds : Admits(v)}, srQuery.similarity, SearchDepth(lexical))
  OBVIOUS
<1>8. Ranking(list)
  <2>1. PICK ids : ids = {v \in SourceIds : Admits(v)}
    OBVIOUS
  <2>2. ids \in SUBSET SrIds
    BY <2>1 DEF SourceIds
  <2>3. SearchDepth(lexical) \in Nat
    BY <1>1, <1>2 DEF SearchDepth, Larger
  <2> QED
    BY <1>1, <1>7, <2>1, <2>2, <2>3, TopKIs
<1>9. /\ srLists' \in Seq(Seq(SrIds)) /\ Len(srLists') = 2
      /\ srLists'[1] = list /\ srLists'[2] = lexical
  BY <1>5, <1>6, <1>7, <1>8 DEF Ranking
<1>10. srStage' = "rank" /\ UNCHANGED <<srQuery, srRanked, srUnit, srHits, srResults>>
  BY DEF Retrieve
<1>11. ResultsSound'
  BY <1>10 DEF ResultsSound, RankingSound, FusionMonotone, BestReturned, CompletionKeeps
<1> QED
  BY <1>6, <1>8, <1>9, <1>10, <1>11 DEF RankingInv, Ranking, Stages, HitsTyped

LEMMA RankStep ==
    ASSUME RankingInv, Rank
    PROVE  RankingInv'
<1>1. srStage = "rank" /\ srStage' = "rerank" /\ UNCHANGED <<srQuery, srLists, srHits, srResults>>
  BY DEF Rank
<1>2. Lists
  <2>1. srLists \in Seq(Seq(SrIds)) /\ Len(srLists) = 2
    BY <1>1 DEF RankingInv
  <2>2. srLists[1] \in Seq(SrIds) /\ srLists[2] \in Seq(SrIds)
    <3>1. PICK T, l : T = Seq(SrIds) /\ l = srLists
      OBVIOUS
    <3>2. l \in Seq(T) /\ Len(l) = 2
      BY ONLY <2>1, <3>1
    <3>3. l[1] \in T /\ l[2] \in T
      <4>1. 1 \in 1..Len(l) /\ 2 \in 1..Len(l)
        BY <3>2
      <4> QED
        BY <3>2, <4>1, ElementOfSeq
    <3> QED
      BY <3>1, <3>3
  <2> QED
    BY <2>1, <2>2 DEF Lists, Ranking
<1>3. PICK a, n : a = srLists[1] /\ n \in Nat /\ n = Len(a) /\ DOMAIN a = 1..n
                  /\ \A k \in 1..n : a[k] \in SrIds
  <2>1. PICK a : a = srLists[1] /\ a \in Seq(SrIds)
    BY <1>2 DEF Lists, Ranking
  <2>2. Len(a) \in Nat /\ DOMAIN a = 1..Len(a) /\ \A k \in 1..Len(a) : a[k] \in SrIds
    BY <2>1, LenProperties, ElementOfSeq
  <2> QED
    BY <2>1, <2>2
<1>4. CASE srLists[2] = <<>>
  <2>1. srUnit' = SrTop * One /\ srRanked' = [k \in 1..n |->
           [vector |-> a[k], relevance |-> srQuery.similarity[a[k]] * One]]
    BY <1>3, <1>4 DEF Rank
  <2>2. PICK one \in Nat, top \in Nat : one = One /\ top = SrTop
    BY OneIs, SearchRankingAssumption
  <2>3. srUnit' \in Nat
    BY <2>1, <2>2
  <2>4. ASSUME NEW k \in 1..n PROVE srQuery.similarity[a[k]] * One \in Nat
    <3>1. srQuery.similarity[a[k]] \in 0..SrTop
      BY <1>3 DEF RankingInv, Scores
    <3>2. PICK x \in Nat : x = srQuery.similarity[a[k]]
      BY <2>2, <3>1
    <3>3. x * one \in Nat
      BY <2>2, <3>2
    <3> QED
      BY <2>2, <3>2, <3>3
  <2>5. PICK s : s = srRanked'
    OBVIOUS
  <2>6. DOMAIN s = 1..n /\ \A k \in 1..n : s[k] =
           [vector |-> a[k], relevance |-> srQuery.similarity[a[k]] * One]
    BY <2>1, <2>5
  <2>7. s = [k \in 1..n |-> s[k]]
    BY <2>1, <2>5
  <2>8. s \in Seq(RankedType)
    <3>1. ASSUME NEW k \in 1..n
          PROVE  s[k].vector \in SrIds /\ s[k].relevance \in Nat
                 /\ s[k] = [vector |-> s[k].vector, relevance |-> s[k].relevance]
      <4>1. PICK v, x : v = a[k] /\ x = srQuery.similarity[a[k]] * One
        OBVIOUS
      <4>2. s[k] = [vector |-> v, relevance |-> x]
        BY <2>6, <4>1
      <4>3. v \in SrIds /\ x \in Nat
        BY <1>3, <2>4, <4>1
      <4> QED
        BY ONLY <4>2, <4>3
    <3>2. n \in Nat
      BY <1>3
    <3> QED
      BY <2>6, <2>7, <3>1, <3>2, RankedTypes
  <2>9. ResultsSound'
    BY <1>1, <1>4 DEF ResultsSound, RankingSound, FusionMonotone, BestReturned, CompletionKeeps
  <2> QED
    BY <1>1, <2>3, <2>5, <2>8, <2>9 DEF RankingInv, Stages, HitsTyped
<1>5. CASE srLists[2] # <<>>
  <2>1. PICK q \in Orders(Candidates, FusedScore) :
           srRanked' = [k \in DOMAIN q |-> [vector |-> q[k], relevance |-> FusedScore(q[k])]]
    BY <1>5 DEF Rank
  <2>2. srUnit' \in Nat
    <3>1. PICK one \in Nat : one = One
      BY OneIs
    <3>2. srUnit' = 2 * one
      BY <1>5, <3>1 DEF Rank
    <3> QED
      BY <3>2
  <2>3. Candidates \in SUBSET SrIds
    <3>1. \A v \in ToSet(srLists[1]) : v \in SrIds
      BY <1>3 DEF ToSet
    <3>2. PICK b : b = srLists[2] /\ b \in Seq(SrIds)
      BY <1>2 DEF Lists, Ranking
    <3>3. \A k \in DOMAIN b : b[k] \in SrIds
      BY <3>2, LenProperties, ElementOfSeq
    <3>4. \A v \in ToSet(srLists[2]) : v \in SrIds
      BY <3>2, <3>3 DEF ToSet
    <3> QED
      BY <3>1, <3>4 DEF Candidates
  <2>4. PICK m \in Nat : m = Cardinality(Candidates) /\ q \in [1..m -> Candidates]
    <3>1. IsFiniteSet(Candidates)
      BY <2>3, SearchRankingAssumption, FS_Subset
    <3>2. q \in SetToSeqs(Candidates)
      BY <2>1 DEF Orders
    <3> QED
      BY <3>1, <3>2, SeqsEnumerate DEF Enumerates
  <2>5. PICK s : s = srRanked'
    OBVIOUS
  <2>6. s = [k \in 1..m |-> [vector |-> q[k], relevance |-> FusedScore(q[k])]]
    BY <2>1, <2>4, <2>5
  <2>7. DOMAIN s = 1..m /\ \A k \in 1..m : s[k].vector = q[k] /\ s[k].relevance = FusedScore(q[k])
           /\ s[k] = [vector |-> q[k], relevance |-> FusedScore(q[k])]
    BY <2>6
  <2>8. s \in Seq(RankedType)
    <3>1. \A k \in 1..m : q[k] \in SrIds /\ FusedScore(q[k]) \in Nat
      BY <1>2, <2>3, <2>4, FusedIs
    <3>2. \A k \in 1..m : s[k].vector \in SrIds /\ s[k].relevance \in Nat
                           /\ s[k] = [vector |-> s[k].vector, relevance |-> s[k].relevance]
      BY <2>7, <3>1
    <3>3. s = [k \in 1..m |-> s[k]]
      BY <2>6
    <3> QED
      BY <2>4, <2>7, <3>2, <3>3, RankedTypes
  <2>9. FusionMonotone'
    <3>1. ASSUME NEW v, NEW w,
                 \A list \in {srLists[1], srLists[2]} : Listed(w, list) =>
                     Listed(v, list) /\ PositionOf(v, list) <= PositionOf(w, list)
          PROVE  FusedScore(v) >= FusedScore(w)
      <4>1. ShareOf(w, srLists[1]) <= ShareOf(v, srLists[1])
        BY <1>2, <3>1, AheadGetsMore DEF Lists
      <4>2. ShareOf(w, srLists[2]) <= ShareOf(v, srLists[2])
        BY <1>2, <3>1, AheadGetsMore DEF Lists
      <4>3. /\ ShareOf(w, srLists[1]) \in Nat /\ ShareOf(v, srLists[1]) \in Nat
            /\ ShareOf(w, srLists[2]) \in Nat /\ ShareOf(v, srLists[2]) \in Nat
        BY <1>2, ShareIs DEF Lists
      <4>4. /\ FusedScore(v) = ShareOf(v, srLists[1]) + ShareOf(v, srLists[2])
            /\ FusedScore(w) = ShareOf(w, srLists[1]) + ShareOf(w, srLists[2])
        BY <1>2, FusedIs
      <4> QED
        BY <4>1, <4>2, <4>3, <4>4
    <3>2. ASSUME NEW j \in 1..m, NEW k \in 1..m,
                 Listed(s[k].vector, srLists[1]) =>
                     Listed(s[j].vector, srLists[1])
                     /\ PositionOf(s[j].vector, srLists[1]) <= PositionOf(s[k].vector, srLists[1]),
                 Listed(s[k].vector, srLists[2]) =>
                     Listed(s[j].vector, srLists[2])
                     /\ PositionOf(s[j].vector, srLists[2]) <= PositionOf(s[k].vector, srLists[2])
          PROVE  s[j].relevance >= s[k].relevance
      <4>1. PICK v, w : v = s[j].vector /\ w = s[k].vector
        OBVIOUS
      <4>2. FusedScore(v) >= FusedScore(w)
        BY <3>1, <3>2, <4>1
      <4> QED
        BY <2>7, <4>1, <4>2
    <3> QED
      BY <1>1, <2>5, <2>7, <3>2, Zenon DEF FusionMonotone
  <2>10. ResultsSound'
    BY <1>1, <2>9 DEF ResultsSound, RankingSound, BestReturned, CompletionKeeps
  <2> QED
    BY <1>1, <2>2, <2>5, <2>8, <2>10 DEF RankingInv, Stages, HitsTyped
<1> QED
  BY <1>4, <1>5


LEMMA RerankStep ==
    ASSUME RankingInv, Rerank
    PROVE  RankingInv'
<1>1. srStage' = "process" /\ UNCHANGED <<srQuery, srLists, srHits, srResults>>
  BY DEF Rerank
<1>2. PICK pool : pool = IF srQuery.mode = "reranked" THEN Upto(RerankPool, srRanked) ELSE srRanked
  OBVIOUS
<1>3. pool \in Seq(RankedType)
  <2>1. srRanked \in Seq(RankedType) /\ RerankPool \in Nat
    BY SearchRankingAssumption DEF RankingInv
  <2>2. Upto(RerankPool, srRanked) \in Seq(RankedType)
    BY <2>1, UptoIs
  <2> QED
    BY <1>2, <2>1, <2>2
<1>4. PICK n \in Nat : n = Len(pool) /\ DOMAIN pool = 1..n /\ \A k \in 1..n : pool[k] \in RankedType
  BY <1>3, LenProperties, ElementOfSeq
<1>5. srRanked' \in Seq(RankedType) /\ srUnit' \in Nat
  <2>1. CASE srRanked' = pool /\ UNCHANGED srUnit
    BY <1>3, <2>1 DEF RankingInv
  <2>2. CASE ~(srRanked' = pool /\ UNCHANGED srUnit)
    <3>1. PICK s \in [DOMAIN pool -> 0..SrTop] :
             srRanked' = Reordered([k \in DOMAIN pool |->
                            [vector |-> pool[k].vector, relevance |-> s[k] * One]], s)
             /\ srUnit' = SrTop * One
      BY <1>2, <2>2 DEF Rerank
    <3>2. PICK one \in Nat, top \in Nat : one = One /\ top = SrTop
      BY OneIs, SearchRankingAssumption
    <3>3. srUnit' \in Nat
      BY <3>1, <3>2
    <3>4. PICK t : t = [k \in 1..n |-> [vector |-> pool[k].vector, relevance |-> s[k] * One]]
      OBVIOUS
    <3>5. s \in [1..n -> Nat]
      BY <1>4, <3>1, <3>2
    <3>6. ASSUME NEW k \in 1..n PROVE t[k] \in RankedType
      <4>1. pool[k] \in RankedType /\ s[k] \in Nat
        BY <1>4, <3>5
      <4>2. pool[k].vector \in SrIds
        BY <4>1 DEF RankedType
      <4>3. PICK y \in Nat : y = s[k]
        BY <4>1
      <4>4. y * one \in Nat
        BY <3>2, <4>3
      <4>5. PICK v, x : v = pool[k].vector /\ x = s[k] * One
        OBVIOUS
      <4>6. v \in SrIds /\ x \in Nat
        BY <3>2, <4>2, <4>3, <4>4, <4>5
      <4>7. t[k] = [vector |-> v, relevance |-> x]
        BY <3>4, <4>5
      <4> QED
        BY ONLY <4>6, <4>7 DEF RankedType
    <3>7. Len(t) = n /\ DOMAIN t = 1..n
      <4>1. t = [k \in 1..n |-> t[k]]
        BY <3>4
      <4>2. [k \in 1..n |-> t[k]] \in Seq(RankedType)
        BY <1>4, <3>6
      <4>3. t \in Seq(RankedType)
        BY <4>1, <4>2
      <4> QED
        BY <1>4, <3>4, <4>3, LenProperties
    <3>8. srRanked' = Reordered(t, s)
      BY <1>4, <3>1, <3>4
    <3>9. PICK p : Permuted(Reordered(t, s), t, p)
      BY <1>4, <3>5, <3>7, ReorderedIs
    <3>10. Reordered(t, s) = [k \in 1..n |-> t[p[k]]] /\ \A k \in 1..n : p[k] \in 1..n
      BY <3>7, <3>9 DEF Permuted, Enumerates
    <3>11. \A k \in 1..n : t[p[k]] \in RankedType
      BY <3>6, <3>10
    <3>12. [k \in 1..n |-> t[p[k]]] \in Seq(RankedType)
      BY <1>4, <3>11
    <3> QED
      BY <3>3, <3>8, <3>10, <3>12
  <2> QED
    BY <2>1, <2>2
<1>6. ResultsSound'
  BY <1>1 DEF ResultsSound, RankingSound, FusionMonotone, BestReturned, CompletionKeeps
<1>7. srStage # "ask"
  BY DEF Rerank
<1> QED
  BY <1>1, <1>5, <1>6, <1>7 DEF RankingInv, Stages, HitsTyped

LEMMA ImportanceIs ==
    ASSUME NEW kind \in ContentTypes
    PROVE  Importance(kind) \in Nat
<1>1. \/ kind = "DecisionPoint" \/ kind = "ProblemSolution" \/ kind = "UserMessage"
      \/ kind = "UpdateContent" \/ kind = "CodeSnippet" \/ kind = "EntityDescription"
      \/ kind = "Message" \/ kind = "SessionMetadata"
  BY DEF ContentTypes
<1> QED
  BY <1>1 DEF Importance

LEMMA ResultIs ==
    ASSUME NEW r \in RankedType, srUnit \in Nat
    PROVE  /\ AsResult(r).score \in Nat /\ AsResult(r).old \in BOOLEAN
           /\ DOMAIN AsResult(r) = HitFields
<1>1. PICK v \in SrIds, x \in Nat : v = r.vector /\ x = r.relevance
  BY DEF RankedType
<1>2. PICK w \in Nat, u \in Nat : w = Importance(SrVector[v].kind) /\ u = srUnit
  BY ImportanceIs, SearchRankingAssumption
<1>3. PICK b \in Nat : b = BaseScore(r)
  <2>1. BaseScore(r) = 70 * x + 3 * w * u
    BY <1>1, <1>2 DEF BaseScore
  <2>2. PICK y \in Nat : y = w * u
    OBVIOUS
  <2>3. 3 * w * u = 3 * y
    BY <2>2
  <2>4. 70 * x + 3 * y \in Nat
    OBVIOUS
  <2> QED
    BY <2>1, <2>3, <2>4
<1>4. b \div 2 \in Nat
  OBVIOUS
<1>5. PICK d \in Nat : d = Adjusted(r)
  BY <1>3, <1>4 DEF Adjusted
<1>6. Combined(r) \in Nat
  <2>1. 5 * u \in Nat
    OBVIOUS
  <2> QED
    BY <1>2, <1>5, <2>1 DEF Combined
<1>7. PICK c, o : c = Combined(r) /\ o = SrVector[r.vector].old
  OBVIOUS
<1>8. AsResult(r) = [session |-> SrVector[r.vector].source, id |-> ContentOf(r.vector),
                     score |-> c, old |-> o, of |-> Unset]
  BY <1>7 DEF AsResult
<1>9. o \in BOOLEAN
  BY <1>1, <1>7, SearchRankingAssumption
<1>10. AsResult(r).score = c /\ AsResult(r).old = o
       /\ DOMAIN AsResult(r) = {"session", "id", "score", "old", "of"}
  BY ONLY <1>8
<1> QED
  BY <1>6, <1>7, <1>9, <1>10 DEF HitFields


\* What BestReturned says of the hits for one of the results.
Answered(hits, limit, r) ==
    \/ \E j \in DOMAIN hits : hits[j].id = r.id /\ hits[j].score >= r.score
    \/ Len(hits) = limit /\ \A j \in DOMAIN hits : hits[j].score >= r.score
Best(hits, limit, results, n) ==
    /\ Len(hits) \in Nat /\ DOMAIN hits = 1..Len(hits) /\ Len(hits) <= limit
    /\ \A j, k \in DOMAIN hits : j < k => hits[j].score >= hits[k].score
    /\ \A k \in 1..n : Answered(hits, limit, results[k])
    /\ \A j, k \in DOMAIN hits : hits[j].id = hits[k].id => j = k
    /\ \A j \in DOMAIN hits : \E k \in 1..n : hits[j] = results[k]

LEMMA BestAreReturned ==
    ASSUME NEW results, NEW n, Scored(results, n), NEW limit \in Nat,
           NEW q \in Orders(Deduplicated(results), ResultScore)
    PROVE  Best(Upto(limit, q), limit, results, n)
<1>1. PICK D : D = Deduplicated(results)
  OBVIOUS
<1>2. PICK m : m \in Nat /\ Enumerates(q, D, m)
  <2>1. IsFiniteSet(D) /\ q \in SetToSeqs(D)
    BY <1>1, DeduplicatedIs DEF Orders
  <2> QED
    BY <2>1, SeqsEnumerate
<1>3. /\ q \in [1..m -> D] /\ \A i, j \in 1..m : i # j => q[i] # q[j]
      /\ \A x \in D : \E i \in 1..m : q[i] = x
  BY <1>2 DEF Enumerates
<1>4. \A j, k \in 1..m : j < k => q[j].score >= q[k].score
  BY <1>1, <1>3 DEF Orders, Sorted, ResultScore
<1>5. q \in Seq(D) /\ Len(q) = m
  <2>1. q = [i \in 1..m |-> q[i]] /\ \A i \in 1..m : q[i] \in D
    BY <1>3
  <2>2. [i \in 1..m |-> q[i]] \in Seq(D)
    BY <1>2, <2>1
  <2>3. q \in Seq(D)
    BY <2>1, <2>2
  <2>4. Len(q) \in Nat /\ DOMAIN q = 1..Len(q)
    BY <2>3, LenProperties
  <2> QED
    BY <1>2, <1>3, <2>3, <2>4, LenProperties
<1>6. PICK h, l : h = Upto(limit, q) /\ l = Len(h)
  OBVIOUS
<1>7. /\ l \in Nat /\ l <= limit /\ l <= m /\ l = Smaller(limit, m) /\ h \in Seq(D)
      /\ \A i \in 1..l : i \in 1..m /\ h[i] = q[i]
  BY <1>5, <1>6, UptoIs
<1>8. DOMAIN h = 1..l
  BY <1>6, <1>7, LenProperties
<1>9. ASSUME NEW r \in D PROVE r.score \in Nat
  <2>1. PICK k \in 1..n : r = results[k]
    BY <1>1, <1>9, DeduplicatedIs
  <2> QED
    BY <2>1 DEF Scored
<1>10. ASSUME NEW k \in 1..n PROVE Answered(h, limit, results[k])
  <2>1. PICK r \in D : r.id = results[k].id /\ r.score >= results[k].score
    BY <1>1, DeduplicatedIs
  <2>2. PICK i \in 1..m : q[i] = r
    BY <1>3
  <2>3. CASE i <= l
    <3>1. i \in 1..l
      BY <1>7, <2>3
    <3>2. i \in DOMAIN h /\ h[i] = r
      BY <1>7, <1>8, <2>2, <3>1
    <3> QED
      BY <2>1, <3>2 DEF Answered
  <2>4. CASE ~(i <= l)
    <3>1. l = limit
      BY <1>2, <1>7, <2>4 DEF Smaller
    <3>2. ASSUME NEW j \in 1..l PROVE h[j].score >= results[k].score
      <4>1. j \in 1..m /\ h[j] = q[j] /\ j < i
        BY <1>7, <2>4
      <4>2. q[j].score >= r.score
        BY <1>4, <2>2, <4>1
      <4>3. q[j] \in D
        BY <1>3, <4>1
      <4>4. q[j].score \in Nat /\ r.score \in Nat /\ results[k].score \in Nat
        BY <1>9, <4>3 DEF Scored
      <4>5. q[j].score >= results[k].score
        BY <2>1, <4>2, <4>4
      <4> QED
        BY <4>1, <4>5
    <3> QED
      BY <1>6, <1>8, <3>1, <3>2 DEF Answered
  <2> QED
    BY <2>3, <2>4
<1>11. ASSUME NEW j \in 1..l, NEW k \in 1..l, h[j].id = h[k].id PROVE j = k
  <2>1. j \in 1..m /\ k \in 1..m /\ h[j] = q[j] /\ h[k] = q[k]
    BY <1>7
  <2>2. q[j] \in D /\ q[k] \in D
    BY <1>3, <2>1
  <2>3. q[j] = q[k]
    BY <1>1, <1>11, <2>1, <2>2, DeduplicatedIs
  <2> QED
    BY <1>3, <2>1, <2>3
<1>12. \A j, k \in 1..l : j < k => h[j].score >= h[k].score
  BY <1>4, <1>7
<1>13. ASSUME NEW j \in 1..l PROVE \E k \in 1..n : h[j] = results[k]
  <2>1. h[j] \in D
    BY <1>3, <1>7
  <2> QED
    BY <1>1, <2>1, DeduplicatedIs
<1>14. Best(h, limit, results, n)
  BY <1>6, <1>7, <1>8, <1>10, <1>11, <1>12, <1>13 DEF Best
<1> QED
  BY <1>6, <1>14

LEMMA ProcessStep ==
    ASSUME RankingInv, Process
    PROVE  RankingInv'
<1>1. srStage = "process" /\ srStage' = "complete"
      /\ UNCHANGED <<srQuery, srLists, srRanked, srUnit, srResults>>
  BY DEF Process
<1>2. PICK n, limit : n \in Nat /\ limit \in Nat /\ n = Len(srRanked) /\ DOMAIN srRanked = 1..n
                      /\ limit = srQuery.limit
  <2>1. srRanked \in Seq(RankedType) /\ srQuery.limit \in Nat
    BY DEF RankingInv
  <2> QED
    BY <2>1, LenProperties
<1>3. \A k \in 1..n : srRanked[k] \in RankedType
  <2>1. srRanked \in Seq(RankedType)
    BY DEF RankingInv
  <2> QED
    BY <1>2, <2>1, ElementOfSeq
<1>4. PICK results : results = [k \in 1..n |-> AsResult(srRanked[k])]
  OBVIOUS
<1>5. \A k \in 1..n : results[k] = AsResult(srRanked[k])
  BY <1>4
<1>6. /\ Scored(results, n)
      /\ \A k \in 1..n : DOMAIN results[k] = HitFields
  <2>1. srUnit \in Nat
    BY DEF RankingInv
  <2>2. ASSUME NEW k \in 1..n
        PROVE  /\ results[k].score \in Nat /\ results[k].old \in BOOLEAN
               /\ DOMAIN results[k] = HitFields
    BY <1>3, <1>5, <2>1, ResultIs
  <2>3. n \in Nat /\ DOMAIN results = 1..n
    BY <1>2, <1>4
  <2> QED
    BY <2>2, <2>3 DEF Scored
<1>7. PICK h : h = srHits'
  OBVIOUS
<1>8. Best(h, limit, results, n)
  <2>1. PICK q \in Orders(Deduplicated(results), ResultScore) : srHits' = Upto(limit, q)
    BY <1>2, <1>4 DEF Process
  <2> QED
    BY <1>2, <1>6, <1>7, <2>1, BestAreReturned
<1>9. Len(h) \in Nat /\ DOMAIN h = 1..Len(h)
      /\ \A k \in DOMAIN h : DOMAIN h[k] = HitFields /\ h[k].score \in Nat
  <2>1. ASSUME NEW j \in DOMAIN h PROVE DOMAIN h[j] = HitFields /\ h[j].score \in Nat
    <3>1. PICK k \in 1..n : h[j] = results[k]
      BY <1>8 DEF Best
    <3> QED
      BY <1>6, <3>1 DEF Scored
  <2> QED
    BY <1>8, <2>1 DEF Best
<1>10. BestReturned(SameContent)'
  <2>1. Len(srHits') <= srQuery'.limit
    BY <1>1, <1>2, <1>7, <1>8 DEF Best
  <2>2. Sorted(srHits', ResultScore)
    BY <1>7, <1>8 DEF Best, Sorted, ResultScore
  <2>3. ASSUME NEW k \in DOMAIN srRanked'
        PROVE  \/ \E j \in DOMAIN srHits' : SameContent(srHits'[j], AsResult(srRanked[k])')
                                            /\ srHits'[j].score >= AsResult(srRanked[k])'.score
               \/ /\ Len(srHits') = srQuery'.limit
                  /\ \A j \in DOMAIN srHits' : srHits'[j].score >= AsResult(srRanked[k])'.score
    <3>1. k \in 1..n /\ srRanked'[k] = srRanked[k]
      BY <1>1, <1>2
    <3>2. Answered(h, limit, results[k])
      BY <1>8, <3>1 DEF Best
    <3>3. AsResult(srRanked[k])' = results[k]
      <4>1. AsResult(srRanked[k])' = AsResult(srRanked[k])
        BY <1>1 DEF AsResult, Combined, Adjusted, BaseScore
      <4> QED
        BY <1>5, <3>1, <4>1
    <3> QED
      BY <1>1, <1>2, <1>7, <3>2, <3>3 DEF Answered, SameContent
  <2>4. \A j, k \in DOMAIN srHits' : srHits'[j].id = srHits'[k].id => j = k
    BY <1>7, <1>8 DEF Best
  <2> QED
    BY <2>1, <2>2, <2>3, <2>4, Zenon DEF BestReturned
<1>11. ResultsSound'
  BY <1>1, <1>10 DEF ResultsSound, RankingSound, FusionMonotone, CompletionKeeps
<1>12. HitsTyped'
  BY <1>7, <1>9 DEF HitsTyped, HitFields
<1> QED
  BY <1>1, <1>7, <1>9, <1>11, <1>12 DEF RankingInv, Stages

\* Weighing changes scores and the order, and nothing else.
LEMMA WeighedIs ==
    ASSUME RankingInv, srStage = "complete"
    PROVE  GoodHits(Weighed)
<1>1. PICK N : N \in Nat /\ N = Len(srHits) /\ DOMAIN srHits = 1..N
  BY DEF RankingInv
<1>2. /\ \A k \in 1..N : DOMAIN srHits[k] = HitFields /\ srHits[k].score \in Nat
      /\ \A j, k \in 1..N : srHits[j].id = srHits[k].id => j = k
  <2>1. HitsTyped /\ BestReturned(SameContent)
    BY DEF RankingInv, ResultsSound, RankingSound
  <2>2. \A j, k \in DOMAIN srHits : srHits[j].id = srHits[k].id => j = k
    BY <2>1 DEF BestReturned
  <2> QED
    BY <1>1, <2>1, <2>2 DEF HitsTyped, HitFields
<1>3. PICK half : half = [k \in 1..N |-> IF srHits[k].id \in SrEnded
                              THEN [srHits[k] EXCEPT !.score = @ \div 2] ELSE srHits[k]]
  OBVIOUS
<1>4. ASSUME NEW k \in 1..N
      PROVE  DOMAIN half[k] = HitFields /\ half[k].score \in Nat /\ half[k].id = srHits[k].id
  <2>1. PICK hit : hit = srHits[k] /\ DOMAIN hit = HitFields /\ hit.score \in Nat
    BY <1>2
  <2>2. hit.score \div 2 \in Nat
    BY <2>1
  <2>3. PICK x \in Nat : x = hit.score \div 2
    BY <2>2
  <2>4. half[k] = IF hit.id \in SrEnded THEN [hit EXCEPT !.score = x] ELSE hit
    BY <1>3, <2>1, <2>3
  <2>5. DOMAIN [hit EXCEPT !.score = x] = HitFields /\ [hit EXCEPT !.score = x].score = x
        /\ [hit EXCEPT !.score = x].id = hit.id
    BY <2>1 DEF HitFields
  <2> QED
    BY <2>1, <2>4, <2>5
<1>5. Weighed = IF half = srHits THEN half
                ELSE Reordered(half, [k \in DOMAIN half |-> half[k].score])
  BY <1>1, <1>3 DEF Weighed
<1>6. Len(half) = N /\ DOMAIN half = 1..N
  <2>1. DOMAIN half = 1..N
    BY <1>3
  <2>2. PICK T : T = {half[k] : k \in 1..N}
    OBVIOUS
  <2>3. half = [k \in 1..N |-> half[k]] /\ \A k \in 1..N : half[k] \in T
    BY <1>3, <2>2
  <2>4. [k \in 1..N |-> half[k]] \in Seq(T)
    BY <1>1, <2>3
  <2>5. half \in Seq(T)
    BY <2>3, <2>4
  <2> QED
    BY <1>1, <2>1, <2>5, LenProperties
<1>7. CASE half = srHits
  BY <1>1, <1>2, <1>5, <1>7 DEF GoodHits
<1>8. CASE half # srHits
  <2>1. PICK score : score = [k \in 1..N |-> half[k].score]
    OBVIOUS
  <2>2. score \in [1..N -> Nat]
    BY <1>4, <2>1
  <2>3. PICK t : t = Reordered(half, score)
    OBVIOUS
  <2>4. t = Weighed
    BY <1>5, <1>6, <1>8, <2>1, <2>3
  <2>5. PICK p : Permuted(t, half, p)
    BY <1>1, <1>6, <2>2, <2>3, ReorderedIs
  <2>6. /\ t = [i \in 1..N |-> half[p[i]]]
        /\ \A i \in 1..N : p[i] \in 1..N
        /\ \A i, j \in 1..N : i # j => p[i] # p[j]
    BY <1>6, <2>5 DEF Permuted, Enumerates
  <2>7. DOMAIN t = 1..N /\ \A i \in 1..N : t[i] = half[p[i]]
    BY <2>6
  <2>8. Len(t) = N
    <3>1. PICK T : T = {t[k] : k \in 1..N}
      OBVIOUS
    <3>2. t = [k \in 1..N |-> t[k]] /\ \A k \in 1..N : t[k] \in T
      BY <2>6, <3>1
    <3>3. [k \in 1..N |-> t[k]] \in Seq(T)
      BY <1>1, <3>2
    <3>4. t \in Seq(T)
      BY <3>2, <3>3
    <3> QED
      BY <1>1, <2>7, <3>4, LenProperties
  <2>9. \A i \in 1..N : DOMAIN t[i] = HitFields /\ t[i].score \in Nat
    BY <1>4, <2>6, <2>7
  <2>10. ASSUME NEW i \in 1..N, NEW j \in 1..N, t[i].id = t[j].id PROVE i = j
    <3>1. p[i] \in 1..N /\ p[j] \in 1..N /\ t[i] = half[p[i]] /\ t[j] = half[p[j]]
      BY <2>6, <2>7
    <3>2. srHits[p[i]].id = srHits[p[j]].id
      BY <1>4, <2>10, <3>1
    <3>3. p[i] = p[j]
      BY <1>2, <3>1, <3>2
    <3> QED
      BY <2>6, <3>3
  <2>11. GoodHits(t)
    BY <1>1, <2>7, <2>8, <2>9, <2>10 DEF GoodHits
  <2> QED
    BY <2>4, <2>11
<1> QED
  BY <1>7, <1>8

LEMMA CompleteStep ==
    ASSUME RankingInv, Complete
    PROVE  RankingInv'
<1>1. /\ srStage = "complete" /\ srStage' = "done"
      /\ UNCHANGED <<srQuery, srLists, srRanked, srUnit>>
      /\ srHits' = Weighed /\ srResults' = Unrepeated(Contributed(Weighed))
  BY DEF Complete
<1>2. PICK h : h = Weighed /\ GoodHits(h)
  BY <1>1, WeighedIs
<1>3. Completed(srResults', srHits')
  BY <1>1, <1>2, CompletedIs
<1>4. CompletionKeeps'
  BY <1>3, Zenon DEF CompletionKeeps, Completed
<1>5. ResultsSound'
  BY <1>1, <1>4 DEF ResultsSound, RankingSound, FusionMonotone, BestReturned
<1>6. Len(srHits') \in Nat /\ DOMAIN srHits' = 1..Len(srHits') /\ HitsTyped'
  BY <1>1, <1>2 DEF GoodHits, HitsTyped, HitFields
<1> QED
  BY <1>1, <1>5, <1>6 DEF RankingInv, Stages

LEMMA RankingInvHolds == RankingSpec => []RankingInv
<1>1. RankingInit => RankingInv
  <2> SUFFICES ASSUME RankingInit PROVE RankingInv
    OBVIOUS
  <2>1. srQuery.limit \in SrLimits /\ srQuery.similarity \in Scores /\ srQuery.bm25 \in Scores
    BY DEF RankingInit
  <2>2. srQuery.limit \in Nat
    BY <2>1, SearchRankingAssumption
  <2>3. /\ srStage = "ask" /\ srUnit = 1 /\ srRanked = <<>> /\ srHits = <<>>
    BY DEF RankingInit
  <2>4. <<>> \in Seq(RankedType) /\ Len(<<>>) = 0 /\ DOMAIN <<>> = 1..0
    BY EmptySeq
  <2>5. ResultsSound
    BY <2>3 DEF ResultsSound, RankingSound, FusionMonotone, BestReturned, CompletionKeeps
  <2>6. HitsTyped
    BY <2>3, <2>4 DEF HitsTyped
  <2> QED
    BY <2>1, <2>2, <2>3, <2>4, <2>5, <2>6 DEF RankingInv, Stages
<1>2. RankingInv /\ [RankingNext]_rankingVars => RankingInv'
  <2> SUFFICES ASSUME RankingInv, [RankingNext]_rankingVars PROVE RankingInv'
    OBVIOUS
  <2>1. CASE UNCHANGED rankingVars
    <3>1. UNCHANGED <<srQuery, srStage, srLists, srRanked, srUnit, srHits, srResults>>
      BY <2>1 DEF rankingVars
    <3>2. FusionMonotone'
      BY <3>1 DEF RankingInv, ResultsSound, RankingSound, FusionMonotone, FusedScore
    <3>3. BestReturned(SameContent)'
      BY <3>1 DEF RankingInv, ResultsSound, RankingSound, BestReturned, AsResult, Combined, Adjusted,
         BaseScore
    <3>4. CompletionKeeps'
      BY <3>1 DEF RankingInv, ResultsSound, CompletionKeeps
    <3> QED
      BY <3>1, <3>2, <3>3, <3>4 DEF RankingInv, ResultsSound, RankingSound, HitsTyped
  <2> QED
    BY <2>1, RetrieveStep, RankStep, RerankStep, ProcessStep, CompleteStep DEF RankingNext
<1> QED
  BY <1>1, <1>2, PTL DEF RankingSpec

\* ResultsSound in every state: fusing keeps the order the rankings agree on,
\* the hits are the best of the candidates, one per content id, and completing
\* them loses, changes and repeats none (content_vectorizer/search.rs,
\* memory_system/neighbours.rs).
THEOREM ResultsAreSound == RankingSpec => []ResultsSound
<1>1. RankingInv => ResultsSound
  BY DEF RankingInv
<1> QED
  BY <1>1, RankingInvHolds, PTL

=============================================================================
