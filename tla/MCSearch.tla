------------------------------- MODULE MCSearch -------------------------------
(* Small instances of what a search rests on: the query cache, the ranking,  *)
(* the vectorizer and its chunks, the vector index, and the freshness of the *)
(* sources.  These parts share no state, so a behaviour exercises one of     *)
(* them and the others stay as they were.                                    *)
EXTENDS QueryCache, Vectorizer, SearchRanking, TextChunks, VectorDb, Freshness, TLC

VARIABLE part   \* the part this behaviour is about

searchVars == <<part, queryCacheVars, vectorizerVars, rankingVars, chunkVars, vectorVars, freshnessVars>>

NoQuery ==
    [scope |-> {"s"}, limit |-> 1, mode |-> "fast", prefer |-> "me", bias |-> 1, corpus |-> "records",
     similarity |-> [v \in SrIds |-> 0], bm25 |-> [v \in SrIds |-> 0]]

SearchInit ==
    /\ part \in {"cache", "vectorizer", "ranking", "chunks", "index", "freshness"}
    /\ VectorizerInit /\ VectorInit
    /\ QueryCacheInit /\ (part # "cache" => qcBackend = "rocksdb")
    /\ RankingInit /\ (part # "ranking" => srQuery = NoQuery)
    /\ ChunksInit /\ (part # "chunks" => tcText.chars = 0 /\ tcText.size = 2 /\ tcText.overlap = 0)
    /\ FreshnessInit /\ (part # "freshness" => frBackend = "rocksdb")

SearchNext ==
    \/ /\ part = "cache" /\ QueryCacheNext
       /\ UNCHANGED <<part, vectorizerVars, rankingVars, chunkVars, vectorVars, freshnessVars>>
    \/ /\ part = "vectorizer" /\ VectorizerNext
       /\ UNCHANGED <<part, queryCacheVars, rankingVars, chunkVars, vectorVars, freshnessVars>>
    \/ /\ part = "ranking" /\ RankingNext
       /\ UNCHANGED <<part, queryCacheVars, vectorizerVars, chunkVars, vectorVars, freshnessVars>>
    \/ /\ part = "chunks" /\ ChunksNext
       /\ UNCHANGED <<part, queryCacheVars, vectorizerVars, rankingVars, vectorVars, freshnessVars>>
    \/ /\ part = "index" /\ VectorNext
       /\ UNCHANGED <<part, queryCacheVars, vectorizerVars, rankingVars, chunkVars, freshnessVars>>
    \/ /\ part = "freshness" /\ FreshnessNext
       /\ UNCHANGED <<part, queryCacheVars, vectorizerVars, rankingVars, chunkVars, vectorVars>>

SearchSpec == SearchInit /\ [][SearchNext]_searchVars

-----------------------------------------------------------------------------
(* Constants. *)

MCQcHome == [c \in QcContents |-> "s"]
MCQcScopes == {AllSessions, OneSession("t"), SomeSessions({"s", "t"})}
MCQcLoaded == {{"c"}}

MCVzChunks == [u \in VzUpdates |-> IF u = "u1" THEN 2 ELSE 1]

Vector(s, i, p, k, a, o, t) ==
    [source |-> s, id |-> i, parent |-> p, kind |-> k, author |-> a, old |-> o, text |-> t]
MCSrVector ==
    << Vector("s", "u", "", "UpdateContent", "", FALSE, "x"),
       Vector("s", "u#2", "u", "UpdateContent", "", FALSE, "y"),
       Vector("s", "w", "", "DecisionPoint", "me", TRUE, "y"),
       Vector("t", "n", "", "EntityDescription", "", FALSE, "z") >>
MCSrUpdates == ("s" :> <<"a", "u", "w">>) @@ ("t" :> <<"d">>)
MCSrScopes == {{"s"}, {"s", "t"}}

MCVdBatch == ("l1" :> <<1>>) @@ ("l2" :> <<2, 3>>)
MCVdSource == <<"t", "s", "t">>
MCVdDoomed == [r \in VdRemovers |-> "s"]

Ref(e, f, n, h, a) == [entry |-> e, file |-> f, name |-> n, hash |-> h, ast |-> a]
MCFrRefs == {Ref("e1", "A", "f", "1", "x"), Ref("e1", "B", "none", "1", "none"), Ref("e2", "B", "g", "1", "none")}
MCFrDeps == (<<"B", "g">> :> {<<"C", "C::h">>}) @@ (<<"C", "C::h">> :> {<<"any", "f">>, <<"B", "g">>})
MCFrChanged == {<<<<"A", "f">>, 2>>}
MCFrLast == ("f" :> "f") @@ ("g" :> "g") @@ ("C::h" :> "h")
MCFrOld == {{Ref("e1", "A", "f", "1", "x"), Ref("e2", "B", "g", "1", "none")}}
\* The searches, and the tasks that deal with freshness, are interchangeable.
Symmetry == Permutations(QcSearchers)
=============================================================================
