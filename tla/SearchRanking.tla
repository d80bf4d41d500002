--------------------------- MODULE SearchRanking ----------------------------
(***************************************************************************)
(* How a semantic search ranks (post-cortex-memory, content_vectorizer/    *)
(* search.rs, memory_system/neighbours.rs; post-cortex-embeddings,         *)
(* vector_db/core.rs, common.rs, text_index.rs): the vectors and the BM25  *)
(* hits of the sessions searched, fused by reciprocal rank, reranked,      *)
(* scored, reduced to one result per content id, cut at the limit, and     *)
(* completed with the neighbours of every hit.                             *)
(*                                                                         *)
(* Similarities, BM25 and reranker scores are small integers chosen freely *)
(* for every vector; the arithmetic on ranks is exact.  Equal scores come  *)
(* out of hash maps, so their order is a choice.                           *)
(***************************************************************************)
EXTENDS Integers, FiniteSets, Sequences, SequencesExt

CONSTANTS SrVector,        \* vector id -> its metadata
          SrUpdates,       \* session -> sequence of its update ids
          SrEnded,         \* update ids a later record or `forget` ended
          SrScopes,        \* sets of sessions to search
          SrLimits, SrModes, SrPrefers, SrBiases, SrCorpora,
          SrTop,           \* the highest similarity and score
          FusionDepth, RerankPool, Radius

SrIds == DOMAIN SrVector
RecordKey(v) == <<SrVector[v].source, SrVector[v].id>>
ContentTypes == {"DecisionPoint", "ProblemSolution", "UserMessage", "UpdateContent", "CodeSnippet",
          "EntityDescription", "Message", "SessionMetadata"}
Scores == [SrIds -> 0..SrTop]
Unset == ""          \* no parent, author or neighbour

\* Vectors are numbered as they come; there is one per record and chunk.
ASSUME SearchRankingAssumption ==
    /\ SrIds \subseteq Nat /\ IsFiniteSet(SrIds)
    /\ \A v \in SrIds : /\ {"source", "id", "parent", "kind", "author", "old", "text"}
                                = DOMAIN SrVector[v]
                         /\ SrVector[v].kind \in ContentTypes /\ SrVector[v].old \in BOOLEAN
    /\ \A v, w \in SrIds : RecordKey(v) = RecordKey(w) => v = w
    /\ \A s \in DOMAIN SrUpdates : /\ Len(SrUpdates[s]) \in Nat
                                   /\ DOMAIN SrUpdates[s] = 1..Len(SrUpdates[s])
    /\ SrTop \in Nat \ {0} /\ FusionDepth \in Nat /\ RerankPool \in Nat /\ Radius \in Nat
    /\ SrLimits \subseteq Nat

VARIABLES srQuery,       \* what is asked, and what the three scorers say
          srStage, srLists,
          srRanked,      \* sequence of [vector, relevance], in units of srUnit
          srUnit,        \* what a relevance of 1.0 is
          srHits, srResults

rankingVars == <<srQuery, srStage, srLists, srRanked, srUnit, srHits, srResults>>

\* mode: fast, or reranked; bm25: 0 does not match; indexed: a full-text index
\* answered; scores: what the reranker returns, failed: nothing usable.
RankingInit ==
    /\ srQuery \in [scope : SrScopes, limit : SrLimits, mode : SrModes,
                    prefer : SrPrefers, bias : SrBiases, corpus : SrCorpora,
                    similarity : Scores, bm25 : Scores]
    /\ srStage = "ask" /\ srLists = <<>> /\ srRanked = <<>> /\ srUnit = 1
    /\ srHits = <<>> /\ srResults = <<>>

Sorted(seq, score(_)) == \A j, k \in DOMAIN seq : j < k => score(seq[j]) >= score(seq[k])
\* The elements of a hash map, sorted by score.
Orders(S, score(_)) == {q \in SetToSeqs(S) : Sorted(q, score)}
\* The places of score, best first, equal scores in their order: a stable sort.
ByScore(score) ==
    CHOOSE q \in SetToSeqs(DOMAIN score) : \A i, j \in DOMAIN q :
        score[q[i]] > score[q[j]] \/ (score[q[i]] = score[q[j]] /\ q[i] < q[j]) => i < j
Reordered(seq, score) == [k \in DOMAIN ByScore(score) |-> seq[ByScore(score)[k]]]
Larger(a, b) == IF a > b THEN a ELSE b
Smaller(a, b) == IF a < b THEN a ELSE b
Upto(k, seq) == SubSeq(seq, 1, Smaller(k, Len(seq)))

----------------------------------------------------------------------------
(* Candidates.                                                             *)

\* TopK: the k best, ties to the lower id.
TopK(ids, score, k) == Upto(k, ByScore([v \in ids |-> score[v]]))

Admits(v) ==
    \/ srQuery.corpus = "all"
    \/ (srQuery.corpus = "messages") = (SrVector[v].kind = "Message")
SourceIds == {v \in SrIds : SrVector[v].source \in srQuery.scope}
PoolDepth == IF srQuery.mode = "reranked" THEN RerankPool ELSE FusionDepth

\* None when no word of the query is left or the index does not answer.
LexicalLists ==
    LET hits == {v \in SourceIds : Admits(v) /\ srQuery.bm25[v] > 0}
    IN  {<<>>, TopK(hits, srQuery.bm25, Larger(srQuery.limit, PoolDepth))}

SearchDepth(lexical) ==
    IF srQuery.mode = "reranked" THEN Larger(srQuery.limit, RerankPool)
    ELSE IF lexical # <<>> THEN Larger(srQuery.limit, FusionDepth)
    ELSE srQuery.limit

Retrieve ==
    /\ srStage = "ask" /\ srStage' = "rank"
    /\ \E lexical \in LexicalLists :
          srLists' = <<TopK({v \in SourceIds : Admits(v)}, srQuery.similarity, SearchDepth(lexical)),
                       lexical>>
    /\ UNCHANGED <<srQuery, srRanked, srUnit, srHits, srResults>>

----------------------------------------------------------------------------
(* Fusion.                                                                 *)

\* Divisible by RRF_K + 1 + rank for a rank < 4; from there on shares are rounded.
RankUnit == 61 * 31 * 63 * 64
PositionOf(v, list) == CHOOSE k \in DOMAIN list : list[k] = v
Listed(v, list) == \E k \in DOMAIN list : list[k] = v

\* The rank of the k-th record: adjacent records with the same text share that
\* of the first of them.
RankAt(list, k) ==
    Max({j \in 1..k : j = 1 \/ SrVector[list[j]].text # SrVector[list[j - 1]].text}) - 1
RankIn(v, list) == RankAt(list, PositionOf(v, list))

\* Mutant: the rank counts from the end of the list.
Share_reversed(v, list) == RankUnit \div (61 + Len(list) - 1 - RankIn(v, list))

Share(v, list) == RankUnit \div (61 + RankIn(v, list))

FusedScore(v) ==
    (IF Listed(v, srLists[1]) THEN Share(v, srLists[1]) ELSE 0)
       + (IF Listed(v, srLists[2]) THEN Share(v, srLists[2]) ELSE 0)

Candidates == ToSet(srLists[1]) \cup ToSet(srLists[2])
One == RankUnit \div 61

\* Without BM25 hits the relevance is the similarity.
Rank ==
    /\ srStage = "rank" /\ srStage' = "rerank"
    /\ IF srLists[2] = <<>>
       THEN /\ srRanked' = [k \in DOMAIN srLists[1] |->
                              [vector |-> srLists[1][k],
                               relevance |-> srQuery.similarity[srLists[1][k]] * One]]
            /\ srUnit' = SrTop * One
       ELSE /\ \E q \in Orders(Candidates, FusedScore) :
                  srRanked' = [k \in DOMAIN q |->
                                 [vector |-> q[k], relevance |-> FusedScore(q[k])]]
            /\ srUnit' = 2 * One
    /\ UNCHANGED <<srQuery, srLists, srHits, srResults>>

----------------------------------------------------------------------------
(* Reranking and scoring.                                                  *)

Relevance(r) == r.relevance

\* A reranker that fails, or answers for another number of documents, leaves
\* the fused order; the pool is cut either way.
Rerank ==
    /\ srStage = "rerank" /\ srStage' = "process"
    /\ LET pool == IF srQuery.mode = "reranked" THEN Upto(RerankPool, srRanked) ELSE srRanked
       IN  \/ srRanked' = pool /\ UNCHANGED srUnit
           \/ /\ srQuery.mode = "reranked"
              /\ srUnit' = SrTop * One
              /\ \E s \in [DOMAIN pool -> 0..SrTop] :
                    LET scored == [k \in DOMAIN pool |->
                                     [vector |-> pool[k].vector, relevance |-> s[k] * One]]
                    IN  srRanked' = Reordered(scored, s)
    /\ UNCHANGED <<srQuery, srLists, srHits, srResults>>

\* ContentType::importance_weight, in tenths.
Importance(kind) ==
    CASE kind = "DecisionPoint" -> 10 [] kind = "ProblemSolution" -> 9
      [] kind = "UserMessage" -> 8 [] kind = "UpdateContent" -> 7
      [] kind = "CodeSnippet" -> 6 [] kind = "EntityDescription" -> 5
      [] kind = "Message" -> 4 [] kind = "SessionMetadata" -> 3

\* 0.7 relevance + 0.3 importance, decayed with age, raised for the author
\* preferred; in units of srUnit / 100.  An old record loses half.
BaseScore(r) == 70 * r.relevance + 3 * Importance(SrVector[r.vector].kind) * srUnit
Adjusted(r) ==
    IF srQuery.bias > 0 /\ SrVector[r.vector].old THEN BaseScore(r) \div 2 ELSE BaseScore(r)
Combined(r) ==
    Adjusted(r) + (IF srQuery.prefer # Unset /\ SrVector[r.vector].author = srQuery.prefer
                   THEN 5 * srUnit ELSE 0)

\* A chunk of a long update answers for the update.
ContentOf(v) == IF SrVector[v].parent = Unset THEN SrVector[v].id ELSE SrVector[v].parent
AsResult(r) == [session |-> SrVector[r.vector].source, id |-> ContentOf(r.vector),
                score |-> Combined(r), old |-> SrVector[r.vector].old, of |-> Unset]
Better(a, b) == a.score > b.score \/ (a.score = b.score /\ b.old /\ ~a.old)

\* Of the results with one content id the best, the newest, the first.
Deduplicated(results) ==
    {results[k] : k \in {j \in DOMAIN results :
        \A i \in DOMAIN results :
           results[i].id = results[j].id /\ i # j =>
              Better(results[j], results[i]) \/ (~Better(results[i], results[j]) /\ j < i)}}

ResultScore(r) == r.score

\* process_search_results, and the truncation to the limit.
Process ==
    /\ srStage = "process" /\ srStage' = "complete"
    /\ \E q \in Orders(Deduplicated([k \in DOMAIN srRanked |-> AsResult(srRanked[k])]),
                       ResultScore) :
          srHits' = Upto(srQuery.limit, q)
    /\ UNCHANGED <<srQuery, srLists, srRanked, srUnit, srResults>>

----------------------------------------------------------------------------
(* Completion with neighbours.                                             *)

\* weigh_by_validity: an ended update counts half, and the hits are sorted
\* again when one is.
Weighed ==
    LET half == [k \in DOMAIN srHits |->
                   IF srHits[k].id \in SrEnded THEN [srHits[k] EXCEPT !.score = @ \div 2]
                   ELSE srHits[k]]
    IN  IF half = srHits THEN half
        ELSE Reordered(half, [k \in DOMAIN half |-> half[k].score])

Located(hit) == hit.session \in DOMAIN SrUpdates /\ Listed(hit.id, SrUpdates[hit.session])

\* The updates around a hit, the hit's own place included.
PlaceOf(hit) == PositionOf(hit.id, SrUpdates[hit.session])
FirstBeside(hit) == Larger(PlaceOf(hit) - Radius, 1)
LastBeside(hit) == Smaller(PlaceOf(hit) + Radius, Len(SrUpdates[hit.session]))
Window(hit) == FirstBeside(hit)..LastBeside(hit)

\* Update u around a hit: the hit u itself is, or a neighbour with the hit's score.
Beside(u, hit, hits) ==
    LET own == {k \in DOMAIN hits : hits[k].session = hit.session /\ hits[k].id = u}
    IN  IF own # {} THEN hits[CHOOSE k \in own : TRUE] ELSE [hit EXCEPT !.id = u, !.of = hit.id]

\* What a hit contributes: itself, or its window in session order.
Contribution(hit, hits) ==
    IF ~Located(hit) THEN <<hit>>
    ELSE [n \in 1..(LastBeside(hit) - FirstBeside(hit) + 1) |->
            Beside(SrUpdates[hit.session][FirstBeside(hit) + n - 1], hit, hits)]
Contributed(hits) ==
    LET upto[n \in 0..Len(hits)] ==
            IF n = 0 THEN <<>> ELSE upto[n - 1] \o Contribution(hits[n], hits)
    IN  upto[Len(hits)]

SameRecord(a, b) == a.session = b.session /\ a.id = b.id

\* Mutant: a record is repeated for every hit near it.
Unrepeated_all(seq) == seq

\* A record already returned is not repeated.
Unrepeated(seq) ==
    LET kept[n \in 0..Len(seq)] ==
            IF n = 0 THEN <<>>
            ELSE IF \E j \in 1..(n - 1) : SameRecord(seq[j], seq[n]) THEN kept[n - 1]
            ELSE Append(kept[n - 1], seq[n])
    IN  kept[Len(seq)]

\* complete_results.
Complete ==
    /\ srStage = "complete" /\ srStage' = "done"
    /\ srHits' = Weighed
    /\ srResults' = Unrepeated(Contributed(Weighed))
    /\ UNCHANGED <<srQuery, srLists, srRanked, srUnit>>

RankingNext == Retrieve \/ Rank \/ Rerank \/ Process \/ Complete

RankingSpec == RankingInit /\ [][RankingNext]_rankingVars

----------------------------------------------------------------------------
(* Properties.                                                             *)

\* A record that the other never precedes scores no less in the fusion.
FusionMonotone ==
    srStage = "rerank" /\ srLists[2] # <<>> =>
       \A j, k \in DOMAIN srRanked :
          LET a == srRanked[j].vector
              b == srRanked[k].vector
              ahead(list) == Listed(b, list) =>
                                /\ Listed(a, list)
                                /\ PositionOf(a, list) <= PositionOf(b, list)
          IN  ahead(srLists[1]) /\ ahead(srLists[2]) =>
                 srRanked[j].relevance >= srRanked[k].relevance

\* Pooled contents the limit did not cut are returned, each once, with the
\* score of their best chunk; one gives way only to a result with the same
\* content id (which another session may hold).
BestReturned(gives(_, _)) ==
    srStage = "complete" =>
       /\ Len(srHits) <= srQuery.limit
       /\ Sorted(srHits, ResultScore)
       /\ \A k \in DOMAIN srRanked :
             LET r == AsResult(srRanked[k])
             IN  \/ \E j \in DOMAIN srHits : gives(srHits[j], r) /\ srHits[j].score >= r.score
                 \/ /\ Len(srHits) = srQuery.limit
                    /\ \A j \in DOMAIN srHits : srHits[j].score >= r.score
       /\ \A j, k \in DOMAIN srHits : srHits[j].id = srHits[k].id => j = k

SameContent(a, b) == a.id = b.id

\* RankingSound: fusing keeps the order the rankings agree on, and the
\* results are the best of the candidates, one per content id, whatever the
\* chunks, the reranker, ages and authors (search.rs: fuse, rerank,
\* process_search_results).
RankingSound == FusionMonotone /\ BestReturned(SameContent)

\* CompletionKeeps: completing the hits loses none of them and changes none of
\* their scores, repeats no record, and adds only updates within the radius of
\* a hit, with that hit's score (neighbours.rs: complete_results).
CompletionKeeps ==
    srStage = "done" =>
       /\ \A j, k \in DOMAIN srResults : SameRecord(srResults[j], srResults[k]) => j = k
       /\ \A k \in DOMAIN srHits : Listed(srHits[k], srResults)
       /\ \A k \in DOMAIN srResults :
             \/ Listed(srResults[k], srHits)
             \/ \E h \in DOMAIN srHits :
                   /\ srHits[h].session = srResults[k].session
                   /\ srHits[h].id = srResults[k].of /\ srHits[h].score = srResults[k].score
                   /\ \E w \in Window(srHits[h]) :
                         SrUpdates[srHits[h].session][w] = srResults[k].id

\* The results of a search are the best ones, completed and not repeated.
ResultsSound == RankingSound /\ CompletionKeeps

\* The invariant behind it: what each stage leaves to the next, with its types.
Stages == {"ask", "rank", "rerank", "process", "complete", "done"}
RankedType == [vector : SrIds, relevance : Nat]
HitsTyped == \A k \in DOMAIN srHits : DOMAIN srHits[k] = {"session", "id", "score", "old", "of"}
                                      /\ srHits[k].score \in Nat
RankingInv ==
    /\ srStage \in Stages /\ srUnit \in Nat /\ srQuery.limit \in Nat
    /\ srQuery.similarity \in Scores /\ srQuery.bm25 \in Scores
    /\ srStage # "ask" => srLists \in Seq(Seq(SrIds)) /\ Len(srLists) = 2
    /\ srRanked \in Seq(RankedType)
    /\ Len(srHits) \in Nat /\ DOMAIN srHits = 1..Len(srHits) /\ HitsTyped
    /\ ResultsSound

-----------------------------------------------------------------------------
(* What the repository says and the model refutes: these do not hold.     *)

\* SessionsKept: a result gives way only to a copy of the same record: content
\* ids are not unique across sessions.
SessionsKept == BestReturned(SameRecord)

=============================================================================
