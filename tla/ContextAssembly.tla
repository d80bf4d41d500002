--------------------------- MODULE ContextAssembly ---------------------------
(***************************************************************************)
(* assemble_context: the cards, the entities a query names with their graph *)
(* neighbours, the entities that depend on them, the records and the        *)
(* conversation excerpts, packed into one token budget.  The graph and the  *)
(* records are a snapshot of the session (or of a workspace's sessions);    *)
(* the cards and the excerpts are read afterwards, one await each, and one  *)
(* that cannot be read is left out.                                         *)
(*                                                                          *)
(* A text is its token estimate and the entities its words contain; scores  *)
(* are in tenths (a record's recency between 0 and 3 of them).              *)
(***************************************************************************)
EXTENDS Naturals, Sequences, FiniteSets, SequencesExt

CONSTANTS
    CaName,      \* entity -> [len, tokens]: its name's length and word count
    CaEdges,     \* relations a graph may have: <<from, type, to>>
    CaQueries,   \* queries: entity -> [exact, hits], how its name shows in the query
    CaRecords,   \* sequences of records: [tokens, mentions, recency, important]
    CaExcerpts,  \* sequences of token estimates of the matching turns
    CaScopes,    \* card scopes: the user and the workspaces of the session
    CaCards,     \* token estimates a card may have; 0 is a blank card
    CaBudgets,   \* token budgets (the handlers replace 0 by their default)
    HeadTokens,  \* tokens of a section's title
    LineTokens,  \* tokens of one of its lines
    CardTokens   \* tokens reserved for a card's title

CaEntities == DOMAIN CaName
StoredRecords == [tokens : Nat, mentions : SUBSET CaEntities, recency : Nat, important : BOOLEAN]
Corpora == {"records", "messages", "all"}

ASSUME ContextAssemblyAssumption ==
    /\ IsFiniteSet(CaEntities) /\ IsFiniteSet(CaEdges)
    /\ \A x \in CaEdges : x[1] \in CaEntities /\ x[3] \in CaEntities
    /\ CaRecords \subseteq Seq(StoredRecords)
    /\ CaExcerpts \subseteq Seq(Nat) /\ CaBudgets \subseteq Nat \ {0} /\ CaCards \subseteq Nat
    /\ {HeadTokens, LineTokens, CardTokens} \subseteq Nat

VARIABLES
    caAsk,       \* the request: graph, query, records, corpus and budget
    caTodo,      \* card scopes still to read
    caRead,      \* token estimates of the cards read
    caTurns,     \* token estimates of the excerpts found
    caStage,     \* "idle", "cards", "assemble", "answered"
    caAnswer     \* the AssembledContext

contextVars == <<caAsk, caTodo, caRead, caTurns, caStage, caAnswer>>

NoAnswer == [records |-> <<>>, excerpts |-> <<>>, cards |-> <<>>, around |-> <<>>,
             impact |-> {}, total |-> 0]

ContextInit ==
    /\ caAsk = <<>> /\ caTodo = {} /\ caRead = <<>> /\ caTurns = <<>>
    /\ caStage = "idle" /\ caAnswer = NoAnswer

\* A set sorted: equal elements come in any order.
Arranged(S, before(_, _)) ==
    CHOOSE q \in SetToSeqs(S) : \A i, j \in DOMAIN q : before(q[i], q[j]) => i < j

-----------------------------------------------------------------------------
(* The entities of the query.                                               *)

Exactly(query, x) == query[x].exact
NeededHits(n) == IF n <= 2 THEN n ELSE (2 * n + 4) \div 5
Overlaps(query, x) ==
    query[x].hits > 0 /\ query[x].hits >= NeededHits(CaName[x].tokens)
MatchScore(query, x) ==
    IF Exactly(query, x) THEN 10 * CaName[x].len ELSE 5 * query[x].hits + CaName[x].len

FindQueryEntities(query) ==
    Arranged({x \in CaEntities : CaName[x].len >= 2 /\ (Exactly(query, x) \/ Overlaps(query, x))},
        LAMBDA x, y : \/ Exactly(query, x) /\ ~Exactly(query, y)
                      \/ /\ Exactly(query, x) = Exactly(query, y)
                         /\ MatchScore(query, x) > MatchScore(query, y))

TouchingEdges(graph, x) == {r \in graph : x \in {r[1], r[3]}}
FindRelated(graph, x) == {r[3] : r \in {q \in graph : q[1] = x}}
                         \cup {r[1] : r \in {q \in graph : q[3] = x}}

\* One hop around the named entities; a neighbour of several is reported
\* through the first of them.
BuildEntityContext(named, graph) ==
    LET direct == Range(named)
        beside == (UNION {FindRelated(graph, x) : x \in direct}) \ direct
        first(n) == CHOOSE i \in DOMAIN named :
                        /\ n \in FindRelated(graph, named[i])
                        /\ \A j \in 1..(i - 1) : n \notin FindRelated(graph, named[j])
    IN  [x \in direct \cup beside |->
            [via |-> IF x \in direct THEN x ELSE named[first(x)],
             rels |-> TouchingEdges(graph, x)]]

\* Edges into a named entity, and RequiredBy edges out of one.
AnalyzeImpact_incoming(named, graph) ==
    {<<r[1], r[3]>> : r \in {q \in graph : q[1] # q[3] /\ q[2] # "Related" /\ q[3] \in Range(named)}}
AnalyzeImpact(named, graph) ==
    LET edges == {r \in graph : r[1] # r[3]} IN
    {<<r[1], r[3]>> : r \in {q \in edges : /\ q[2] \in {"DependsOn", "RequiredBy", "Implements"}
                                           /\ q[3] \in Range(named)}}
    \cup {<<r[3], r[1]>> : r \in {q \in edges : q[2] = "RequiredBy" /\ q[1] \in Range(named)}}

-----------------------------------------------------------------------------
(* Tokens.                                                                  *)

SectionTokens(lines) == IF lines = {} THEN 0 ELSE HeadTokens + LineTokens * Cardinality(lines)

GraphSectionTokens(around, impact) ==
    SectionTokens(UNION {around[x].rels : x \in DOMAIN around}) + SectionTokens(impact)

EntitySummaryTokens(query, graph) ==
    LET named == FindQueryEntities(query) IN
    GraphSectionTokens(BuildEntityContext(named, graph), AnalyzeImpact(named, graph))

Total(s) ==
    LET upto[n \in 0..Len(s)] == IF n = 0 THEN 0 ELSE upto[n - 1] + s[n]
    IN  upto[Len(s)]

\* In their order, whatever still fits; what does not is skipped.
TakeIf(got, x, t, budget) ==
    IF got.used + t > budget THEN got
    ELSE [used |-> got.used + t, kept |-> Append(got.kept, x)]
Fitting(items, tokens, budget) ==
    LET got[n \in 0..Len(items)] ==
            IF n = 0 THEN [used |-> 0, kept |-> <<>>]
            ELSE TakeIf(got[n - 1], items[n], tokens[n], budget)
    IN  got[Len(items)]

\* Blank cards are left out, and cost nothing.
CardsKept(cards) ==
    LET kept[n \in 0..Len(cards)] ==
            IF n = 0 THEN <<>>
            ELSE IF cards[n] > 0 THEN Append(kept[n - 1], cards[n]) ELSE kept[n - 1]
    IN  kept[Len(cards)]
CardsTotal(kept) == Total(kept) + CardTokens * Len(kept)

-----------------------------------------------------------------------------
(* Records: scored, best first, as far as the budget allows.                *)

Score(u, named, around) ==
    LET direct == u.mentions \cap Range(named)
        beside == (u.mentions \cap DOMAIN around) \ direct
        score == u.recency + 4 * Cardinality(direct) + 2 * Cardinality(beside)
                 + (IF u.important THEN 2 ELSE 0)
    IN  IF score > 10 THEN 10 ELSE score

Ranked(records, named, around) ==
    LET score(i) == Score(records[i], named, around)
        order == Arranged(DOMAIN records,
                    LAMBDA i, j : score(i) > score(j) \/ (score(i) = score(j) /\ i < j))
    IN  [i \in DOMAIN order |-> records[order[i]]]

TokensOf(records) == [i \in DOMAIN records |-> records[i].tokens]

\* context_assembly::assemble_context.
AssembleRecords(query, graph, records, budget) ==
    LET named == FindQueryEntities(query)
        around == BuildEntityContext(named, graph)
        impact == AnalyzeImpact(named, graph)
        sections == GraphSectionTokens(around, impact)
        left == IF budget < sections THEN 0 ELSE budget - sections
        ranked == Ranked(records, named, around)
        fits == Fitting(ranked, TokensOf(ranked), left)
    IN  [NoAnswer EXCEPT !.records = fits.kept, !.around = around, !.impact = impact,
                         !.total = fits.used + sections]

AddExcerpts(ctx, turns, budget) ==
    LET fits == Fitting(turns, turns, IF budget < ctx.total THEN 0 ELSE budget - ctx.total)
    IN  [ctx EXCEPT !.excerpts = fits.kept, !.total = @ + fits.used]

AddCards(ctx, cards) ==
    [ctx EXCEPT !.cards = CardsKept(cards), !.total = @ + CardsTotal(CardsKept(cards))]

\* assembly_scope::assemble: the excerpts' share first, the records with the rest.
RecordsBudget_whole(budget, taken) == budget
RecordsBudget(budget, taken) == budget - taken

ExcerptShare(ask, budget) ==
    LET sections == EntitySummaryTokens(ask.query, ask.graph) IN
    IF ask.corpus = "messages" THEN budget
    ELSE (IF budget < sections THEN 0 ELSE budget - sections) \div 2

LeftByCards(ask, cards) ==
    LET taken == CardsTotal(CardsKept(cards))
    IN  IF ask.budget < taken THEN 0 ELSE ask.budget - taken

Assembled(ask, cards, turns) ==
    LET budget == LeftByCards(ask, cards)
        share == Fitting(turns, turns, ExcerptShare(ask, budget))
        records == IF ask.corpus = "messages" THEN <<>> ELSE ask.records
        ctx == AssembleRecords(ask.query, ask.graph, records, RecordsBudget(budget, share.used))
    IN  AddCards(AddExcerpts(ctx, share.kept, budget), cards)

-----------------------------------------------------------------------------
(* The request.                                                             *)

AskContext ==
    /\ caStage = "idle"
    /\ \E graph \in SUBSET CaEdges, query \in CaQueries, records \in CaRecords,
          corpus \in Corpora, budget \in CaBudgets :
        caAsk' = [graph |-> graph, query |-> query, records |-> records, corpus |-> corpus,
                  budget |-> budget]
    /\ caStage' = "cards" /\ caTodo' = CaScopes
    /\ UNCHANGED <<caRead, caTurns, caAnswer>>

\* get_card of the next scope: there, not there, or not readable.
ReadCard ==
    /\ caStage = "cards" /\ caTodo # {}
    /\ \E scope \in caTodo : caTodo' = caTodo \ {scope}
    /\ \E t \in CaCards : caRead' = Append(caRead, t)
    /\ UNCHANGED <<caAsk, caTurns, caStage, caAnswer>>
NoCard ==
    /\ caStage = "cards" /\ caTodo # {}
    /\ \E scope \in caTodo : caTodo' = caTodo \ {scope}
    /\ UNCHANGED <<caAsk, caRead, caTurns, caStage, caAnswer>>

\* The excerpt search: what it finds, nothing when it fails or is not asked for.
FindExcerpts ==
    /\ caStage = "cards" /\ caTodo = {}
    /\ \E turns \in CaExcerpts \cup {<<>>} :
        /\ caAsk.corpus = "records" => turns = <<>>
        /\ caTurns' = turns
    /\ caStage' = "assemble"
    /\ UNCHANGED <<caAsk, caTodo, caRead, caAnswer>>

Assemble ==
    /\ caStage = "assemble"
    /\ caAnswer' = Assembled(caAsk, caRead, caTurns)
    /\ caStage' = "answered"
    /\ UNCHANGED <<caAsk, caTodo, caRead, caTurns>>

ContextNext == AskContext \/ ReadCard \/ NoCard \/ FindExcerpts \/ Assemble
ContextSpec == ContextInit /\ [][ContextNext]_contextVars

-----------------------------------------------------------------------------
(* Properties.                                                              *)

AnsweredContext == caStage = "answered"

\* The budget is shared as the code's comments promise.  The total is what the
\* answer holds; records and excerpts only fill what the cards and the graph
\* sections leave; with records asked for, the excerpts take at most half of
\* that and none that was given its share is dropped again; and no record that
\* was left out would still fit.
BudgetShared ==
    AnsweredContext =>
        LET a == caAnswer
            sections == GraphSectionTokens(a.around, a.impact)
            fixed == CardsTotal(a.cards) + sections
            room == IF caAsk.budget < fixed THEN 0 ELSE caAsk.budget - fixed
            filled == Total(TokensOf(a.records)) + Total(a.excerpts)
        IN  /\ a.total = fixed + filled
            /\ filled <= room
            /\ caAsk.corpus = "messages" => a.records = <<>>
            /\ caAsk.corpus = "records" => a.excerpts = <<>>
            /\ caAsk.corpus = "all" =>
                /\ 2 * Total(a.excerpts) <= room
                /\ a.excerpts = Fitting(caTurns, caTurns, room \div 2).kept
            /\ caAsk.corpus # "messages" =>
                \A u \in Range(caAsk.records) \ Range(a.records) : filled + u.tokens > room

\* Everything that hinges on a named entity is there: all its relations, every
\* neighbour with all of its own, and every entity that depends on it, however
\* the dependency is written down.
DependsUpon(graph, x, y) ==
    \/ <<x, "DependsOn", y>> \in graph \/ <<x, "Implements", y>> \in graph
    \/ <<y, "RequiredBy", x>> \in graph
ContextComplete ==
    AnsweredContext =>
        LET named == Range(FindQueryEntities(caAsk.query)) IN
        /\ \A x \in named : TouchingEdges(caAsk.graph, x) \subseteq caAnswer.around[x].rels
        /\ \A r \in caAsk.graph : {r[1], r[3]} \cap named # {} =>
                \A x \in {r[1], r[3]} : x \in DOMAIN caAnswer.around
        /\ \A x \in CaEntities, y \in named :
                x # y /\ DependsUpon(caAsk.graph, x, y) => <<x, y>> \in caAnswer.impact

\* An assembled context is complete within its budget.
ContextSound == BudgetShared /\ ContextComplete

\* The invariant behind it: what was asked and read is what was answered from.
Asks == [graph : SUBSET CaEdges, query : CaQueries, records : CaRecords, corpus : Corpora,
         budget : CaBudgets]
ContextInv ==
    /\ caStage \in {"idle", "cards", "assemble", "answered"}
    /\ caRead \in Seq(Nat) /\ caTurns \in Seq(Nat)
    /\ caStage # "idle" => caAsk \in Asks
    /\ caStage \in {"assemble", "answered"} => (caAsk.corpus = "records" => caTurns = <<>>)
    /\ caStage = "answered" => caAnswer = Assembled(caAsk, caRead, caTurns)

-----------------------------------------------------------------------------
(* What the repository says and the model refutes: these do not hold.     *)

\* What analyze_impact says it finds: "all entities that depend on any of the
\* query entities", and so nothing else.
ImpactIsDependence ==
    AnsweredContext => \A p \in caAnswer.impact : DependsUpon(caAsk.graph, p[1], p[2])

=============================================================================
