------------------------------- MODULE MCEngine -------------------------------
(* Small instances of what answers a client: update requests, the other      *)
(* requests, the entity graph and its views, context assembly and the        *)
(* session object.  These parts share no state, so a behaviour exercises one *)
(* of them and the others stay as they were.                                 *)
EXTENDS UpdateRequests, Requests, GraphQueries, GraphViews, ActiveSession, TLC

VARIABLE part   \* the part this behaviour is about

engineVars == <<part, updateVars, requestVars, graphVars, contextVars, viewVars, activeVars>>

EngineInit ==
    /\ part \in {"update", "request", "graph", "context", "views", "active"}
    /\ UpdateInit /\ (part # "update" => ~urSession /\ ~urReferent)
    /\ RequestInit /\ (part # "request" => rqBackend = "rocksdb")
    /\ GraphInit /\ (part # "graph" => egGraph = EmptyGraph)
    /\ ContextInit /\ ViewsInit
    /\ ActiveInit /\ (part # "active" => asBackend = "rocksdb")

EngineNext ==
    \/ /\ part = "update" /\ UpdateNext
       /\ UNCHANGED <<part, requestVars, graphVars, contextVars, viewVars, activeVars>>
    \/ /\ part = "request" /\ RequestNext
       /\ UNCHANGED <<part, updateVars, graphVars, contextVars, viewVars, activeVars>>
    \/ /\ part = "graph" /\ GraphNext
       /\ UNCHANGED <<part, updateVars, requestVars, contextVars, viewVars, activeVars>>
    \/ /\ part = "context" /\ ContextNext
       /\ UNCHANGED <<part, updateVars, requestVars, graphVars, viewVars, activeVars>>
    \/ /\ part = "views" /\ ViewsNext
       /\ UNCHANGED <<part, updateVars, requestVars, graphVars, contextVars, activeVars>>
    \/ /\ part = "active" /\ ActiveNext
       /\ UNCHANGED <<part, updateVars, requestVars, graphVars, contextVars, viewVars>>

EngineSpec == EngineInit /\ [][EngineNext]_engineVars

-----------------------------------------------------------------------------
(* Constants. *)

MCRqMentions == ("r" :> {"a", "b"}) @@ ("q" :> {"b"})

\* "A" and "a" are one entity, spelled twice.
MCEgNames == <<"A", "B", "C", "a">>
MCEgKey == [n \in Range(MCEgNames) |-> IF n = "A" THEN "a" ELSE n]
MCEgRecords ==
    << [typed |-> <<>>, creates |-> <<"A">>, refs |-> <<"C">>, rels |-> <<<<"a", "B">>, <<"B", "B">>>>],
       [typed |-> <<"C">>, creates |-> <<"a">>, refs |-> <<"a">>, rels |-> <<<<"B", "C">>, <<"A", "a">>>>] >>
MCEgLegacy ==
    { [entities |-> <<>>, pairs |-> <<>>],
      [entities |-> [n \in {"A", "a", "B"} |-> [aliases |-> {}, first |-> IF n = "a" THEN 1 ELSE 2]],
       pairs |-> <<<<"A", "a">>, <<"A", "B">>, <<"a", "B">>>>] }

MCCaName == ("a" :> [len |-> 3, tokens |-> 1]) @@ ("b" :> [len |-> 8, tokens |-> 3])
            @@ ("c" :> [len |-> 1, tokens |-> 1])
MCCaEdges == {<<"a", "DependsOn", "b">>, <<"a", "RequiredBy", "b">>,
              <<"b", "Implements", "c">>, <<"c", "Related", "c">>}
Words(exact, hits) == [exact |-> exact, hits |-> hits]
MCCaQueries ==
    {("a" :> Words(TRUE, 1)) @@ ("b" :> Words(FALSE, 1)) @@ ("c" :> Words(TRUE, 1)),
     ("a" :> Words(FALSE, 0)) @@ ("b" :> Words(FALSE, 2)) @@ ("c" :> Words(FALSE, 0)),
     ("a" :> Words(FALSE, 1)) @@ ("b" :> Words(TRUE, 3)) @@ ("c" :> Words(FALSE, 0))}
Record(t, m, r, i) == [tokens |-> t, mentions |-> m, recency |-> r, important |-> i]
MCCaRecords ==
    {<<>>, <<Record(3, {}, 3, FALSE), Record(2, {"a"}, 0, TRUE)>>,
     <<Record(1, {"c"}, 1, FALSE), Record(4, {"b", "c"}, 0, FALSE), Record(2, {}, 2, TRUE)>>}
MCCaExcerpts == {<<1>>, <<3, 1>>, <<2, 2, 1>>}

Draft(k, t, n, r, f, file) ==
    [kind |-> k, title |-> t, names |-> n, rels |-> r, from |-> f, file |-> file]
MCGvDrafts ==
    {Draft("DecisionMade", "use", {"a"}, {}, 0, FALSE),
     Draft("DecisionMade", "reuse", {"b"}, {}, 2, TRUE),
     Draft("ProblemSolved", "fix", {"a", "b", "c"},
           {<<"a", "DependsOn", "b">>, <<"b", "Solves", "a">>, <<"c", "RequiredBy", "a">>}, 0, FALSE),
     Draft("RequirementAdded", "not", {"a", "b"}, {<<"b", "ConflictsWith", "a">>}, 1, FALSE)}
MCGvMerges == {<<"a", "b">>}

Update(t, f, e, p) == [type |-> t, file |-> f, ents |-> e, parent |-> p]
MCAsUpdates == <<Update("DecisionMade", "none", {"e"}, 0), Update("CodeChanged", "f", {}, 1),
                 Update("ConceptDefined", "f", {}, 0)>>
MCAsStart == <<1, 2>>

\* The tasks of every part are interchangeable.
Symmetry == Permutations(RqClients)

=============================================================================
