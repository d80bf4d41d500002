---------------------------- MODULE GraphQueries ----------------------------
(***************************************************************************)
(* What is asked of an entity graph, on every graph EntityGraph reaches:   *)
(* neighbours, traces, networks (whole, bounded, and the RocksDB and       *)
(* SurrealDB ones, which work on stored rows), shortest paths, and the     *)
(* merge of the graphs of a workspace's sessions                           *)
(* (post-cortex-core entity_graph.rs, post-cortex-storage */graph.rs).     *)
(* Each is the loop of the code, as a fold over its queue; the properties  *)
(* compare them with definitions by distance.                              *)
(***************************************************************************)
EXTENDS EntityGraph

CONSTANTS EgLower,        \* name -> its lower case (not its key)
          MaxDepth,       \* depths that are asked for
          MaxLimit        \* limits of a bounded network

ASSUME GraphQueriesAssumption == MaxDepth \in Nat /\ MaxLimit \in Nat

\* A loop that takes one element of its queue at a time, at most one turn per
\* node.
Turns(g) == [i \in 1..(Len(g.nodes) + 1) |-> i]

\* Exact name, else the same name in another case.
FindNode(g, n) ==
    IF n \in DOMAIN g.toNode THEN n
    ELSE LET same == {m \in DOMAIN g.toNode : EgLower[m] = EgLower[n]}
         IN  IF same = {} THEN NoEntity ELSE CHOOSE m \in same : TRUE

FindRelatedEntities(g, n) ==
    IF FindNode(g, n) = NoEntity THEN {}
    ELSE LET i == g.toNode[FindNode(g, n)]
         IN  {g.toName[e[2]] : e \in {x \in Range(g.edges) : x[1] = i}}
             \cup {g.toName[e[1]] : e \in {x \in Range(g.edges) : x[2] = i}}

----------------------------------------------------------------------------
(* Walks of the graph in memory.                                           *)

Outgoing(g, i) == SelectSeq(g.edges, LAMBDA e : e[1] = i)
Incoming(g, i) == SelectSeq(g.edges, LAMBDA e : e[2] = i)

TraceRelationships(g, start, depth) ==
    IF start \notin DOMAIN g.toNode THEN <<>>
    ELSE LET see(s, at, d, other, triple) ==
                IF other \in s.visited THEN s
                ELSE [s EXCEPT !.visited = @ \cup {other},
                               !.queue = Append(@, <<other, d + 1>>),
                               !.trace = Append(@, triple)]
             out(s, at, d) ==
                FoldLeft(LAMBDA h, e : see(h, at, d, e[2],
                            <<g.toName[at], "to", g.toName[e[2]]>>),
                         s, Outgoing(g, at))
             back(s, at, d) ==
                FoldLeft(LAMBDA h, e : see(h, at, d, e[1],
                            <<g.toName[e[1]], "inverse", g.toName[at]>>),
                         s, Incoming(g, at))
             turn(s, i) ==
                IF s.queue = <<>> THEN s
                ELSE LET at == Head(s.queue)[1]
                         d == Head(s.queue)[2]
                         popped == [s EXCEPT !.queue = Tail(@)]
                     IN  IF d >= depth THEN popped
                         ELSE back(out(popped, at, d), at, d)
             from == g.toNode[start]
         IN  FoldLeft(turn, [visited |-> {from}, queue |-> <<<<from, 0>>>>,
                             trace |-> <<>>], Turns(g)).trace

EntityNetwork(g, center, depth) ==
    IF center \notin DOMAIN g.toNode THEN [entities |-> {}, rels |-> {}]
    ELSE LET see(s, d, e, other) ==
                LET seen == IF other \in s.visited THEN s
                            ELSE [s EXCEPT !.visited = @ \cup {other},
                                           !.queue = Append(@, <<other, d + 1>>),
                                           !.entities = @ \cup {g.toName[other]}]
                IN  IF {g.toName[e[1]], g.toName[e[2]]} \subseteq seen.entities
                    THEN [seen EXCEPT !.rels = @ \cup
                             {<<g.toName[e[1]], g.toName[e[2]]>>}]
                    ELSE seen
             out(s, at, d) ==
                FoldLeft(LAMBDA h, e : see(h, d, e, e[2]), s, Outgoing(g, at))
             back(s, at, d) ==
                FoldLeft(LAMBDA h, e : see(h, d, e, e[1]), s, Incoming(g, at))
             turn(s, i) ==
                IF s.queue = <<>> THEN s
                ELSE LET at == Head(s.queue)[1]
                         d == Head(s.queue)[2]
                         popped == [s EXCEPT !.queue = Tail(@)]
                     IN  IF d >= depth THEN popped
                         ELSE back(out(popped, at, d), at, d)
             from == g.toNode[center]
             end == FoldLeft(turn, [visited |-> {from}, queue |-> <<<<from, 0>>>>,
                                    entities |-> {center}, rels |-> {}], Turns(g))
         IN  [entities |-> end.entities, rels |-> end.rels]

EntityNetworkBounded(g, center, depth, maxEntities, maxRels) ==
    IF center \notin DOMAIN g.entities \/ maxEntities = 0
       \/ center \notin DOMAIN g.toNode
    THEN [entities |-> {}, rels |-> {}]
    ELSE LET see(s, d, rel, other) ==
                LET grown == IF Cardinality(s.entities) < maxEntities
                                /\ other \notin s.visited
                                /\ other \in DOMAIN g.entities
                             THEN [s EXCEPT !.visited = @ \cup {other},
                                            !.entities = @ \cup {other},
                                            !.queue = Append(@, <<other, d + 1>>)]
                             ELSE s
                IN  IF Cardinality(grown.rels) < maxRels
                       /\ {rel[1], rel[2]} \subseteq grown.entities
                    THEN [grown EXCEPT !.rels = @ \cup {rel}]
                    ELSE grown
             turn(s, i) ==
                IF s.queue = <<>> \/ s.done THEN s
                ELSE LET name == Head(s.queue)[1]
                         d == Head(s.queue)[2]
                         popped == [s EXCEPT !.queue = Tail(@)]
                     IN  IF d >= depth THEN popped
                         ELSE IF Cardinality(s.entities) >= maxEntities
                                 /\ Cardinality(s.rels) >= maxRels
                         THEN [s EXCEPT !.done = TRUE]
                         ELSE FoldLeft(LAMBDA h, r : see(h, d, r,
                                          IF r[1] = name THEN r[2] ELSE r[1]),
                                       popped, RelationshipsOf(g, name))
             end == FoldLeft(turn, [visited |-> {center}, entities |-> {center},
                                    queue |-> <<<<center, 0>>>>, rels |-> {},
                                    done |-> FALSE], Turns(g))
         IN  [entities |-> end.entities, rels |-> end.rels]

----------------------------------------------------------------------------
(* The same on stored rows: names and relation pairs, no node indices.     *)

Rows(g) == [k \in DOMAIN g.edges |-> Pair(g, g.edges[k])]

\* Both directions of every relation, in row order.
Adjacent(rows, n) ==
    FoldLeft(LAMBDA acc, r :
                acc \o (IF r[1] = n THEN <<r[2]>> ELSE <<>>)
                    \o (IF r[2] = n THEN <<r[1]>> ELSE <<>>),
             <<>>, rows)

StoredRelated(rows, n) == Range(Adjacent(rows, n))

\* Mutant: one level too many.
StoredReach_oneMore(rows, center, depth) ==
    LET level(s, i) ==
            LET next == (UNION {Range(Adjacent(rows, n)) : n \in s.frontier}) \ s.visited
            IN  [visited |-> s.visited \cup next, frontier |-> next]
    IN  FoldLeft(level, [visited |-> {center}, frontier |-> {center}],
                 [i \in 1..(depth + 1) |-> i]).visited

\* Level by level, `depth` levels; the RocksDB and the SurrealDB loop.
StoredReach(rows, center, depth) ==
    LET level(s, i) ==
            LET next == (UNION {Range(Adjacent(rows, n)) : n \in s.frontier}) \ s.visited
            IN  [visited |-> s.visited \cup next, frontier |-> next]
    IN  FoldLeft(level, [visited |-> {center}, frontier |-> {center}],
                 [i \in 1..depth |-> i]).visited

RocksNetwork(g, center, depth) ==
    LET reach == StoredReach(Rows(g), center, depth)
    IN  [entities |-> DOMAIN g.entities \cap reach,
         rels |-> {r \in Range(Rows(g)) : {r[1], r[2]} \subseteq reach}]

SurrealNetwork(g, center, depth) ==
    LET found == DOMAIN g.entities \cap StoredReach(Rows(g), center, depth)
    IN  [entities |-> found,
         rels |-> {r \in Range(Rows(g)) : {r[1], r[2]} \subseteq found}]

NoPath == <<>>

\* RocksDB: every queued element carries its path.
RocksShortestPath(g, from, to) ==
    LET rows == Rows(g)
        turn(s, i) ==
            IF s.queue = <<>> \/ s.found # NoPath THEN s
            ELSE LET path == Head(s.queue)
                     near == Adjacent(rows, Last(path))
                     see(h, n) == IF h.found # NoPath THEN h
                                  ELSE IF n = to THEN [h EXCEPT !.found = Append(path, n)]
                                  ELSE IF n \in h.visited THEN h
                                  ELSE [h EXCEPT !.visited = @ \cup {n},
                                                 !.queue = Append(@, Append(path, n))]
                 IN  FoldLeft(see, [s EXCEPT !.queue = Tail(@)], near)
    IN  IF from = to THEN <<from>>
        ELSE FoldLeft(turn, [visited |-> {from}, queue |-> <<<<from>>>>,
                             found |-> NoPath], Turns(g)).found

\* SurrealDB: parents are noted, the path is walked back from the end.
SurrealShortestPath(g, from, to) ==
    LET rows == Rows(g)
        turn(s, i) ==
            IF s.queue = <<>> \/ s.found THEN s
            ELSE LET at == Head(s.queue)
                     see(h, n) == IF h.found \/ n \in h.visited THEN h
                                  ELSE [h EXCEPT !.visited = @ \cup {n},
                                                 !.parent = Assign(@, n, at),
                                                 !.found = n = to,
                                                 !.queue = Append(@, n)]
                 IN  FoldLeft(see, [s EXCEPT !.queue = Tail(@)], Adjacent(rows, at))
        end == FoldLeft(turn, [visited |-> {from}, queue |-> <<from>>,
                               parent |-> <<>>, found |-> FALSE], Turns(g))
        back(path, i) == IF Head(path) \in DOMAIN end.parent
                         THEN <<end.parent[Head(path)]>> \o path ELSE path
    IN  IF from = to THEN <<from>>
        ELSE IF ~end.found THEN NoPath
        ELSE FoldLeft(back, <<to>>, Turns(g))

----------------------------------------------------------------------------
(* Reference definitions and properties.                                   *)

Linked(g, a, b) == <<a, b>> \in Relations(g) \/ <<b, a>> \in Relations(g)

\* The names at most d undirected steps from c.
Ball(g, c, depth) ==
    LET ball[d \in 0..depth] ==
            IF d = 0 THEN {c}
            ELSE ball[d - 1] \cup {n \in DOMAIN g.entities :
                                      \E m \in ball[d - 1] : Linked(g, m, n)}
    IN  ball[depth]

Size(g) == Len(g.nodes)
Distance(g, a, b) ==
    IF b \notin Ball(g, a, Size(g)) THEN Size(g)
    ELSE CHOOSE d \in 0..Size(g) : b \in Ball(g, a, d)
                                   /\ (d = 0 \/ b \notin Ball(g, a, d - 1))

IsPath(g, path, from, to) ==
    /\ path[1] = from /\ Last(path) = to
    /\ \A k \in 1..(Len(path) - 1) : Linked(g, path[k], path[k + 1])

\* The three network queries reach exactly the entities within the depth; the
\* storage ones hold every relation among them, the one in memory those of
\* the entities it expanded; a trace visits each of them once, by a relation
\* that exists; the neighbours are the same in memory and in storage.
NetworksMatch(g, c, d, near, inner, memory, rocks, trace) ==
    /\ memory.entities = near
    /\ memory.rels = {r \in Relations(g) : d > 0 /\ {r[1], r[2]} \cap inner # {}}
    /\ FindRelatedEntities(g, c) = StoredRelated(Rows(g), c)
    /\ rocks = SurrealNetwork(g, c, d)
    /\ rocks.entities = near
    /\ memory.rels \subseteq rocks.rels
    /\ Len(trace) = Cardinality(near) - 1
    /\ {c} \cup UNION {{t[1], t[3]} : t \in Range(trace)} = near
    /\ \A t \in Range(trace) : <<t[1], t[3]>> \in Relations(g)
NetworksExact(g) ==
    \A c \in DOMAIN g.entities : \A d \in 0..MaxDepth :
       NetworksMatch(g, c, d, Ball(g, c, d), IF d = 0 THEN {} ELSE Ball(g, c, d - 1),
                     EntityNetwork(g, c, d), RocksNetwork(g, c, d),
                     TraceRelationships(g, c, d))

\* Both stored shortest paths are paths, as short as any, and found whenever
\* there is one.
PathsShortest(g) ==
    \A a, b \in DOMAIN g.entities :
       \A path \in {RocksShortestPath(g, a, b), SurrealShortestPath(g, a, b)} :
          IF b \in Ball(g, a, Size(g))
          THEN IsPath(g, path, a, b) /\ Len(path) = Distance(g, a, b) + 1
          ELSE path = NoPath

\* A bounded network honours its limits, connects only what it holds, keeps
\* the closest entities and as many as it may, and loses nothing when the
\* limits are loose.
Closest(g, c, near, net, e, r) ==
    /\ Cardinality(net.entities) = Smaller(e, Cardinality(near))
    /\ Cardinality(net.rels) <= r
    /\ \A x \in net.rels : {x[1], x[2]} \subseteq net.entities
    /\ \A x \in net.entities : \A y \in near \ net.entities :
          Distance(g, c, x) <= Distance(g, c, y)
BoundedKeepsClosest(g) ==
    \A c \in DOMAIN g.entities : \A d \in 0..MaxDepth :
       /\ EntityNetworkBounded(g, c, d, Size(g), Len(g.edges)) = EntityNetwork(g, c, d)
       /\ \A e, r \in 0..MaxLimit :
             Closest(g, c, Ball(g, c, d), EntityNetworkBounded(g, c, d, e, r), e, r)

\* What the three walks of the graph promise, on every graph the records,
\* merges, deletions and reloads can produce.
QueriesExact ==
    NetworksExact(egGraph) /\ PathsShortest(egGraph) /\ BoundedKeepsClosest(egGraph)

\* The graph of a workspace knows what its sessions know, whatever their
\* order: here a session with its merges and deletions and a session that
\* holds the same records without them.
Knows(all, g) ==
    /\ Known(g) \subseteq Known(all)
    /\ \A r \in Relations(g) :
          LET a == Resolve(all, r[1])
              b == Resolve(all, r[2])
          IN  a = b \/ <<a, b>> \in Relations(all)
    /\ \A c \in DOMAIN g.mentions : g.mentions[c] \subseteq MentionsIn(all, Resolve(all, c))
KnowsBoth(all, one, other) ==
    /\ Cardinality(Range(all.edges)) = Len(all.edges)
    /\ Knows(all, one) /\ Knows(all, other)
MergedKnowsAll ==
    \A order \in {<<egGraph, Replayed(egLog)>>, <<Replayed(egLog), egGraph>>} :
       KnowsBoth(MergeFrom(MergeFrom(EmptyGraph, order[1]), order[2]), order[1], order[2])

\* Queries are exact on the graph of a session and of a workspace.
QueriesSound == QueriesExact /\ MergedKnowsAll

=============================================================================
