---------------------------- MODULE EntityGraph ----------------------------
(***************************************************************************)
(* The entity graph of a session (post-cortex-core, graph/entity_graph.rs) *)
(* and what the memory system does to it: records are applied to it,       *)
(* entities are merged and deleted, a purge rebuilds it from the remaining *)
(* records, and a backend reloads it, from the serialised session          *)
(* (RocksDB) or from entity and relation rows (SurrealDB).                 *)
(*                                                                         *)
(* The graph is six structures that every operation must keep in step: the *)
(* petgraph node and edge arrays, whose removal moves the last node into   *)
(* the hole, two index maps into them, the entities with their aliases,    *)
(* the alias index, and the mention lists.  A name is a member of EgNames; *)
(* EgKey is entity_key(), so several names may share a key.  Relations     *)
(* have one type; counts, scores and texts are left out.                   *)
(***************************************************************************)
EXTENDS Naturals, FiniteSets, Sequences, SequencesExt

CONSTANTS EgNames,        \* the names in String order (a sequence)
          EgKey,          \* name -> resolution key
          EgRecords,      \* the records that may be stored
          EgLegacy        \* rows stored before names were resolved

NoEntity == "none"
EntityNames == Range(EgNames)
EgKeys == Range(EgKey)

\* Rows stored before names were resolved have no aliases.
ASSUME EntityGraphAssumption ==
    /\ EgNames \in Seq(EntityNames) /\ NoEntity \notin EntityNames
    /\ \A i, j \in DOMAIN EgNames : i # j => EgNames[i] # EgNames[j]
    /\ EgKey \in [EntityNames -> EgKeys]
    /\ EgRecords \in Seq([typed : Seq(EntityNames), creates : Seq(EntityNames),
                          refs : Seq(EntityNames), rels : Seq(EntityNames \X EntityNames)])
    /\ \A legacy \in EgLegacy : \E X \in SUBSET EntityNames :
          /\ legacy.entities \in [X -> [aliases : {{}}, first : Nat]]
          /\ legacy.pairs \in Seq(X \X X)
          /\ \A i, j \in DOMAIN legacy.pairs : i # j => legacy.pairs[i] # legacy.pairs[j]

VARIABLES egGraph,        \* ActiveSession::entity_graph
          egLog           \* ActiveSession::incremental_updates, oldest first

graphVars == <<egGraph, egLog>>

\* Utc::now(): later than every record that is stored.
Now == Len(EgRecords) + 1

NameRank(n) == CHOOSE i \in DOMAIN EgNames : EgNames[i] = n
\* A set as a sequence in which nothing comes before what R puts before it.
Sorted(set, R) ==
    CHOOSE q \in [1..Cardinality(set) -> set] :
        /\ \A i, j \in DOMAIN q : i # j => q[i] # q[j]
        /\ \A i, j \in DOMAIN q : <<q[i], q[j]>> \in R => i < j
InOrder(names) == Sorted(names, {p \in names \X names : NameRank(p[1]) < NameRank(p[2])})

Assign(f, k, v) == [x \in DOMAIN f \cup {k} |-> IF x = k THEN v ELSE f[x]]
Less(f, k) == [x \in DOMAIN f \ {k} |-> f[x]]

----------------------------------------------------------------------------
(* The structure and its basic operations.                                 *)

EmptyGraph ==
    [nodes |-> <<>>, edges |-> <<>>, entities |-> <<>>, toNode |-> <<>>,
     toName |-> <<>>, alias |-> <<>>, mentions |-> <<>>]

Resolve(g, n) ==
    IF n \in DOMAIN g.entities THEN n
    ELSE IF EgKey[n] \in DOMAIN g.alias THEN g.alias[EgKey[n]]
    ELSE NoEntity

Canonical(g, n) == IF Resolve(g, n) = NoEntity THEN n ELSE Resolve(g, n)

NewNode(g, n) ==
    [g EXCEPT !.nodes = Append(@, n),
              !.toNode = Assign(@, n, Len(g.nodes) + 1),
              !.toName = Assign(@, Len(g.nodes) + 1, n)]

SpellingsOf(g, c) == {c} \cup g.entities[c].aliases
KeysOf(g, c) == {EgKey[n] : n \in SpellingsOf(g, c)}

IndexNames(g, c) ==
    [g EXCEPT !.alias = [k \in DOMAIN g.alias \cup KeysOf(g, c) |->
                            IF k \in DOMAIN g.alias THEN g.alias[k] ELSE c]]

AddOrUpdateEntity(g, written, time) ==
    LET name == Canonical(g, written)
    IN  IF name \in DOMAIN g.entities
        THEN LET noted == [g EXCEPT !.entities[name].aliases =
                                        @ \cup ({written} \ {name})]
             IN  IF name \in DOMAIN g.toNode THEN noted ELSE NewNode(noted, name)
        ELSE IndexNames(
                NewNode([g EXCEPT !.entities = Assign(@, name,
                                      [aliases |-> {}, first |-> time])],
                        name),
                name)

GetOrCreateNode(g, n) ==
    LET name == Canonical(g, n)
    IN  IF name \in DOMAIN g.toNode THEN g ELSE AddOrUpdateEntity(g, name, Now)

\* Idempotent per (from, to, type); two spellings of one entity are no
\* relation, a relation of a name to itself is.
AddEdge(g, edge, rel) ==
    IF (edge[1] = edge[2] /\ rel[1] # rel[2]) \/ edge \in Range(g.edges) THEN g
    ELSE [g EXCEPT !.edges = Append(@, edge)]
ConnectTo(g, from, rel) ==
    AddEdge(g, <<g.toNode[from], g.toNode[Canonical(g, rel[2])]>>, rel)
ConnectFrom(g, rel) == ConnectTo(GetOrCreateNode(g, rel[2]), Canonical(g, rel[1]), rel)
AddRelationship(g, rel) == ConnectFrom(GetOrCreateNode(g, rel[1]), rel)
AddRelationships(g, rels) ==
    LET after[n \in 0..Len(rels)] == IF n = 0 THEN g ELSE AddRelationship(after[n - 1], rels[n])
    IN  after[Len(rels)]
AddEntities(g, names, time) ==
    LET after[n \in 0..Len(names)] ==
            IF n = 0 THEN g ELSE AddOrUpdateEntity(after[n - 1], names[n], time)
    IN  after[Len(names)]

MentionedNames(u) ==
    Range(u.typed) \cup Range(u.creates) \cup Range(u.refs)
    \cup UNION {{r[1], r[2]} : r \in Range(u.rels)}

LinkMentions(g, id) ==
    LET known == {Resolve(g, n) : n \in MentionedNames(EgRecords[id])} \ {NoEntity}
    IN  [g EXCEPT !.mentions = [c \in DOMAIN @ \cup known |->
              (IF c \in DOMAIN g.mentions THEN g.mentions[c] ELSE {})
              \cup (IF c \in known THEN {id} ELSE {})]]

ApplyUpdate(g, id) ==
    LET u == EgRecords[id]
        listed == IF u.typed = <<>> THEN u.creates ELSE u.typed
    IN  LinkMentions(AddRelationships(AddEntities(g, listed, id), u.rels), id)

----------------------------------------------------------------------------
(* Removal and merging.                                                    *)

\* The elements of a sequence at some places.
Picked(seq, at) ==
    LET picked[n \in 0..Len(seq)] ==
            IF n = 0 THEN <<>> ELSE IF n \in at THEN Append(picked[n - 1], seq[n]) ELSE picked[n - 1]
    IN  picked[Len(seq)]

\* DiGraph::remove_node: the edges of the node go, and the last node takes
\* its index.
RemoveNode(g, i) ==
    LET last == Len(g.nodes)
        moved(j) == IF j = last THEN i ELSE j
        kept == Picked(g.edges, {k \in DOMAIN g.edges : i \notin {g.edges[k][1], g.edges[k][2]}})
    IN  [g EXCEPT !.nodes = [j \in 1..(last - 1) |->
                                IF j = i THEN g.nodes[last] ELSE g.nodes[j]],
                  !.edges = [k \in DOMAIN kept |->
                                <<moved(kept[k][1]), moved(kept[k][2])>>]]

\* Mutant: the node moved into the hole keeps its old index.
RemoveEntity_unpatched(g, name) ==
    IF name \notin DOMAIN g.toNode THEN g
    ELSE LET i == g.toNode[name]
         IN  [RemoveNode(g, i) EXCEPT
                !.toNode = Less(@, name), !.toName = Less(@, i),
                !.entities = Less(@, name), !.mentions = Less(@, name),
                !.alias = [k \in {l \in DOMAIN @ : @[l] # name} |-> @[k]]]

RemoveEntity(g, name) ==
    IF name \notin DOMAIN g.toNode THEN g
    ELSE LET i == g.toNode[name]
             cut == [RemoveNode(g, i) EXCEPT
                        !.toNode = Less(@, name), !.toName = Less(@, i)]
             patched ==
                IF i > Len(cut.nodes) THEN cut
                ELSE LET swapped == cut.nodes[i]
                         old == cut.toNode[swapped]
                     IN  [cut EXCEPT !.toNode = Assign(@, swapped, i),
                                     !.toName = Assign(Less(@, old), i, swapped)]
         IN  [patched EXCEPT
                !.entities = Less(@, name), !.mentions = Less(@, name),
                !.alias = [k \in {l \in DOMAIN @ : @[l] # name} |-> @[k]]]

Pair(g, e) == <<g.nodes[e[1]], g.nodes[e[2]]>>

RelationshipsOf(g, name) ==
    IF name \notin DOMAIN g.toNode THEN <<>>
    ELSE LET i == g.toNode[name]
             out == Picked(g.edges, {k \in DOMAIN g.edges : g.edges[k][1] = i})
             into == Picked(g.edges, {k \in DOMAIN g.edges : g.edges[k][2] = i /\ g.edges[k][1] # i})
         IN  [k \in DOMAIN (out \o into) |-> Pair(g, (out \o into)[k])]

Smaller(a, b) == IF a <= b THEN a ELSE b

CanMerge(g, a, b) ==
    /\ Resolve(g, a) # NoEntity /\ Resolve(g, b) # NoEntity
    /\ Resolve(g, a) # Resolve(g, b)
    /\ Resolve(g, a) \in DOMAIN g.entities

MergeEntities(g, a, b) ==
    IF ~CanMerge(g, a, b) THEN g
    ELSE LET alias == Resolve(g, a)
             into == Resolve(g, b)
             gone == g.entities[alias]
             cut == RemoveEntity(g, alias)
             told == [cut EXCEPT
                !.entities[into].aliases =
                    @ \cup (SpellingsOf(g, alias) \ {into}),
                !.entities[into].first = Smaller(@, gone.first)]
             indexed == [told EXCEPT
                !.alias = [k \in DOMAIN @ \cup KeysOf(told, into) |->
                              IF k \in KeysOf(told, into) THEN into ELSE @[k]],
                !.mentions =
                    IF alias \in DOMAIN g.mentions
                    THEN Assign(@, into,
                            g.mentions[alias] \cup
                            (IF into \in DOMAIN @ THEN @[into] ELSE {}))
                    ELSE @]
             to(n) == IF n = alias THEN into ELSE n
             moved == [k \in DOMAIN RelationshipsOf(g, alias) |->
                          <<to(RelationshipsOf(g, alias)[k][1]),
                            to(RelationshipsOf(g, alias)[k][2])>>]
         IN  AddRelationships(indexed, Picked(moved, {k \in DOMAIN moved : moved[k][1] # moved[k][2]}))

MergeAll(g, pairs) ==
    LET after[n \in 0..Len(pairs)] ==
            IF n = 0 THEN g ELSE MergeEntities(after[n - 1], pairs[n][1], pairs[n][2])
    IN  after[Len(pairs)]

\* The pairs replaying the records would not merge by itself.
ExplicitAliases(g) ==
    LET pairs == UNION {{<<n, c>> : n \in {m \in g.entities[c].aliases : EgKey[m] # EgKey[c]}} :
                            c \in DOMAIN g.entities}
        before(p, q) == \/ NameRank(p[2]) < NameRank(q[2])
                        \/ p[2] = q[2] /\ NameRank(p[1]) < NameRank(q[1])
    IN  Sorted(pairs, {x \in pairs \X pairs : before(x[1], x[2])})

Replayed(ids) ==
    LET after[n \in 0..Len(ids)] == IF n = 0 THEN EmptyGraph ELSE ApplyUpdate(after[n - 1], ids[n])
    IN  after[Len(ids)]

\* Mutant: the merges are forgotten.
RebuildEntityGraph_replayOnly(g, ids) == Replayed(ids)

RebuildEntityGraph(g, ids) == MergeAll(Replayed(ids), ExplicitAliases(g))

----------------------------------------------------------------------------
(* Reloading.                                                              *)

Earlier(g, a, b) ==
    \/ g.entities[a].first < g.entities[b].first
    \/ g.entities[a].first = g.entities[b].first /\ NameRank(a) < NameRank(b)

\* Entities whose spellings share a key become one, the earliest mentioned:
\* it keeps the key, and the others are merged into it in their order.
Claimant(g, k) ==
    LET claims == {c \in DOMAIN g.entities : k \in KeysOf(g, c)}
    IN  CHOOSE c \in claims : \A d \in claims \ {c} : Earlier(g, c, d)
RebuildAliasIndex(g) ==
    LET keys == UNION {KeysOf(g, c) : c \in DOMAIN g.entities}
        lost == UNION {{<<c, n>> : n \in {m \in SpellingsOf(g, c) : Claimant(g, EgKey[m]) # c}} :
                          c \in DOMAIN g.entities}
        before(p, q) ==
            \/ Earlier(g, p[1], q[1])
            \/ /\ p[1] = q[1] /\ q[2] # q[1]
               /\ p[2] = p[1] \/ NameRank(p[2]) < NameRank(q[2])
        order == Sorted(lost, {x \in lost \X lost : before(x[1], x[2])})
    IN  MergeAll([g EXCEPT !.alias = [k \in keys |-> Claimant(g, k)]],
                 [i \in DOMAIN order |-> <<order[i][1], Claimant(g, EgKey[order[i][2]])>>])

\* Serialising drops the index maps; nodes come back in name order.
SerdeReload(g) ==
    LET order == InOrder(Range(g.nodes))
        at == [n \in Range(order) |-> CHOOSE i \in DOMAIN order : order[i] = n]
    IN  RebuildAliasIndex(
            [g EXCEPT !.nodes = order, !.toNode = at,
                      !.toName = [i \in DOMAIN order |-> order[i]],
                      !.edges = [k \in DOMAIN g.edges |->
                                    <<at[Pair(g, g.edges[k])[1]],
                                      at[Pair(g, g.edges[k])[2]]>>]])

\* Mutant: an entity row is placed without its aliases being indexed.
InsertEntity_nameOnly(g, name, data) ==
    LET placed == IF name \in DOMAIN g.toNode THEN g ELSE NewNode(g, name)
    IN  [placed EXCEPT !.entities = Assign(@, name, data),
                       !.alias = Assign(@, EgKey[name], name)]

InsertEntity(g, name, data) ==
    LET known == {n \in {name} \cup data.aliases :
                     Resolve(g, n) \notin {NoEntity, name}}
        placed == IF name \in DOMAIN g.toNode THEN g ELSE NewNode(g, name)
        stored == IndexNames([placed EXCEPT
                                 !.entities = Assign(@, name, data)], name)
    IN  IF known = {} THEN stored
        ELSE LET first == IF name \in known THEN name ELSE InOrder(known)[1]
                 other == Resolve(g, first)
             IN  IF Earlier(stored, name, other)
                 THEN MergeEntities(stored, other, name)
                 ELSE MergeEntities(stored, name, other)

RelinkMentions(g, ids) ==
    LET after[n \in 0..Len(ids)] ==
            IF n = 0 THEN [g EXCEPT !.mentions = <<>>] ELSE LinkMentions(after[n - 1], ids[n])
    IN  after[Len(ids)]

\* SurrealDB: one row per entity and per relation, the mentions are derived
\* from the records.
InsertEntities(entities, names) ==
    LET after[n \in 0..Len(names)] ==
            IF n = 0 THEN EmptyGraph
            ELSE InsertEntity(after[n - 1], names[n], entities[names[n]])
    IN  after[Len(names)]
RowReload(g, ids) ==
    LET rows == InsertEntities(g.entities, InOrder(DOMAIN g.entities))
        pairs == [k \in DOMAIN g.edges |-> Pair(g, g.edges[k])]
    IN  RelinkMentions(AddRelationships(rows, pairs), ids)

\* merge_from: how the graphs of a workspace's sessions become one.
\* Mutant: aliases are not carried over.
NoteAlias_dropped(g, name, n) == g

NoteAlias(g, name, n) ==
    LET c == Resolve(g, name)
    IN  [g EXCEPT !.entities[c].aliases = @ \cup ({n} \ {c}),
                  !.alias = IF EgKey[n] \in DOMAIN @ THEN @
                            ELSE Assign(@, EgKey[n], c)]

MergeFrom(g, other) ==
    LET entity(h, n) ==
            FoldLeft(LAMBDA k, m : NoteAlias(k, n, m),
                     AddOrUpdateEntity(h, n, Now),
                     InOrder(other.entities[n].aliases))
        mention(h, n) ==
            [h EXCEPT !.mentions = Assign(@, Canonical(h, n),
                other.mentions[n] \cup
                (IF Canonical(h, n) \in DOMAIN @ THEN @[Canonical(h, n)] ELSE {}))]
        pairs == [k \in DOMAIN other.edges |-> Pair(other, other.edges[k])]
    IN  AddRelationships(FoldLeft(mention,
                                  FoldLeft(entity, g, InOrder(DOMAIN other.entities)),
                                  InOrder(DOMAIN other.mentions)),
                         pairs)

----------------------------------------------------------------------------
(* What the memory system does.                                            *)

\* The graph as a session of an older version stored it, before reloading.
Stored(legacy) ==
    LET order == InOrder(DOMAIN legacy.entities)
        at(n) == CHOOSE i \in DOMAIN order : order[i] = n
    IN  [EmptyGraph EXCEPT
            !.nodes = order, !.entities = legacy.entities,
            !.edges = [k \in DOMAIN legacy.pairs |->
                          <<at(legacy.pairs[k][1]), at(legacy.pairs[k][2])>>]]

GraphInit ==
    /\ egLog = <<>>
    /\ \E legacy \in EgLegacy :
          egGraph \in {SerdeReload(Stored(legacy)), RowReload(Stored(legacy), <<>>)}

\* Ids are in time order.
RecordUpdate(id) ==
    /\ \A i \in Range(egLog) : i < id
    /\ egLog' = Append(egLog, id)
    /\ egGraph' = ApplyUpdate(egGraph, id)

\* delete_update: the record goes, what it added to the graph stays.
DeleteRecord(id) ==
    /\ \E i \in DOMAIN egLog : egLog[i] = id /\ egLog' = RemoveAt(egLog, i)
    /\ UNCHANGED egGraph

PurgeRecord(id) ==
    /\ \E i \in DOMAIN egLog : egLog[i] = id /\ egLog' = RemoveAt(egLog, i)
    /\ egGraph' = RebuildEntityGraph(egGraph, egLog')

\* delete_entity: exact name, an alias deletes nothing.
DeleteEntity(n) ==
    /\ n \in DOMAIN egGraph.entities
    /\ egGraph' = RemoveEntity(egGraph, n)
    /\ UNCHANGED egLog

MergeNames(a, b) ==
    /\ CanMerge(egGraph, a, b)
    /\ egGraph' = MergeEntities(egGraph, a, b)
    /\ UNCHANGED egLog

ReloadRocks ==
    /\ egGraph' = SerdeReload(egGraph)
    /\ UNCHANGED egLog

ReloadSurreal ==
    /\ egGraph' = RowReload(egGraph, egLog)
    /\ UNCHANGED egLog

GraphNext ==
    \/ \E id \in DOMAIN EgRecords :
          RecordUpdate(id) \/ DeleteRecord(id) \/ PurgeRecord(id)
    \/ \E n \in EntityNames : DeleteEntity(n)
    \/ \E a, b \in EntityNames : MergeNames(a, b)
    \/ ReloadRocks \/ ReloadSurreal

GraphSpec == GraphInit /\ [][GraphNext]_graphVars

----------------------------------------------------------------------------
(* Properties.                                                             *)

Relations(g) == {Pair(g, g.edges[k]) : k \in DOMAIN g.edges}
Known(g) == {n \in EntityNames : Resolve(g, n) # NoEntity}
MentionsIn(g, c) == IF c \in DOMAIN g.mentions THEN g.mentions[c] ELSE {}

\* Whatever sequence of records, merges, deletions, purges and reloads: the
\* index maps are the inverse of the node array although removals move its
\* last node, every entity has exactly one node, every spelling of an entity
\* resolves to it and no spelling to a missing one, no relation is stored
\* twice or points outside, and only entities are mentioned.
Coherent ==
    LET g == egGraph
        nodes == DOMAIN g.nodes
    IN  /\ DOMAIN g.entities = Range(g.nodes)
        /\ DOMAIN g.toNode = Range(g.nodes) /\ DOMAIN g.toName = nodes
        /\ \A i \in nodes : g.toName[i] = g.nodes[i] /\ g.toNode[g.nodes[i]] = i
        /\ \A c \in DOMAIN g.entities :
              \A n \in SpellingsOf(g, c) : Resolve(g, n) = c
        /\ Range(g.alias) \subseteq DOMAIN g.entities
        /\ \A k \in DOMAIN g.edges : g.edges[k][1] \in nodes /\ g.edges[k][2] \in nodes
        /\ Cardinality(Relations(g)) = Len(g.edges)
        /\ DOMAIN g.mentions \subseteq DOMAIN g.entities

\* A restart changes nothing a query sees: both backends bring back the same
\* resolution of every name and the same relations, RocksDB the same mentions,
\* and SurrealDB, which derives them, every mention of a record still held.
SameGraph(rocks, surreal) ==
    /\ \A h \in {rocks, surreal} :
          /\ \A n \in EntityNames : Resolve(h, n) = Resolve(egGraph, n)
          /\ Relations(h) = Relations(egGraph)
    /\ \A c \in DOMAIN egGraph.entities :
          /\ MentionsIn(rocks, c) = MentionsIn(egGraph, c)
          /\ MentionsIn(egGraph, c) \cap Range(egLog) \subseteq MentionsIn(surreal, c)
ReloadKeeps == SameGraph(SerdeReload(egGraph), RowReload(egGraph, egLog))

\* A purge leaves nothing derived from the removed record: every name and
\* spelling of the graph is in a remaining record and only remaining records
\* are mentioned; a spelling merged into an entity that remains known stays
\* merged into it (rebuild_entity_graph_sync).
PurgeRebuilds ==
    [][\A id \in DOMAIN EgRecords : PurgeRecord(id) =>
         LET g == egGraph'
             said == UNION {MentionedNames(EgRecords[i]) : i \in Range(egLog')}
         IN  /\ \A c \in DOMAIN g.entities :
                   SpellingsOf(g, c) \subseteq said /\ MentionsIn(g, c) \subseteq Range(egLog')
             /\ \A c \in DOMAIN egGraph.entities : c \in Known(g) =>
                   \A n \in SpellingsOf(egGraph, c) \cap Known(g) :
                      Resolve(g, n) = Resolve(g, c)]_graphVars

\* The graph is coherent, and a restart brings it back.
GraphSound == Coherent /\ ReloadKeeps

-----------------------------------------------------------------------------
(* What the repository says and the model refutes: these do not hold.     *)

\* "Explicit merges ... are kept": two names that were one entity before a
\* purge, and are both still known after it, are one entity after it.
MergesKept ==
    [][\A id \in DOMAIN EgRecords : PurgeRecord(id) =>
         \A a, b \in Known(egGraph) \cap Known(egGraph') :
            Resolve(egGraph, a) = Resolve(egGraph, b)
               => Resolve(egGraph', a) = Resolve(egGraph', b)]_graphVars

=============================================================================
