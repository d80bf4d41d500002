------------------------------ MODULE VectorDb ------------------------------
(***************************************************************************)
(* The in-memory vector database (post-cortex-embeddings, vector_db/core.rs *)
(* and hnsw_index.rs): concurrent maps without a common lock.  A loader    *)
(* stores a batch of vectors (add_vector is a batch of one), each through  *)
(* its secondary indices, the vector map and the metadata map, and then    *)
(* brings them into the HNSW graph, or builds the graph when the batch     *)
(* crossed the exact-search threshold.  A remover takes away the vectors   *)
(* of one source.  A rebuild (build_index) clears the graph and inserts a  *)
(* snapshot.  One action per operation on a shared map or atomic.          *)
(*                                                                         *)
(* Vectors are numbers; fetch_add hands out distinct ones, so a batch is   *)
(* the set of ids it gets.  Similarities are not modelled: which nodes of  *)
(* the graph are the nearest is a choice.                                  *)
(***************************************************************************)
EXTENDS Naturals, FiniteSets, Sequences

CONSTANTS VdLoaders, VdRemovers, VdRebuilders,
          VdBatch,         \* loader -> sequence of the ids it stores
          VdSource,        \* id -> source
          VdDoomed,        \* remover -> the source it removes
          MaxVectors, ExactThreshold, MaxConnections, MaxLayer

VdIds == UNION {{VdBatch[l][k] : k \in DOMAIN VdBatch[l]} : l \in VdLoaders}
VdThreads == VdLoaders \cup VdRemovers \cup VdRebuilders

ASSUME VectorDbAssumption ==
    /\ \A l \in VdLoaders : VdBatch[l] \in Seq(Nat \ {0})
    /\ \A l, m \in VdLoaders : \A j \in DOMAIN VdBatch[l], k \in DOMAIN VdBatch[m] :
          VdBatch[l][j] = VdBatch[m][k] => l = m /\ j = k
    /\ IsFiniteSet(VdLoaders)
    /\ MaxVectors \in Nat \ {0} /\ ExactThreshold \in Nat
    /\ MaxConnections \in Nat \ {0} /\ MaxLayer \in Nat

VARIABLES vdIndexed,     \* by_source, by_content_id, text index
          vdVectors, vdMetadata,
          vdLayers,      \* HnswIndex::layers: id -> layer
          vdEdges,       \* HnswIndex::connections: id -> set of ids
          vdEntry,       \* HnswIndex::entry_state: entry point and max layer
          vdActive,      \* hnsw_active
          vdLock,        \* build_lock
          vdThread       \* what each thread is doing

vectorVars == <<vdIndexed, vdVectors, vdMetadata, vdLayers, vdEdges, vdEntry,
                vdActive, vdLock, vdThread>>
mapVars == <<vdIndexed, vdVectors, vdMetadata>>
hnswVars == <<vdLayers, vdEdges, vdEntry>>

NoId == 0         \* u32::MAX in the code; ids start at 1 here
Free == "free"
NoEntry == [id |-> NoId, layer |-> 0]

\* todo: ids still to handle; mine: ids stored, or removed; sel: neighbours
\* chosen for todo's head; seen, found: the entry state a
\* CAS is based on and what it swaps in.
NoOperation == [pc |-> "start", todo |-> <<>>, mine |-> {}, sel |-> {},
         seen |-> NoEntry, found |-> NoEntry, layer |-> 0]

VectorInit ==
    /\ vdIndexed = {} /\ vdVectors = {} /\ vdMetadata = {}
    /\ vdLayers = <<>> /\ vdEdges = <<>> /\ vdEntry = NoEntry
    /\ vdActive = FALSE /\ vdLock = Free
    /\ vdThread = [t \in VdThreads |->
                     IF t \in VdLoaders
                     THEN [NoOperation EXCEPT !.pc = "check", !.todo = VdBatch[t]]
                     ELSE NoOperation]

At(t, pc) == vdThread[t].pc = pc
Goto(t, pc) == vdThread' = [vdThread EXCEPT ![t].pc = pc]
Become(t, r) == vdThread' = [vdThread EXCEPT ![t] = r]
Next1(t) == Head(vdThread[t].todo)
Ascending(ids) ==
    CHOOSE s \in [1..Cardinality(ids) -> ids] :
       \A j, k \in DOMAIN s : j < k => s[j] < s[k]

----------------------------------------------------------------------------
(* Storing.                                                                *)

AtCapacity == Cardinality(vdVectors) >= MaxVectors

\* Mutant: the cap is tested once per batch, not per vector.
CheckCapacity_firstOnly(t) ==
    /\ At(t, "check")
    /\ IF vdThread[t].todo = <<>> THEN Goto(t, "index")
       ELSE IF vdThread[t].mine # {} \/ ~AtCapacity THEN Goto(t, "describe")
       ELSE vdThread' = [vdThread EXCEPT ![t].todo = <<>>]
    /\ UNCHANGED <<mapVars, hnswVars, vdActive, vdLock>>

CheckCapacity(t) ==
    /\ At(t, "check")
    /\ IF vdThread[t].todo = <<>> THEN Goto(t, "index")
       ELSE IF ~AtCapacity THEN Goto(t, "describe")
       ELSE \* the rest of a batch is dropped; an item whose own check fails
            \* after the batch's is skipped alone
            \E rest \in {<<>>, Tail(vdThread[t].todo)} :
               vdThread' = [vdThread EXCEPT ![t].todo = rest]
    /\ UNCHANGED <<mapVars, hnswVars, vdActive, vdLock>>

\* index_metadata: three maps, one step: nothing removes an id from them
\* before its metadata is stored.
IndexMetadata(t) ==
    /\ At(t, "describe")
    /\ vdIndexed' = vdIndexed \cup {Next1(t)}
    /\ Goto(t, "vector")
    /\ UNCHANGED <<vdVectors, vdMetadata, hnswVars, vdActive, vdLock>>

StoreVector(t) ==
    /\ At(t, "vector")
    /\ vdVectors' = vdVectors \cup {Next1(t)}
    /\ Goto(t, "metadata")
    /\ UNCHANGED <<vdIndexed, vdMetadata, hnswVars, vdActive, vdLock>>

StoreMetadata(t) ==
    /\ At(t, "metadata")
    /\ vdMetadata' = vdMetadata \cup {Next1(t)}
    /\ Become(t, [vdThread[t] EXCEPT !.pc = "check", !.todo = Tail(@),
                                     !.mine = @ \cup {Next1(t)}])
    /\ UNCHANGED <<vdIndexed, vdVectors, hnswVars, vdActive, vdLock>>

\* index_new_vectors: nothing to do while the database is small; a single
\* insert that was refused does not get here.
IndexNewVectors(t) ==
    /\ At(t, "index")
    /\ IF vdActive
       THEN Become(t, [vdThread[t] EXCEPT !.pc = "graph", !.todo = Ascending(vdThread[t].mine)])
       ELSE \/ /\ Cardinality(vdVectors) <= ExactThreshold \/ vdThread[t].mine = {}
               /\ Goto(t, "done")
            \/ Cardinality(vdVectors) > ExactThreshold /\ Goto(t, "lock")
    /\ UNCHANGED <<mapVars, hnswVars, vdActive, vdLock>>

----------------------------------------------------------------------------
(* Building the graph.                                                     *)

TakeBuildLock(t) ==
    /\ At(t, "lock") /\ vdLock = Free
    /\ IF vdActive
       THEN /\ Become(t, [vdThread[t] EXCEPT !.pc = "graph", !.todo = Ascending(vdThread[t].mine)])
            /\ UNCHANGED vdLock
       ELSE Goto(t, "clear") /\ vdLock' = t
    /\ UNCHANGED <<mapVars, hnswVars, vdActive>>

\* build_index: whether the graph is live or not.
BuildIndex(t) ==
    /\ t \in VdRebuilders /\ At(t, "start") /\ vdLock = Free
    /\ vdLock' = t /\ Goto(t, "clear")
    /\ UNCHANGED <<mapVars, hnswVars, vdActive>>

ClearEdges(t) ==
    /\ At(t, "clear")
    /\ vdEdges' = <<>> /\ Goto(t, "clearLayers")
    /\ UNCHANGED <<mapVars, vdLayers, vdEntry, vdActive, vdLock>>

ClearLayers(t) ==
    /\ At(t, "clearLayers")
    /\ vdLayers' = <<>> /\ Goto(t, "clearEntry")
    /\ UNCHANGED <<mapVars, vdEdges, vdEntry, vdActive, vdLock>>

ClearEntry(t) ==
    /\ At(t, "clearEntry")
    /\ vdEntry' = NoEntry /\ Goto(t, "activate")
    /\ UNCHANGED <<mapVars, vdLayers, vdEdges, vdActive, vdLock>>

\* Live before the snapshot.
Activate(t) ==
    /\ At(t, "activate")
    /\ vdActive' = TRUE /\ Goto(t, "snapshot")
    /\ UNCHANGED <<mapVars, hnswVars, vdLock>>

Snapshot(t) ==
    /\ At(t, "snapshot")
    /\ Become(t, [vdThread[t] EXCEPT !.pc = "graph", !.todo = Ascending(vdVectors)])
    /\ UNCHANGED <<mapVars, hnswVars, vdActive, vdLock>>

----------------------------------------------------------------------------
(* Inserting one stored vector into the live graph.                        *)

\* An id the graph already holds is skipped, and one removed meanwhile.
SkipNode(t) ==
    /\ At(t, "graph") /\ vdThread[t].todo # <<>>
    /\ Next1(t) \in DOMAIN vdLayers \/ Next1(t) \notin vdVectors
    /\ vdThread' = [vdThread EXCEPT ![t].todo = Tail(@)]
    /\ UNCHANGED <<mapVars, hnswVars, vdActive, vdLock>>

Smallest(a, b) == IF a <= b THEN a ELSE b
Nearest(nodes) ==
    {s \in SUBSET nodes :
        Cardinality(s) = Smallest(MaxConnections, Cardinality(nodes))}

ChooseNeighbours(t) ==
    /\ At(t, "graph") /\ vdThread[t].todo # <<>>
    /\ Next1(t) \notin DOMAIN vdLayers /\ Next1(t) \in vdVectors
    /\ \E s \in Nearest((DOMAIN vdLayers \cap vdVectors) \ {Next1(t)}),
          l \in 0..MaxLayer :
          Become(t, [vdThread[t] EXCEPT !.pc = "layer", !.sel = s, !.layer = l])
    /\ UNCHANGED <<mapVars, hnswVars, vdActive, vdLock>>

AddLayer(t) ==
    /\ At(t, "layer")
    /\ vdLayers' = [i \in DOMAIN vdLayers \cup {Next1(t)} |->
                      IF i = Next1(t) THEN vdThread[t].layer ELSE vdLayers[i]]
    /\ Goto(t, "edges")
    /\ UNCHANGED <<mapVars, vdEdges, vdEntry, vdActive, vdLock>>

EdgesOf(i) == IF i \in DOMAIN vdEdges THEN vdEdges[i] ELSE {}
WithEdges(i, s) ==
    [j \in DOMAIN vdEdges \cup {i} |-> IF j = i THEN s ELSE vdEdges[j]]

AddEdges(t) ==
    /\ At(t, "edges")
    /\ vdEdges' = WithEdges(Next1(t), vdThread[t].sel)
    /\ Goto(t, "entry")
    /\ UNCHANGED <<mapVars, vdLayers, vdEntry, vdActive, vdLock>>

\* The CAS loop of HnswIndex::add_vector, which ends with one atomic update.
RaiseEntry(t) ==
    /\ At(t, "entry")
    /\ LET l == vdThread[t].layer
       IN  vdEntry' = IF vdEntry.id = NoId \/ l >= vdEntry.layer
                      THEN [id |-> Next1(t), layer |-> IF l > vdEntry.layer
                                                       THEN l ELSE vdEntry.layer]
                      ELSE vdEntry
    /\ Goto(t, "back")
    /\ UNCHANGED <<mapVars, vdLayers, vdEdges, vdActive, vdLock>>

\* add_connection and prune_connections on one chosen neighbour.
AddReverseEdge(t) ==
    /\ At(t, "back") /\ vdThread[t].sel # {}
    /\ \E n \in vdThread[t].sel :
          /\ LET all == EdgesOf(n) \cup {Next1(t)}
             IN  IF n \in vdVectors /\ Cardinality(all) > MaxConnections
                 THEN \E s \in Nearest(all \cap vdVectors) : vdEdges' = WithEdges(n, s)
                 ELSE vdEdges' = WithEdges(n, all)
          /\ vdThread' = [vdThread EXCEPT ![t].sel = @ \ {n}]
    /\ UNCHANGED <<mapVars, vdLayers, vdEntry, vdActive, vdLock>>

NodeInserted(t) ==
    /\ At(t, "back") /\ vdThread[t].sel = {}
    /\ Become(t, [vdThread[t] EXCEPT !.pc = "graph", !.todo = Tail(@)])
    /\ UNCHANGED <<mapVars, hnswVars, vdActive, vdLock>>

GraphDone(t) ==
    /\ At(t, "graph") /\ vdThread[t].todo = <<>>
    /\ Goto(t, "done")
    /\ vdLock' = IF vdLock = t THEN Free ELSE vdLock
    /\ UNCHANGED <<mapVars, hnswVars, vdActive>>

----------------------------------------------------------------------------
(* Removing the vectors of a source.                                       *)

RemoveSource(t) ==
    /\ t \in VdRemovers /\ At(t, "start")
    /\ Become(t, [vdThread[t] EXCEPT !.pc = "unindex",
                    !.todo = Ascending({i \in vdIndexed : VdSource[i] = VdDoomed[t]})])
    /\ UNCHANGED <<mapVars, hnswVars, vdActive, vdLock>>

\* Only an id with metadata can be taken out of the indices.
UnindexMetadata(t) ==
    /\ At(t, "unindex") /\ vdThread[t].todo # <<>>
    /\ IF Next1(t) \in vdMetadata
       THEN /\ vdMetadata' = vdMetadata \ {Next1(t)}
            /\ vdIndexed' = vdIndexed \ {Next1(t)}
       ELSE UNCHANGED <<vdMetadata, vdIndexed>>
    /\ Goto(t, "remove")
    /\ UNCHANGED <<vdVectors, hnswVars, vdActive, vdLock>>

RemoveVector(t) ==
    /\ At(t, "remove")
    /\ vdVectors' = vdVectors \ {Next1(t)}
    /\ Become(t, [vdThread[t] EXCEPT !.pc = "unindex", !.todo = Tail(@),
                    !.mine = IF Next1(t) \in vdVectors THEN @ \cup {Next1(t)} ELSE @])
    /\ UNCHANGED <<vdIndexed, vdMetadata, hnswVars, vdActive, vdLock>>

\* The pass of HnswIndex::remove_vectors over layers and edges is one step.
RemoveNodes(t) ==
    /\ At(t, "unindex") /\ vdThread[t].todo = <<>>
    /\ vdLayers' = [i \in DOMAIN vdLayers \ vdThread[t].mine |-> vdLayers[i]]
    /\ vdEdges' = [i \in DOMAIN vdEdges \ vdThread[t].mine |->
                     vdEdges[i] \ vdThread[t].mine]
    /\ Goto(t, IF vdThread[t].mine = {} THEN "done" ELSE "reselect")
    /\ UNCHANGED <<mapVars, vdEntry, vdActive, vdLock>>

Highest ==
    LET top == {i \in DOMAIN vdLayers : \A j \in DOMAIN vdLayers : vdLayers[j] <= vdLayers[i]}
    IN  IF top = {} THEN NoEntry
        ELSE LET i == CHOOSE i \in top : \A j \in top : i <= j
             IN  [id |-> i, layer |-> vdLayers[i]]

EntryServes(entry) ==
    IF entry.id = NoId THEN DOMAIN vdLayers = {} ELSE entry.id \in DOMAIN vdLayers

\* The state is loaded and, if it does not serve, the layers are scanned...
ReselectScan(t) ==
    /\ At(t, "reselect")
    /\ IF EntryServes(vdEntry) THEN Goto(t, "done")
       ELSE Become(t, [vdThread[t] EXCEPT !.pc = "cas", !.seen = vdEntry, !.found = Highest])
    /\ UNCHANGED <<mapVars, hnswVars, vdActive, vdLock>>

\* ...and what the scan found is swapped in, unless the state changed.
ReselectSwap(t) ==
    /\ At(t, "cas")
    /\ vdEntry' = IF vdEntry = vdThread[t].seen THEN vdThread[t].found ELSE vdEntry
    /\ Become(t, [vdThread[t] EXCEPT !.pc = "reselect", !.found = NoEntry,
                                     !.seen = NoEntry])
    /\ UNCHANGED <<mapVars, vdLayers, vdEdges, vdActive, vdLock>>

----------------------------------------------------------------------------
Loading(t) ==
    \/ CheckCapacity(t) \/ IndexMetadata(t) \/ StoreVector(t) \/ StoreMetadata(t)
    \/ IndexNewVectors(t) \/ TakeBuildLock(t)

\* Mutant: the snapshot is taken before the graph is live.
Building_snapshotFirst(t) ==
    \/ BuildIndex(t) \/ ClearEdges(t) \/ ClearLayers(t) \/ ClearEntry(t)
    \/ /\ At(t, "activate")
       /\ Become(t, [vdThread[t] EXCEPT !.pc = "snapshot", !.todo = Ascending(vdVectors)])
       /\ UNCHANGED <<mapVars, hnswVars, vdActive, vdLock>>
    \/ /\ At(t, "snapshot")
       /\ vdActive' = TRUE /\ Goto(t, "graph")
       /\ UNCHANGED <<mapVars, hnswVars, vdLock>>

Building(t) ==
    \/ BuildIndex(t) \/ ClearEdges(t) \/ ClearLayers(t) \/ ClearEntry(t)
    \/ Activate(t) \/ Snapshot(t)

Inserting(t) ==
    \/ SkipNode(t) \/ ChooseNeighbours(t) \/ AddLayer(t) \/ AddEdges(t)
    \/ RaiseEntry(t) \/ AddReverseEdge(t) \/ NodeInserted(t) \/ GraphDone(t)

Removing(t) ==
    \/ RemoveSource(t) \/ UnindexMetadata(t) \/ RemoveVector(t) \/ RemoveNodes(t)
    \/ ReselectScan(t) \/ ReselectSwap(t)

VectorNext == \E t \in VdThreads : Loading(t) \/ Building(t) \/ Inserting(t) \/ Removing(t)
VectorSpec == VectorInit /\ [][VectorNext]_vectorVars

----------------------------------------------------------------------------
(* Properties.                                                             *)

VectorsQuiet == \A t \in VdThreads : At(t, "done") \/ (t \notin VdLoaders /\ At(t, "start"))

\* The live graph misses no stored vector, whichever loads, builds and
\* removals overlapped: a load that found no live graph stored its vectors
\* before the snapshot of the build that made it live (build_graph_locked).
NoneMissed == VectorsQuiet /\ vdActive => vdVectors \subseteq DOMAIN vdLayers

\* "concurrent inserts can overshoot the cap by at most the number of racing
\* threads"; and what is stored with its metadata is found by its source.
CapKept ==
    /\ Cardinality(vdVectors) < MaxVectors + Cardinality(VdLoaders)
    /\ vdVectors \cap vdMetadata \subseteq vdIndexed

\* The index misses no vector and keeps its bound.
IndexSound == NoneMissed /\ CapKept

-----------------------------------------------------------------------------
(* The inductive invariant behind IndexSound.                              *)

IdsIn(s) == {s[k] : k \in DOMAIN s}
StoringAt == {"check", "describe", "vector", "metadata"}
InsertingAt == {"layer", "edges", "entry", "back"}
BuildingAt == {"clear", "clearLayers", "clearEntry", "activate", "snapshot"}
RemovingAt == {"unindex", "remove", "reselect", "cas"}
EntryStates == [id : Nat, layer : Nat]

VectorTypeOK ==
    /\ vdIndexed \subseteq Nat /\ vdVectors \subseteq Nat /\ vdMetadata \subseteq Nat
    /\ IsFiniteSet(vdIndexed) /\ IsFiniteSet(vdVectors)
    /\ DOMAIN vdLayers \subseteq Nat /\ \A i \in DOMAIN vdLayers : vdLayers[i] \in Nat
    /\ vdEntry \in EntryStates /\ vdActive \in BOOLEAN
    /\ vdThread \in [VdThreads ->
          [pc : {"start", "index", "lock", "graph", "done"} \cup StoringAt \cup InsertingAt
                   \cup BuildingAt \cup RemovingAt,
           todo : Seq(Nat), mine : SUBSET Nat, sel : SUBSET Nat,
           seen : EntryStates, found : EntryStates, layer : Nat]]
    /\ \A t \in VdThreads :
          /\ IsFiniteSet(vdThread[t].mine)
          /\ vdThread[t].pc = "start" => vdThread[t].mine = {}
          /\ vdThread[t].pc \in {"describe", "vector", "metadata", "remove"} \cup InsertingAt =>
                vdThread[t].todo # <<>>
          /\ vdThread[t].pc \in StoringAt =>
                /\ t \in VdLoaders /\ IdsIn(vdThread[t].todo) \subseteq IdsIn(VdBatch[t])
                /\ \A j, k \in DOMAIN vdThread[t].todo :
                      vdThread[t].todo[j] = vdThread[t].todo[k] => j = k

\* What a loader has still to store: not stored before, nor removed.
Ahead(t) ==
    IF vdThread[t].pc \in {"check", "describe", "vector"} THEN IdsIn(vdThread[t].todo)
    ELSE IF vdThread[t].pc = "metadata" THEN IdsIn(Tail(vdThread[t].todo)) ELSE {}
NeverStored ==
    \A t \in VdThreads :
       /\ Ahead(t) \cap (vdVectors \cup vdMetadata) = {}
       /\ vdThread[t].pc = "metadata" => Next1(t) \notin vdMetadata
       /\ \A u \in VdThreads : vdThread[u].pc \in RemovingAt => Ahead(t) \cap vdThread[u].mine = {}

\* What a remover took out of the map does not come back.
RemovedStays ==
    \A t \in VdThreads : vdThread[t].pc \in RemovingAt => vdThread[t].mine \cap vdVectors = {}

IndexedFirst ==
    /\ vdMetadata \subseteq vdIndexed
    /\ \A t \in VdThreads : vdThread[t].pc \in {"vector", "metadata"} => Next1(t) \in vdIndexed

\* A thread that has yet to bring a stored vector into the live graph.
Owes(t, i) ==
    \/ vdThread[t].pc = "metadata" /\ i = Next1(t)
    \/ vdThread[t].pc \in StoringAt \cup {"index", "lock"} /\ i \in vdThread[t].mine
    \/ vdThread[t].pc \in BuildingAt
    \/ vdThread[t].pc \in {"graph", "layer"} /\ i \in IdsIn(vdThread[t].todo)
    \/ vdThread[t].pc \in {"edges", "entry", "back"} /\ i \in IdsIn(Tail(vdThread[t].todo))
Accounted ==
    vdActive => \A i \in vdVectors \ DOMAIN vdLayers : \E t \in VdThreads : Owes(t, i)

\* Loaders past the test of the cap count as stored.
Admitted == {t \in VdLoaders : vdThread[t].pc \in {"describe", "vector"}}
CapReserved ==
    Cardinality(vdVectors) + Cardinality(Admitted) < MaxVectors + Cardinality(VdLoaders)

VectorInv ==
    /\ VectorTypeOK /\ NeverStored /\ RemovedStays /\ IndexedFirst /\ Accounted /\ CapReserved

-----------------------------------------------------------------------------
(* What the repository says and the model refutes: these do not hold.     *)

\* "the entry point never stays pointed at a removed vector"
EntryLive == VectorsQuiet /\ vdEntry.id # NoId => vdEntry.id \in vdVectors

\* "nothing overwrites edges added to it meanwhile": while no list is long
\* enough to be pruned, a node's neighbours know it.
EdgesKept ==
    VectorsQuiet => \A i \in DOMAIN vdEdges : \A n \in vdEdges[i] : i \in EdgesOf(n)

\* has_update_embedding: an id the indices hold is a stored vector.
IndexedIsStored == VectorsQuiet => vdIndexed \subseteq vdVectors

=============================================================================
