------------------------------ MODULE Freshness ------------------------------
(***************************************************************************)
(* Source references: which file, and which function of it, a cached entry *)
(* was made from.  A client asks whether entries are still fresh, and      *)
(* invalidates a file, or a changed symbol together with the symbols that  *)
(* depend on it.  RocksDB finds the references of a file through an index  *)
(* kept in the same write batch, and invalidates by deleting; SurrealDB    *)
(* queries the table, and invalidates by setting a status.  Requests run   *)
(* as tasks of the storage actor, which takes no lock for any of them.     *)
(*                                                                         *)
(* A symbol is <<file, name>>; a dependency on a name alone has the file   *)
(* "any".  A reference without a function scope has the name "none", and   *)
(* the hash of its syntax tree is "none".                                  *)
(***************************************************************************)
EXTENDS Naturals, Sequences, FiniteSets, SequencesExt

CONSTANTS
    FrRefs,     \* references a client registers: [entry, file, name, hash, ast]
    FrDeps,     \* dependencies a client registers: from |-> set of symbols
    FrFiles,    \* files a client invalidates
    FrChanged,  \* <<symbol, max_depth>> of the cascades a client asks for
    FrLast,     \* name -> the last segment of its path
    FrOld,      \* reference sets of databases made before the file index
    FrTasks,    \* tasks of the actor
    FrBackends, \* "rocksdb", "surrealdb"
    FrFaults    \* may a storage call fail?

FrEntries == {r.entry : r \in FrRefs}

ASSUME FreshnessAssumption ==
    /\ \A r \in FrRefs : r.file # "none" /\ r.name \in DOMAIN FrLast \cup {"none"}
    /\ \A old \in FrOld : old \subseteq FrRefs
    /\ \A c \in FrChanged : c[2] \in Nat
    /\ IsFiniteSet(DOMAIN FrDeps)

VARIABLES
    frBackend,
    frOpen,   \* has the storage been opened?
    frRefs,   \* source_ref:, source_reference: the references by entry
    frIndex,  \* source_by_file: pairs <<file, entry>>
    frMarker, \* was the index built?
    frDeps,   \* symbol_dep, symbol_rdep: pairs <<from, to>>
    frTask,   \* what each task does
    frDue     \* history: entries of finished invalidations, not registered since

freshnessVars == <<frBackend, frOpen, frRefs, frIndex, frMarker, frDeps, frTask, frDue>>

NoTask == [op |-> "idle"]
Rocks == frBackend = "rocksdb"
StoredRefs(r, stale) == [file |-> r.file, name |-> r.name, hash |-> r.hash, ast |-> r.ast,
                     stale |-> stale]

FreshnessInit ==
    /\ frBackend \in FrBackends
    /\ frOpen = FALSE
    /\ \E old \in FrOld :
        frRefs = [e \in {r.entry : r \in old} |->
                    StoredRefs(CHOOSE r \in old : r.entry = e, FALSE)]
    /\ frIndex = {} /\ frMarker = FALSE /\ frDeps = {}
    /\ frTask = [t \in FrTasks |-> NoTask]
    /\ frDue = {}

\* Opening a RocksDB directory indexes the references of one without the marker.
OpenStorage ==
    /\ ~frOpen /\ frOpen' = TRUE
    /\ IF Rocks /\ ~frMarker
       THEN frIndex' = frIndex \cup {<<frRefs[e].file, e>> : e \in DOMAIN frRefs} /\ frMarker' = TRUE
       ELSE UNCHANGED <<frIndex, frMarker>>
    /\ UNCHANGED <<frBackend, frRefs, frDeps, frTask, frDue>>

\* The process dies: what was written stays.
Crash ==
    /\ frOpen /\ frOpen' = FALSE
    /\ frTask' = [t \in FrTasks |-> NoTask]
    /\ UNCHANGED <<frBackend, frRefs, frIndex, frMarker, frDeps, frDue>>

-----------------------------------------------------------------------------
(* Reads.                                                                   *)

\* A function's own hash decides where both sides have one.
Same(r, hash, ast) == IF ast # "none" /\ r.ast # "none" THEN r.ast = ast ELSE r.hash = hash

\* RocksDB: an invalidated reference is gone, so there is no status to see.
FreshnessOf(e, hash, ast) ==
    IF e \notin DOMAIN frRefs THEN "unknown"
    ELSE IF Same(frRefs[e], hash, ast) THEN "fresh" ELSE "stale"

\* SurrealDB: a status set by an invalidation wins over the hashes.
RecordFreshness(e, hash, ast) ==
    IF e \in DOMAIN frRefs /\ frRefs[e].stale THEN "stale" ELSE FreshnessOf(e, hash, ast)

\* CheckFreshness: hashes given per entry; a batch that fails is all unknown.
CheckFreshness(hashes, asts, failed) ==
    [e \in DOMAIN hashes |->
        IF failed THEN "unknown"
        ELSE IF Rocks THEN FreshnessOf(e, hashes[e], asts[e])
             ELSE RecordFreshness(e, hashes[e], asts[e])]

ReferencesForFile(file) ==
    {e \in DOMAIN frRefs : frRefs[e].file = file /\ (Rocks => <<file, e>> \in frIndex)}

StaleEntriesBySource(file) ==
    IF Rocks THEN {} ELSE {e \in ReferencesForFile(file) : frRefs[e].stale}

\* The symbols known to depend on one.  RocksDB keeps every dependency under
\* its name alone as well, and looks that up by the last path segment.
DependentsOf(sym) ==
    {d[1] : d \in {x \in frDeps :
        \/ x[2] = sym
        \/ IF Rocks THEN x[2][2] = FrLast[sym[2]] ELSE x[2] = <<"any", sym[2]>>}}

-----------------------------------------------------------------------------
(* Registrations.                                                           *)

Becomes(t, task) == frTask' = [frTask EXCEPT ![t] = task]

\* RegisterSource; RegisterSourceBatch starts one for each of its references.
RegisterSource(t, r) ==
    /\ frOpen /\ frTask[t] = NoTask
    /\ Becomes(t, [op |-> "register", ref |-> r, read |-> FALSE, old |-> "none"])
    /\ UNCHANGED <<frBackend, frOpen, frRefs, frIndex, frMarker, frDeps, frDue>>

RegisterSourceBatch(refs) ==
    /\ frOpen
    /\ \A t \in DOMAIN refs : frTask[t] = NoTask
    /\ frTask' = [t \in FrTasks |->
                    IF t \in DOMAIN refs
                    THEN [op |-> "register", ref |-> refs[t], read |-> FALSE, old |-> "none"]
                    ELSE frTask[t]]
    /\ UNCHANGED <<frBackend, frOpen, frRefs, frIndex, frMarker, frDeps, frDue>>

ReadOld(t) ==
    /\ frTask[t].op = "register" /\ Rocks /\ ~frTask[t].read
    /\ LET e == frTask[t].ref.entry IN
       Becomes(t, [frTask[t] EXCEPT !.read = TRUE,
                     !.old = IF e \in DOMAIN frRefs THEN frRefs[e].file ELSE "none"])
    /\ UNCHANGED <<frBackend, frOpen, frRefs, frIndex, frMarker, frDeps, frDue>>

\* The index after the batch of a registration.
Indexed_moves(r, old) == (frIndex \ {<<old, r.entry>>}) \cup (IF old = "none" THEN {<<r.file, r.entry>>} ELSE {})
Indexed(r, old) ==
    (IF old # "none" /\ old # r.file THEN frIndex \ {<<old, r.entry>>} ELSE frIndex)
    \cup {<<r.file, r.entry>>}

WriteReference(t) ==
    LET r == frTask[t].ref IN
    /\ frTask[t].op = "register" /\ (Rocks => frTask[t].read)
    /\ frRefs' = [e \in DOMAIN frRefs \cup {r.entry} |->
                    IF e = r.entry THEN StoredRefs(r, FALSE) ELSE frRefs[e]]
    /\ frIndex' = IF Rocks THEN Indexed(r, frTask[t].old) ELSE frIndex
    /\ frDue' = frDue \ {r.entry}
    /\ frTask' = [u \in FrTasks |->
                    IF u = t THEN NoTask
                    ELSE IF frTask[u].op \in {"invalidate", "cascade"}
                         THEN [frTask[u] EXCEPT !.due = @ \ {r.entry}] ELSE frTask[u]]
    /\ UNCHANGED <<frBackend, frOpen, frMarker, frDeps>>

\* One batch on RocksDB, one statement for each dependency on SurrealDB.
RegisterSymbolDependencies(t, from) ==
    /\ frOpen /\ frTask[t] = NoTask
    /\ Becomes(t, [op |-> "depend", from |-> from, left |-> FrDeps[from]])
    /\ UNCHANGED <<frBackend, frOpen, frRefs, frIndex, frMarker, frDeps, frDue>>

WriteDependencies(t) ==
    /\ frTask[t].op = "depend"
    /\ \E some \in IF Rocks THEN {frTask[t].left} ELSE {{x} : x \in frTask[t].left} :
        LET left == frTask[t].left \ some IN
        /\ frDeps' = frDeps \cup {<<frTask[t].from, x>> : x \in some}
        /\ Becomes(t, IF left = {} THEN NoTask ELSE [frTask[t] EXCEPT !.left = left])
    /\ UNCHANGED <<frBackend, frOpen, frRefs, frIndex, frMarker, frDue>>

-----------------------------------------------------------------------------
(* Invalidations.                                                           *)

\* What a RocksDB task read to delete, a SurrealDB statement to mark.
Deleted(doomed) ==
    /\ frRefs' = [e \in DOMAIN frRefs \ {d[2] : d \in doomed} |-> frRefs[e]]
    /\ frIndex' = frIndex \ doomed
Marked(chosen) ==
    /\ frRefs' = [e \in DOMAIN frRefs |->
                    IF e \in chosen THEN [frRefs[e] EXCEPT !.stale = TRUE] ELSE frRefs[e]]
    /\ UNCHANGED frIndex

Finish(t) == Becomes(t, NoTask) /\ frDue' = frDue \cup frTask[t].due

Invalidate(t, file) ==
    /\ frOpen /\ frTask[t] = NoTask
    /\ Becomes(t, [op |-> "invalidate", file |-> file, read |-> FALSE, doomed |-> {},
                   due |-> {e \in DOMAIN frRefs : frRefs[e].file = file}])
    /\ UNCHANGED <<frBackend, frOpen, frRefs, frIndex, frMarker, frDeps, frDue>>

ReadFile(t) ==
    /\ frTask[t].op = "invalidate" /\ Rocks /\ ~frTask[t].read
    /\ LET file == frTask[t].file IN
       Becomes(t, [frTask[t] EXCEPT !.read = TRUE,
                     !.doomed = {<<file, e>> : e \in ReferencesForFile(file)}])
    /\ UNCHANGED <<frBackend, frOpen, frRefs, frIndex, frMarker, frDeps, frDue>>

InvalidateSource(t) ==
    /\ frTask[t].op = "invalidate" /\ (Rocks => frTask[t].read)
    /\ IF Rocks THEN Deleted(frTask[t].doomed)
       ELSE Marked({e \in DOMAIN frRefs : frRefs[e].file = frTask[t].file})
    /\ Finish(t)
    /\ UNCHANGED <<frBackend, frOpen, frMarker, frDeps>>

\* The symbols within n steps of one, along the dependencies registered now.
\* RocksDB (b is the backend) misses a name-only dependency on a qualified
\* name, whose last segment is not the name: those are no part of what is due.
DueDependents(b, deps, sym) ==
    {d[1] : d \in {x \in deps :
        \/ x[2] = sym
        \/ x[2] = <<"any", sym[2]>> /\ (b = "rocksdb" => FrLast[sym[2]] = sym[2])}}
Within(b, deps, sym, n) ==
    LET reach[k \in 0..n] ==
            IF k = 0 THEN {sym}
            ELSE reach[k - 1] \cup UNION {DueDependents(b, deps, s) : s \in reach[k - 1]}
    IN  reach[n]

\* max_depth 0 stands for 10.
DepthOf(n) == IF n = 0 THEN 10 ELSE n

CascadeInvalidate(t, changed, asked) ==
    /\ frOpen /\ frTask[t] = NoTask
    /\ Becomes(t, [op |-> "cascade", changed |-> changed, max |-> DepthOf(asked),
                   queue |-> <<<<changed, 0>>>>, seen |-> {changed}, found |-> <<>>,
                   stage |-> "walk", marks |-> <<>>, left |-> {}, doomed |-> {},
                   due |-> {e \in DOMAIN frRefs : <<frRefs[e].file, frRefs[e].name>>
                                                   \in Within(frBackend, frDeps, changed, DepthOf(asked))}])
    /\ UNCHANGED <<frBackend, frOpen, frRefs, frIndex, frMarker, frDeps, frDue>>

Expands_early(depth, max) == depth + 1 < max
Expands(depth, max) == depth < max

\* One symbol of the breadth-first walk.
Walk(t) ==
    LET k == frTask[t]
        sym == k.queue[1][1]
        depth == k.queue[1][2]
        new == IF Expands(depth, k.max) THEN DependentsOf(sym) \ k.seen ELSE {}
    IN
    /\ k.op = "cascade" /\ k.stage = "walk" /\ k.queue # <<>>
    /\ \E order \in SetToSeqs(new) :
        Becomes(t, [k EXCEPT
            !.queue = Tail(@) \o [i \in DOMAIN order |-> <<order[i], depth + 1>>],
            !.seen = @ \cup new,
            !.found = IF depth > 0 THEN Append(@, sym) ELSE @])
    /\ UNCHANGED <<frBackend, frOpen, frRefs, frIndex, frMarker, frDeps, frDue>>

\* The walk is over: RocksDB reads the files of the symbols, SurrealDB marks
\* the changed symbol, then each dependent in the order found.
Walked(t) ==
    LET k == frTask[t] IN
    /\ k.op = "cascade" /\ k.stage = "walk" /\ k.queue = <<>>
    /\ Becomes(t, [k EXCEPT !.stage = IF Rocks THEN "read" ELSE "mark",
                            !.left = {k.changed[1]} \cup {s[1] : s \in ToSet(k.found)},
                            !.marks = <<k.changed>> \o k.found])
    /\ UNCHANGED <<frBackend, frOpen, frRefs, frIndex, frMarker, frDeps, frDue>>

ReadDependents(t) ==
    LET k == frTask[t] IN
    /\ k.op = "cascade" /\ k.stage = "read"
    /\ \E file \in k.left :
        Becomes(t, [k EXCEPT !.left = @ \ {file}, !.doomed = @ \cup
            {<<file, e>> : e \in {x \in ReferencesForFile(file) :
                                    <<file, frRefs[x].name>> \in ToSet(k.marks)}}])
    /\ UNCHANGED <<frBackend, frOpen, frRefs, frIndex, frMarker, frDeps, frDue>>

DeleteDependents(t) ==
    LET k == frTask[t] IN
    /\ k.op = "cascade" /\ k.stage = "read" /\ k.left = {}
    /\ Deleted(k.doomed)
    /\ Finish(t)
    /\ UNCHANGED <<frBackend, frOpen, frMarker, frDeps>>

MarkDependent(t) ==
    LET k == frTask[t] IN
    /\ k.op = "cascade" /\ k.stage = "mark"
    /\ Marked({e \in DOMAIN frRefs : <<frRefs[e].file, frRefs[e].name>> = k.marks[1]})
    /\ IF Len(k.marks) = 1 THEN Finish(t)
       ELSE Becomes(t, [k EXCEPT !.marks = Tail(@)]) /\ UNCHANGED frDue
    /\ UNCHANGED <<frBackend, frOpen, frMarker, frDeps>>

\* A storage call fails or times out, and with it the rest of the request.
Fail(t) ==
    /\ FrFaults /\ frTask[t] # NoTask
    /\ Becomes(t, NoTask)
    /\ UNCHANGED <<frBackend, frOpen, frRefs, frIndex, frMarker, frDeps, frDue>>

FreshnessNext ==
    \/ OpenStorage \/ Crash
    \/ \E refs \in [FrTasks -> FrRefs] : RegisterSourceBatch(refs)
    \/ \E t \in FrTasks :
        \/ \E r \in FrRefs : RegisterSource(t, r)
        \/ ReadOld(t) \/ WriteReference(t)
        \/ \E from \in DOMAIN FrDeps : RegisterSymbolDependencies(t, from)
        \/ WriteDependencies(t)
        \/ \E file \in FrFiles : Invalidate(t, file)
        \/ ReadFile(t) \/ InvalidateSource(t)
        \/ \E c \in FrChanged : CascadeInvalidate(t, c[1], c[2])
        \/ Walk(t) \/ Walked(t) \/ ReadDependents(t) \/ DeleteDependents(t)
        \/ MarkDependent(t) \/ Fail(t)

FreshnessSpec == FreshnessInit /\ [][FreshnessNext]_freshnessVars

-----------------------------------------------------------------------------
(* Properties.                                                              *)

\* Once an invalidation of a file, or a cascade from a symbol, has finished,
\* no check answers Fresh for an entry it covered when it began (for the
\* cascade: within max_depth dependencies, however they were registered) and
\* that was not registered since, whatever hashes the client sends.
InvalidatedNotFresh ==
    \A e \in frDue : \A r \in FrRefs : \A failed \in BOOLEAN :
        CheckFreshness([x \in {e} |-> r.hash], [x \in {e} |-> r.ast], failed)[e] # "fresh"

\* An open RocksDB storage finds every reference by its file, whatever
\* registrations move it and invalidations delete it meanwhile; on SurrealDB
\* the entries of finished invalidations are listed as stale.
FoundByFile ==
    frOpen =>
        /\ \A e \in DOMAIN frRefs : e \in ReferencesForFile(frRefs[e].file)
        /\ ~Rocks => \A e \in frDue \cap DOMAIN frRefs :
                        e \in StaleEntriesBySource(frRefs[e].file)

\* Nothing invalidated is taken for fresh, nothing registered is lost.
FreshnessSound == InvalidatedNotFresh /\ FoundByFile

-----------------------------------------------------------------------------
(* The invariant that carries FreshnessSound through every step.            *)

FrSymbols == {c[1] : c \in FrChanged} \cup DOMAIN FrDeps
SymbolOf(e) == <<frRefs[e].file, frRefs[e].name>>

\* What a task may be, by its kind.
FreshnessTask(k) ==
    \/ k = NoTask
    \/ /\ k.op = "register" /\ DOMAIN k = {"op", "ref", "read", "old"} /\ k.ref \in FrRefs
    \/ /\ k.op = "depend" /\ DOMAIN k = {"op", "from", "left"} /\ k.from \in DOMAIN FrDeps
    \/ /\ k.op = "invalidate" /\ DOMAIN k = {"op", "file", "read", "doomed", "due"}
       /\ k.read => Rocks
    \/ /\ k.op = "cascade" /\ k.stage \in {"walk", IF Rocks THEN "read" ELSE "mark"}
       /\ DOMAIN k = {"op", "changed", "max", "queue", "seen", "found", "stage", "marks", "left",
                      "doomed", "due"}
       /\ k.max \in Nat /\ k.queue \in Seq(FrSymbols \X Nat) /\ k.changed \in FrSymbols
       /\ \A i \in DOMAIN k.queue : k.queue[i][2] = 0 => k.queue[i][1] = k.changed
       /\ k.found \in Seq(FrSymbols) /\ k.marks \in Seq(FrSymbols)
       /\ k.stage = "mark" => k.marks # <<>>

FreshnessTypeOK ==
    /\ DOMAIN frTask = FrTasks /\ \A t \in FrTasks : FreshnessTask(frTask[t])
    /\ \A e \in DOMAIN frRefs : /\ DOMAIN frRefs[e] = {"file", "name", "hash", "ast", "stale"}
                                 /\ frRefs[e].stale \in BOOLEAN
    /\ \A d \in frDeps : d[1] \in DOMAIN FrDeps

\* Nothing runs before the storage is open, and an opened RocksDB directory has
\* its references indexed.
IndexComplete ==
    /\ frOpen /\ Rocks => frMarker
    /\ Rocks /\ frMarker => \A e \in DOMAIN frRefs : <<frRefs[e].file, e>> \in frIndex
    /\ ~frOpen => \A t \in FrTasks : frTask[t] = NoTask

\* The walk goes by depth: all that is nearer than the symbols in the queue was
\* seen, and so was what depends on a symbol that left the queue.
WalkQueue(k) == {q[1] : q \in ToSet(k.queue)}
WalkCovers(b, k, deps) ==
    LET depth == k.queue[1][2]
        next == {q[1] : q \in {p \in ToSet(k.queue) : p[2] = depth}}
    IN
    /\ k.seen \subseteq {k.changed} \cup ToSet(k.found) \cup WalkQueue(k)
    /\ k.queue = <<>> => Within(b, deps, k.changed, k.max) \subseteq k.seen
    /\ k.queue # <<>> =>
        /\ depth <= k.max
        /\ \A i, j \in DOMAIN k.queue :
              k.queue[i][2] \in {depth, depth + 1} /\ (i < j => k.queue[i][2] <= k.queue[j][2])
        /\ \A i \in DOMAIN k.queue : k.queue[i][2] <= k.max
        /\ Within(b, deps, k.changed, depth) \subseteq k.seen
        /\ depth < k.max =>
            /\ Within(b, deps, k.changed, depth + 1) \subseteq
                 k.seen \cup UNION {DueDependents(b, deps, s) : s \in next}
            /\ \A s \in k.seen : s \in WalkQueue(k) \/ DueDependents(b, deps, s) \subseteq k.seen

\* What an invalidation still owes of the entries it covered when it began.
FileOwes(k) ==
    \A e \in k.due \cap DOMAIN frRefs :
        IF k.read THEN <<frRefs[e].file, e>> \in k.doomed ELSE frRefs[e].file = k.file
CascadeOwes(k) ==
    /\ k.stage = "walk" =>
         \E deps \in SUBSET frDeps :
            /\ WalkCovers(frBackend, k, deps)
            /\ \A e \in k.due \cap DOMAIN frRefs :
                 SymbolOf(e) \in Within(frBackend, deps, k.changed, k.max)
    /\ k.stage = "read" =>
         \A e \in k.due \cap DOMAIN frRefs :
            \/ <<frRefs[e].file, e>> \in k.doomed
            \/ frRefs[e].file \in k.left /\ SymbolOf(e) \in ToSet(k.marks)
    /\ k.stage = "mark" =>
         \A e \in k.due \cap DOMAIN frRefs :
            frRefs[e].stale \/ SymbolOf(e) \in ToSet(k.marks)
InvalidationsOwe ==
    \A t \in FrTasks :
        /\ frTask[t].op = "invalidate" => FileOwes(frTask[t])
        /\ frTask[t].op = "cascade" => CascadeOwes(frTask[t])

\* What was invalidated is gone, or marked.
DueIsStale == \A e \in frDue \cap DOMAIN frRefs : ~Rocks /\ frRefs[e].stale

FreshnessInv == FreshnessTypeOK /\ IndexComplete /\ InvalidationsOwe /\ DueIsStale

=============================================================================
