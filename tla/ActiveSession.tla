---------------------------- MODULE ActiveSession ----------------------------
(***************************************************************************)
(* One session: the log of its updates and what is kept beside it, the     *)
(* most recent updates (hot context), the structured context, the change   *)
(* history, the code references and the periodic summaries.  A session     *)
(* version is immutable once published, with one exception: the hot        *)
(* context is changed through a shared reference, so a writer must fork it *)
(* while another version holds it.  Writers copy the current version,      *)
(* change the copy and swap it in; readers keep the version they loaded.   *)
(*                                                                         *)
(* Titles and timestamps are the update's id; the entity graph is          *)
(* EntityGraph's, the swap loop SessionCas's, the vectors Vectorizer's.    *)
(* warm_context is never filled.                                           *)
(***************************************************************************)
EXTENDS Naturals, Sequences, FiniteSets, Functions

CONSTANTS
    AsUpdates,   \* id -> [type, file, ents, parent]; file "none" when it has no code
    AsWriters,
    AsMaxHot,    \* max_hot_context_size
    AsThreshold, \* auto_summary_threshold
    AsMaxCold,   \* MAX_COLD_SUMMARIES
    AsMaxFlow,   \* MAX_FLOW_ITEMS
    AsStart,     \* the ids a session starts with, in order
    AsBackends,  \* "rocksdb", "surrealdb"
    MaxChanges   \* bound: changes asked for

AsIds == DOMAIN AsUpdates

ASSUME ActiveSessionAssumption ==
    /\ IsFiniteSet(AsWriters)
    /\ AsStart \in Seq(AsIds) /\ IsInjective(AsStart)
    /\ AsMaxHot \in Nat \ {0} /\ AsThreshold \in Nat /\ AsMaxCold \in Nat /\ AsMaxFlow \in Nat

VARIABLES
    asBackend,
    asCur,     \* the published version
    asHeap,    \* the hot contexts in use, by reference
    asWork,    \* what each writer does, with its base and its new version
    asReader,  \* the version a reader holds
    asUsed,    \* ids of updates made so far
    asAsked,   \* changes asked for so far
    asInvalid  \* history: updates removed because their file was invalidated

activeVars == <<asBackend, asCur, asHeap, asWork, asReader, asUsed, asAsked, asInvalid>>

-----------------------------------------------------------------------------
(* Lists.                                                                   *)

Ascending(ids) ==
    CHOOSE s \in [1..Cardinality(ids) -> ids] : \A j, k \in DOMAIN s : j < k => s[j] < s[k]

\* What a list, or a map from numbers, has at some of its numbers, in order.
Only(us, at) == LET order == Ascending(at) IN [k \in DOMAIN order |-> us[order[k]]]

LastOf(us, n) == IF Len(us) > n THEN SubSeq(us, Len(us) - n + 1, Len(us)) ELSE us

-----------------------------------------------------------------------------
(* HotContext: numbered slots, the last max_size numbers of which count.    *)

EmptyHot == [slots |-> <<>>, next |-> 0]

\* The slot that falls out is the one max_size back, empty or not.
Push(h, u) ==
    LET out == IF h.next >= AsMaxHot THEN {h.next - AsMaxHot} ELSE {} IN
    [slots |-> [i \in (DOMAIN h.slots \cup {h.next}) \ out |->
                    IF i = h.next THEN u ELSE h.slots[i]],
     next |-> h.next + 1]

\* What pushing them one by one leaves: the last max_size.
FromUpdates(us) ==
    [slots |-> [i \in {j \in 0..(Len(us) - 1) : j + AsMaxHot >= Len(us)} |-> us[i + 1]],
     next |-> Len(us)]

IdRange(h, n) == (IF h.next > n THEN h.next - n ELSE 0)..(h.next - 1)

\* snapshot_arcs, get_all: oldest first.  get_recent(n): its last n numbers.
SnapshotArcs(h) == Only(h.slots, DOMAIN h.slots \cap IdRange(h, AsMaxHot))

ContainsId(h, id) == \E i \in DOMAIN h.slots : h.slots[i].id = id

RemoveById(h, id) ==
    [h EXCEPT !.slots = [i \in {j \in DOMAIN h.slots : h.slots[j].id # id} |-> h.slots[i]]]

\* A loaded hot context: the log's copy where the log's tail has one.
HotContextSharing(hot, log) ==
    LET wanted == IF Len(hot) > AsMaxHot THEN Len(hot) ELSE AsMaxHot
        from == IF Len(log) > wanted THEN Len(log) - wanted + 1 ELSE 1
        shared(u) == {i \in from..Len(log) : log[i].id = u.id}
    IN  FromUpdates([k \in DOMAIN hot |->
            IF shared(hot[k]) = {} THEN hot[k] ELSE log[CHOOSE i \in shared(hot[k]) : TRUE]])

-----------------------------------------------------------------------------
(* Session versions.                                                        *)

NewSession(hot) ==
    [log |-> <<>>, hot |-> hot, items |-> {}, flow |-> {}, changes |-> {}, code |-> {},
     cold |-> <<>>, name |-> 0]

LogIds(s) == {s.log[i].id : i \in DOMAIN s.log}

Versions ==
    {asCur} \cup asReader
    \cup UNION {asWork[w].base \cup asWork[w].new : w \in AsWriters}

Referenced == {s.hot : s \in Versions}
\* One reference more than any set of versions can hold.
Refs == 1..(3 + 2 * Cardinality(AsWriters))
FreeRef == CHOOSE o \in Refs : o \notin Referenced

\* The kind of item update_current_state files an update under.
ItemKind(type) ==
    CASE type = "QuestionAnswered" -> {"question"}
      [] type = "DecisionMade" -> {"decision"}
      [] type = "ConceptDefined" -> {"concept"}
      [] type = "RequirementAdded" -> {"spec"}
      [] OTHER -> {}
ItemsOf(id) == {<<k, id>> : k \in ItemKind(AsUpdates[id].type)}
CodeOf(id) == IF AsUpdates[id].file = "none" THEN {} ELSE {id}

\* create_periodic_summary, from the log before the new update.
Maintained(s) ==
    LET n == Len(s.log)
        due == AsThreshold > 0 /\ n > 0 /\ n % AsThreshold = 0
        first == IF n > AsThreshold THEN n - AsThreshold + 1 ELSE 1
        cold == Append(s.cold, {s.log[first].id, s.log[n].id})
    IN  IF due THEN LastOf(cold, AsMaxCold) ELSE s.cold

\* Each change: the version and its hot context afterwards, {} when there is
\* nothing to change.
Change(s, h) == {[ses |-> s, hot |-> h]}

AddIncrementalUpdate(s, h, id) ==
    LET u == [id |-> id, retired |-> FALSE] IN
    Change([s EXCEPT !.items = @ \cup ItemsOf(id), !.flow = @ \cup {id},
                     !.code = @ \cup CodeOf(id),
                     !.changes = @ \cup {[of |-> id, rel |-> id]},
                     !.cold = Maintained(s), !.log = Append(@, u)],
           Push(h, u))

RemoveDerivedState(s, id) ==
    [s EXCEPT !.flow = @ \ {id}, !.items = @ \ ItemsOf(id), !.code = @ \ {id}]

RemoveUpdateById(s, h, id) ==
    IF id \notin LogIds(s) /\ ~ContainsId(h, id) THEN {}
    ELSE Change([RemoveDerivedState(s, id) EXCEPT
                    !.log = Only(@, {i \in DOMAIN @ : @[i].id # id}),
                    !.changes = {c \in @ : c.rel # id}],
                RemoveById(h, id))

Replaced(us, id) ==
    [i \in DOMAIN us |-> IF us[i].id = id THEN [us[i] EXCEPT !.retired = TRUE] ELSE us[i]]

RetireUpdate_logOnly(s, h, id) ==
    IF ~\E i \in DOMAIN s.log : s.log[i] = [id |-> id, retired |-> FALSE] THEN {}
    ELSE Change([s EXCEPT !.log = Replaced(@, id)], h)
RetireUpdate(s, h, id) ==
    IF ~\E i \in DOMAIN s.log : s.log[i] = [id |-> id, retired |-> FALSE] THEN {}
    ELSE Change([s EXCEPT !.log = Replaced(@, id)],
                IF ContainsId(h, id) THEN FromUpdates(Replaced(SnapshotArcs(h), id)) ELSE h)

\* The log and the code references of the file, nothing else.
RemoveUpdatesForFile(s, h, file) ==
    LET kept == Only(s.log, {i \in DOMAIN s.log : AsUpdates[s.log[i].id].file # file}) IN
    IF kept = s.log THEN {}
    ELSE Change([s EXCEPT !.log = kept, !.code = {id \in @ : AsUpdates[id].file # file}], h)

UpdateMetadata(s, h, name) == Change([s EXCEPT !.name = name], h)

Applied(op, s, h) ==
    CASE op[1] = "add" -> AddIncrementalUpdate(s, h, op[2])
      [] op[1] = "remove" -> RemoveUpdateById(s, h, op[2])
      [] op[1] = "retire" -> RetireUpdate(s, h, op[2])
      [] op[1] = "invalidate" -> RemoveUpdatesForFile(s, h, op[2])
      [] op[1] = "rename" -> UpdateMetadata(s, h, op[2])

-----------------------------------------------------------------------------
(* Writers and readers.                                                     *)

NoChange == [op |-> <<"idle">>, base |-> {}, new |-> {}, current |-> FALSE]

\* The first updates of the session, added one by one.
Started ==
    LET after[n \in 0..Len(AsStart)] ==
            IF n = 0 THEN [ses |-> NewSession(1), hot |-> EmptyHot]
            ELSE CHOOSE x \in AddIncrementalUpdate(after[n - 1].ses, after[n - 1].hot, AsStart[n]) : TRUE
    IN  after[Len(AsStart)]

ActiveInit ==
    /\ asBackend \in AsBackends
    /\ asCur = Started.ses
    /\ asHeap = [o \in {1} |-> Started.hot]
    /\ asWork = [w \in AsWriters |-> NoChange]
    /\ asReader = {}
    /\ asUsed = Range(AsStart) /\ asAsked = 0 /\ asInvalid = {}

\* Hot contexts nobody refers to are dropped.
Collected(heap) == asHeap' = [o \in Referenced' |-> heap[o]]

\* The handler asks for a change; the version it loads is the base.
Ask(w, op) ==
    /\ asWork[w] = NoChange /\ asAsked < MaxChanges
    /\ asAsked' = asAsked + 1
    /\ asUsed' = IF op[1] = "add" THEN asUsed \cup {op[2]} ELSE asUsed
    /\ asWork' = [asWork EXCEPT ![w] = [op |-> op, base |-> {asCur}, new |-> {}, current |-> TRUE]]
    /\ UNCHANGED <<asBackend, asCur, asReader, asInvalid>>
    /\ Collected(asHeap)

\* hot_context_mut: a shared hot context is copied first.  The copy of the
\* base a writer changes shares the base's.
HotContextMut_shared(old, h) == [at |-> old, heap |-> [asHeap EXCEPT ![old] = h]]
HotContextMut(old, h) ==
    IF h = asHeap[old] THEN [at |-> old, heap |-> asHeap]
    ELSE [at |-> FreeRef, heap |-> [o \in DOMAIN asHeap \cup {FreeRef} |-> IF o = FreeRef THEN h ELSE asHeap[o]]]

\* The change applied to the writer's copy; nothing to change ends the request.
Build(w) ==
    LET s == CHOOSE x \in asWork[w].base : TRUE
        done == Applied(asWork[w].op, s, asHeap[s.hot])
    IN
    /\ asWork[w] # NoChange /\ asWork[w].new = {}
    /\ UNCHANGED <<asBackend, asCur, asReader, asUsed, asAsked, asInvalid>>
    /\ IF done = {} THEN asWork' = [asWork EXCEPT ![w] = NoChange] /\ Collected(asHeap)
       ELSE \E c \in done :
            LET m == HotContextMut(s.hot, c.hot) IN
            /\ asWork' = [asWork EXCEPT ![w].new = {[c.ses EXCEPT !.hot = m.at]}]
            /\ Collected(m.heap)

\* compare_and_swap succeeds while the base is still the published version.
Swap(w) ==
    /\ asWork[w].new # {} /\ asWork[w].current
    /\ asCur' = CHOOSE x \in asWork[w].new : TRUE
    /\ asWork' = [v \in AsWriters |-> IF v = w THEN NoChange ELSE [asWork[v] EXCEPT !.current = FALSE]]
    /\ asInvalid' = IF asWork[w].op[1] = "invalidate"
                    THEN asInvalid \cup (LogIds(asCur) \ LogIds(asCur'))
                    ELSE IF asWork[w].op[1] = "remove" THEN asInvalid \ {asWork[w].op[2]}
                    ELSE asInvalid
    /\ UNCHANGED <<asBackend, asReader, asUsed, asAsked>>
    /\ Collected(asHeap)

\* cas_update_session tries again from the new version; the invalidation of
\* a file gives up and answers as if it had been done.
SwapLost(w) ==
    /\ asWork[w].new # {} /\ ~asWork[w].current
    /\ asWork' = [asWork EXCEPT ![w] =
                    IF asWork[w].op[1] = "invalidate" THEN NoChange
                    ELSE [op |-> asWork[w].op, base |-> {asCur}, new |-> {}, current |-> TRUE]]
    /\ UNCHANGED <<asBackend, asCur, asReader, asUsed, asAsked, asInvalid>>
    /\ Collected(asHeap)

ReaderLoads ==
    /\ asReader' = {asCur}
    /\ UNCHANGED <<asBackend, asCur, asWork, asUsed, asAsked, asInvalid>>
    /\ Collected(asHeap)

-----------------------------------------------------------------------------
(* The session leaves memory and is loaded again.                           *)

\* RocksDB: the stored blob, with the log read from its rows.
DeserializedRocks(s, h) ==
    [ses |-> [s EXCEPT !.cold = LastOf(@, AsMaxCold)],
     hot |-> HotContextSharing(SnapshotArcs(h), s.log)]

\* SurrealDB: everything derived from the rows of the log.
RebuildStructuredContext(s) ==
    LET ids == LogIds(s) IN
    [s EXCEPT !.items = (UNION {{i \in ItemsOf(id) : i[1] \in {"decision", "question"}} : id \in ids})
                        \cup {<<"entity", n>> : n \in UNION {AsUpdates[id].ents : id \in ids}},
              !.flow = {s.log[i].id : i \in {j \in DOMAIN s.log : j <= AsMaxFlow}}]

FromComponents(s) ==
    [ses |-> [RebuildStructuredContext(s) EXCEPT
                !.code = UNION {CodeOf(id) : id \in LogIds(s)},
                !.changes = {[of |-> id, rel |-> AsUpdates[id].parent] :
                                id \in {x \in LogIds(s) : AsUpdates[x].type = "CodeChanged"}},
                !.cold = <<>>],
     hot |-> HotContextSharing(LastOf(s.log, AsMaxHot), s.log)]

Reload ==
    LET l == IF asBackend = "rocksdb" THEN DeserializedRocks(asCur, asHeap[asCur.hot])
             ELSE FromComponents(asCur)
    IN
    /\ \A w \in AsWriters : asWork[w] = NoChange
    /\ asCur' = [l.ses EXCEPT !.hot = FreeRef]
    /\ UNCHANGED <<asBackend, asWork, asReader, asUsed, asAsked, asInvalid>>
    /\ Collected([o \in DOMAIN asHeap \cup {FreeRef} |-> IF o = FreeRef THEN l.hot ELSE asHeap[o]])

ActiveNext ==
    \/ \E w \in AsWriters :
        \/ \E id \in AsIds \ asUsed : Ask(w, <<"add", id>>)
        \/ \E id \in asUsed : Ask(w, <<"remove", id>>) \/ Ask(w, <<"retire", id>>)
        \/ \E file \in {AsUpdates[id].file : id \in AsIds} \ {"none"} : Ask(w, <<"invalidate", file>>)
        \/ Ask(w, <<"rename", 1 - asCur.name>>)
        \/ Build(w) \/ Swap(w) \/ SwapLost(w)
    \/ ReaderLoads
    \/ Reload

ActiveSpec == ActiveInit /\ [][ActiveNext]_activeVars

-----------------------------------------------------------------------------
(* Properties.                                                              *)

HotOf(s) == SnapshotArcs(asHeap[s.hot])

\* What f lists, but for the ids that are gone, are copies the log has, in the
\* order of the log.
Follows(f, log, gone) ==
    \A i \in DOMAIN f : f[i].id \notin gone =>
        /\ \E k \in DOMAIN log : log[k] = f[i]
        /\ \A j \in DOMAIN f : j < i /\ f[j].id \notin gone =>
              \A k, m \in DOMAIN log : log[k].id = f[i].id /\ log[m].id = f[j].id => m < k

\* What a version keeps of its updates is of an update of its log, or of one
\* that is gone; its code references are those of its log.
Traced(s, gone) ==
    LET ids == LogIds(s) IN
    /\ \A x \in s.items : x[1] # "entity" => x[2] \in ids \cup gone
    /\ s.flow \subseteq ids \cup gone
    /\ \A c \in s.changes : c.rel = c.of => c.of \in ids \cup gone
    /\ s.code = UNION {CodeOf(id) : id \in ids}
    /\ Len(s.cold) <= AsMaxCold

\* The published version agrees with its log: a hot update is the log's own
\* copy (retired there, retired here), in the log's order; every item, flow
\* step and change record traceable to an update is of an update of the log,
\* and the code references are exactly those of the log.  Updates removed with
\* their file are left aside: InvalidatedGone is about them.
TiersAgree == Follows(HotOf(asCur), asCur.log, asInvalid) /\ Traced(asCur, asInvalid)

\* A version somebody holds never changes under them, its hot context
\* included: not for a reader, and not for a writer's base.
SnapshotsFixed ==
    [][\A s \in Versions : s \in Versions' => SnapshotArcs(asHeap'[s.hot]) = HotOf(s)]_activeVars

-----------------------------------------------------------------------------
(* The invariant behind them.                                               *)

Records == [id : AsIds, retired : BOOLEAN]
SessionFields == {"log", "hot", "items", "flow", "changes", "code", "cold", "name"}
DistinctIds(log) == \A i, j \in DOMAIN log : log[i].id = log[j].id => i = j
SessionTypes(s) ==
    /\ DOMAIN s = SessionFields
    /\ s.log \in Seq(Records) /\ s.cold \in Seq(SUBSET AsIds)
    /\ DistinctIds(s.log)
HotTypes(h) ==
    /\ DOMAIN h = {"slots", "next"} /\ h.next \in Nat
    /\ DOMAIN h.slots \subseteq 0..(h.next - 1) /\ h.slots \in [DOMAIN h.slots -> Records]

\* A version with its hot context, when the updates gone are left aside.  An
\* item is of the kind of its update, so that removing the update finds it.
VersionSound(s, h, gone) ==
    /\ SessionTypes(s) /\ HotTypes(h)
    /\ Follows(h.slots, s.log, gone) /\ Traced(s, gone)
    /\ \A x \in s.items : x[1] # "entity" => x \in ItemsOf(x[2])

\* What a writer at work is about to add to a log, and what is gone once its
\* new version is the published one.
Adds(k) == IF k.op[1] = "add" THEN {k.op[2]} ELSE {}
GoneAfter(k, cur, gone, new) ==
    CASE k.op[1] = "invalidate" -> gone \cup (LogIds(cur) \ LogIds(new))
      [] k.op[1] = "remove" -> gone \ {k.op[2]}
      [] OTHER -> gone

\* A writer whose base is still published has built a version fit to replace
\* it; it adds nothing that was there before.
Ready(k, cur, heap, used, gone) ==
    /\ k # NoChange => k.base # {} /\ k.op[1] \in {"add", "remove", "retire", "invalidate", "rename"}
    /\ k.current => /\ k.base = {cur}
                    /\ \A s \in k.new : /\ VersionSound(s, heap[s.hot], GoneAfter(k, cur, gone, s))
                                        /\ LogIds(s) \subseteq LogIds(cur) \cup Adds(k)
    /\ Adds(k) \subseteq used \ (LogIds(cur) \cup gone)

\* Every version in use has its hot context, and there are fewer than Refs.
AtMostOne(S) == \A x, y \in S : x = y
HeapInUse ==
    /\ DOMAIN asHeap = Referenced
    /\ AtMostOne(asReader)
    /\ DOMAIN asWork = AsWriters
    /\ \A w \in AsWriters : /\ DOMAIN asWork[w] = {"op", "base", "new", "current"}
                            /\ AtMostOne(asWork[w].base) /\ AtMostOne(asWork[w].new)

ActiveInv ==
    /\ HeapInUse
    /\ VersionSound(asCur, asHeap[asCur.hot], asInvalid)
    /\ LogIds(asCur) \cup asInvalid \subseteq asUsed /\ asUsed \subseteq AsIds
    /\ \A w \in AsWriters : Ready(asWork[w], asCur, asHeap, asUsed, asInvalid)
    /\ \A v, w \in AsWriters : v # w => Adds(asWork[v]) \cap Adds(asWork[w]) = {}

-----------------------------------------------------------------------------
(* What the repository says and the model refutes: these do not hold.     *)

\* "Removes incremental updates referencing the file from the session": no
\* tier of the published version has an update removed with its file.
InvalidatedGone ==
    \A id \in asInvalid :
        /\ ~ContainsId(asHeap[asCur.hot], id)
        /\ id \notin asCur.flow
        /\ \A x \in asCur.items : x[2] # id
        /\ \A c \in asCur.changes : c.of # id

=============================================================================
