------------------------------ MODULE GraphViews ------------------------------
(***************************************************************************)
(* The graph views of a session and the validity intervals they rest on.   *)
(* A record is never rewritten to say that it stopped holding: when and    *)
(* why it ended is derived, at every request, from the records in the      *)
(* order of their timestamps.  Records arrive with the clock, may state an *)
(* earlier or a later start, may be forgotten or purged, and the entities  *)
(* they name may be merged meanwhile.                                      *)
(*                                                                         *)
(* A title or a text is a word; which of them overlap enough is a          *)
(* parameter.  Times are positive and 0 is none.  Importance, communities  *)
(* and the entity view's counts are left out.                              *)
(***************************************************************************)
EXTENDS ContextAssembly

CONSTANTS
    GvNames,     \* names records mention
    GvDrafts,    \* records clients write: [kind, title, names, rels, from, file]
    GvRestates,  \* sets of titles whose words overlap by half
    GvRepeats,   \* sets of titles whose texts overlap by four fifths
    GvMerges,    \* merges clients ask for: <<name, into>>
    GvFileNames, \* names of entities that name the file asked about
    GvHops,      \* bound: hops asked for
    GvLimit,     \* most records or events asked for
    GvMaxTime, MaxDrafts \* bounds

GvRelations == UNION {d.rels : d \in GvDrafts}

ASSUME GraphViewsAssumption ==
    /\ \A d \in GvDrafts : d.names \subseteq GvNames /\ d.from \in 0..GvMaxTime
    /\ \A d \in GvDrafts : \A r \in d.rels : {r[1], r[3]} \subseteq d.names
    /\ IsFiniteSet(GvNames) /\ IsFiniteSet(GvRelations) /\ GvMerges \subseteq GvNames \X GvNames
    /\ GvHops \in Nat \ {0} /\ GvLimit \in Nat /\ GvMaxTime \in Nat \ {0} /\ MaxDrafts \in Nat

VARIABLES
    gvLog,   \* the session's records by timestamp and id
    gvInto,  \* name -> canonical entity
    gvClock, \* now
    gvNext   \* the next record's id

viewVars == <<gvLog, gvInto, gvClock, gvNext>>

ViewsInit ==
    /\ gvLog = <<>> /\ gvInto = [n \in GvNames |-> n] /\ gvClock = 1 /\ gvNext = 1

LogIdsOf == {gvLog[i].id : i \in DOMAIN gvLog}

\* check_meta: supersedes names records of the session, which the caller was
\* told of, so written before.  Records with one timestamp are ordered by their
\* random ids.
WriteRecord(d, old) ==
    /\ gvNext <= MaxDrafts /\ old \subseteq LogIdsOf
    /\ \A i \in DOMAIN gvLog : gvLog[i].id \in old => gvLog[i].time < gvClock
    /\ \E pos \in 0..Len(gvLog) :
        /\ \A i \in (pos + 1)..Len(gvLog) : gvLog[i].time = gvClock
        /\ gvLog' = InsertAt(gvLog, pos + 1,
                [kind |-> d.kind, title |-> d.title, names |-> d.names, rels |-> d.rels,
                 from |-> d.from, file |-> d.file, id |-> gvNext, time |-> gvClock,
                 supersedes |-> old, retired |-> 0])
    /\ gvNext' = gvNext + 1
    /\ UNCHANGED <<gvInto, gvClock>>

ForgetRecord(i) ==
    /\ gvLog[i].retired = 0
    /\ gvLog' = [gvLog EXCEPT ![i].retired = gvClock]
    /\ UNCHANGED <<gvInto, gvClock, gvNext>>

EraseRecord(i) ==
    /\ gvLog' = RemoveAt(gvLog, i)
    /\ UNCHANGED <<gvInto, gvClock, gvNext>>

AliasNames(a, b) ==
    /\ gvInto[a] # gvInto[b]
    /\ gvInto' = [n \in GvNames |-> IF gvInto[n] = gvInto[a] THEN gvInto[b] ELSE gvInto[n]]
    /\ UNCHANGED <<gvLog, gvClock, gvNext>>

ClockTicks ==
    /\ gvClock < GvMaxTime /\ gvClock' = gvClock + 1
    /\ UNCHANGED <<gvLog, gvInto, gvNext>>

ViewsNext ==
    \/ \E d \in GvDrafts, old \in SUBSET LogIdsOf : Cardinality(old) <= 1 /\ WriteRecord(d, old)
    \/ \E i \in DOMAIN gvLog : ForgetRecord(i) \/ EraseRecord(i)
    \/ \E m \in GvMerges : AliasNames(m[1], m[2])
    \/ ClockTicks

ViewsSpec == ViewsInit /\ [][ViewsNext]_viewVars

-----------------------------------------------------------------------------
(* Validity.                                                                *)

Larger(a, b) == IF a >= b THEN a ELSE b
ValidFrom(u) == IF u.from # 0 THEN u.from ELSE u.time
IsCurrent(v) == v.to = 0
HoldsAt(v, t) == v.from <= t /\ (v.to # 0 => t < v.to)

Restatable(u) == u.kind \in {"DecisionMade", "RequirementAdded", "ConceptDefined"}
Subject(u) == {gvInto[n] : n \in u.names}
Pairs(u, conflicting) ==
    {{gvInto[r[1]], gvInto[r[3]]} : r \in {q \in u.rels : (q[2] = "ConflictsWith") = conflicting}}

EndAt_timestamp(old, by) == Larger(by.time, ValidFrom(old))
EndAt(old, by) == Larger(ValidFrom(by), ValidFrom(old))

\* Why record i of the log ends record k of it.
Superseded(log, i, k) == log[k].id \in log[i].supersedes
Contradicted(log, i, k) == k < i /\ Pairs(log[k], FALSE) \cap Pairs(log[i], TRUE) # {}
Restated(log, i, k) ==
    /\ k < i /\ Restatable(log[i]) /\ log[k].kind = log[i].kind
    /\ Subject(log[i]) # {} /\ Subject(log[k]) = Subject(log[i])
    /\ {log[k].title, log[i].title} \in GvRestates
Enders(log, k) ==
    {i \in DOMAIN log \ {k} : Superseded(log, i, k) \/ Contradicted(log, i, k) \/ Restated(log, i, k)}
Reason(log, i, k) ==
    IF Superseded(log, i, k) THEN "Superseded"
    ELSE IF Contradicted(log, i, k) THEN "Contradicted"
    ELSE IF {log[k].title, log[i].title} \in GvRepeats THEN "Duplicate" ELSE "Restated"

\* The first record that ends another decides when and why; a record may have
\* been forgotten before.
Interval(log, k) ==
    LET u == log[k]
        first == CHOOSE i \in Enders(log, k) : \A j \in Enders(log, k) : i <= j
        end == EndAt(u, log[first])
    IN  IF u.retired # 0 /\ (Enders(log, k) = {} \/ u.retired < end)
        THEN [from |-> ValidFrom(u), to |-> Larger(u.retired, ValidFrom(u)), by |-> 0,
              reason |-> "Forgotten"]
        ELSE IF Enders(log, k) = {}
        THEN [from |-> ValidFrom(u), to |-> 0, by |-> 0, reason |-> "none"]
        ELSE [from |-> ValidFrom(u), to |-> end, by |-> log[first].id,
              reason |-> Reason(log, first, k)]

PlaceIn(log, id) == CHOOSE k \in DOMAIN log : log[k].id = id
Validity(log) == [x \in {log[k].id : k \in DOMAIN log} |-> Interval(log, PlaceIn(log, x))]

-----------------------------------------------------------------------------
(* The index and the views.                                                 *)

Resolved(r) == <<gvInto[r[1]], r[2], gvInto[r[3]]>>
\* Two spellings of one entity are no relation.
SessionGraph(log) ==
    {Resolved(r) : r \in {q \in UNION {u.rels : u \in ToSet(log)} :
                            q[1] = q[3] \/ gvInto[q[1]] # gvInto[q[3]]}}
SessionEntities(log) == UNION {Subject(u) : u \in ToSet(log)}
EdgeRecords(log, r) == {u.id : u \in {v \in ToSet(log) : \E q \in v.rels : Resolved(q) = r}}
Mentioning(log, x) == {u \in ToSet(log) : x \in Subject(u)}

EdgeValidity(log, valid, r) ==
    LET spans == {valid[x] : x \in EdgeRecords(log, r)}
        least == CHOOSE t \in {v.from : v \in spans} : \A v \in spans : t <= v.from
        last == CHOOSE t \in {v.to : v \in spans} : \A v \in spans : t >= v.to
    IN  [from |-> least, to |-> IF \E v \in spans : IsCurrent(v) THEN 0 ELSE last]

\* analyze_impact hop by hop; an entity is listed where it is first met.
Dependents_again(graph, sources, depth) ==
    LET hop[h \in 0..depth] ==
            IF h = 0 THEN [new |-> sources, found |-> {}]
            ELSE LET items == AnalyzeImpact(SetToSeq(hop[h - 1].new), graph)
                     new == {i[1] : i \in items} \ hop[h - 1].new
                 IN  [new |-> new, found |-> hop[h - 1].found
                        \cup {[entity |-> i[1], via |-> i[2], depth |-> h] :
                                i \in {j \in items : j[1] \in new}}]
    IN  hop[depth].found
Dependents(graph, sources, depth) ==
    LET hop[h \in 0..depth] ==
            IF h = 0 THEN [new |-> sources, seen |-> sources, found |-> {}]
            ELSE LET items == AnalyzeImpact(SetToSeq(hop[h - 1].new), graph)
                     new == {i[1] : i \in items} \ hop[h - 1].seen
                     one(x) == CHOOSE i \in items : i[1] = x
                 IN  [new |-> new, seen |-> hop[h - 1].seen \cup new,
                      found |-> hop[h - 1].found
                        \cup {[entity |-> x, via |-> one(x)[2], depth |-> h] : x \in new}]
    IN  hop[depth].found

Risky == {"DecisionMade", "RequirementAdded", "ProblemSolved"}
Risks(log, valid, about) ==
    {u \in UNION {Mentioning(log, y) : y \in about} : IsCurrent(valid[u.id]) /\ u.kind \in Risky}
ImpactOf(log, valid, x, found) ==
    [dependents |-> found, risks |-> Risks(log, valid, {x} \cup {i.entity : i \in found})]
ImpactView(log, valid, x, depth) ==
    ImpactOf(log, valid, x, Dependents(SessionGraph(log), {x}, depth))

FileOf(log, naming, depth) ==
    [entities |-> naming,
     records |-> {u \in ToSet(log) : u.file} \cup UNION {Mentioning(log, x) : x \in naming},
     dependents |-> Dependents(SessionGraph(log), naming, depth)]
FileView(log, depth) ==
    FileOf(log, {x \in SessionEntities(log) : \E n \in GvFileNames : gvInto[n] = x}, depth)

\* The records of the log at some places, in its order.
LogPart(log, at) ==
    LET order == CHOOSE s \in [1..Cardinality(at) -> at] : \A j, k \in DOMAIN s : j < k => s[j] < s[k]
    IN  [k \in DOMAIN order |-> log[order[k]]]

\* The causal chain, breadth first, and the records that built it.
Causal == {"CausedBy", "LeadsTo", "Solves"}
LineageView(log, x, depth) ==
    LET graph == {r \in SessionGraph(log) : r[2] \in Causal}
        ring[h \in 0..depth] ==
            IF h = 0 THEN {x} ELSE ring[h - 1] \cup UNION {FindRelated(graph, y) : y \in ring[h - 1]}
        edges == UNION {TouchingEdges(graph, y) : y \in ring[depth - 1]}
    IN  [chain |-> ring[depth],
         steps |-> LogPart(log, {k \in DOMAIN log :
                        \/ \E r \in edges : log[k].id \in EdgeRecords(log, r)
                        \/ x \in Subject(log[k]) /\ log[k].kind \in {"ProblemSolved", "DecisionMade"}})]

\* When a record was written and ended, when a relation was first and last
\* asserted.
RecordEvents(log, valid) ==
    {[at |-> u.time, kind |-> 2, of |-> <<u.id>>] : u \in ToSet(log)}
    \cup {[at |-> valid[x].to, kind |-> 0, of |-> <<x>>] :
            x \in {y \in DOMAIN valid : ~IsCurrent(valid[y])}}
RelationEvents(spans) ==
    {[at |-> spans[r].from, kind |-> 3, of |-> r] : r \in DOMAIN spans}
    \cup {[at |-> spans[r].to, kind |-> 1, of |-> r] :
            r \in {q \in DOMAIN spans : ~IsCurrent(spans[q])}}
Events(log, valid) ==
    RecordEvents(log, valid)
    \cup RelationEvents([r \in UNION {{Resolved(q) : q \in u.rels} : u \in ToSet(log)} |->
                            EdgeValidity(log, valid, r)])

Before(a, b) == a.at < b.at \/ (a.at = b.at /\ a.kind < b.kind)
LastEvent(events) == CHOOSE e \in events : \A x \in events : ~Before(e, x)
\* In order, from the last event to the first.
Chronological(events) ==
    LET sorted[n \in 0..Cardinality(events)] ==
            IF n = 0 THEN <<>>
            ELSE LET later == sorted[n - 1] IN Cons(LastEvent(events \ ToSet(later)), later)
    IN  sorted[Cardinality(events)]
\* The latest events of the window.
Latest(all, limit) == SubSeq(all, Larger(1, (Len(all) + 1) - limit), Len(all))
TimelineView(events, since, until, limit) ==
    LET window == {x \in events : since <= x.at /\ (until # 0 => x.at <= until)}
    IN  Latest(Chronological(window), limit)

-----------------------------------------------------------------------------
(* Properties.                                                              *)

\* Records a chain of endings leads to.
Successors(valid, x) ==
    LET to[n \in 0..MaxDrafts] ==
            IF n = 0 THEN {x} ELSE {valid[y].by : y \in to[n - 1] \cap DOMAIN valid}
    IN  (UNION {to[n] : n \in 1..MaxDrafts}) \ {0}

\* Whatever was merged, forgotten or purged meanwhile: of two records of one
\* kind about the same entities with like titles the older does not hold any
\* more; and a record that another ended leaves no gap, since at its end some
\* record down the chain of endings holds or was itself forgotten.
Succeeds(valid) ==
    /\ \A i, j \in DOMAIN gvLog :
        ( /\ i < j /\ Restatable(gvLog[j]) /\ gvLog[i].kind = gvLog[j].kind
          /\ Subject(gvLog[j]) # {} /\ Subject(gvLog[i]) = Subject(gvLog[j])
          /\ {gvLog[i].title, gvLog[j].title} \in GvRestates )
            => ~IsCurrent(valid[gvLog[i].id])
    /\ \A x \in DOMAIN valid : valid[x].by # 0 =>
        \E y \in Successors(valid, x) : HoldsAt(valid[y], valid[x].to) \/ valid[y].reason = "Forgotten"

\* The entities that depend on one of xs over exactly n relations, for each n.
DependOver(graph, xs) ==
    LET after[n \in 0..GvHops] == IF n = 0 THEN xs
            ELSE {i[1] : i \in AnalyzeImpact(SetToSeq(after[n - 1]), graph)}
    IN  after

\* The impact view lists each dependent once, at its least distance and
\* through an entity one hop closer; no risk it lists has ended.
Nearest(over, y, n) == y \in over[n] /\ \A m \in 0..(n - 1) : y \notin over[m]
ImpactExact(view, over, valid) ==
    /\ \A y \in SessionEntities(gvLog), n \in 1..GvHops : Nearest(over, y, n) <=>
        \E i \in view.dependents : i.entity = y /\ i.depth = n /\ Nearest(over, i.via, n - 1)
    /\ \A i, j \in view.dependents : i.entity = j.entity => i = j
    /\ \A u \in view.risks : valid[u.id].to = 0

\* The lineage is in time order and has every record that asserts a causal
\* relation of the entity.
LineageExact(x, graph, steps) ==
    /\ \A i, j \in DOMAIN steps : i < j => steps[i].time <= steps[j].time
    /\ \A u \in ToSet(gvLog) :
        (\E r \in u.rels : /\ r[2] \in Causal /\ x \in {gvInto[r[1]], gvInto[r[3]]}
                           /\ Resolved(r) \in graph)
            => u \in ToSet(steps)

\* The timeline shows a relation as added no later than any record that asserts
\* it holds, and as ended only when none of them holds any more, and as many of
\* the latest events as were asked for.
TimelineExact(graph, valid, events, shown) ==
    /\ \A r \in graph : \A id \in EdgeRecords(gvLog, r) :
        \A e \in {x \in events : x.of = r}, t \in 1..(GvMaxTime + 1) :
            HoldsAt(valid[id], t) => IF e.kind = 3 THEN e.at <= t ELSE t < e.at
    /\ \A e \in events \ ToSet(shown) :
        Len(shown) = GvLimit /\ \A i \in DOMAIN shown : ~Before(shown[i], e)

\* A file's entities are not among its dependents.
FileExact(file) == file.entities \cap {i.entity : i \in file.dependents} = {}

TimelineSound(graph, valid, events) ==
    TimelineExact(graph, valid, events, TimelineView(events, 0, 0, GvLimit))
ViewsExact(graph, valid) ==
    /\ \A x \in SessionEntities(gvLog) :
        /\ ImpactExact(ImpactView(gvLog, valid, x, GvHops), DependOver(graph, {x}), valid)
        /\ LineageExact(x, graph, LineageView(gvLog, x, GvHops).steps)
    /\ TimelineSound(graph, valid, Events(gvLog, valid))
    /\ FileExact(FileView(gvLog, GvHops))

\* What ViewsSound rests on: the log is in the order of the timestamps, its ids
\* are its own, and a record supersedes only records before it.
LoggedRecords ==
    [kind : {d.kind : d \in GvDrafts}, title : {d.title : d \in GvDrafts},
     file : {d.file : d \in GvDrafts}, names : SUBSET GvNames, rels : SUBSET GvRelations,
     from : 0..GvMaxTime, id : 1..(gvNext - 1), time : 1..gvClock,
     supersedes : SUBSET (1..(gvNext - 1)), retired : 0..gvClock]
LogOrdered(log) ==
    /\ \A i, j \in DOMAIN log : i < j => log[i].id # log[j].id /\ log[i].time <= log[j].time
    /\ \A i, j \in DOMAIN log : log[j].id \in log[i].supersedes => j < i
ViewsInv ==
    /\ gvLog \in Seq(LoggedRecords) /\ gvInto \in [GvNames -> GvNames]
    /\ gvClock \in 1..GvMaxTime /\ gvNext \in 1..(MaxDrafts + 1) /\ Len(gvLog) < gvNext
    /\ LogOrdered(gvLog)

\* Records succeed each other without a gap, and the impact, lineage, file and
\* timeline views show just that, whatever was merged, forgotten or purged.
ViewsHold(graph, valid) == Succeeds(valid) /\ ViewsExact(graph, valid)
ViewsSound == ViewsHold(SessionGraph(gvLog), Validity(gvLog))

=============================================================================
