--------------------------- MODULE SurrealSessions ---------------------------
(***************************************************************************)
(* How SurrealDB stores one session (surrealdb_storage/sessions.rs and     *)
(* graph.rs).  The rows of the updates, of the entities and of the edges   *)
(* are tables of their own; a save sends only what differs from what this  *)
(* process believes to be stored (PersistedState), so a wrong belief is a  *)
(* row that is never written.                                              *)
(*                                                                         *)
(* Saves come from the persister, one at a time.  The operations that      *)
(* erase rows (purge, delete of an entity, delete of the session) run      *)
(* under SessionPersister::exclusive, which excludes saves only if it      *)
(* finds work under way.  Loads take no lock before they remember.         *)
(*                                                                         *)
(* An update is a number, its place in the session.  An entity is the set  *)
(* of updates that mention it (what its counts, times and description are  *)
(* computed from, and so its fingerprint); an edge is the last update that *)
(* asserts it (whose context it keeps).                                    *)
(***************************************************************************)
EXTENDS Naturals, FiniteSets, FiniteSetsExt

CONSTANTS
    MaxUpdate,      \* bound: updates are 1 .. MaxUpdate
    SNames,         \* entity names
    Mentions,       \* Mentions[u]: the names update u mentions
    Faults,         \* may statements and queries fail?  (bound: one statement of a query)
    DryRuns         \* are sessions loaded while they are in memory (dry_run)?

SUpdates == 1 .. MaxUpdate
SEdges == {e \in SUBSET SNames : Cardinality(e) = 2}

ASSUME SurrealAssumption ==
    /\ MaxUpdate \in Nat
    /\ Mentions \in [SUpdates -> SUBSET SNames]
    /\ Faults \in BOOLEAN /\ DryRuns \in BOOLEAN

VARIABLES
    sMem,       \* the session in memory: updates, entities, edges
    sPending,   \* work queued at the persister: explicit and removed updates
    sDb,        \* tables: session row, updates, entities, edges
    sKnown,     \* persisted[id]: what this process believes to be stored
    sSave,      \* the save under way
    sGuest,     \* the erasing operation under way
    sLoad,      \* the load under way
    sNext,      \* the next update
    sBroken,    \* history: the last save did not complete
    sCrossed    \* history: names whose rows an erasing operation took without
                \* the session or the saves knowing

surrealVars ==
    <<sMem, sPending, sDb, sKnown, sSave, sGuest, sLoad, sNext, sBroken, sCrossed>>

NoEnts == [n \in SNames |-> {}]
NoRels == [e \in SEdges |-> 0]
NoMem == [here |-> FALSE, ups |-> {}, ents |-> NoEnts, rels |-> NoRels]
EmptyDb == [row |-> FALSE, ups |-> {}, ents |-> NoEnts, rels |-> NoRels]
NoKnown == [some |-> FALSE, ups |-> {}, ents |-> NoEnts, rels |-> NoRels]
NoWork == [some |-> FALSE, explicit |-> {}, removed |-> {}]
NoSave == [pc |-> "idle", snap |-> NoMem, work |-> NoWork, seen |-> NoKnown,
           full |-> FALSE, failed |-> {}, orphan |-> FALSE]
NoGuest == [pc |-> "idle", op |-> "none", name |-> {}, gone |-> 0]
NoLoad == [pc |-> "idle", ups |-> {}, ents |-> NoEnts, rels |-> NoRels]

Statements == {"session", "updates", "removed", "entities", "relations"}

SurrealInit ==
    /\ sMem = NoMem /\ sPending = NoWork /\ sDb = EmptyDb /\ sKnown = NoKnown
    /\ sSave = NoSave /\ sGuest = NoGuest /\ sLoad = NoLoad
    /\ sNext = 1 /\ sBroken = FALSE /\ sCrossed = {}

(***************************************************************************)
(* The session in memory.                                                  *)
(***************************************************************************)

LastUpdate(us) == IF us = {} THEN 0 ELSE Max(us)

\* Graph rebuilt from the updates (rebuild_entity_graph_sync).
Rebuilt(ups) ==
    [here |-> TRUE, ups |-> ups,
     ents |-> [n \in SNames |-> {u \in ups : n \in Mentions[u]}],
     rels |-> [e \in SEdges |-> LastUpdate({u \in ups : e \subseteq Mentions[u]})]]

\* Graph after one more update (apply_update).
Applied(m, u) ==
    [here |-> TRUE, ups |-> m.ups \cup {u},
     ents |-> [n \in SNames |-> m.ents[n] \cup {v \in {u} : n \in Mentions[v]}],
     rels |-> [e \in SEdges |-> IF e \subseteq Mentions[u] THEN u ELSE m.rels[e]]]

\* Graph without an entity and its edges (remove_entity).
Without(m, n) ==
    [m EXCEPT !.ents[n] = {}, !.rels = [e \in SEdges |-> IF n \in e THEN 0 ELSE @[e]]]

Queued(explicit, removed) ==
    [some |-> TRUE, explicit |-> sPending.explicit \cup explicit,
     removed |-> sPending.removed \cup removed]

\* An update is committed (the first one creates the session) and its persist queued.
AddUpdate ==
    /\ sNext \in SUpdates /\ sGuest.op # "session"
    /\ sMem.here \/ ~sDb.row
    /\ sLoad.pc = "idle" \/ sMem.here
    /\ sMem' = Applied(sMem, sNext)
    /\ sPending' = Queued({sNext}, {})
    /\ sNext' = sNext + 1
    /\ sCrossed' = sCrossed \cup (Mentions[sNext] \cap sGuest.name)
    /\ UNCHANGED <<sDb, sKnown, sSave, sGuest, sLoad, sBroken>>

Quiet == ~sPending.some /\ sSave.pc = "idle" /\ sGuest.pc = "idle"

\* The session leaves memory, its last write done.
Evict ==
    /\ sMem.here /\ Quiet /\ ~sBroken /\ sDb.row
    /\ sMem' = NoMem
    /\ UNCHANGED <<sPending, sDb, sKnown, sSave, sGuest, sLoad, sNext, sBroken, sCrossed>>

(***************************************************************************)
(* SurrealDBStorage::persist.                                              *)
(***************************************************************************)

\* The persister hands over its work with the session as it is now; a session
\* without a row is saved whole (save_session).
SaveBegin ==
    /\ sPending.some /\ sMem.here /\ sSave.pc = "idle"
    /\ sGuest.pc \notin {"locked", "erased"}
    /\ sSave' = [NoSave EXCEPT !.pc = "begun", !.snap = sMem, !.work = sPending,
                               !.full = ~sDb.row]
    /\ sPending' = NoWork
    /\ UNCHANGED <<sMem, sDb, sKnown, sGuest, sLoad, sNext, sBroken, sCrossed>>

\* The slot is locked; a session nothing is known of has its row ids read.
SaveLock ==
    /\ sSave.pc = "begun"
    /\ sSave' = [sSave EXCEPT !.pc = "query",
           !.seen = IF sKnown.some THEN sKnown ELSE [NoKnown EXCEPT !.ups = sDb.ups]]
    /\ UNCHANGED <<sMem, sPending, sDb, sKnown, sGuest, sLoad, sNext, sBroken, sCrossed>>

UpdatesToWrite(s) ==
    (s.work.explicit \cup (s.snap.ups \ s.seen.ups)) \ s.work.removed

EntitiesToWrite(s) ==
    {n \in SNames : s.snap.ents[n] # {} /\ (s.full \/ s.seen.ents[n] # s.snap.ents[n])}

RelationsToWrite(s) ==
    {e \in SEdges : s.snap.rels[e] # 0 /\ (s.full \/ s.seen.rels[e] # s.snap.rels[e])}

\* The statements of PERSIST_QUERY that do not fail, applied to the tables.
Persisted(db, s, failed) ==
    [row |-> db.row \/ "session" \notin failed,
     ups |-> (db.ups \cup IF "updates" \in failed THEN {} ELSE UpdatesToWrite(s))
                \ IF "removed" \in failed THEN {} ELSE s.work.removed,
     ents |-> [n \in SNames |-> IF "entities" \notin failed /\ n \in EntitiesToWrite(s)
                                THEN s.snap.ents[n] ELSE db.ents[n]],
     rels |-> [e \in SEdges |-> IF "relations" \notin failed /\ e \in RelationsToWrite(s)
                                THEN s.snap.rels[e] ELSE db.rels[e]]]

SaveQuery ==
    /\ sSave.pc = "query"
    /\ \E failed \in {{}} \cup IF Faults THEN {{x} : x \in Statements} ELSE {} :
          /\ sDb' = Persisted(sDb, sSave, failed)
          /\ sSave' = [sSave EXCEPT !.pc = "sent", !.failed = failed]
    /\ UNCHANGED <<sMem, sPending, sKnown, sGuest, sLoad, sNext, sBroken, sCrossed>>

\* The query itself returned an error, carried out or not: what was known stays.
SaveLost ==
    /\ Faults /\ sSave.pc = "query"
    /\ sDb' \in {sDb, Persisted(sDb, sSave, {})}
    /\ sSave' = NoSave
    /\ sBroken' = TRUE
    /\ UNCHANGED <<sMem, sPending, sKnown, sGuest, sLoad, sNext, sCrossed>>

\* What is known after the query was answered.
KnownAfter_graphErrors(s) ==
    IF s.failed \cap {"session", "updates", "removed"} # {} THEN NoKnown
    ELSE [some |-> TRUE,
          ups |-> (s.seen.ups \cup UpdatesToWrite(s)) \ s.work.removed,
          ents |-> s.snap.ents, rels |-> s.snap.rels]

KnownAfter(s) ==
    IF s.failed \cap {"session", "updates", "removed"} # {} THEN NoKnown
    ELSE LET graphOk == s.failed \cap {"entities", "relations"} = {} IN
         [some |-> TRUE,
          ups |-> (s.seen.ups \cup UpdatesToWrite(s)) \ s.work.removed,
          ents |-> IF graphOk THEN s.snap.ents ELSE NoEnts,
          rels |-> IF graphOk THEN s.snap.rels ELSE NoRels]

SaveEnd ==
    /\ sSave.pc = "sent"
    /\ sKnown' = IF sSave.orphan THEN sKnown ELSE KnownAfter(sSave)
    /\ sBroken' = (sSave.failed # {})
    /\ sSave' = NoSave
    /\ UNCHANGED <<sMem, sPending, sDb, sGuest, sLoad, sNext, sCrossed>>

\* At MAX_TRACKED_SESSIONS another session's save drops this one's entry.
ForgetVictim ==
    /\ sKnown.some /\ sSave.pc # "idle"
    /\ sKnown' = NoKnown
    /\ sSave' = [sSave EXCEPT !.orphan = sSave.pc # "begun"]
    /\ UNCHANGED <<sMem, sPending, sDb, sGuest, sLoad, sNext, sBroken, sCrossed>>

(***************************************************************************)
(* Erasing operations.                                                     *)
(***************************************************************************)

\* exclusive: the persister's lock if there is work, no lock otherwise.
Enter == IF sSave.pc = "idle" /\ ~sPending.some THEN "free" ELSE "waiting"

\* purge_update: graph rebuilt without the record, then the stored graph cleared.
PurgeUpdate(u) ==
    /\ sGuest.pc = "idle" /\ u \in sMem.ups
    /\ sMem' = Rebuilt(sMem.ups \ {u})
    /\ sGuest' = [pc |-> Enter, op |-> "graph", name |-> {}, gone |-> u]
    /\ UNCHANGED <<sPending, sDb, sKnown, sSave, sLoad, sNext, sBroken, sCrossed>>

\* delete_entity: out of the graph in memory, a persist queued, then the rows.
DeleteEntity(n) ==
    /\ sGuest.pc = "idle" /\ sMem.ents[n] # {}
    /\ sMem' = Without(sMem, n)
    /\ sPending' = Queued({}, {})
    /\ sGuest' = [pc |-> "waiting", op |-> "entity", name |-> {n}, gone |-> 0]
    /\ UNCHANGED <<sDb, sKnown, sSave, sLoad, sNext, sBroken, sCrossed>>

\* delete_session: the persister retires queued work before it erases.
DeleteSession ==
    /\ sGuest.pc = "idle" /\ sMem.here
    /\ sMem' = NoMem /\ sPending' = NoWork
    /\ sGuest' = [pc |-> Enter, op |-> "session", name |-> {}, gone |-> 0]
    /\ UNCHANGED <<sDb, sKnown, sSave, sLoad, sNext, sBroken, sCrossed>>

\* The lock of the slot that was found; the slot may be unregistered before more
\* is queued (drain), and then the next save has a slot, and a lock, of its own.
GuestLock ==
    /\ sGuest.pc = "waiting" /\ sSave.pc = "idle"
    /\ \E pc \in {"locked"} \cup IF sPending.some THEN {} ELSE {"free"} :
          sGuest' = [sGuest EXCEPT !.pc = pc]
    /\ UNCHANGED <<sMem, sPending, sDb, sKnown, sSave, sLoad, sNext, sBroken, sCrossed>>

\* The DELETE statements of the operation.
Erased(db, g) ==
    CASE g.op = "session" -> EmptyDb
      [] g.op = "graph"   -> [db EXCEPT !.ents = NoEnts, !.rels = NoRels]
      [] g.op = "entity"  ->
           [db EXCEPT !.ents = [n \in SNames |-> IF n \in g.name THEN {} ELSE @[n]],
                      !.rels = [e \in SEdges |-> IF e \cap g.name # {} THEN 0 ELSE @[e]]]

GuestErase ==
    /\ sGuest.pc \in {"free", "locked"}
    /\ sDb' = Erased(sDb, sGuest)
    /\ sGuest' = [sGuest EXCEPT !.pc = IF @ = "free" THEN "erasedFree" ELSE "erased"]
    /\ UNCHANGED <<sMem, sPending, sKnown, sSave, sLoad, sNext, sBroken, sCrossed>>

\* forget_graph_state takes the slot's mutex; a session delete removes the slot.
Forgotten_ids(g) == IF g.op = "session" THEN NoKnown ELSE sKnown

Forgotten(g) ==
    IF g.op = "session" THEN NoKnown
    ELSE [sKnown EXCEPT !.ents = NoEnts, !.rels = NoRels]

\* The operation ends; purge then queues the removal of its record.
GuestEnd ==
    /\ sGuest.pc \in {"erased", "erasedFree"}
    /\ sGuest.op = "session" \/ sSave.pc \in {"idle", "begun"} \/ sSave.orphan
    /\ sKnown' = Forgotten(sGuest)
    /\ sSave' = IF sGuest.op = "session" /\ sSave.pc \notin {"idle", "begun"}
                THEN [sSave EXCEPT !.orphan = TRUE] ELSE sSave
    /\ sPending' = IF sGuest.op = "graph" THEN Queued({}, {sGuest.gone}) ELSE sPending
    /\ sGuest' = NoGuest
    /\ sBroken' = (sBroken /\ sGuest.op # "session")
    /\ UNCHANGED <<sMem, sDb, sLoad, sNext, sCrossed>>

\* A statement of the operation failed: nothing is forgotten, the caller gets
\* the error, and a purge does not queue the removal of its record.
GuestFail ==
    /\ Faults /\ sGuest.pc \in {"free", "locked"} /\ sGuest.op # "session"
    /\ sDb' \in {sDb, [sDb EXCEPT !.ents = Erased(sDb, sGuest).ents]}
    /\ sGuest' = NoGuest
    /\ sCrossed' = IF sGuest.op = "graph" THEN SNames ELSE sCrossed \cup sGuest.name
    /\ UNCHANGED <<sMem, sPending, sKnown, sSave, sLoad, sNext, sBroken>>

(***************************************************************************)
(* load_session: the tables are read one after the other; a graph that     *)
(* cannot be read is left empty; an edge whose entity has no row has no    *)
(* name at that end and is dropped.                                        *)
(***************************************************************************)

\* A miss in memory loads once the persister is idle; a dry_run loads at any time.
MayLoad == \/ ~sMem.here /\ Quiet
           \/ DryRuns /\ sMem.here

LoadUpdates ==
    /\ sLoad.pc = "idle" /\ sDb.row /\ MayLoad
    /\ sLoad' = [NoLoad EXCEPT !.pc = IF sMem.here THEN "dry" ELSE "miss",
                               !.ups = sDb.ups]
    /\ UNCHANGED <<sMem, sPending, sDb, sKnown, sSave, sGuest, sNext, sBroken, sCrossed>>

ReadRels(db) ==
    [e \in SEdges |-> IF \A n \in e : db.ents[n] # {} THEN db.rels[e] ELSE 0]

LoadGraph ==
    /\ sLoad.pc \in {"miss", "dry"}
    /\ sLoad' = [sLoad EXCEPT !.pc = IF @ = "miss" THEN "missRead" ELSE "dryRead",
                              !.ents = sDb.ents, !.rels = ReadRels(sDb)]
    /\ UNCHANGED <<sMem, sPending, sDb, sKnown, sSave, sGuest, sNext, sBroken, sCrossed>>

\* remember_loaded, under the slot's mutex; a miss installs the session.
LoadEnd ==
    /\ sLoad.pc \in {"missRead", "dryRead"}
    /\ sSave.pc \in {"idle", "begun"} \/ sSave.orphan
    /\ sKnown' = [some |-> TRUE, ups |-> sLoad.ups, ents |-> sLoad.ents, rels |-> sLoad.rels]
    /\ sMem' = IF sLoad.pc = "missRead"
               THEN [here |-> TRUE, ups |-> sLoad.ups, ents |-> sLoad.ents, rels |-> sLoad.rels]
               ELSE sMem
    /\ sLoad' = NoLoad
    /\ UNCHANGED <<sPending, sDb, sSave, sGuest, sNext, sBroken, sCrossed>>

SurrealNext ==
    \/ AddUpdate \/ Evict
    \/ SaveBegin \/ SaveLock \/ SaveQuery \/ SaveLost \/ SaveEnd \/ ForgetVictim
    \/ \E u \in SUpdates : PurgeUpdate(u)
    \/ \E n \in SNames : DeleteEntity(n)
    \/ DeleteSession \/ GuestLock \/ GuestErase \/ GuestFail \/ GuestEnd
    \/ LoadUpdates \/ LoadGraph \/ LoadEnd

SurrealSpec == SurrealInit /\ [][SurrealNext]_surrealVars

(***************************************************************************)
(* Properties.                                                             *)
(***************************************************************************)

\* When nothing is under way and the last save completed, a load would return
\* every update, entity and edge the session has in memory: no save was spared
\* because of a belief that was wrong (PersistedState against the tables).
\* Entities mentioned while their own delete was under way, and those whose
\* erasure failed half way, are excepted.
MemoryIsStored ==
    sMem.here /\ Quiet /\ ~sBroken =>
       /\ sMem.ups \subseteq sDb.ups
       /\ \A n \in SNames \ sCrossed : sMem.ents[n] \in {{}, sDb.ents[n]}
       /\ \A e \in SEdges : e \cap sCrossed = {} => sMem.rels[e] \in {0, ReadRels(sDb)[e]}

(***************************************************************************)
(* Why MemoryIsStored holds: the invariant below is inductive, unless a    *)
(* session is loaded while it is in memory.                                *)
(***************************************************************************)

SEnts == [SNames -> SUBSET SUpdates]
SRels == [SEdges -> 0 .. MaxUpdate]
SSessions == [here : BOOLEAN, ups : SUBSET SUpdates, ents : SEnts, rels : SRels]
STables == [row : BOOLEAN, ups : SUBSET SUpdates, ents : SEnts, rels : SRels]
SBeliefs == [some : BOOLEAN, ups : SUBSET SUpdates, ents : SEnts, rels : SRels]
SWork == [some : BOOLEAN, explicit : SUBSET SUpdates, removed : SUBSET SUpdates]
SSaves == [pc : {"idle", "begun", "query", "sent"}, snap : SSessions, work : SWork,
           seen : SBeliefs, full : BOOLEAN, failed : SUBSET Statements, orphan : BOOLEAN]
SGuests == [pc : {"idle", "waiting", "free", "locked", "erased", "erasedFree"},
            op : {"none", "graph", "entity", "session"},
            name : SUBSET SNames, gone : 0 .. MaxUpdate]
SLoads == [pc : {"idle", "miss", "missRead"}, ups : SUBSET SUpdates, ents : SEnts, rels : SRels]

SurrealTypeOK ==
    /\ sMem \in SSessions /\ sPending \in SWork /\ sDb \in STables /\ sKnown \in SBeliefs
    /\ sSave \in SSaves /\ sGuest \in SGuests /\ sLoad \in SLoads
    /\ sNext \in 1 .. MaxUpdate + 1 /\ sBroken \in BOOLEAN /\ sCrossed \in SUBSET SNames

\* An update yet to come is in no table, copy or belief.
NowhereIn(u, r) ==
    /\ u \notin r.ups
    /\ \A n \in SNames : u \notin r.ents[n]
    /\ \A e \in SEdges : r.rels[e] # u

NotYetSeen ==
    \A u \in SUpdates : u >= sNext =>
        /\ NowhereIn(u, sMem) /\ NowhereIn(u, sDb) /\ NowhereIn(u, sKnown)
        /\ NowhereIn(u, sSave.snap) /\ NowhereIn(u, sSave.seen)
        /\ u \notin sPending.explicit \cup sPending.removed
        /\ u \notin sSave.work.explicit \cup sSave.work.removed
        /\ u # sGuest.gone

\* How the save, the erasing operation and the load exclude each other, and
\* what they leave when they are done.
StagesFit ==
    /\ sSave.pc = "idle" => sSave = NoSave
    /\ sSave.orphan => sSave.pc \in {"query", "sent"} /\ ~sKnown.some
    /\ ~sKnown.some => sKnown = NoKnown
    /\ ~sPending.some => sPending = NoWork
    /\ ~sMem.here => sMem = NoMem
    /\ sGuest.pc \in {"locked", "erased"} => sSave.pc = "idle"
    /\ sGuest.op = "session" =>
         ~sMem.here /\ ~sPending.some /\ (sGuest.pc # "waiting" => sSave.pc = "idle")
    /\ sGuest.pc = "idle" <=> sGuest = NoGuest
    /\ sGuest.op = "none" => sGuest = NoGuest
    /\ sGuest.op # "entity" => sGuest.name = {}
    /\ sGuest.op = "graph" => sMem.here /\ sGuest.gone \in SUpdates
    /\ sLoad.pc # "idle" => ~sMem.here /\ Quiet /\ sLoad.ups = sDb.ups
    /\ sLoad.pc = "missRead" => sLoad.ents = sDb.ents /\ sLoad.rels = ReadRels(sDb)

\* The ends of an edge in memory are entities in memory.
EndsKept ==
    \A e \in SEdges : sMem.rels[e] # 0 => \A n \in e : sMem.ents[n] # {}

\* What is believed stored, or was written, is stored, as far as memory or the
\* save under way needs it; what memory has is stored, queued or being saved;
\* and nothing that is to be removed is in memory.
SUsed == sMem.ups \cup IF sSave.pc = "idle" THEN {} ELSE sSave.snap.ups

UpdatesSafe ==
    /\ sKnown.ups \cap SUsed \subseteq sDb.ups
    /\ sSave.pc \in {"query", "sent"} => sSave.seen.ups \cap SUsed \subseteq sDb.ups
    /\ sSave.pc = "sent" /\ "updates" \notin sSave.failed =>
         UpdatesToWrite(sSave) \cap SUsed \subseteq sDb.ups
    /\ sSave.pc = "idle" /\ sMem.here /\ ~sBroken =>
         sMem.ups \subseteq sDb.ups \cup sPending.explicit
    /\ sSave.pc # "idle" => sMem.ups \subseteq sSave.snap.ups \cup sPending.explicit
    /\ sPending.removed \cap sMem.ups = {} /\ sGuest.gone \notin sMem.ups
    /\ sSave.work.removed \cap SUsed = {}

\* An operation that clears the stored graph ends with a persist queued or the
\* session gone; until then a row may be anything.
Clearing == sGuest.op \in {"graph", "session"}

\* A save whose slot was dropped: it is followed by another one that finds
\* nothing remembered.
Overtaken == sSave.orphan /\ sPending.some

\* Of one entity or edge, absent as z: its content in memory (m), in the
\* snapshot being saved (s), as remembered (k), as remembered when the save
\* began (q), as stored (d), and whether it is what delete_entity erases (own).
\* A remembered row is stored, or will be written because memory differs; a
\* save whose query is answered has stored the snapshot's row; and memory is
\* the snapshot, or else a further persist is queued.
RowSafe(z, m, s, k, q, d, own) ==
    /\ ~Clearing =>
         /\ sSave.pc # "sent" /\ ~(own /\ sGuest.pc \in {"erased", "erasedFree"}) =>
              k = z \/ k = d \/ (sBroken /\ k # IF sSave.pc = "idle" THEN m ELSE s)
         /\ sSave.pc # "idle" => m = s \/ k = z \/ m # k
         /\ sSave.pc # "idle" /\ sMem.here /\ ~sPending.some => m = s
         /\ sSave.pc = "query" /\ ~Overtaken => s = z \/ sSave.full \/ q # s \/ d = s
         /\ sSave.pc = "sent" /\ sSave.failed = {} /\ ~Overtaken => s = z \/ d = s
         /\ sSave.pc = "idle" /\ sMem.here /\ ~sPending.some /\ ~sBroken => m = z \/ m = d
    /\ own => m = z /\ (sGuest.pc # "waiting" /\ sSave.pc # "idle" => s = z)

RowsSafe ==
    /\ \A n \in SNames \ sCrossed :
          RowSafe({}, sMem.ents[n], sSave.snap.ents[n], sKnown.ents[n],
                  sSave.seen.ents[n], sDb.ents[n], n \in sGuest.name)
    /\ \A e \in SEdges : e \cap sCrossed = {} =>
          RowSafe(0, sMem.rels[e], sSave.snap.rels[e], sKnown.rels[e],
                  sSave.seen.rels[e], sDb.rels[e], e \cap sGuest.name # {})

SurrealInv ==
    SurrealTypeOK /\ NotYetSeen /\ StagesFit /\ EndsKept /\ UpdatesSafe /\ RowsSafe

=============================================================================
