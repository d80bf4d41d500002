---------------------------- MODULE RocksSessions ----------------------------
(***************************************************************************)
(* How RocksDB stores one session (rocksdb_storage/sessions.rs): a blob, a *)
(* row per update, the index that lists them and the record the listings   *)
(* read.  A save is one batch under the session's lock.  A blob of an      *)
(* older version embeds the updates; the load that meets one migrates it,  *)
(* in a second step that takes the lock.                                   *)
(*                                                                         *)
(* Saves come from snapshots that may be older than what is stored: the    *)
(* copy of an evicted handle, or one taken before another save.            *)
(***************************************************************************)
EXTENDS Naturals, FiniteSets

CONSTANTS
    RUpdates,       \* updates
    RSavers,        \* concurrent saves
    RLoaders        \* concurrent loads

VARIABLES
    rBlob,      \* session:{id}: its embedded updates, and which write it is
    rIndex,     \* session_updates:{id}
    rRows,      \* session:{id}:update:{u}
    rMeta,      \* session_meta:{id}: the update count listings show
    rMem,       \* the session in memory
    rSave,      \* per save: the snapshot and the changes it carries
    rLoad,      \* per load: what it read
    rAcked,     \* history: updates that were stored
    rGone       \* history: updates whose removal was asked for

rocksVars == <<rBlob, rIndex, rRows, rMeta, rMem, rSave, rLoad, rAcked, rGone>>

Absent == [some |-> FALSE, ids |-> {}]
Present(ids) == [some |-> TRUE, ids |-> ids]
RNoMem == [here |-> FALSE, ups |-> {}]
RNoSave == [pc |-> "idle", ups |-> {}, explicit |-> {}, removed |-> {}]
RNoLoad == [pc |-> "idle", blob |-> Absent, ups |-> {}]

\* Nothing stored, or a session an older version wrote, with or without an
\* index from before a downgrade.
RocksInit ==
    /\ \E embedded \in SUBSET RUpdates, listed \in SUBSET RUpdates, downgraded \in BOOLEAN :
          /\ listed = {} \/ downgraded
          /\ downgraded => embedded # {}
          /\ rBlob = IF embedded = {} THEN Absent ELSE Present(embedded)
          /\ rIndex = IF downgraded THEN Present(listed) ELSE Absent
          /\ rRows = listed
          /\ rAcked = embedded
    /\ rMeta = [some |-> FALSE, count |-> 0]
    /\ rMem = RNoMem
    /\ rSave = [s \in RSavers |-> RNoSave]
    /\ rLoad = [l \in RLoaders |-> RNoLoad]
    /\ rGone = {}

(***************************************************************************)
(* persist_session.                                                        *)
(***************************************************************************)

\* Rows of the explicit updates and of those the index does not list.
RowsAfter(ups, explicit, removed) ==
    (rRows \cup explicit \cup (ups \ rIndex.ids)) \ removed

\* The snapshot's list replaces the index.
IndexAfter_snapshot(ups, explicit, removed) == (ups \cup explicit) \ removed

\* The stored ids stay, new ones are added, only named ones go.
IndexAfter(ups, explicit, removed) ==
    (rIndex.ids \cup ups \cup explicit) \ removed

Persist(ups, explicit, removed) ==
    /\ rRows' = RowsAfter(ups, explicit, removed)
    /\ rIndex' = Present(IndexAfter(ups, explicit, removed))
    /\ rMeta' = [some |-> TRUE, count |-> Cardinality(ups)]
    /\ rBlob' = Present({})

\* The session in memory changes, and a save starts with a copy of it.
SaveChange(s) ==
    /\ rMem.here /\ rSave[s].pc = "idle"
    /\ \E u \in RUpdates :
          \/ /\ u \notin rMem.ups /\ u \notin rGone
             /\ rMem' = [rMem EXCEPT !.ups = @ \cup {u}]
             /\ \E explicit \in {{}, {u}} :
                   rSave' = [rSave EXCEPT ![s] = [pc |-> "copied", ups |-> rMem'.ups,
                                                  explicit |-> explicit, removed |-> {}]]
             /\ UNCHANGED rGone
          \/ /\ u \in rMem.ups
             /\ rMem' = [rMem EXCEPT !.ups = @ \ {u}]
             /\ rSave' = [rSave EXCEPT ![s] = [pc |-> "copied", ups |-> rMem'.ups,
                                               explicit |-> {}, removed |-> {u}]]
             /\ rGone' = rGone \cup {u}
    /\ UNCHANGED <<rBlob, rIndex, rRows, rMeta, rLoad, rAcked>>

SaveWrite(s) ==
    /\ rSave[s].pc = "copied"
    /\ Persist(rSave[s].ups, rSave[s].explicit, rSave[s].removed)
    /\ rAcked' = (rAcked \cup rSave[s].ups) \ rSave[s].removed
    /\ rSave' = [rSave EXCEPT ![s] = RNoSave]
    /\ UNCHANGED <<rMem, rLoad, rGone>>

\* A session is created and saved.
CreateSession ==
    /\ ~rMem.here /\ ~rBlob.some
    /\ \A s \in RSavers : rSave[s].pc = "idle"
    /\ rMem' = [here |-> TRUE, ups |-> {}]
    /\ Persist({}, {}, {})
    /\ UNCHANGED <<rSave, rLoad, rAcked, rGone>>

\* Rows beside a save; an index that exists lists them, and the count follows.
BatchSaveUpdates ==
    /\ \E us \in SUBSET (RUpdates \ rGone) :
          /\ us # {}
          /\ rRows' = rRows \cup us
          /\ IF rIndex.some /\ ~(us \subseteq rIndex.ids)
             THEN /\ rIndex' = Present(rIndex.ids \cup us)
                  /\ rMeta' = IF rMeta.some
                              THEN [some |-> TRUE, count |-> Cardinality(rIndex.ids \cup us)]
                              ELSE rMeta
             ELSE UNCHANGED <<rIndex, rMeta>>
          /\ rAcked' = IF rIndex.some /\ rBlob.ids = {} THEN rAcked \cup us ELSE rAcked
    /\ UNCHANGED <<rBlob, rMem, rSave, rLoad, rGone>>

(***************************************************************************)
(* read_session and backfill_legacy.                                       *)
(***************************************************************************)

\* An embedded list wins over the index; listed updates without a row are skipped.
Readable ==
    IF rIndex.some /\ rBlob.ids = {} THEN rIndex.ids \cap rRows ELSE rBlob.ids

Legacy == ~(rIndex.some /\ rBlob.ids = {})

LoadRead(l) ==
    /\ rLoad[l].pc = "idle" /\ rBlob.some
    /\ rLoad' = [rLoad EXCEPT ![l] = [pc |-> IF Legacy THEN "legacy" ELSE "read",
                                      blob |-> rBlob, ups |-> Readable]]
    /\ UNCHANGED <<rBlob, rIndex, rRows, rMeta, rMem, rSave, rAcked, rGone>>

\* The blob is still the one that was read: what the index lists beyond the
\* embedded updates was removed by the older version.
Backfill_unchecked(l) ==
    Persist(rLoad[l].ups, {}, rIndex.ids \ rLoad[l].ups)

Backfill(l) ==
    IF rBlob = rLoad[l].blob
    THEN Persist(rLoad[l].ups, {}, rIndex.ids \ rLoad[l].ups)
    ELSE UNCHANGED <<rBlob, rIndex, rRows, rMeta>>

LoadBackfill(l) ==
    /\ rLoad[l].pc = "legacy"
    /\ Backfill(l)
    /\ rLoad' = [rLoad EXCEPT ![l].pc = "read"]
    /\ UNCHANGED <<rMem, rSave, rAcked, rGone>>

\* A migration that fails is logged; the session is loaded all the same.
LoadBackfillFailed(l) ==
    /\ rLoad[l].pc = "legacy"
    /\ rLoad' = [rLoad EXCEPT ![l].pc = "read"]
    /\ UNCHANGED <<rBlob, rIndex, rRows, rMeta, rMem, rSave, rAcked, rGone>>

\* The load of a session that is not in memory installs it; a session is loaded
\* for the cache only while no save of it is under way.
LoadEndRocks(l) ==
    /\ rLoad[l].pc = "read"
    /\ rMem' = IF ~rMem.here /\ rBlob.some /\ (\A s \in RSavers : rSave[s].pc = "idle")
               THEN [here |-> TRUE, ups |-> rLoad[l].ups] ELSE rMem
    /\ rLoad' = [rLoad EXCEPT ![l] = RNoLoad]
    /\ UNCHANGED <<rBlob, rIndex, rRows, rMeta, rSave, rAcked, rGone>>

\* Count of a session whose record is missing, from its blob or its index.
SummaryCount ==
    IF rBlob.ids # {} THEN Cardinality(rBlob.ids) ELSE Cardinality(rIndex.ids)

\* list_session_summaries: a session without a record gets one.
Summarize ==
    /\ rBlob.some /\ ~rMeta.some
    /\ rMeta' = [some |-> TRUE, count |-> SummaryCount]
    /\ UNCHANGED <<rBlob, rIndex, rRows, rMem, rSave, rLoad, rAcked, rGone>>

\* delete_session: every key of the session in one batch.  The persister lets
\* no save cross it.
DeleteStored ==
    /\ rMem.here /\ (\A s \in RSavers : rSave[s].pc = "idle")
    /\ rBlob' = Absent /\ rIndex' = Absent /\ rRows' = {} /\ rAcked' = {}
    /\ rMeta' = [some |-> FALSE, count |-> 0]
    /\ rMem' = RNoMem
    /\ rGone' = RUpdates
    /\ UNCHANGED <<rSave, rLoad>>

RocksNext ==
    \/ \E s \in RSavers : SaveChange(s) \/ SaveWrite(s)
    \/ CreateSession \/ BatchSaveUpdates \/ Summarize \/ DeleteStored
    \/ \E l \in RLoaders :
          LoadRead(l) \/ LoadBackfill(l) \/ LoadBackfillFailed(l) \/ LoadEndRocks(l)

RocksSpec == RocksInit /\ [][RocksNext]_rocksVars

(***************************************************************************)
(* Properties.                                                             *)
(***************************************************************************)

\* What the module doc of sessions.rs calls the invariant of the format: the
\* index lists no update without a row.  And whatever was stored, by this
\* version or by an older one, and not removed, is what a load returns, through
\* saves of outdated snapshots and through migrations that cross them.
StoredSurvives ==
    /\ rIndex.ids \subseteq rRows
    /\ rAcked \ rGone \subseteq Readable

(* The inductive invariant behind the theorem of StorageProofs. *)

RStored == [some : BOOLEAN, ids : SUBSET RUpdates]

RocksTypeOK ==
    /\ rBlob \in RStored /\ rIndex \in RStored /\ rRows \subseteq RUpdates
    /\ rMem \in [here : BOOLEAN, ups : SUBSET RUpdates]
    /\ rSave \in [RSavers -> [pc : {"idle", "copied"}, ups : SUBSET RUpdates,
                              explicit : SUBSET RUpdates, removed : SUBSET RUpdates]]
    /\ rLoad \in [RLoaders -> [pc : {"idle", "legacy", "read"}, blob : RStored,
                               ups : SUBSET RUpdates]]
    /\ rAcked \subseteq RUpdates /\ rGone \subseteq RUpdates

\* A blob without embedded updates has an index, no blob means nothing stored.
BlobNeedsIndex ==
    /\ rBlob.some /\ rBlob.ids = {} => rIndex.some
    /\ ~rBlob.some => rBlob.ids = {} /\ ~rIndex.some /\ rAcked \subseteq rGone

\* As long as the stored session embeds its updates, every copy of it in memory
\* (loaded, cached or about to be saved) has those that were not removed.
CopiesHaveLegacy ==
    Legacy =>
        /\ rMem.here => rAcked \ rGone \subseteq rMem.ups
        /\ \A s \in RSavers : rSave[s].pc = "copied" => rAcked \ rGone \subseteq rSave[s].ups
        /\ \A l \in RLoaders : rLoad[l].pc # "idle" => rAcked \ rGone \subseteq rLoad[l].ups

\* A load migrates only a blob that embeds its updates.
MigratesEmbedded ==
    \A l \in RLoaders : rLoad[l].pc = "legacy" => rLoad[l].blob.ids # {}

RocksInv ==
    RocksTypeOK /\ BlobNeedsIndex /\ CopiesHaveLegacy /\ MigratesEmbedded /\ StoredSurvives

=============================================================================
