---------------------------- MODULE StorageProofs ----------------------------
(***************************************************************************)
(* Theorems about what keeps sessions: the RocksDB format, whose saves,    *)
(* loads and migrations never lose a stored update; the session cache's    *)
(* counter, which is the number of entries once every call is done;        *)
(* workspaces, of which clients are told what storage keeps; the message   *)
(* stream, whose turn index and rows agree; exports and imports, which     *)
(* leave nothing out that they do not report; and source references, of    *)
(* which none that an invalidation covered is taken for fresh.             *)
(***************************************************************************)
EXTENDS RocksSessions, Messages, SessionCache, Workspaces, Transfer, Freshness,
        NumberFacts, FiniteSetTheorems, SequenceTheorems

(***************************************************************************)
(* RocksSessions.                                                          *)
(***************************************************************************)

LEMMA RocksInitInv ==
    ASSUME RocksInit PROVE RocksInv
<1>1. RocksTypeOK
  BY DEF RocksInit, RocksTypeOK, Absent, Present, RStored, RNoMem, RNoSave, RNoLoad
<1>2. BlobNeedsIndex
  BY DEF RocksInit, BlobNeedsIndex, Absent, Present
<1>3. CopiesHaveLegacy /\ MigratesEmbedded
  BY DEF RocksInit, CopiesHaveLegacy, MigratesEmbedded, RNoMem, RNoSave, RNoLoad
<1>4. StoredSurvives
  BY DEF RocksInit, StoredSurvives, Readable, Absent, Present
<1> QED
  BY <1>1, <1>2, <1>3, <1>4 DEF RocksInv

\* persist_session writes the format of this version: the index lists what it
\* listed and what the save adds, less what the save removes, and every listed
\* update has its row.
LEMMA PersistKeepsRows ==
    ASSUME RocksTypeOK, rIndex.ids \subseteq rRows,
           NEW ups \in SUBSET RUpdates, NEW explicit \in SUBSET RUpdates,
           NEW removed \in SUBSET RUpdates,
           Persist(ups, explicit, removed)
    PROVE  /\ rBlob' \in RStored /\ rIndex' \in RStored /\ rRows' \subseteq RUpdates
           /\ BlobNeedsIndex' /\ ~Legacy'
           /\ rIndex'.ids = (rIndex.ids \cup ups \cup explicit) \ removed
           /\ rIndex'.ids \subseteq rRows'
           /\ Readable' = rIndex'.ids
<1>1. /\ rBlob' = [some |-> TRUE, ids |-> {}]
      /\ rIndex' = [some |-> TRUE, ids |-> (rIndex.ids \cup ups \cup explicit) \ removed]
      /\ rRows' = (rRows \cup explicit \cup (ups \ rIndex.ids)) \ removed
  BY DEF Persist, Present, IndexAfter, RowsAfter
<1>2. rIndex.ids \subseteq RUpdates /\ rRows \subseteq RUpdates
  BY DEF RocksTypeOK, RStored
<1>3. /\ rBlob'.some = TRUE /\ rBlob'.ids = {} /\ rIndex'.some = TRUE
      /\ rIndex'.ids = (rIndex.ids \cup ups \cup explicit) \ removed
  BY <1>1
<1>4. rBlob' \in RStored /\ rIndex' \in RStored /\ rRows' \subseteq RUpdates
  BY <1>1, <1>2 DEF RStored
<1>5. rIndex'.ids \subseteq rRows'
  BY <1>1, <1>3
<1>6. BlobNeedsIndex' /\ ~Legacy'
  BY <1>3 DEF BlobNeedsIndex, Legacy
<1>7. Readable' = rIndex'.ids
  BY <1>3, <1>5 DEF Readable
<1> QED
  BY <1>3, <1>4, <1>5, <1>6, <1>7

\* Every step keeps the types of the stored keys and of the copies.
LEMMA RocksTypeStep ==
    ASSUME RocksInv, RocksNext PROVE RocksTypeOK'
<1> USE DEF RocksInv
<1>1. ASSUME NEW s \in RSavers, SaveChange(s) PROVE RocksTypeOK'
  <2>1. rMem'.ups \subseteq RUpdates /\ rMem' \in [here : BOOLEAN, ups : SUBSET RUpdates]
    BY <1>1 DEF SaveChange, RocksTypeOK
  <2>2. rSave' \in [RSavers -> [pc : {"idle", "copied"}, ups : SUBSET RUpdates,
                                explicit : SUBSET RUpdates, removed : SUBSET RUpdates]]
    BY <1>1, <2>1 DEF SaveChange, RocksTypeOK
  <2>3. rGone' \subseteq RUpdates
    BY <1>1 DEF SaveChange, RocksTypeOK
  <2> QED
    BY <1>1, <2>1, <2>2, <2>3 DEF SaveChange, RocksTypeOK
<1>2. ASSUME NEW s \in RSavers, SaveWrite(s) PROVE RocksTypeOK'
  <2>1. /\ rSave[s].ups \in SUBSET RUpdates /\ rSave[s].explicit \in SUBSET RUpdates
        /\ rSave[s].removed \in SUBSET RUpdates
    BY <1>2 DEF RocksTypeOK
  <2>2. rBlob' \in RStored /\ rIndex' \in RStored /\ rRows' \subseteq RUpdates
    BY <1>2, <2>1, PersistKeepsRows DEF SaveWrite, StoredSurvives
  <2> QED
    BY <1>2, <2>1, <2>2 DEF SaveWrite, RocksTypeOK, RNoSave
<1>3. CASE CreateSession
  <2>1. rBlob' \in RStored /\ rIndex' \in RStored /\ rRows' \subseteq RUpdates
    BY <1>3, PersistKeepsRows DEF CreateSession, StoredSurvives
  <2> QED
    BY <1>3, <2>1 DEF CreateSession, RocksTypeOK
<1>4. CASE BatchSaveUpdates
  <2>1. PICK us \in SUBSET (RUpdates \ rGone) :
          /\ rRows' = rRows \cup us
          /\ rIndex' = [some |-> TRUE, ids |-> rIndex.ids \cup us] \/ rIndex' = rIndex
          /\ rAcked' = rAcked \cup us \/ rAcked' = rAcked
    BY <1>4 DEF BatchSaveUpdates, Present
  <2>2. rIndex' \in RStored /\ rRows' \subseteq RUpdates /\ rAcked' \subseteq RUpdates
    <3>1. rIndex.ids \cup us \in SUBSET RUpdates
      BY <2>1 DEF RocksTypeOK, RStored
    <3>2. [some |-> TRUE, ids |-> rIndex.ids \cup us] \in RStored
      BY <3>1 DEF RStored
    <3> QED
      BY <2>1, <3>2 DEF RocksTypeOK
  <2> QED
    BY <1>4, <2>2 DEF BatchSaveUpdates, RocksTypeOK
<1>5. CASE Summarize
  BY <1>5 DEF Summarize, RocksTypeOK
<1>6. CASE DeleteStored
  BY <1>6 DEF DeleteStored, RocksTypeOK, RStored, Absent, RNoMem
<1>7. ASSUME NEW l \in RLoaders, LoadRead(l) PROVE RocksTypeOK'
  <2>1. Readable \subseteq RUpdates
    BY DEF Readable, RocksTypeOK, RStored
  <2> QED
    BY <1>7, <2>1 DEF LoadRead, RocksTypeOK
<1>8. ASSUME NEW l \in RLoaders, LoadBackfill(l) PROVE RocksTypeOK'
  <2>1. rLoad[l].ups \in SUBSET RUpdates /\ rIndex.ids \ rLoad[l].ups \in SUBSET RUpdates
    BY <1>8 DEF RocksTypeOK, RStored
  <2>2. rBlob' \in RStored /\ rIndex' \in RStored /\ rRows' \subseteq RUpdates
    <3>1. CASE rBlob = rLoad[l].blob
      BY <1>8, <2>1, <3>1, PersistKeepsRows DEF LoadBackfill, Backfill, StoredSurvives
    <3>2. CASE rBlob # rLoad[l].blob
      BY <1>8, <3>2 DEF LoadBackfill, Backfill, RocksTypeOK
    <3> QED
      BY <3>1, <3>2
  <2> QED
    BY <1>8, <2>2 DEF LoadBackfill, RocksTypeOK
<1>9. ASSUME NEW l \in RLoaders, LoadBackfillFailed(l) PROVE RocksTypeOK'
  BY <1>9 DEF LoadBackfillFailed, RocksTypeOK
<1>10. ASSUME NEW l \in RLoaders, LoadEndRocks(l) PROVE RocksTypeOK'
  BY <1>10 DEF LoadEndRocks, RocksTypeOK, RNoLoad, RStored, Absent
<1> QED
  BY <1>1, <1>2, <1>3, <1>4, <1>5, <1>6, <1>7, <1>8, <1>9, <1>10 DEF RocksNext

\* A load migrates only what embeds its updates: a blob without them has an
\* index, and is read as this version's.
LEMMA RocksMigratesStep ==
    ASSUME RocksInv, RocksNext PROVE MigratesEmbedded'
<1> USE DEF RocksInv
<1>1. ASSUME NEW l \in RLoaders, LoadRead(l) PROVE MigratesEmbedded'
  <2>1. Legacy => rBlob.ids # {}
    BY <1>1 DEF LoadRead, Legacy, BlobNeedsIndex
  <2> QED
    BY <1>1, <2>1 DEF LoadRead, MigratesEmbedded, RocksTypeOK
<1>2. ASSUME NEW l \in RLoaders, LoadBackfill(l) \/ LoadBackfillFailed(l) \/ LoadEndRocks(l)
      PROVE  MigratesEmbedded'
  <2>1. rLoad' = [rLoad EXCEPT ![l].pc = "read"] \/ rLoad' = [rLoad EXCEPT ![l] = RNoLoad]
    BY <1>2 DEF LoadBackfill, LoadBackfillFailed, LoadEndRocks
  <2> QED
    BY <2>1 DEF MigratesEmbedded, RocksTypeOK, RNoLoad
<1>3. CASE UNCHANGED rLoad
  BY <1>3 DEF MigratesEmbedded
<1> QED
  BY <1>1, <1>2, <1>3
     DEF RocksNext, SaveChange, SaveWrite, CreateSession, BatchSaveUpdates, Summarize, DeleteStored

\* What is stored survives each step, and so do the copies that a migration or
\* a save would write over it.
LEMMA RocksStoredStep ==
    ASSUME RocksInv, RocksNext
    PROVE  BlobNeedsIndex' /\ CopiesHaveLegacy' /\ StoredSurvives'
<1> USE DEF RocksInv
<1>1. ASSUME NEW s \in RSavers, SaveChange(s)
      PROVE  BlobNeedsIndex' /\ CopiesHaveLegacy' /\ StoredSurvives'
  <2>1. rGone \subseteq rGone' /\ UNCHANGED <<rBlob, rIndex, rRows, rLoad, rAcked>>
    BY <1>1 DEF SaveChange
  <2>2. BlobNeedsIndex' /\ StoredSurvives'
    BY <2>1 DEF BlobNeedsIndex, StoredSurvives, Readable
  <2>3. Legacy => rAcked' \ rGone' \subseteq rMem'.ups /\ rSave'[s].ups = rMem'.ups
    BY <1>1 DEF SaveChange, CopiesHaveLegacy, RocksTypeOK
  <2>4. \A o \in RSavers : o # s => rSave'[o] = rSave[o]
    BY <1>1 DEF SaveChange, RocksTypeOK
  <2>5. CopiesHaveLegacy'
    BY <2>1, <2>3, <2>4 DEF CopiesHaveLegacy, Legacy
  <2> QED
    BY <2>2, <2>5
<1>2. ASSUME NEW s \in RSavers, SaveWrite(s)
      PROVE  BlobNeedsIndex' /\ CopiesHaveLegacy' /\ StoredSurvives'
  <2>1. /\ rSave[s].ups \in SUBSET RUpdates /\ rSave[s].explicit \in SUBSET RUpdates
        /\ rSave[s].removed \in SUBSET RUpdates
    BY <1>2 DEF RocksTypeOK
  <2>2. /\ BlobNeedsIndex' /\ ~Legacy' /\ rIndex'.ids \subseteq rRows'
        /\ Readable' = (rIndex.ids \cup rSave[s].ups \cup rSave[s].explicit) \ rSave[s].removed
    <3>1. Persist(rSave[s].ups, rSave[s].explicit, rSave[s].removed)
      BY <1>2 DEF SaveWrite
    <3>2. rIndex.ids \subseteq rRows
      BY DEF StoredSurvives
    <3>3. RocksTypeOK
      OBVIOUS
    <3> HIDE DEF RocksInv
    <3>4. /\ BlobNeedsIndex' /\ ~Legacy' /\ rIndex'.ids \subseteq rRows'
          /\ rIndex'.ids = (rIndex.ids \cup rSave[s].ups \cup rSave[s].explicit) \ rSave[s].removed
          /\ Readable' = rIndex'.ids
      <4>1. PICK ups \in SUBSET RUpdates, explicit \in SUBSET RUpdates, removed \in SUBSET RUpdates :
              ups = rSave[s].ups /\ explicit = rSave[s].explicit /\ removed = rSave[s].removed
        BY <2>1
      <4>2. Persist(ups, explicit, removed)
        BY <3>1, <4>1
      <4>3. /\ BlobNeedsIndex' /\ ~Legacy' /\ rIndex'.ids \subseteq rRows'
            /\ rIndex'.ids = (rIndex.ids \cup ups \cup explicit) \ removed
            /\ Readable' = rIndex'.ids
        BY <3>2, <3>3, <4>2, PersistKeepsRows
      <4> QED
        BY <4>1, <4>3, Zenon
    <3> QED
      BY <3>4, Zenon
  <2>3. rAcked \ rGone \subseteq rIndex.ids \cup rSave[s].ups
    <3>1. CASE Legacy
      BY <1>2, <3>1 DEF SaveWrite, CopiesHaveLegacy
    <3>2. CASE ~Legacy
      BY <3>2 DEF Legacy, StoredSurvives, Readable
    <3> QED
      BY <3>1, <3>2
  <2>4. rAcked' = (rAcked \cup rSave[s].ups) \ rSave[s].removed /\ rGone' = rGone
    BY <1>2 DEF SaveWrite
  <2>5. rAcked' \ rGone' \subseteq Readable'
    BY <2>2, <2>3, <2>4
  <2> QED
    BY <2>2, <2>5 DEF CopiesHaveLegacy, StoredSurvives
<1>3. CASE CreateSession
  <2>1. /\ BlobNeedsIndex' /\ ~Legacy' /\ rIndex'.ids \subseteq rRows'
    BY <1>3, PersistKeepsRows DEF CreateSession, StoredSurvives
  <2>2. rAcked' \ rGone' = {}
    BY <1>3 DEF CreateSession, BlobNeedsIndex
  <2> QED
    BY <2>1, <2>2 DEF CopiesHaveLegacy, StoredSurvives
<1>4. CASE BatchSaveUpdates
  <2>1. PICK us \in SUBSET (RUpdates \ rGone) :
          /\ rRows' = rRows \cup us
          /\ IF rIndex.some /\ ~(us \subseteq rIndex.ids)
             THEN rIndex' = Present(rIndex.ids \cup us) ELSE UNCHANGED rIndex
          /\ rAcked' = IF rIndex.some /\ rBlob.ids = {} THEN rAcked \cup us ELSE rAcked
    BY <1>4 DEF BatchSaveUpdates
  <2>2. UNCHANGED <<rBlob, rMem, rSave, rLoad, rGone>>
    BY <1>4 DEF BatchSaveUpdates
  <2>3. /\ rIndex'.some = rIndex.some
        /\ rIndex.some => rIndex'.ids = rIndex.ids \cup us
        /\ ~rIndex.some => rIndex'.ids = rIndex.ids
    <3>1. CASE rIndex.some /\ ~(us \subseteq rIndex.ids)
      <4>1. rIndex' = [some |-> TRUE, ids |-> rIndex.ids \cup us]
        BY <2>1, <3>1 DEF Present
      <4>2. rIndex.some = TRUE
        BY <3>1 DEF RocksTypeOK, RStored
      <4> QED
        BY <4>1, <4>2
    <3>2. CASE ~(rIndex.some /\ ~(us \subseteq rIndex.ids))
      BY <2>1, <3>2
    <3> QED
      BY <3>1, <3>2
  <2>4. CASE rIndex.some /\ rBlob.ids = {}
    BY <2>1, <2>2, <2>3, <2>4
       DEF BlobNeedsIndex, CopiesHaveLegacy, Legacy, StoredSurvives, Readable
  <2>5. CASE ~(rIndex.some /\ rBlob.ids = {})
    <3>1. rAcked' = rAcked
      BY <2>1, <2>5
    <3> QED
      BY <2>1, <2>2, <2>3, <2>5, <3>1
         DEF BlobNeedsIndex, CopiesHaveLegacy, Legacy, StoredSurvives, Readable
  <2> QED
    BY <2>4, <2>5
<1>5. CASE Summarize
  BY <1>5 DEF Summarize, BlobNeedsIndex, CopiesHaveLegacy, Legacy, StoredSurvives, Readable
<1>6. CASE DeleteStored
  <2>1. /\ rBlob' = [some |-> FALSE, ids |-> {}] /\ rIndex' = [some |-> FALSE, ids |-> {}]
        /\ rRows' = {} /\ rAcked' = {}
    BY <1>6 DEF DeleteStored, Absent
  <2> QED
    BY <2>1 DEF BlobNeedsIndex, CopiesHaveLegacy, StoredSurvives
<1>7. ASSUME NEW l \in RLoaders, LoadRead(l)
      PROVE  BlobNeedsIndex' /\ CopiesHaveLegacy' /\ StoredSurvives'
  <2>1. UNCHANGED <<rBlob, rIndex, rRows, rMem, rSave, rAcked, rGone>>
    BY <1>7 DEF LoadRead
  <2>2. BlobNeedsIndex' /\ StoredSurvives'
    BY <2>1 DEF BlobNeedsIndex, StoredSurvives, Readable
  <2>3. /\ rLoad'[l].ups = Readable
        /\ \A o \in RLoaders : o # l => rLoad'[o] = rLoad[o]
    BY <1>7 DEF LoadRead, RocksTypeOK
  <2>4. CopiesHaveLegacy'
    BY <2>1, <2>3 DEF CopiesHaveLegacy, Legacy, StoredSurvives
  <2> QED
    BY <2>2, <2>4
<1>8. ASSUME NEW l \in RLoaders, LoadBackfill(l)
      PROVE  BlobNeedsIndex' /\ CopiesHaveLegacy' /\ StoredSurvives'
  <2>1. UNCHANGED <<rMem, rSave, rAcked, rGone>> /\ rLoad' = [rLoad EXCEPT ![l].pc = "read"]
    BY <1>8 DEF LoadBackfill
  <2>2. CASE rBlob = rLoad[l].blob
    <3>1. Legacy /\ rAcked \ rGone \subseteq rLoad[l].ups
      BY <1>8, <2>2 DEF LoadBackfill, MigratesEmbedded, Legacy, CopiesHaveLegacy
    <3>2. rLoad[l].ups \in SUBSET RUpdates /\ rIndex.ids \ rLoad[l].ups \in SUBSET RUpdates
      BY <1>8 DEF RocksTypeOK, RStored
    <3>3. /\ BlobNeedsIndex' /\ ~Legacy' /\ rIndex'.ids \subseteq rRows'
          /\ Readable' = (rIndex.ids \cup rLoad[l].ups \cup {}) \ (rIndex.ids \ rLoad[l].ups)
      <4>1. Persist(rLoad[l].ups, {}, rIndex.ids \ rLoad[l].ups)
        BY <1>8, <2>2 DEF LoadBackfill, Backfill
      <4>2. rIndex.ids \subseteq rRows
        BY DEF StoredSurvives
      <4>3. RocksTypeOK /\ {} \in SUBSET RUpdates
        OBVIOUS
      <4> HIDE DEF RocksInv
      <4>4. /\ BlobNeedsIndex' /\ ~Legacy' /\ rIndex'.ids \subseteq rRows'
            /\ rIndex'.ids = (rIndex.ids \cup rLoad[l].ups \cup {}) \ (rIndex.ids \ rLoad[l].ups)
            /\ Readable' = rIndex'.ids
        <5>1. PICK ups \in SUBSET RUpdates, removed \in SUBSET RUpdates :
                ups = rLoad[l].ups /\ removed = rIndex.ids \ rLoad[l].ups
          BY <3>2
        <5>2. Persist(ups, {}, removed)
          BY <4>1, <5>1
        <5>3. /\ BlobNeedsIndex' /\ ~Legacy' /\ rIndex'.ids \subseteq rRows'
              /\ rIndex'.ids = (rIndex.ids \cup ups \cup {}) \ removed
              /\ Readable' = rIndex'.ids
          BY <4>2, <4>3, <5>2, PersistKeepsRows, ZenonT(40)
        <5> QED
          BY <5>1, <5>3, Zenon
      <4> QED
        BY <4>4, Zenon
    <3> QED
      BY <2>1, <3>1, <3>3 DEF CopiesHaveLegacy, StoredSurvives
  <2>3. CASE rBlob # rLoad[l].blob
    <3>1. UNCHANGED <<rBlob, rIndex, rRows>>
      BY <1>8, <2>3 DEF LoadBackfill, Backfill
    <3>2. \A o \in RLoaders : rLoad'[o].ups = rLoad[o].ups /\ (rLoad'[o].pc # "idle" => rLoad[o].pc # "idle")
      BY <1>8, <2>1 DEF LoadBackfill, RocksTypeOK
    <3> QED
      BY <2>1, <3>1, <3>2 DEF BlobNeedsIndex, CopiesHaveLegacy, Legacy, StoredSurvives, Readable
  <2> QED
    BY <2>2, <2>3
<1>9. ASSUME NEW l \in RLoaders, LoadBackfillFailed(l)
      PROVE  BlobNeedsIndex' /\ CopiesHaveLegacy' /\ StoredSurvives'
  <2>1. UNCHANGED <<rBlob, rIndex, rRows, rMem, rSave, rAcked, rGone>>
    BY <1>9 DEF LoadBackfillFailed
  <2>2. \A o \in RLoaders : rLoad'[o].ups = rLoad[o].ups /\ (rLoad'[o].pc # "idle" => rLoad[o].pc # "idle")
    BY <1>9 DEF LoadBackfillFailed, RocksTypeOK
  <2> QED
    BY <2>1, <2>2 DEF BlobNeedsIndex, CopiesHaveLegacy, Legacy, StoredSurvives, Readable
<1>10. ASSUME NEW l \in RLoaders, LoadEndRocks(l)
       PROVE  BlobNeedsIndex' /\ CopiesHaveLegacy' /\ StoredSurvives'
  <2>1. UNCHANGED <<rBlob, rIndex, rRows, rSave, rAcked, rGone>>
    BY <1>10 DEF LoadEndRocks
  <2>2. Legacy /\ rMem'.here => rAcked \ rGone \subseteq rMem'.ups
    BY <1>10 DEF LoadEndRocks, CopiesHaveLegacy
  <2>3. \A o \in RLoaders : rLoad'[o].pc # "idle" => rLoad'[o] = rLoad[o]
    BY <1>10 DEF LoadEndRocks, RocksTypeOK, RNoLoad
  <2>4. BlobNeedsIndex' /\ StoredSurvives'
    BY <2>1 DEF BlobNeedsIndex, StoredSurvives, Readable
  <2>5. CopiesHaveLegacy'
    BY <2>1, <2>2, <2>3 DEF CopiesHaveLegacy, Legacy
  <2> QED
    BY <2>4, <2>5
<1> QED
  BY <1>1, <1>2, <1>3, <1>4, <1>5, <1>6, <1>7, <1>8, <1>9, <1>10 DEF RocksNext

\* Whatever was stored and not removed is what a load returns, and the index
\* lists no update without a row: saves of outdated snapshots and migrations of
\* an older format lose nothing, for any number of updates, savers and loaders.
THEOREM StoredUpdatesSurvive == RocksSpec => []StoredSurvives
<1>1. RocksInit => RocksInv
  BY RocksInitInv
<1>2. RocksInv /\ [RocksNext]_rocksVars => RocksInv'
  <2> SUFFICES ASSUME RocksInv, [RocksNext]_rocksVars PROVE RocksInv'
    OBVIOUS
  <2>1. CASE RocksNext
    BY <2>1, RocksTypeStep, RocksMigratesStep, RocksStoredStep DEF RocksInv
  <2>2. CASE UNCHANGED rocksVars
    BY <2>2 DEF rocksVars, RocksInv, RocksTypeOK, BlobNeedsIndex, CopiesHaveLegacy, Legacy,
                MigratesEmbedded, StoredSurvives, Readable
  <2> QED
    BY <2>1, <2>2
<1>3. RocksInv => StoredSurvives
  BY DEF RocksInv
<1> QED
  BY <1>1, <1>2, <1>3, PTL DEF RocksSpec

(***************************************************************************)
(* SessionCache.                                                           *)
(***************************************************************************)

\* The number of entries, and of the calls that have still to count one, as the
\* counter should have it.
Balance == Cardinality(scData) + Cardinality(Owing) - Cardinality(Adding)

\* No clear disturbs the count.
Undisturbed == ~scTorn /\ \A t \in ScThreads : ~At(t, "clear")

LEMMA CacheFinite ==
    ASSUME CacheInv
    PROVE  /\ IsFiniteSet(scData) /\ IsFiniteSet(Owing) /\ IsFiniteSet(Adding)
           /\ Cardinality(scData) \in Nat /\ Cardinality(Owing) \in Nat
           /\ Cardinality(Adding) \in Nat /\ Balance \in Int
<1>1. scData \subseteq ScKeys /\ Owing \subseteq ScThreads /\ Adding \subseteq ScThreads
  BY DEF CacheInv, Owing, Adding
<1>2. IsFiniteSet(scData) /\ IsFiniteSet(Owing) /\ IsFiniteSet(Adding)
  BY <1>1, SessionCacheAssumption, FS_Subset
<1>3. Cardinality(scData) \in Nat /\ Cardinality(Owing) \in Nat /\ Cardinality(Adding) \in Nat
  BY <1>2, FS_CardinalityType
<1> QED
  BY <1>2, <1>3 DEF Balance

LEMMA ScWordPositive == ScWord \in Nat /\ ScWord > 0 /\ Cardinality(ScKeys) < ScWord
<1>1. Cardinality(ScKeys) \in Nat /\ Cardinality(ScThreads) \in Nat
  BY SessionCacheAssumption, FS_CardinalityType
<1> QED
  BY <1>1, SessionCacheAssumption

\* When one thread moves on, it alone joins or leaves the calls that have still
\* to count.
LEMMA ThreadMoves ==
    ASSUME CacheInv, NEW t \in ScThreads, NEW state, Moves(t, state)
    PROVE  /\ Owing' = IF state.pc \in {"sub", "removed"} THEN Owing \cup {t} ELSE Owing \ {t}
           /\ Adding' = IF state.pc = "add" THEN Adding \cup {t} ELSE Adding \ {t}
           /\ \A o \in ScThreads : At(o, "clear")' <=> IF o = t THEN state.pc = "clear" ELSE At(o, "clear")
<1>1. \A o \in ScThreads : scThread'[o] = IF o = t THEN state ELSE scThread[o]
  BY DEF Moves, CacheInv
<1> QED
  BY <1>1 DEF Owing, Adding, At

\* A step that neither takes nor adds nor counts an entry keeps the balance.
LEMMA QuietMove ==
    ASSUME CacheInv, NEW t \in ScThreads, NEW state, Moves(t, state),
           scThread[t].pc \notin {"sub", "removed", "add", "clear"},
           state.pc \notin {"sub", "removed", "add"},
           UNCHANGED <<scData, scSize, scTorn>>, Undisturbed'
    PROVE  scSize' = Balance' % ScWord
<1>1. Owing' = Owing /\ Adding' = Adding
  BY ThreadMoves DEF Owing, Adding, At
<1>2. Undisturbed
  BY ThreadMoves DEF Undisturbed, At
<1> QED
  BY <1>1, <1>2 DEF CacheInv, Balance, Undisturbed

\* An entry leaves the map, and its thread owes the count.
LEMMA TakesEntry ==
    ASSUME CacheInv, NEW t \in ScThreads, NEW state, Moves(t, state), NEW k \in scData,
           scThread[t].pc \notin {"sub", "removed", "add", "clear"},
           state.pc \in {"sub", "removed"},
           scData' = scData \ {k}, UNCHANGED <<scSize, scTorn>>, Undisturbed'
    PROVE  scSize' = Balance' % ScWord
<1>1. Owing' = Owing \cup {t} /\ t \notin Owing /\ Adding' = Adding
  BY ThreadMoves DEF Owing, Adding, At
<1>2. Cardinality(Owing') = Cardinality(Owing) + 1
  BY <1>1, CacheFinite, FS_AddElement
<1>3. Cardinality(scData') = Cardinality(scData) - 1
  BY CacheFinite, FS_RemoveElement
<1>4. Undisturbed
  BY ThreadMoves DEF Undisturbed, At
<1>5. Balance' = Balance
  BY <1>1, <1>2, <1>3, CacheFinite DEF Balance
<1> QED
  BY <1>4, <1>5 DEF CacheInv, Balance, Undisturbed

\* An entry joins the map, and its thread is to count it.
LEMMA AddsEntry ==
    ASSUME CacheInv, NEW t \in ScThreads, NEW state, Moves(t, state), NEW k, k \notin scData,
           scThread[t].pc \notin {"sub", "removed", "add", "clear"}, state.pc = "add",
           scData' = scData \cup {k}, UNCHANGED <<scSize, scTorn>>, Undisturbed'
    PROVE  scSize' = Balance' % ScWord
<1>1. Adding' = Adding \cup {t} /\ t \notin Adding /\ Owing' = Owing
  BY ThreadMoves DEF Owing, Adding, At
<1>2. Cardinality(Adding') = Cardinality(Adding) + 1
  BY <1>1, CacheFinite, FS_AddElement
<1>3. Cardinality(scData') = Cardinality(scData) + 1
  BY CacheFinite, FS_AddElement
<1>4. Undisturbed
  BY ThreadMoves DEF Undisturbed, At
<1>5. Balance' = Balance
  BY <1>1, <1>2, <1>3, CacheFinite DEF Balance
<1> QED
  BY <1>4, <1>5 DEF CacheInv, Balance, Undisturbed

\* A thread that owes a count takes one off the counter, which wraps.
LEMMA CountsTaken ==
    ASSUME CacheInv, NEW t \in ScThreads, NEW state, Moves(t, state),
           scThread[t].pc \in {"sub", "removed"}, state.pc \in {"evicted", "rest"},
           scSize' = (scSize + ScWord - 1) % ScWord, UNCHANGED <<scData, scTorn>>, Undisturbed'
    PROVE  scSize' = Balance' % ScWord
<1>1. Owing' = Owing \ {t} /\ t \in Owing /\ Adding' = Adding
  BY ThreadMoves DEF Owing, Adding, At
<1>2. Cardinality(Owing') = Cardinality(Owing) - 1
  BY <1>1, CacheFinite, FS_RemoveElement
<1>3. Undisturbed
  BY ThreadMoves DEF Undisturbed, At
<1>4. Balance' = Balance - 1 /\ Balance' \in Int
  BY <1>1, <1>2, CacheFinite DEF Balance
<1>5. scSize = Balance % ScWord
  BY <1>3 DEF CacheInv, Balance, Undisturbed
<1>6. scSize' = Balance' % ScWord
  <2>1. PICK b \in Int : b = Balance
    BY CacheFinite
  <2>2. PICK m \in Int : m = ScWord - 1
    BY ScWordPositive
  <2>3. scSize' = ((b % ScWord) + m) % ScWord
    <3>1. scSize + ScWord - 1 = scSize + m
      BY <2>2, ScWordPositive DEF CacheInv
    <3> QED
      BY <2>1, <3>1, <1>5
  <2>4. ((b % ScWord) + m) % ScWord = (b + m) % ScWord
    BY ScWordPositive, ModAbsorb
  <2>5. PICK c \in Int : c = b - 1
    OBVIOUS
  <2>6. b + m = c + ScWord
    BY <2>2, <2>5, ScWordPositive
  <2>7. (c + ScWord) % ScWord = c % ScWord
    BY ScWordPositive, ModShift
  <2>8. Balance' = c
    BY <1>4, <2>1, <2>5
  <2> QED
    BY <2>3, <2>4, <2>6, <2>7, <2>8, Zenon
<1> QED
  BY <1>6

\* A thread that added an entry counts it.
LEMMA CountsAdded ==
    ASSUME CacheInv, NEW t \in ScThreads, Moves(t, AtRest), At(t, "add"),
           scSize' = (scSize + 1) % ScWord, UNCHANGED <<scData, scTorn>>, Undisturbed'
    PROVE  scSize' = Balance' % ScWord
<1>0. AtRest.pc = "rest"
  BY DEF AtRest
<1>1. Adding' = Adding \ {t} /\ t \in Adding /\ Owing' = Owing
  BY <1>0, ThreadMoves DEF Owing, Adding, At
<1>2. Cardinality(Adding') = Cardinality(Adding) - 1
  BY <1>1, CacheFinite, FS_RemoveElement
<1>3. Undisturbed
  BY <1>0, ThreadMoves DEF Undisturbed, At
<1>4. Balance' = Balance + 1 /\ Balance' \in Int
  BY <1>1, <1>2, CacheFinite DEF Balance
<1>5. scSize = Balance % ScWord
  BY <1>3 DEF CacheInv, Balance, Undisturbed
<1>6. PICK b \in Int : b = Balance
  BY CacheFinite
<1>7. ((b % ScWord) + 1) % ScWord = (b + 1) % ScWord
  <2>1. 1 \in Int
    OBVIOUS
  <2> QED
    BY <2>1, ScWordPositive, ModAbsorb, Zenon
<1> QED
  BY <1>4, <1>5, <1>6, <1>7, Zenon

\* Every step keeps the types of the map, of the counter and of the threads.
LEMMA CacheTypeStep ==
    ASSUME CacheInv, SessionCacheNext
    PROVE  /\ scThread' \in [ScThreads -> ScStates]
           /\ scData' \subseteq ScKeys /\ scSize' \in 0 .. ScWord - 1
           /\ scCapacity' \in ScCapacities /\ scTorn' \in BOOLEAN
<1>1. scData' \subseteq ScKeys
  <2>1. ASSUME NEW t \in ScThreads, InsertEntry(t) PROVE scData' \subseteq ScKeys
    <3>1. scThread[t] \in ScStates /\ scThread[t].pc = "insert"
      BY <2>1 DEF InsertEntry, At, CacheInv
    <3>2. scThread[t].key \in ScKeys
      BY <3>1 DEF ScStates
    <3> QED
      BY <2>1, <3>2 DEF InsertEntry, CacheInv
  <2>2. CASE scData' \subseteq scData
    BY <2>2 DEF CacheInv
  <2> QED
    BY <2>1, <2>2 DEF SessionCacheNext, PutCall, Calls, RemoveCall, PickVictim, RemoveVictim,
       CountVictim, Evicted, CountInsert, CountRemove, ClearCall, ClearSize, ResizeCall
<1>2. scSize' \in 0 .. ScWord - 1
  <2>1. scSize \in 0 .. ScWord - 1 /\ 0 \in 0 .. ScWord - 1
    BY ScWordPositive DEF CacheInv
  <2>2. (scSize + ScWord - 1) % ScWord \in 0 .. ScWord - 1 /\ (scSize + 1) % ScWord \in 0 .. ScWord - 1
    BY <2>1, ScWordPositive
  <2>3. \/ scSize' = scSize \/ scSize' = 0
        \/ scSize' = (scSize + ScWord - 1) % ScWord \/ scSize' = (scSize + 1) % ScWord
    BY DEF SessionCacheNext, PutCall, Calls, RemoveCall, PickVictim, RemoveVictim, InsertEntry,
       CountVictim, Evicted, CountInsert, CountRemove, ClearCall, ClearSize, ResizeCall
  <2> QED
    BY <2>1, <2>2, <2>3, Zenon
<1>3. scCapacity' \in ScCapacities
  BY DEF CacheInv, SessionCacheNext, PutCall, Calls, RemoveCall, PickVictim, RemoveVictim,
     InsertEntry, CountVictim, Evicted, CountInsert, CountRemove, ClearCall, ClearSize, ResizeCall
<1>4. scTorn' \in BOOLEAN
  <2>1. ASSUME NEW t \in ScThreads, ClearCall(t) \/ ClearSize(t) PROVE scTorn' \in BOOLEAN
    BY <2>1 DEF ClearCall, ClearSize
  <2>2. CASE scTorn' = scTorn
    BY <2>2 DEF CacheInv
  <2> QED
    BY <2>1, <2>2 DEF SessionCacheNext, PutCall, Calls, RemoveCall, PickVictim, RemoveVictim,
       InsertEntry, CountVictim, Evicted, CountInsert, CountRemove, ResizeCall
<1>5. scThread' \in [ScThreads -> ScStates]
  <2>1. PICK t \in ScThreads :
          \/ \E k \in ScKeys : PutCall(t, k) \/ RemoveCall(t, k)
          \/ PickVictim(t) \/ RemoveVictim(t) \/ CountVictim(t) \/ Evicted(t)
          \/ InsertEntry(t) \/ CountInsert(t) \/ CountRemove(t)
          \/ ClearCall(t) \/ ClearSize(t)
          \/ \E n \in ScCapacities : ResizeCall(t, n)
    BY DEF SessionCacheNext
  <2>2. SUFFICES \E state \in ScStates : Moves(t, state)
    BY <2>1 DEF Moves, CacheInv
  <2>3. scThread[t] \in ScStates
    BY <2>1 DEF CacheInv
  <2>4. \A pc \in {"rest", "add", "removed", "clear"} : [pc |-> pc] \in ScStates
    BY DEF ScStates
  <2>5. ASSUME NEW k \in ScKeys, PutCall(t, k) PROVE \E state \in ScStates : Moves(t, state)
    <3>1. \A pc \in {"evict", "insert"} : [pc |-> pc, key |-> k, need |-> 1] \in ScStates
      BY DEF ScStates
    <3> QED
      BY <2>5, <3>1 DEF PutCall, Calls
  <2>6. ASSUME NEW k \in ScKeys, RemoveCall(t, k) PROVE \E state \in ScStates : Moves(t, state)
    BY <2>4, <2>6 DEF RemoveCall
  <2>7. ASSUME scThread[t].pc \in {"evict", "sub", "evicted", "remove"}
        PROVE  /\ scThread[t].key \in ScKeys \cup {NoKey} /\ scThread[t].need \in Nat
               /\ scThread[t].pc # "remove" =>
                    scThread[t] \in [pc : {"evict", "evicted", "sub"}, key : ScKeys \cup {NoKey}, need : Nat]
    BY <2>3, <2>7 DEF ScStates
  <2>8. CASE PickVictim(t)
    <3>1. scThread[t].pc = "evict"
      BY <2>8 DEF PickVictim, At
    <3>2. [scThread[t] EXCEPT !.pc = "evicted"] \in ScStates
      BY <2>7, <3>1 DEF ScStates
    <3>3. \A v \in ScKeys : [victim |-> v, pc |-> "remove", key |-> scThread[t].key,
                             need |-> scThread[t].need] \in ScStates
      BY <2>7, <3>1 DEF ScStates
    <3>4. scData \subseteq ScKeys
      BY DEF CacheInv
    <3> QED
      BY <2>8, <3>2, <3>3, <3>4 DEF PickVictim
  <2>9. CASE RemoveVictim(t)
    <3>1. scThread[t].pc = "remove"
      BY <2>9 DEF RemoveVictim, At
    <3>2. \A pc \in {"sub", "evicted"} :
             [pc |-> pc, key |-> scThread[t].key, need |-> scThread[t].need] \in ScStates
      BY <2>7, <3>1 DEF ScStates
    <3> QED
      BY <2>9, <3>2 DEF RemoveVictim
  <2>10. CASE CountVictim(t)
    <3>1. scThread[t].pc = "sub"
      BY <2>10 DEF CountVictim, At
    <3>2. [scThread[t] EXCEPT !.pc = "evicted"] \in ScStates
      BY <2>7, <3>1 DEF ScStates
    <3> QED
      BY <2>10, <3>2 DEF CountVictim
  <2>11. CASE Evicted(t)
    <3>1. scThread[t].pc = "evicted"
      BY <2>11 DEF Evicted, At
    <3>2. scThread[t] \in [pc : {"evict", "evicted", "sub"}, key : ScKeys \cup {NoKey}, need : Nat]
      BY <2>7, <3>1
    <3>3. CASE scThread[t].key # NoKey
      <4>1. [scThread[t] EXCEPT !.pc = "insert"] \in ScStates
        BY <3>2, <3>3 DEF ScStates
      <4> QED
        BY <2>11, <3>3, <4>1 DEF Evicted
    <3>4. CASE scThread[t].key = NoKey /\ scThread[t].need > 1
      <4>1. [scThread[t] EXCEPT !.pc = "evict", !.need = @ - 1] \in ScStates
        <5>1. scThread[t].need - 1 \in Nat
          BY <3>2, <3>4
        <5>2. [scThread[t] EXCEPT !.pc = "evict", !.need = @ - 1]
                \in [pc : {"evict", "evicted", "sub"}, key : ScKeys \cup {NoKey}, need : Nat]
          BY <3>2, <5>1
        <5> QED
          BY <5>2 DEF ScStates
      <4> QED
        BY <2>11, <3>4, <4>1 DEF Evicted
    <3>5. CASE scThread[t].key = NoKey /\ ~(scThread[t].need > 1)
      BY <2>4, <2>11, <3>5 DEF Evicted, AtRest
    <3> QED
      BY <3>3, <3>4, <3>5
  <2>12. CASE InsertEntry(t) \/ CountInsert(t) \/ CountRemove(t) \/ ClearCall(t) \/ ClearSize(t)
    BY <2>4, <2>12 DEF InsertEntry, CountInsert, CountRemove, ClearCall, ClearSize, AtRest
  <2>13. ASSUME NEW n \in ScCapacities, ResizeCall(t, n) PROVE \E state \in ScStates : Moves(t, state)
    <3>1. scSize \in Nat /\ n \in Nat
      BY ScWordPositive, SessionCacheAssumption DEF CacheInv
    <3>2. n < scSize => [pc |-> "evict", key |-> NoKey, need |-> scSize - n] \in ScStates
      BY <3>1 DEF ScStates
    <3> QED
      BY <2>4, <2>13, <3>2 DEF ResizeCall, AtRest
  <2> QED
    BY <2>1, <2>5, <2>6, <2>8, <2>9, <2>10, <2>11, <2>12, <2>13
<1> QED
  BY <1>1, <1>2, <1>3, <1>4, <1>5

\* Every step keeps the counter and the balance together.
LEMMA CacheCountStep ==
    ASSUME CacheInv, SessionCacheNext, Undisturbed'
    PROVE  scSize' = Balance' % ScWord
<1>1. PICK t \in ScThreads :
          \/ \E k \in ScKeys : PutCall(t, k) \/ RemoveCall(t, k)
          \/ PickVictim(t) \/ RemoveVictim(t) \/ CountVictim(t) \/ Evicted(t)
          \/ InsertEntry(t) \/ CountInsert(t) \/ CountRemove(t)
          \/ ClearCall(t) \/ ClearSize(t)
          \/ \E n \in ScCapacities : ResizeCall(t, n)
  BY DEF SessionCacheNext
<1>2. scThread[t] \in ScStates
  BY <1>1 DEF CacheInv
<1>3. ASSUME NEW k \in ScKeys, PutCall(t, k) PROVE scSize' = Balance' % ScWord
  <2>1. PICK state : Moves(t, state) /\ state.pc \in {"evict", "insert"}
    BY <1>3 DEF PutCall, Calls
  <2> QED
    BY <1>3, <2>1, QuietMove DEF PutCall, Calls, At
<1>4. ASSUME NEW k \in ScKeys, RemoveCall(t, k) PROVE scSize' = Balance' % ScWord
  <2>1. PICK state : Moves(t, state) /\ state.pc = "removed"
    BY <1>4 DEF RemoveCall
  <2> QED
    BY <1>4, <2>1, TakesEntry DEF RemoveCall, At
<1>5. CASE PickVictim(t)
  <2>1. PICK state : Moves(t, state) /\ state.pc \in {"evicted", "remove"}
    <3>1. [scThread[t] EXCEPT !.pc = "evicted"].pc = "evicted"
      BY <1>2 DEF ScStates
    <3>2. \A v : [victim |-> v, pc |-> "remove", key |-> scThread[t].key,
                  need |-> scThread[t].need].pc = "remove"
      OBVIOUS
    <3> QED
      BY <1>5, <3>1, <3>2 DEF PickVictim
  <2> QED
    BY <1>5, <2>1, QuietMove DEF PickVictim, At
<1>6. CASE RemoveVictim(t)
  <2>1. CASE scThread[t].victim \in scData
    <3>1. PICK state : Moves(t, state) /\ state.pc = "sub"
      BY <1>6, <2>1 DEF RemoveVictim
    <3> QED
      BY <1>6, <2>1, <3>1, TakesEntry DEF RemoveVictim, At
  <2>2. CASE scThread[t].victim \notin scData
    <3>1. PICK state : Moves(t, state) /\ state.pc = "evicted"
      BY <1>6, <2>2 DEF RemoveVictim
    <3>2. scData' = scData
      BY <1>6, <2>2 DEF RemoveVictim
    <3> QED
      BY <1>6, <3>1, <3>2, QuietMove DEF RemoveVictim, At
  <2> QED
    BY <2>1, <2>2
<1>7. CASE CountVictim(t)
  <2>1. PICK state : Moves(t, state) /\ state.pc = "evicted"
    <3>1. [scThread[t] EXCEPT !.pc = "evicted"].pc = "evicted"
      BY <1>2 DEF ScStates
    <3> QED
      BY <1>7, <3>1 DEF CountVictim
  <2> QED
    BY <1>7, <2>1, CountsTaken DEF CountVictim, At
<1>8. CASE Evicted(t)
  <2>1. PICK state : Moves(t, state) /\ state.pc \in {"insert", "evict", "rest"}
    <3>1. /\ [scThread[t] EXCEPT !.pc = "insert"].pc = "insert"
          /\ [scThread[t] EXCEPT !.pc = "evict", !.need = @ - 1].pc = "evict"
          /\ AtRest.pc = "rest"
      BY <1>2 DEF ScStates, AtRest
    <3> QED
      BY <1>8, <3>1 DEF Evicted
  <2> QED
    BY <1>8, <2>1, QuietMove DEF Evicted, At
<1>9. CASE InsertEntry(t)
  <2>1. CASE scThread[t].key \in scData
    <3>1. PICK state : Moves(t, state) /\ state.pc = "rest"
      BY <1>9, <2>1 DEF InsertEntry, AtRest
    <3>2. scData' = scData
      BY <1>9, <2>1 DEF InsertEntry
    <3> QED
      BY <1>9, <3>1, <3>2, QuietMove DEF InsertEntry, At
  <2>2. CASE scThread[t].key \notin scData
    <3>1. PICK state : Moves(t, state) /\ state.pc = "add"
      BY <1>9, <2>2 DEF InsertEntry
    <3> QED
      BY <1>9, <2>2, <3>1, AddsEntry DEF InsertEntry, At
  <2> QED
    BY <2>1, <2>2
<1>10. CASE CountInsert(t)
  BY <1>10, CountsAdded DEF CountInsert
<1>11. CASE CountRemove(t)
  <2>1. PICK state : Moves(t, state) /\ state.pc = "rest"
    BY <1>11 DEF CountRemove, AtRest
  <2> QED
    BY <1>11, <2>1, CountsTaken DEF CountRemove, At
<1>12. CASE ClearCall(t)
  <2>1. PICK state : Moves(t, state) /\ state.pc = "clear"
    BY <1>12 DEF ClearCall
  <2> QED
    BY <2>1, ThreadMoves DEF Undisturbed
<1>13. CASE ClearSize(t)
  <2>1. scData' = {} /\ scSize' = 0 /\ \A o \in ScThreads \ {t} : At(o, "rest")
    BY <1>13 DEF ClearSize, Undisturbed
  <2>2. PICK state : Moves(t, state) /\ state.pc = "rest"
    BY <1>13 DEF ClearSize, AtRest
  <2>3. Owing' = {} /\ Adding' = {}
    BY <2>1, <2>2, ThreadMoves DEF Owing, Adding, At
  <2>4. Balance' = 0
    BY <2>1, <2>3, FS_EmptySet DEF Balance
  <2>5. 0 % ScWord = 0
    <3>1. 0 \in 0 .. ScWord - 1
      BY ScWordPositive
    <3> QED
      BY <3>1, ScWordPositive, ModSmall
  <2> QED
    BY <2>1, <2>4, <2>5
<1>14. ASSUME NEW n \in ScCapacities, ResizeCall(t, n) PROVE scSize' = Balance' % ScWord
  <2>1. PICK state : Moves(t, state) /\ state.pc \in {"evict", "rest"}
    BY <1>14 DEF ResizeCall, AtRest
  <2> QED
    BY <1>14, <2>1, QuietMove DEF ResizeCall, At
<1> QED
  BY <1>1, <1>3, <1>4, <1>5, <1>6, <1>7, <1>8, <1>9, <1>10, <1>11, <1>12, <1>13, <1>14

\* Once every put, eviction, removal and resize is done, the counter that decides
\* over eviction is the number of entries, for any number of threads and keys
\* below the machine word.
THEOREM SizeIsCounted == SessionCacheSpec => []SizeCounted
<1>1. SessionCacheInit => CacheInv
  <2> SUFFICES ASSUME SessionCacheInit PROVE CacheInv
    OBVIOUS
  <2>1. scThread \in [ScThreads -> ScStates]
    BY DEF SessionCacheInit, ScStates, AtRest
  <2>2. Owing = {} /\ Adding = {}
    BY DEF SessionCacheInit, Owing, Adding, At, AtRest
  <2>3. Cardinality(scData) + Cardinality(Owing) - Cardinality(Adding) = 0
    BY <2>2, FS_EmptySet DEF SessionCacheInit
  <2>4. 0 \in 0 .. ScWord - 1
    BY ScWordPositive
  <2>5. 0 % ScWord = 0
    BY <2>4, ScWordPositive, ModSmall
  <2> QED
    BY <2>1, <2>3, <2>4, <2>5, SessionCacheAssumption DEF CacheInv, SessionCacheInit
<1>2. CacheInv /\ [SessionCacheNext]_cacheVars => CacheInv'
  <2> SUFFICES ASSUME CacheInv, [SessionCacheNext]_cacheVars PROVE CacheInv'
    OBVIOUS
  <2>1. CASE SessionCacheNext
    BY <2>1, CacheTypeStep, CacheCountStep DEF CacheInv, Balance, Undisturbed
  <2>2. CASE UNCHANGED cacheVars
    BY <2>2 DEF cacheVars, CacheInv, Owing, Adding, At
  <2> QED
    BY <2>1, <2>2
<1>3. CacheInv => SizeCounted
  <2> SUFFICES ASSUME CacheInv, ~scTorn, \A t \in ScThreads : At(t, "rest")
               PROVE  scSize = Cardinality(scData)
    BY DEF SizeCounted
  <2>1. Owing = {} /\ Adding = {} /\ \A t \in ScThreads : ~At(t, "clear")
    BY DEF Owing, Adding, At
  <2>2. scSize = (Cardinality(scData) + Cardinality(Owing) - Cardinality(Adding)) % ScWord
    BY <2>1 DEF CacheInv
  <2>3. Cardinality(scData) + Cardinality(Owing) - Cardinality(Adding) = Cardinality(scData)
    BY <2>1, CacheFinite, FS_EmptySet
  <2>4. Cardinality(scData) \in 0 .. ScWord - 1
    <3>1. Cardinality(scData) <= Cardinality(ScKeys)
      BY SessionCacheAssumption, FS_Subset DEF CacheInv
    <3>2. Cardinality(ScKeys) \in Nat
      BY SessionCacheAssumption, FS_CardinalityType
    <3> QED
      BY <3>1, <3>2, CacheFinite, ScWordPositive
  <2>5. Cardinality(scData) % ScWord = Cardinality(scData)
    BY <2>4, ScWordPositive, ModSmall
  <2> QED
    BY <2>2, <2>3, <2>5
<1> QED
  BY <1>1, <1>2, <1>3, PTL DEF SessionCacheSpec

(***************************************************************************)
(* Workspaces.                                                             *)
(***************************************************************************)

\* What a handler is and has still to do, from its next step.
LEMMA NextStep ==
    ASSUME NEW r \in UnderWay
    PROVE  /\ Head(r.plan) = "insert" =>
                /\ r.op = "create"
                /\ \/ r.via # "rest" /\ r.plan = <<"insert", "count", "save">>
                   \/ r.via = "rest" /\ r.plan = <<"insert", "count">>
           /\ Head(r.plan) = "count" =>
                /\ r.op = "create"
                /\ \/ r.via # "rest" /\ r.plan = <<"count", "save">>
                   \/ r.via = "rest" /\ r.plan = <<"count">>
           /\ Head(r.plan) = "drop" =>
                /\ r.op = "delete" /\ r.plan \in {<<"drop", "erase">>, <<"drop">>}
                /\ r.via = "mcp" <=> r.plan = <<"drop", "erase">>
           /\ Head(r.plan) = "join" =>
                /\ r.op = "add"
                /\ \/ r.via = "mcp" /\ r.plan = <<"join", "snapshot", "save">>
                   \/ r.via = "grpc" /\ r.plan = <<"join", "snapshotLive", "save">>
                   \/ r.via = "rest" /\ r.plan = <<"join">>
           /\ Head(r.plan) = "leave" =>
                /\ r.op = "remove"
                /\ \/ r.via = "mcp" /\ r.plan = <<"leave", "snapshot", "save">>
                   \/ r.via = "grpc" /\ r.plan = <<"leave", "snapshotLive", "save">>
           /\ Head(r.plan) = "snapshot" =>
                r.op \in {"add", "remove"} /\ r.via = "mcp" /\ r.plan = <<"snapshot", "save">>
           /\ Head(r.plan) = "snapshotLive" =>
                r.op \in {"add", "remove"} /\ r.via = "grpc" /\ r.plan = <<"snapshotLive", "save">>
           /\ Head(r.plan) = "save" =>
                \/ r.op = "create" /\ r.via = "rest" /\ r.plan = <<"save", "insert", "count">>
                \/ r.op \in {"create", "add", "remove"} /\ r.via # "rest" /\ r.plan = <<"save">>
           /\ Head(r.plan) = "link" =>
                r.op = "add" /\ r.via = "rest" /\ r.plan = <<"link", "join">>
           /\ Head(r.plan) = "erase" =>
                /\ r.op = "delete"
                /\ \/ r.via = "mcp" /\ r.plan = <<"erase">>
                   \/ r.via = "rest" /\ r.plan = <<"erase", "drop">>
           /\ Head(r.plan) = "scan" =>
                /\ r.op = "delete"
                /\ \/ r.via = "mcp" /\ r.plan = <<"scan">>
                   \/ r.via = "rest" /\ r.plan = <<"scan", "drop">>
           /\ Head(r.plan) = "unlink" =>
                /\ r.op = "delete"
                /\ \/ r.via = "mcp" /\ r.plan = <<"unlink">>
                   \/ r.via = "rest" /\ r.plan = <<"unlink", "drop">>
<1>1. r.plan \in Stages(r.op, r.via) /\ r.op \in {"create", "delete", "add", "remove"}
      /\ r.via \in {"mcp", "grpc", "rest"}
  BY DEF UnderWay, WsOps, WsVias
<1>2. CASE r.op = "create"
  BY <1>1, <1>2 DEF Stages
<1>3. CASE r.op = "delete"
  BY <1>1, <1>3 DEF Stages
<1>4. CASE r.op = "add"
  BY <1>1, <1>4 DEF Stages
<1>5. CASE r.op = "remove"
  BY <1>1, <1>5 DEF Stages
<1> QED
  BY <1>1, <1>2, <1>3, <1>4, <1>5

\* A handler under way is not the absence of one.
LEMMA UnderWayIsSome ==
    ASSUME NEW r \in UnderWay PROVE r # NoRequest /\ r.plan # <<>>
<1>1. r.plan \in Stages(r.op, r.via)
  BY DEF UnderWay
<1>2. r.plan # <<>>
  BY <1>1 DEF Stages
<1> QED
  BY <1>2 DEF NoRequest

\* What is left of each plan after its first step.
LEMMA Tails ==
    /\ Tail(<<"insert", "count", "save">>) = <<"count", "save">>
    /\ Tail(<<"count", "save">>) = <<"save">>
    /\ Tail(<<"save", "insert", "count">>) = <<"insert", "count">>
    /\ Tail(<<"insert", "count">>) = <<"count">>
    /\ Tail(<<"drop", "erase">>) = <<"erase">>
    /\ Tail(<<"erase", "drop">>) = <<"drop">>
    /\ Tail(<<"scan", "drop">>) = <<"drop">>
    /\ Tail(<<"unlink", "drop">>) = <<"drop">>
    /\ Tail(<<"join", "snapshot", "save">>) = <<"snapshot", "save">>
    /\ Tail(<<"snapshot", "save">>) = <<"save">>
    /\ Tail(<<"join", "snapshotLive", "save">>) = <<"snapshotLive", "save">>
    /\ Tail(<<"snapshotLive", "save">>) = <<"save">>
    /\ Tail(<<"link", "join">>) = <<"join">>
    /\ Tail(<<"leave", "snapshot", "save">>) = <<"snapshot", "save">>
    /\ Tail(<<"leave", "snapshotLive", "save">>) = <<"snapshotLive", "save">>
  OBVIOUS

\* The plans of one step.
LEMMA LastSteps ==
    /\ Len(<<"save">>) = 1
    /\ Len(<<"count">>) = 1
    /\ Len(<<"erase">>) = 1
    /\ Len(<<"scan">>) = 1
    /\ Len(<<"unlink">>) = 1
    /\ Len(<<"drop">>) = 1
    /\ Len(<<"join">>) = 1
  OBVIOUS

\* The plans of several.
LEMMA NotLastSteps ==
    /\ Len(<<"insert", "count", "save">>) # 1
    /\ Len(<<"count", "save">>) # 1
    /\ Len(<<"save", "insert", "count">>) # 1
    /\ Len(<<"insert", "count">>) # 1
    /\ Len(<<"drop", "erase">>) # 1
    /\ Len(<<"erase", "drop">>) # 1
    /\ Len(<<"scan", "drop">>) # 1
    /\ Len(<<"unlink", "drop">>) # 1
    /\ Len(<<"join", "snapshot", "save">>) # 1
    /\ Len(<<"snapshot", "save">>) # 1
    /\ Len(<<"join", "snapshotLive", "save">>) # 1
    /\ Len(<<"snapshotLive", "save">>) # 1
    /\ Len(<<"link", "join">>) # 1
    /\ Len(<<"leave", "snapshot", "save">>) # 1
    /\ Len(<<"leave", "snapshotLive", "save">>) # 1
  OBVIOUS

\* A handler with a step left after this one is still a handler.
LEMMA TailStage ==
    ASSUME NEW r \in UnderWay, Len(r.plan) # 1
    PROVE  [r EXCEPT !.plan = Tail(@)] \in UnderWay
<1>1. r.plan \in Stages(r.op, r.via) /\ r.op \in {"create", "delete", "add", "remove"}
      /\ r.via \in {"mcp", "grpc", "rest"}
  BY DEF UnderWay, WsOps, WsVias
<1>2. Tail(r.plan) \in Stages(r.op, r.via)
  <2>1. CASE r.op = "create"
    BY <1>1, <2>1, Tails, LastSteps DEF Stages
  <2>2. CASE r.op = "delete"
    BY <1>1, <2>2, Tails, LastSteps DEF Stages
  <2>3. CASE r.op = "add"
    BY <1>1, <2>3, Tails, LastSteps DEF Stages
  <2>4. CASE r.op = "remove"
    BY <1>1, <2>4, Tails, LastSteps DEF Stages
  <2> QED
    BY <1>1, <2>1, <2>2, <2>3, <2>4
<1>3. Tail(r.plan) \in WsPlans
  BY <1>1, <1>2 DEF WsPlans, WsOps, WsVias
<1> QED
  BY <1>2, <1>3 DEF UnderWay

\* What an answer or the move to the next step does to the request.
LEMMA AnsweredEffect ==
    ASSUME WsTypeOK, NEW c \in WsClients, NEW req \in UnderWay, Answered(c, req)
    PROVE  /\ wsReq' = [wsReq EXCEPT ![c] =
                         IF Len(req.plan) = 1 THEN NoRequest ELSE [req EXCEPT !.plan = Tail(@)]]
           /\ wsReq' \in [WsClients -> {NoRequest} \cup UnderWay]
           /\ \A p \in wsPromised' \ wsPromised :
                /\ Len(req.plan) = 1
                /\ \/ wsReq[c].op = "create" /\ wsReq[c].via # "grpc" /\ p = <<wsReq[c].ws>>
                   \/ wsReq[c].op = "add" /\ wsReq[c].via = "rest" /\ p = <<wsReq[c].ws, wsReq[c].sess>>
<1>1. wsReq' = [wsReq EXCEPT ![c] =
                  IF Len(req.plan) = 1 THEN NoRequest ELSE [req EXCEPT !.plan = Tail(@)]]
  BY DEF Answered
<1>2. wsReq' \in [WsClients -> {NoRequest} \cup UnderWay]
  BY <1>1, TailStage DEF WsTypeOK
<1>3. \A p \in wsPromised' \ wsPromised :
        /\ Len(req.plan) = 1
        /\ \/ wsReq[c].op = "create" /\ wsReq[c].via # "grpc" /\ p = <<wsReq[c].ws>>
           \/ wsReq[c].op = "add" /\ wsReq[c].via = "rest" /\ p = <<wsReq[c].ws, wsReq[c].sess>>
  BY DEF Answered
<1> QED
  BY <1>1, <1>2, <1>3

\* A step of one handler.
HandlerStep(c) ==
    \/ Request(c) \/ Insert(c) \/ Count(c) \/ Drop(c) \/ Join(c) \/ Leave(c)
    \/ Snapshot(c) \/ Store(c) \/ Erase(c) \/ Scan(c) \/ Unlink(c) \/ StorageFails(c)

\* A workspace nobody asked to delete stays in the manager, keeps its named
\* row and keeps its memberships.
WorldKept ==
    /\ wsDropped \subseteq wsDropped'
    /\ \A w \in WsIds \ wsDropped' :
        /\ w \in wsIndex => w \in wsIndex'
        /\ wsRow[w].name = "named" => wsRow'[w].name = "named"
        /\ \A s \in WsSessions : wsLink[w][s] # NoRole => wsLink'[w][s] # NoRole

LEMMA HandlerUnderWay ==
    ASSUME WorkspaceInv, NEW c \in WsClients, wsReq[c] # NoRequest
    PROVE  wsReq[c] \in UnderWay /\ StepsStand(c) /\ wsReq[c].ws \in WsIds
           /\ wsReq[c].sess \in WsSessions /\ wsReq[c].role \in Roles
           /\ wsReq[c].snap \in WsSnapshots
<1>1. wsReq[c] \in UnderWay
  BY DEF WorkspaceInv, WsTypeOK
<1>2. StepsStand(c)
  BY DEF WorkspaceInv, Busy
<1> QED
  BY <1>1, <1>2 DEF UnderWay

\* What a storage step that is applied does to the rows and the memberships.
LEMMA StoresKeepWorld ==
    ASSUME WorkspaceInv, NEW c \in WsClients, Stores(c), UNCHANGED <<wsIndex, wsDropped>>
    PROVE  /\ WorldKept
           /\ wsRow' \in [WsIds -> {NoRow} \cup WsSnapshots]
           /\ wsLink' \in [WsIds -> [WsSessions -> Roles \cup {NoRole}]]
           /\ Head(wsReq[c].plan) = "save" => wsRow'[wsReq[c].ws] = wsReq[c].snap
           /\ Head(wsReq[c].plan) = "link" => wsLink'[wsReq[c].ws][wsReq[c].sess] # NoRole
<1>0. wsReq[c] # NoRequest
  BY DEF Stores, Doing
<1>1. /\ wsReq[c] \in UnderWay /\ StepsStand(c) /\ wsReq[c].ws \in WsIds
      /\ wsReq[c].sess \in WsSessions /\ wsReq[c].role \in Roles
      /\ wsReq[c].snap \in WsSnapshots
  BY <1>0, HandlerUnderWay
<1>2. /\ wsRow \in [WsIds -> {NoRow} \cup WsSnapshots]
      /\ wsLink \in [WsIds -> [WsSessions -> Roles \cup {NoRole}]]
  BY DEF WorkspaceInv, WsTypeOK
<1>3. PICK w \in WsIds, snap \in WsSnapshots, s \in WsSessions, role \in Roles :
        w = wsReq[c].ws /\ snap = wsReq[c].snap /\ s = wsReq[c].sess /\ role = wsReq[c].role
  BY <1>1
<1>4. "Primary" \in Roles /\ \A r \in Roles : r # NoRole
  BY DEF Roles, NoRole
<1>5. CASE Doing(c, "save") /\ SaveApplied(c)
  <2>1. wsRow' = [wsRow EXCEPT ![w] = snap] /\ wsLink' = [wsLink EXCEPT ![w] = SavedLinks(w, snap)]
    BY <1>3, <1>5 DEF SaveApplied
  <2>2. /\ SavedLinks(w, snap) \in [WsSessions -> Roles \cup {NoRole}]
        /\ \A o \in WsSessions : wsLink[w][o] # NoRole => SavedLinks(w, snap)[o] # NoRole
    BY <1>2, <1>3, <1>4 DEF SavedLinks
  <2>3. /\ wsRow' \in [WsIds -> {NoRow} \cup WsSnapshots]
        /\ wsLink' \in [WsIds -> [WsSessions -> Roles \cup {NoRole}]]
        /\ wsRow'[w] = snap
    BY <1>2, <1>3, <2>1, <2>2
  <2>4. w \notin wsDropped => snap.name = "named"
    BY <1>1, <1>3 DEF StepsStand
  <2>5. WorldKept
    BY <1>2, <1>3, <2>1, <2>2, <2>4 DEF WorldKept
  <2>6. Head(wsReq[c].plan) = "save"
    BY <1>5 DEF Doing
  <2> QED
    BY <1>3, <2>3, <2>5, <2>6
<1>6. CASE Doing(c, "link") /\ LinkApplied(c)
  <2>1. wsRow' = wsRow /\ wsLink' = [wsLink EXCEPT ![w][s] = role]
    BY <1>3, <1>6 DEF LinkApplied
  <2>2. /\ wsLink' \in [WsIds -> [WsSessions -> Roles \cup {NoRole}]]
        /\ wsLink'[w][s] # NoRole
        /\ \A v \in WsIds, o \in WsSessions : wsLink[v][o] # NoRole => wsLink'[v][o] # NoRole
    BY <1>2, <1>3, <1>4, <2>1
  <2>3. WorldKept
    BY <2>1, <2>2 DEF WorldKept
  <2>4. Head(wsReq[c].plan) = "link"
    BY <1>6 DEF Doing
  <2> QED
    BY <1>2, <1>3, <2>1, <2>2, <2>3, <2>4
<1> QED
  BY <1>5, <1>6 DEF Stores

\* Every step of a handler keeps what nobody asked to delete, and the types of
\* what is stored.
LEMMA StepKeepsWorld ==
    ASSUME WorkspaceInv, NEW c \in WsClients, HandlerStep(c)
    PROVE  /\ WorldKept /\ wsIndex' \subseteq WsIds /\ wsDropped' \subseteq WsIds
           /\ wsRow' \in [WsIds -> {NoRow} \cup WsSnapshots]
           /\ wsLink' \in [WsIds -> [WsSessions -> Roles \cup {NoRole}]]
<1> DEFINE Goal == /\ WorldKept /\ wsIndex' \subseteq WsIds /\ wsDropped' \subseteq WsIds
                   /\ wsRow' \in [WsIds -> {NoRow} \cup WsSnapshots]
                   /\ wsLink' \in [WsIds -> [WsSessions -> Roles \cup {NoRole}]]
<1>0. /\ wsIndex \subseteq WsIds /\ wsDropped \subseteq WsIds
      /\ wsRow \in [WsIds -> {NoRow} \cup WsSnapshots]
      /\ wsLink \in [WsIds -> [WsSessions -> Roles \cup {NoRole}]]
  BY DEF WorkspaceInv, WsTypeOK
<1>1. CASE Request(c)
  <2>1. /\ UNCHANGED <<wsIndex, wsRow, wsLink>>
        /\ \E w \in WsIds : wsDropped' = wsDropped \cup {w} \/ wsDropped' = wsDropped
    BY <1>1 DEF Request
  <2> QED
    BY <1>0, <2>1 DEF WorldKept
<1>2. CASE Insert(c)
  <2>1. wsReq[c].ws \in WsIds
    BY <1>2, HandlerUnderWay DEF Insert, Doing
  <2> QED
    BY <1>0, <1>2, <2>1 DEF Insert, WorldKept
<1>3. CASE Count(c) \/ Join(c) \/ Leave(c) \/ Snapshot(c) \/ Scan(c)
  <2>1. UNCHANGED <<wsIndex, wsRow, wsLink, wsDropped>>
    BY <1>3 DEF Count, Join, Leave, Snapshot, Scan
  <2> QED
    BY <1>0, <2>1 DEF WorldKept
<1>4. CASE Drop(c)
  <2>1. wsReq[c] # NoRequest /\ Head(wsReq[c].plan) = "drop"
    BY <1>4 DEF Drop, Doing
  <2>2. wsReq[c].ws \in wsDropped
    BY <2>1, HandlerUnderWay, NextStep DEF StepsStand
  <2>3. wsIndex' = wsIndex \ {wsReq[c].ws} /\ UNCHANGED <<wsRow, wsLink, wsDropped>>
    BY <1>4 DEF Drop
  <2> QED
    BY <1>0, <2>2, <2>3 DEF WorldKept
<1>5. CASE Store(c)
  BY <1>0, <1>5, StoresKeepWorld DEF Store
<1>6. CASE Erase(c)
  <2>1. wsReq[c] # NoRequest /\ Head(wsReq[c].plan) = "erase"
    BY <1>6 DEF Erase, Doing
  <2>2. wsReq[c].ws \in wsDropped
    BY <2>1, HandlerUnderWay, NextStep DEF StepsStand
  <2>3. wsRow' = [wsRow EXCEPT ![wsReq[c].ws] = NoRow] /\ UNCHANGED <<wsIndex, wsLink, wsDropped>>
    BY <1>6 DEF Erase, EraseApplied
  <2> QED
    BY <1>0, <2>2, <2>3 DEF WorldKept
<1>7. CASE Unlink(c)
  <2>1. wsReq[c] # NoRequest /\ Head(wsReq[c].plan) = "unlink"
    BY <1>7 DEF Unlink, Doing
  <2>2. wsReq[c].ws \in wsDropped
    BY <2>1, HandlerUnderWay, NextStep DEF StepsStand
  <2>3. PICK w, gone : w \in wsDropped /\ w = wsReq[c].ws /\ gone = wsReq[c].scan
    BY <2>2
  <2>4. wsLink' = [wsLink EXCEPT ![w] = [s \in WsSessions |-> IF s \in gone THEN NoRole ELSE @[s]]]
        /\ UNCHANGED <<wsIndex, wsRow, wsDropped>>
    BY <1>7, <2>3 DEF Unlink, UnlinkApplied
  <2>5. wsLink' \in [WsIds -> [WsSessions -> Roles \cup {NoRole}]]
    BY <1>0, <2>3, <2>4
  <2>6. \A v \in WsIds \ wsDropped : wsLink'[v] = wsLink[v]
    BY <1>0, <2>3, <2>4
  <2> QED
    BY <1>0, <2>4, <2>5, <2>6 DEF WorldKept
<1>8. CASE StorageFails(c)
  <2>1. UNCHANGED <<wsIndex, wsDropped>> /\ (Stores(c) \/ UNCHANGED <<wsRow, wsLink>>)
    BY <1>8 DEF StorageFails
  <2>2. CASE Stores(c)
    BY <1>0, <2>1, <2>2, StoresKeepWorld
  <2>3. CASE UNCHANGED <<wsRow, wsLink>>
    BY <1>0, <2>1, <2>3 DEF WorldKept
  <2> QED
    BY <2>1, <2>2, <2>3
<1> QED
  BY <1>1, <1>2, <1>3, <1>4, <1>5, <1>6, <1>7, <1>8 DEF HandlerStep

\* What a handler did earlier stands when the world is kept.
LEMMA StandKept ==
    ASSUME WorkspaceInv, WorldKept, NEW d \in WsClients, wsReq[d] # NoRequest, wsReq'[d] = wsReq[d]
    PROVE  StepsStand(d)'
<1>1. StepsStand(d) /\ wsReq[d].ws \in WsIds /\ wsReq[d].sess \in WsSessions
  BY HandlerUnderWay
<1> QED
  BY <1>1 DEF StepsStand, WorldKept

LEMMA PromisesKept ==
    ASSUME WorkspaceInv, WorldKept, wsPromised' \subseteq wsPromised
    PROVE  PromisesStored'
  BY DEF WorkspaceInv, PromisesStored, WorldKept

\* What is left is a create of REST's past its save, or an add of REST's past its
\* link, only for those.
LEMMA TailsDiffer ==
    /\ <<"count", "save">> # <<"insert", "count">> /\ <<"count", "save">> # <<"count">>
    /\ <<"count", "save">> # <<"join">> /\ <<"count", "save">> # <<"snapshot", "save">>
    /\ <<"count", "save">> # <<"snapshotLive", "save">>
    /\ <<"save">> # <<"insert", "count">> /\ <<"save">> # <<"count">>
    /\ <<"save">> # <<"join">> /\ <<"save">> # <<"snapshot", "save">>
    /\ <<"save">> # <<"snapshotLive", "save">>
    /\ <<"erase">> # <<"insert", "count">> /\ <<"erase">> # <<"count">>
    /\ <<"erase">> # <<"join">> /\ <<"erase">> # <<"snapshot", "save">>
    /\ <<"erase">> # <<"snapshotLive", "save">>
    /\ <<"drop">> # <<"insert", "count">> /\ <<"drop">> # <<"count">>
    /\ <<"drop">> # <<"join">> /\ <<"drop">> # <<"snapshot", "save">>
    /\ <<"drop">> # <<"snapshotLive", "save">>
    /\ <<"snapshot", "save">> # <<"insert", "count">> /\ <<"snapshot", "save">> # <<"count">>
    /\ <<"snapshot", "save">> # <<"join">> /\ <<"snapshot", "save">> # <<"snapshotLive", "save">>
    /\ <<"snapshotLive", "save">> # <<"insert", "count">> /\ <<"snapshotLive", "save">> # <<"count">>
    /\ <<"snapshotLive", "save">> # <<"join">> /\ <<"snapshotLive", "save">> # <<"snapshot", "save">>
    /\ <<"insert", "count">> # <<"count">> /\ <<"insert", "count">> # <<"join">>
    /\ <<"insert", "count">> # <<"snapshot", "save">> /\ <<"insert", "count">> # <<"snapshotLive", "save">>
    /\ <<"count">> # <<"insert", "count">> /\ <<"count">> # <<"join">>
    /\ <<"count">> # <<"snapshot", "save">> /\ <<"count">> # <<"snapshotLive", "save">>
    /\ <<"join">> # <<"insert", "count">> /\ <<"join">> # <<"count">>
    /\ <<"join">> # <<"snapshot", "save">> /\ <<"join">> # <<"snapshotLive", "save">>
  OBVIOUS

\* The plans of several steps.
LEMMA LongPlans ==
    ASSUME NEW r \in UnderWay, Len(r.plan) # 1
    PROVE  \/ r.plan \in {<<"insert", "count", "save">>, <<"count", "save">>, <<"save", "insert", "count">>, <<"insert", "count">>}
           \/ r.plan \in {<<"drop", "erase">>, <<"erase", "drop">>, <<"scan", "drop">>, <<"unlink", "drop">>}
           \/ r.plan \in {<<"join", "snapshot", "save">>, <<"snapshot", "save">>, <<"join", "snapshotLive", "save">>, <<"snapshotLive", "save">>}
           \/ r.plan \in {<<"link", "join">>, <<"leave", "snapshot", "save">>, <<"leave", "snapshotLive", "save">>}
<1>1. r.plan \in Stages(r.op, r.via) /\ r.op \in {"create", "delete", "add", "remove"}
      /\ r.via \in {"mcp", "grpc", "rest"}
  BY DEF UnderWay, WsOps, WsVias
<1>2. CASE r.op = "create"
  BY <1>1, <1>2, LastSteps DEF Stages
<1>3. CASE r.op = "delete"
  BY <1>1, <1>3, LastSteps DEF Stages
<1>4. CASE r.op = "add"
  BY <1>1, <1>4, LastSteps DEF Stages
<1>5. CASE r.op = "remove"
  BY <1>1, <1>5, LastSteps DEF Stages
<1> QED
  BY <1>1, <1>2, <1>3, <1>4, <1>5

\* The requests are as they should be after a step.
RequestsFine ==
    /\ wsReq' \in [WsClients -> {NoRequest} \cup UnderWay]
    /\ \A d \in WsClients : wsReq'[d] # NoRequest => StepsStand(d)'
    /\ PromisesStored'

\* A handler that moves on, or is answered, when its own earlier steps stand.
LEMMA MovesOn ==
    ASSUME WorkspaceInv, WorldKept, NEW c \in WsClients, wsReq[c] # NoRequest,
           NEW req \in UnderWay, Answered(c, req),
           req.plan = wsReq[c].plan, req.op = wsReq[c].op, req.via = wsReq[c].via,
           req.ws = wsReq[c].ws, req.sess = wsReq[c].sess,
           req.ws \notin wsDropped' =>
             /\ req.snap.name = "named"
             /\ req.plan \in {<<"join", "snapshot", "save">>, <<"join", "snapshotLive", "save">>,
                              <<"leave", "snapshot", "save">>, <<"leave", "snapshotLive", "save">>}
                  => req.ws \in wsIndex'
             /\ req.plan \in {<<"save", "insert", "count">>, <<"insert", "count">>, <<"count">>}
                  \/ (req.plan = <<"save">> /\ req.op = "create" /\ req.via = "mcp")
                  => wsRow'[req.ws].name = "named"
             /\ req.plan \in {<<"link", "join">>, <<"join">>} => wsLink'[req.ws][req.sess] # NoRole
    PROVE  RequestsFine
<1>1. /\ wsReq' = [wsReq EXCEPT ![c] =
                     IF Len(req.plan) = 1 THEN NoRequest ELSE [req EXCEPT !.plan = Tail(@)]]
      /\ wsReq' \in [WsClients -> {NoRequest} \cup UnderWay]
      /\ \A p \in wsPromised' \ wsPromised :
           /\ Len(req.plan) = 1
           /\ \/ req.op = "create" /\ req.via # "grpc" /\ p = <<req.ws>>
              \/ req.op = "add" /\ req.via = "rest" /\ p = <<req.ws, req.sess>>
  BY AnsweredEffect DEF WorkspaceInv
<1>2. wsReq \in [WsClients -> {NoRequest} \cup UnderWay]
  BY DEF WorkspaceInv, WsTypeOK
<1>3. /\ req.plan \in Stages(req.op, req.via) /\ req.op \in {"create", "delete", "add", "remove"}
      /\ req.via \in {"mcp", "grpc", "rest"} /\ req.ws \in WsIds /\ req.sess \in WsSessions
  BY DEF UnderWay, WsOps, WsVias
<1>4. ASSUME Len(req.plan) # 1 PROVE StepsStand(c)'
  <2>1. wsReq'[c] = [req EXCEPT !.plan = Tail(@)]
    BY <1>1, <1>2, <1>4
  <2>2. /\ wsReq'[c].op = req.op /\ wsReq'[c].ws = req.ws /\ wsReq'[c].sess = req.sess
        /\ wsReq'[c].snap = req.snap /\ wsReq'[c].plan = Tail(req.plan)
    BY <2>1 DEF UnderWay
  <2>3. /\ Tail(req.plan) \in {<<"insert", "count">>, <<"count">>} =>
             req.plan \in {<<"save", "insert", "count">>, <<"insert", "count">>}
        /\ Tail(req.plan) = <<"join">> => req.plan = <<"link", "join">>
        /\ Tail(req.plan) \in {<<"snapshot", "save">>, <<"snapshotLive", "save">>} =>
             req.plan \in {<<"join", "snapshot", "save">>, <<"join", "snapshotLive", "save">>,
                              <<"leave", "snapshot", "save">>, <<"leave", "snapshotLive", "save">>}
    <3>1. \/ req.plan \in {<<"insert", "count", "save">>, <<"count", "save">>, <<"save", "insert", "count">>, <<"insert", "count">>}
          \/ req.plan \in {<<"drop", "erase">>, <<"erase", "drop">>, <<"scan", "drop">>, <<"unlink", "drop">>}
          \/ req.plan \in {<<"join", "snapshot", "save">>, <<"snapshot", "save">>, <<"join", "snapshotLive", "save">>, <<"snapshotLive", "save">>}
          \/ req.plan \in {<<"link", "join">>, <<"leave", "snapshot", "save">>, <<"leave", "snapshotLive", "save">>}
      BY <1>4, LongPlans
    <3>2. CASE req.plan \in {<<"insert", "count", "save">>, <<"count", "save">>, <<"save", "insert", "count">>, <<"insert", "count">>}
      BY <3>2, Tails, TailsDiffer, Zenon
    <3>3. CASE req.plan \in {<<"drop", "erase">>, <<"erase", "drop">>, <<"scan", "drop">>, <<"unlink", "drop">>}
      BY <3>3, Tails, TailsDiffer, Zenon
    <3>4. CASE req.plan \in {<<"join", "snapshot", "save">>, <<"snapshot", "save">>, <<"join", "snapshotLive", "save">>, <<"snapshotLive", "save">>}
      BY <3>4, Tails, TailsDiffer, Zenon
    <3>5. CASE req.plan \in {<<"link", "join">>, <<"leave", "snapshot", "save">>, <<"leave", "snapshotLive", "save">>}
      BY <3>5, Tails, TailsDiffer, Zenon
    <3> QED
      BY <3>1, <3>2, <3>3, <3>4, <3>5
  <2>4. req.op = "delete" => req.ws \in wsDropped'
    BY HandlerUnderWay DEF StepsStand, WorldKept
  <2> QED
    BY <2>2, <2>3, <2>4 DEF StepsStand
<1>5. \A d \in WsClients : wsReq'[d] # NoRequest => StepsStand(d)'
  <2> TAKE d \in WsClients
  <2>1. CASE d = c
    BY <1>1, <1>2, <1>4, <2>1
  <2>2. CASE d # c
    <3>1. wsReq'[d] = wsReq[d]
      BY <1>1, <1>2, <2>2
    <3> QED
      BY <3>1, StandKept
  <2> QED
    BY <2>1, <2>2
<1>6. PromisesStored'
  <2>1. ASSUME NEW w \in WsIds, w \notin wsDropped', <<w>> \in wsPromised'
        PROVE  wsRow'[w].name = "named"
    <3>1. CASE <<w>> \in wsPromised
      BY <2>1, <3>1 DEF WorkspaceInv, PromisesStored, WorldKept
    <3>2. CASE <<w>> \notin wsPromised
      <4>1. /\ Len(req.plan) = 1
            /\ \/ req.op = "create" /\ req.via # "grpc" /\ <<w>> = <<req.ws>>
               \/ req.op = "add" /\ req.via = "rest" /\ <<w>> = <<req.ws, req.sess>>
        BY <1>1, <2>1, <3>2, Zenon
      <4>2. \A x, y, z : <<x>> # <<y, z>> /\ (<<x>> = <<y>> => x = y)
        OBVIOUS
      <4>3. Len(req.plan) = 1 /\ req.op = "create" /\ req.via # "grpc" /\ req.ws = w
        BY <4>1, <4>2, Zenon
      <4>4. CASE req.via = "rest"
        <5>1. req.plan = <<"count">>
          BY <1>3, <4>3, <4>4, NotLastSteps DEF Stages
        <5> QED
          BY <2>1, <4>3, <5>1
      <4>5. CASE req.via = "mcp"
        <5>1. req.plan = <<"save">>
          BY <1>3, <4>3, <4>5, NotLastSteps DEF Stages
        <5> QED
          BY <2>1, <4>3, <4>5, <5>1
      <4> QED
        BY <1>3, <4>3, <4>4, <4>5
    <3> QED
      BY <3>1, <3>2
  <2>2. ASSUME NEW w \in WsIds, w \notin wsDropped', NEW s \in WsSessions, <<w, s>> \in wsPromised'
        PROVE  wsLink'[w][s] # NoRole
    <3>1. CASE <<w, s>> \in wsPromised
      BY <2>2, <3>1 DEF WorkspaceInv, PromisesStored, WorldKept
    <3>2. CASE <<w, s>> \notin wsPromised
      <4>1. Len(req.plan) = 1 /\ req.op = "add" /\ req.via = "rest" /\ req.ws = w /\ req.sess = s
        BY <1>1, <2>2, <3>2
      <4>2. req.plan = <<"join">>
        BY <1>3, <4>1, NotLastSteps DEF Stages
      <4> QED
        BY <2>2, <4>1, <4>2
    <3> QED
      BY <3>1, <3>2
  <2> QED
    BY <2>1, <2>2 DEF PromisesStored
<1> QED
  BY <1>1, <1>5, <1>6 DEF RequestsFine

\* A handler answered with an error.
LEMMA GivesUp ==
    ASSUME WorkspaceInv, WorldKept, NEW c \in WsClients, Rejected(c)
    PROVE  RequestsFine
<1>1. wsReq' = [wsReq EXCEPT ![c] = NoRequest] /\ wsPromised' = wsPromised
  BY DEF Rejected
<1>2. wsReq \in [WsClients -> {NoRequest} \cup UnderWay]
  BY DEF WorkspaceInv, WsTypeOK
<1>3. wsReq' \in [WsClients -> {NoRequest} \cup UnderWay]
  BY <1>1, <1>2
<1>4. \A d \in WsClients : wsReq'[d] # NoRequest => StepsStand(d)'
  BY <1>1, <1>2, StandKept
<1>5. PromisesStored'
  BY <1>1, PromisesKept
<1> QED
  BY <1>3, <1>4, <1>5 DEF RequestsFine

\* One step put before another.
LEMMA OneBefore ==
    ASSUME NEW S, NEW x \in S, NEW y \in S
    PROVE  <<x>> \o <<y>> = <<x, y>>
<1>1. <<x>> \in Seq(S) /\ <<y>> \in Seq(S) /\ <<x, y>> \in Seq(S)
  OBVIOUS
<1>2. PICK s \in Seq(S), t \in Seq(S), u \in Seq(S) : s = <<x>> /\ t = <<y>> /\ u = <<x, y>>
  BY <1>1
<1>3. Len(s) = 1 /\ Len(t) = 1 /\ Len(u) = 2 /\ s[1] = x /\ t[1] = y /\ u[1] = x /\ u[2] = y
  BY <1>2
<1>4. /\ s \o t \in Seq(S) /\ Len(s \o t) = 2
      /\ \A i \in 1 .. 2 : (s \o t)[i] = IF i <= 1 THEN s[i] ELSE t[i - 1]
  BY <1>3, ConcatProperties
<1>5. (s \o t)[1] = x /\ (s \o t)[2] = y
  BY <1>3, <1>4
<1>6. \A i \in 1 .. 2 : (s \o t)[i] = u[i]
  <2> TAKE i \in 1 .. 2
  <2>1. i = 1 \/ i = 2
    OBVIOUS
  <2> QED
    BY <1>3, <1>5, <2>1, Zenon
<1>7. s \o t = u
  BY <1>3, <1>4, <1>6, SeqEqual
<1> QED
  BY <1>2, <1>7, Zenon

\* The plans handlers start with.
FirstPlans ==
    {McpCreate, McpDelete, McpAdd, McpRemove, GrpcDelete, GrpcAdd, GrpcRemove,
     RestCreate, RestDelete, RestAttach}

LEMMA PlanStarts ==
    ASSUME NEW i \in WsInterfaces, NEW op \in DOMAIN Plan(i)
    PROVE  /\ op \in {"create", "delete", "add", "remove"} /\ i \in {"mcp", "grpc", "rest"}
           /\ Plan(i)[op] \in Stages(op, i) /\ Plan(i)[op] \in FirstPlans
           /\ op = "create" <=> Plan(i)[op] \in {<<"insert", "count", "save">>,
                                                 <<"save", "insert", "count">>}
<1>0. i \in {"mcp", "grpc", "rest"}
  BY WorkspaceAssumption
<1>1. CASE i = "mcp"
  <2>1. Plan(i) = [create |-> McpCreate, delete |-> McpDelete, add |-> McpAdd, remove |-> McpRemove]
    BY <1>1 DEF Plan
  <2>2. op \in {"create", "delete", "add", "remove"}
    BY <2>1
  <2> QED
    BY <1>1, <2>1, <2>2 DEF Stages, FirstPlans, McpCreate, McpDelete, McpAdd, McpRemove
<1>2. CASE i = "grpc"
  <2>1. Plan(i) = [create |-> GrpcCreate, delete |-> GrpcDelete, add |-> GrpcAdd, remove |-> GrpcRemove]
    BY <1>2 DEF Plan
  <2>2. op \in {"create", "delete", "add", "remove"}
    BY <2>1
  <2> QED
    BY <1>2, <2>1, <2>2 DEF Stages, FirstPlans, McpCreate, GrpcCreate, GrpcDelete, GrpcAdd, GrpcRemove
<1>3. CASE i = "rest"
  <2>1. Plan(i) = [create |-> RestCreate, delete |-> RestDelete, add |-> RestAttach]
    BY <1>3 DEF Plan
  <2>2. op \in {"create", "delete", "add"}
    BY <2>1
  <2> QED
    BY <1>3, <2>1, <2>2 DEF Stages, FirstPlans, RestCreate, RestDelete, RestAttach
<1> QED
  BY <1>0, <1>1, <1>2, <1>3

\* No plan starts in the middle.
LEMMA FirstPlansFresh ==
    ASSUME NEW p \in FirstPlans
    PROVE  p \notin {<<"snapshot", "save">>, <<"snapshotLive", "save">>, <<"insert", "count">>,
                        <<"count">>, <<"join">>, <<"count", "save">>}
  BY DEF FirstPlans, McpCreate, McpDelete, McpAdd, McpRemove, GrpcDelete, GrpcAdd, GrpcRemove,
         RestCreate, RestDelete, RestAttach

\* A request that arrives.
LEMMA RequestArrives ==
    ASSUME WorkspaceInv, NEW c \in WsClients, Request(c)
    PROVE  \E new \in UnderWay :
             /\ wsReq' = [wsReq EXCEPT ![c] = new]
             /\ new.snap.name = "named" /\ new.plan \in FirstPlans
             /\ new.op = "delete" => new.ws \in wsDropped'
             /\ new.plan \in {<<"insert", "count", "save">>, <<"save", "insert", "count">>} =>
                  new.ws \notin wsIndex /\ \A d \in WsClients : wsReq[d] # NoRequest => wsReq[d].ws # new.ws
<1>0. PICK i \in WsInterfaces, w \in WsIds, s \in WsSessions, r \in Roles : \E op \in DOMAIN Plan(i) :
        /\ IF op = "create" THEN w \notin Known \cup {wsReq[d].ws : d \in Busy} ELSE w \in Known
        /\ wsReq' = [wsReq EXCEPT ![c] =
                [plan |-> Plan(i)[op], op |-> op, via |-> i, ws |-> w, sess |-> s,
                 role |-> r, snap |-> [name |-> "named", sessions |-> {}], scan |-> {}]]
        /\ wsDropped' = IF op = "delete" THEN wsDropped \cup {w} ELSE wsDropped
  BY ZenonT(40) DEF Request
<1>1. PICK op \in DOMAIN Plan(i) :
        /\ IF op = "create" THEN w \notin Known \cup {wsReq[d].ws : d \in Busy} ELSE w \in Known
        /\ wsReq' = [wsReq EXCEPT ![c] =
                [plan |-> Plan(i)[op], op |-> op, via |-> i, ws |-> w, sess |-> s,
                 role |-> r, snap |-> [name |-> "named", sessions |-> {}], scan |-> {}]]
        /\ wsDropped' = IF op = "delete" THEN wsDropped \cup {w} ELSE wsDropped
  BY <1>0
<1>2. PICK new : new = [plan |-> Plan(i)[op], op |-> op, via |-> i, ws |-> w, sess |-> s,
                 role |-> r, snap |-> [name |-> "named", sessions |-> {}], scan |-> {}]
  OBVIOUS
<1>3. /\ op \in {"create", "delete", "add", "remove"} /\ i \in {"mcp", "grpc", "rest"}
      /\ Plan(i)[op] \in Stages(op, i) /\ Plan(i)[op] \in FirstPlans
      /\ op = "create" <=> Plan(i)[op] \in {<<"insert", "count", "save">>,
                                            <<"save", "insert", "count">>}
  BY <1>1, PlanStarts
<1>4. new \in UnderWay
  <2>1. Plan(i)[op] \in WsPlans /\ op \in WsOps /\ i \in WsVias
    BY <1>3 DEF WsPlans, WsOps, WsVias
  <2> QED
    BY <1>1, <1>2, <1>3, <2>1 DEF UnderWay, WsSnapshots
<1>5. op = "create" => w \notin wsIndex /\ \A d \in WsClients : wsReq[d] # NoRequest => wsReq[d].ws # w
  BY <1>1 DEF Known, Busy
<1>6. /\ new.plan = Plan(i)[op] /\ new.op = op /\ new.ws = w /\ new.snap.name = "named"
  BY <1>2
<1>7. op = "delete" => w \in wsDropped'
  BY <1>1
<1>8. wsReq' = [wsReq EXCEPT ![c] = new]
  BY <1>1, <1>2
<1> QED
  BY <1>3, <1>4, <1>5, <1>6, <1>7, <1>8

\* A handler that just goes on, when what its next steps rely on is there.
LEMMA GoesOn ==
    ASSUME WorkspaceInv, WorldKept, NEW c \in WsClients, wsReq[c] # NoRequest, Proceeds(c),
           wsReq[c].ws \notin wsDropped' =>
             /\ wsReq[c].plan \in {<<"join", "snapshot", "save">>, <<"join", "snapshotLive", "save">>,
                                   <<"leave", "snapshot", "save">>, <<"leave", "snapshotLive", "save">>}
                  => wsReq[c].ws \in wsIndex'
             /\ Head(wsReq[c].plan) = "save" /\ wsReq[c].via # "grpc" => wsRow'[wsReq[c].ws].name = "named"
             /\ Head(wsReq[c].plan) = "link" => wsLink'[wsReq[c].ws][wsReq[c].sess] # NoRole
    PROVE  RequestsFine
<1>1. /\ wsReq[c] \in UnderWay /\ StepsStand(c) /\ wsReq[c].ws \in WsIds
      /\ wsReq[c].sess \in WsSessions
  BY HandlerUnderWay
<1>2. PICK req \in UnderWay : req = wsReq[c]
  BY <1>1
<1>3. /\ req.plan \in Stages(req.op, req.via) /\ req.op \in {"create", "delete", "add", "remove"}
      /\ req.via \in {"mcp", "grpc", "rest"}
  BY DEF UnderWay, WsOps, WsVias
<1>4. Answered(c, req)
  BY <1>2 DEF Proceeds
<1>5. ASSUME req.ws \notin wsDropped' PROVE req.snap.name = "named"
  BY <1>1, <1>2, <1>5 DEF StepsStand, WorldKept
<1>6. ASSUME req.ws \notin wsDropped',
             req.plan \in {<<"join", "snapshot", "save">>, <<"join", "snapshotLive", "save">>,
                              <<"leave", "snapshot", "save">>, <<"leave", "snapshotLive", "save">>}
      PROVE  req.ws \in wsIndex'
  BY <1>2, <1>6
<1>7. ASSUME req.ws \notin wsDropped',
             \/ req.plan \in {<<"save", "insert", "count">>, <<"insert", "count">>, <<"count">>}
             \/ req.plan = <<"save">> /\ req.op = "create" /\ req.via = "mcp"
      PROVE  wsRow'[req.ws].name = "named"
  <2>1. CASE req.plan \in {<<"insert", "count">>, <<"count">>}
    BY <1>1, <1>2, <1>7, <2>1 DEF StepsStand, WorldKept
  <2>2. CASE req.plan = <<"save", "insert", "count">>
    <3>1. Head(req.plan) = "save"
      BY <2>2
    <3>2. req.via # "grpc"
      BY <2>2, <3>1, NextStep
    <3> QED
      BY <1>2, <1>7, <3>1, <3>2
  <2>3. CASE req.plan = <<"save">> /\ req.op = "create" /\ req.via = "mcp"
    <3>1. Head(req.plan) = "save"
      BY <2>3
    <3> QED
      BY <1>2, <1>7, <2>3, <3>1
  <2> QED
    BY <1>7, <2>1, <2>2, <2>3
<1>8. ASSUME req.ws \notin wsDropped', req.plan \in {<<"link", "join">>, <<"join">>}
      PROVE  wsLink'[req.ws][req.sess] # NoRole
  <2>1. CASE req.plan = <<"join">>
    BY <1>1, <1>2, <1>8, <2>1 DEF StepsStand, WorldKept
  <2>2. CASE req.plan = <<"link", "join">>
    <3>1. Head(req.plan) = "link"
      BY <2>2
    <3> QED
      BY <1>2, <1>8, <3>1
  <2> QED
    BY <1>8, <2>1, <2>2
<1> QED
  BY <1>2, <1>4, <1>5, <1>6, <1>7, <1>8, MovesOn

\* After every step of a handler, what the handlers did stands and what was
\* promised is stored.
LEMMA HandlerStepFine ==
    ASSUME WorkspaceInv, NEW c \in WsClients, HandlerStep(c)
    PROVE  RequestsFine
<1>0. WorldKept
  BY StepKeepsWorld
<1>1. wsReq \in [WsClients -> {NoRequest} \cup UnderWay]
  BY DEF WorkspaceInv, WsTypeOK
<1>2. CASE Request(c)
  <2>1. PICK new \in UnderWay :
             /\ wsReq' = [wsReq EXCEPT ![c] = new]
             /\ new.snap.name = "named" /\ new.plan \in FirstPlans
             /\ new.op = "delete" => new.ws \in wsDropped'
    BY <1>2, RequestArrives
  <2>2. wsReq'[c] = new /\ wsReq' \in [WsClients -> {NoRequest} \cup UnderWay]
    BY <1>1, <2>1
  <2>3. new.plan \notin {<<"snapshot", "save">>, <<"snapshotLive", "save">>, <<"insert", "count">>,
                         <<"count">>, <<"join">>}
    BY <2>1, FirstPlansFresh
  <2>4. StepsStand(c)'
    BY <2>1, <2>2, <2>3 DEF StepsStand
  <2>5. \A d \in WsClients : d # c => wsReq'[d] = wsReq[d]
    BY <1>1, <2>1
  <2>6. \A d \in WsClients : wsReq'[d] # NoRequest => StepsStand(d)'
    BY <1>0, <2>4, <2>5, StandKept
  <2>7. PromisesStored'
    BY <1>0, <1>2, PromisesKept DEF Request
  <2> QED
    BY <2>2, <2>6, <2>7 DEF RequestsFine
<1>3. CASE Insert(c) \/ Count(c) \/ Unlink(c)
  <2>1. /\ wsReq[c] # NoRequest /\ Proceeds(c)
        /\ Head(wsReq[c].plan) \in {"insert", "count", "unlink"}
    BY <1>3 DEF Insert, Count, Unlink, Doing
  <2>2. wsReq[c].plan \notin {<<"join", "snapshot", "save">>, <<"join", "snapshotLive", "save">>,
                              <<"leave", "snapshot", "save">>, <<"leave", "snapshotLive", "save">>}
    BY <2>1
  <2> QED
    BY <1>0, <2>1, <2>2, GoesOn
<1>4. CASE Drop(c)
  <2>1. /\ wsReq[c] # NoRequest /\ Head(wsReq[c].plan) = "drop" /\ (Rejected(c) \/ Proceeds(c))
    BY <1>4 DEF Drop, Doing
  <2>2. wsReq[c].plan \notin {<<"join", "snapshot", "save">>, <<"join", "snapshotLive", "save">>,
                              <<"leave", "snapshot", "save">>, <<"leave", "snapshotLive", "save">>}
    BY <2>1
  <2> QED
    BY <1>0, <2>1, <2>2, GoesOn, GivesUp
<1>5. CASE Join(c) \/ Leave(c)
  <2>1. /\ wsReq[c] # NoRequest /\ Head(wsReq[c].plan) \in {"join", "leave"} /\ wsIndex' = wsIndex
        /\ \/ Rejected(c)
           \/ Proceeds(c) /\ (wsReq[c].ws \in wsIndex \/ wsReq[c].via = "rest")
    BY <1>5 DEF Join, Leave, Doing
  <2>2. wsReq[c].via = "rest" => wsReq[c].plan \notin
            {<<"join", "snapshot", "save">>, <<"join", "snapshotLive", "save">>,
             <<"leave", "snapshot", "save">>, <<"leave", "snapshotLive", "save">>}
    <3>1. wsReq[c] \in UnderWay
      BY <2>1, HandlerUnderWay
    <3>2. wsReq[c].via = "rest" => wsReq[c].plan = <<"join">>
      BY <2>1, <3>1, NextStep
    <3> QED
      BY <3>2
  <2> QED
    BY <1>0, <2>1, <2>2, GoesOn, GivesUp
<1>6. CASE Snapshot(c)
  <2>1. PICK snap \in WsSnapshots :
          /\ wsReq[c] # NoRequest /\ Head(wsReq[c].plan) \in {"snapshot", "snapshotLive"}
          /\ wsIndex' = wsIndex /\ wsDropped' = wsDropped
          /\ wsReq[c].ws \in wsIndex => snap.name = "named"
          /\ Answered(c, [wsReq[c] EXCEPT !.snap = snap]) \/ Rejected(c)
    <3>1. PICK snap : snap = IF wsReq[c].ws \in wsIndex
                             THEN [name |-> "named", sessions |-> In(wsMembers[wsReq[c].ws])]
                             ELSE [name |-> "blank", sessions |-> {}]
      OBVIOUS
    <3>2. snap \in WsSnapshots /\ (wsReq[c].ws \in wsIndex => snap.name = "named")
      BY <3>1 DEF WsSnapshots, In
    <3> QED
      BY <1>6, <3>1, <3>2 DEF Snapshot, Doing, Rejected
  <2>2. /\ wsReq[c] \in UnderWay /\ StepsStand(c)
    BY <2>1, HandlerUnderWay
  <2>3. PICK req : req = [wsReq[c] EXCEPT !.snap = snap]
    OBVIOUS
  <2>4. /\ req \in UnderWay
        /\ req.plan = wsReq[c].plan /\ req.op = wsReq[c].op /\ req.via = wsReq[c].via
        /\ req.ws = wsReq[c].ws /\ req.sess = wsReq[c].sess /\ req.snap = snap
    BY <2>1, <2>2, <2>3 DEF UnderWay
  <2>5. req.plan \in {<<"snapshot", "save">>, <<"snapshotLive", "save">>}
    BY <2>1, <2>2, <2>4, NextStep
  <2>6. req.ws \notin wsDropped' => req.snap.name = "named"
    BY <2>1, <2>2, <2>4, <2>5 DEF StepsStand
  <2>7. /\ req.plan \notin {<<"join", "snapshot", "save">>, <<"join", "snapshotLive", "save">>,
                              <<"leave", "snapshot", "save">>, <<"leave", "snapshotLive", "save">>}
        /\ req.plan \notin {<<"save", "insert", "count">>, <<"insert", "count">>, <<"count">>,
                            <<"save">>, <<"link", "join">>, <<"join">>}
    BY <2>5
  <2>8. CASE Answered(c, req)
    BY <1>0, <2>1, <2>4, <2>6, <2>7, <2>8, MovesOn
  <2> QED
    BY <1>0, <2>1, <2>3, <2>8, GivesUp
<1>7. CASE Store(c)
  <2>1. /\ wsReq[c] # NoRequest /\ Stores(c) /\ Proceeds(c) /\ UNCHANGED <<wsIndex, wsDropped>>
        /\ Head(wsReq[c].plan) \in {"save", "link"}
    BY <1>7 DEF Store, Stores, Doing
  <2>2. /\ Head(wsReq[c].plan) = "save" => wsRow'[wsReq[c].ws] = wsReq[c].snap
        /\ Head(wsReq[c].plan) = "link" => wsLink'[wsReq[c].ws][wsReq[c].sess] # NoRole
    BY <2>1, StoresKeepWorld
  <2>3. wsReq[c].ws \notin wsDropped' => wsReq[c].snap.name = "named"
    BY <1>0, <2>1, HandlerUnderWay DEF StepsStand, WorldKept
  <2>4. wsReq[c].plan \notin {<<"join", "snapshot", "save">>, <<"join", "snapshotLive", "save">>,
                              <<"leave", "snapshot", "save">>, <<"leave", "snapshotLive", "save">>}
    BY <2>1
  <2> QED
    BY <1>0, <2>1, <2>2, <2>3, <2>4, GoesOn
<1>8. CASE Erase(c) \/ Scan(c)
  <2>1. wsReq[c] # NoRequest /\ Head(wsReq[c].plan) \in {"erase", "scan"} /\ wsPromised' = wsPromised
    BY <1>8 DEF Erase, Scan, Doing
  <2>2. wsReq[c] \in UnderWay /\ StepsStand(c)
    BY <2>1, HandlerUnderWay
  <2>3. PICK plan \in WsPlans, found \in SUBSET WsSessions :
          /\ wsReq' = [wsReq EXCEPT ![c].plan = plan, ![c].scan = found]
          /\ plan \in {<<"scan">>, <<"unlink">>, <<"scan", "drop">>, <<"unlink", "drop">>}
          /\ plan \in Stages(wsReq[c].op, wsReq[c].via)
    <3>1. /\ wsReq[c].op = "delete" /\ wsReq[c].via \in {"mcp", "rest"}
          /\ wsReq[c].via = "mcp" => wsReq[c].plan \in {<<"erase">>, <<"scan">>}
          /\ wsReq[c].via = "rest" => wsReq[c].plan \in {<<"erase", "drop">>, <<"scan", "drop">>}
      BY <2>1, <2>2, NextStep
    <3>2. /\ Tail(<<"erase">>) = <<>> /\ Tail(<<"scan">>) = <<>>
          /\ Tail(<<"erase", "drop">>) = <<"drop">> /\ Tail(<<"scan", "drop">>) = <<"drop">>
      OBVIOUS
    <3>3. PICK rest : rest = Tail(wsReq[c].plan)
      OBVIOUS
    <3>4. \/ wsReq[c].via = "mcp" /\ rest = <<>>
          \/ wsReq[c].via = "rest" /\ rest = <<"drop">>
      BY <3>1, <3>2, <3>3, Zenon
    <3>5. /\ <<"scan">> \o <<>> = <<"scan">> /\ <<"unlink">> \o <<>> = <<"unlink">>
          /\ <<"scan">> \o <<"drop">> = <<"scan", "drop">>
          /\ <<"unlink">> \o <<"drop">> = <<"unlink", "drop">>
      <4>1. <<"scan">> \o <<>> = <<"scan">> /\ <<"unlink">> \o <<>> = <<"unlink">>
        OBVIOUS
      <4>2. "scan" \in {"scan", "unlink", "drop"} /\ "unlink" \in {"scan", "unlink", "drop"}
            /\ "drop" \in {"scan", "unlink", "drop"}
        OBVIOUS
      <4>3. <<"scan">> \o <<"drop">> = <<"scan", "drop">>
        BY <4>2, OneBefore, Zenon
      <4>4. <<"unlink">> \o <<"drop">> = <<"unlink", "drop">>
        BY <4>2, OneBefore, Zenon
      <4> QED
        BY <4>1, <4>3, <4>4, Zenon
    <3>6. /\ Stages("delete", "mcp") = {<<"drop", "erase">>, <<"erase">>, <<"scan">>, <<"unlink">>}
          /\ Stages("delete", "rest") = {<<"erase", "drop">>, <<"scan", "drop">>, <<"unlink", "drop">>, <<"drop">>}
      BY DEF Stages
    <3>7. /\ <<"scan">> \o rest \in {<<"scan">>, <<"scan", "drop">>}
          /\ <<"unlink">> \o rest \in {<<"unlink">>, <<"unlink", "drop">>}
          /\ <<"scan">> \o rest \in Stages(wsReq[c].op, wsReq[c].via)
          /\ <<"unlink">> \o rest \in Stages(wsReq[c].op, wsReq[c].via)
      BY <3>1, <3>4, <3>5, <3>6, Zenon
    <3>8. CASE Erase(c)
      <4>1. PICK plan : plan = <<"scan">> \o rest
        OBVIOUS
      <4>2. wsReq' = [wsReq EXCEPT ![c].plan = plan]
        BY <3>3, <3>8, <4>1 DEF Erase
      <4>3. wsReq' = [wsReq EXCEPT ![c].plan = plan, ![c].scan = wsReq[c].scan]
        BY <1>1, <2>2, <4>2 DEF UnderWay
      <4>4. wsReq[c].scan \in SUBSET WsSessions
        BY <2>2 DEF UnderWay
      <4> QED
        <5>1. plan \in {<<"scan">>, <<"unlink">>, <<"scan", "drop">>, <<"unlink", "drop">>}
              /\ plan \in Stages(wsReq[c].op, wsReq[c].via)
          BY <3>7, <4>1, Zenon
        <5>2. plan \in WsPlans
          BY <2>2, <5>1 DEF UnderWay, WsPlans
        <5> QED
          BY <5>1, <5>2, <4>3, <4>4, Zenon
    <3>9. CASE Scan(c)
      <4>1. PICK plan : plan = <<"unlink">> \o rest
        OBVIOUS
      <4>2. wsReq' = [wsReq EXCEPT ![c].plan = plan, ![c].scan = In(wsLink[wsReq[c].ws])]
        BY <3>3, <3>9, <4>1 DEF Scan
      <4>3. In(wsLink[wsReq[c].ws]) \in SUBSET WsSessions
        BY DEF In
      <4> QED
        <5>1. plan \in {<<"scan">>, <<"unlink">>, <<"scan", "drop">>, <<"unlink", "drop">>}
              /\ plan \in Stages(wsReq[c].op, wsReq[c].via)
          BY <3>7, <4>1, Zenon
        <5>2. plan \in WsPlans
          BY <2>2, <5>1 DEF UnderWay, WsPlans
        <5> QED
          BY <5>1, <5>2, <4>2, <4>3, Zenon
    <3> QED
      BY <1>8, <3>8, <3>9
  <2>4. /\ wsReq'[c].plan = plan /\ wsReq'[c].ws = wsReq[c].ws /\ wsReq'[c].op = wsReq[c].op
        /\ wsReq'[c].sess = wsReq[c].sess /\ wsReq'[c].snap = wsReq[c].snap
        /\ \A d \in WsClients : d # c => wsReq'[d] = wsReq[d]
    BY <1>1, <2>2, <2>3 DEF UnderWay
  <2>5. wsReq'[c] \in UnderWay
    BY <1>1, <2>2, <2>3 DEF UnderWay
  <2>6. wsReq' \in [WsClients -> {NoRequest} \cup UnderWay]
    BY <1>1, <2>3, <2>5
  <2>7. plan \notin {<<"snapshot", "save">>, <<"snapshotLive", "save">>, <<"insert", "count">>,
                     <<"count">>, <<"join">>}
    BY <2>3
  <2>8. StepsStand(c)'
    BY <1>0, <2>2, <2>4, <2>7 DEF StepsStand, WorldKept
  <2>9. \A d \in WsClients : wsReq'[d] # NoRequest => StepsStand(d)'
    BY <1>0, <2>4, <2>8, StandKept
  <2>10. PromisesStored'
    BY <1>0, <2>1, PromisesKept
  <2> QED
    BY <2>6, <2>9, <2>10 DEF RequestsFine
<1>9. CASE StorageFails(c)
  <2>1. /\ wsReq[c] # NoRequest
        /\ Head(wsReq[c].plan) \in {"save", "link", "erase", "scan", "unlink"}
        /\ Rejected(c) \/ (wsReq[c].via = "grpc" /\ Proceeds(c))
    BY <1>9 DEF StorageFails, Stores, Doing, Aborts
  <2>2. CASE wsReq[c].via = "grpc" /\ Proceeds(c)
    <3>1. Head(wsReq[c].plan) # "link"
      BY <2>1, <2>2, HandlerUnderWay, NextStep
    <3>2. wsReq[c].plan \notin {<<"join", "snapshot", "save">>, <<"join", "snapshotLive", "save">>,
                                <<"leave", "snapshot", "save">>, <<"leave", "snapshotLive", "save">>}
      BY <2>1
    <3> QED
      BY <1>0, <2>1, <2>2, <3>1, <3>2, GoesOn
  <2> QED
    BY <1>0, <2>1, <2>2, GivesUp
<1> QED
  BY <1>2, <1>3, <1>4, <1>5, <1>6, <1>7, <1>8, <1>9 DEF HandlerStep

\* What is left is never a whole create, and is a create about to insert or to
\* count only for those.
LEMMA TailsOfCreates ==
    /\ <<"count", "save">> # <<"insert", "count", "save">> /\ <<"count", "save">> # <<"save", "insert", "count">>
    /\ <<"count", "save">> # <<"insert", "count">>
    /\ <<"save">> # <<"insert", "count", "save">> /\ <<"save">> # <<"save", "insert", "count">>
    /\ <<"save">> # <<"insert", "count">> /\ <<"save">> # <<"count", "save">>
    /\ <<"save">> # <<"count">>
    /\ <<"erase">> # <<"insert", "count", "save">> /\ <<"erase">> # <<"save", "insert", "count">>
    /\ <<"erase">> # <<"insert", "count">> /\ <<"erase">> # <<"count", "save">>
    /\ <<"erase">> # <<"count">>
    /\ <<"drop">> # <<"insert", "count", "save">> /\ <<"drop">> # <<"save", "insert", "count">>
    /\ <<"drop">> # <<"insert", "count">> /\ <<"drop">> # <<"count", "save">>
    /\ <<"drop">> # <<"count">>
    /\ <<"snapshot", "save">> # <<"insert", "count", "save">> /\ <<"snapshot", "save">> # <<"save", "insert", "count">>
    /\ <<"snapshot", "save">> # <<"insert", "count">> /\ <<"snapshot", "save">> # <<"count", "save">>
    /\ <<"snapshot", "save">> # <<"count">>
    /\ <<"snapshotLive", "save">> # <<"insert", "count", "save">> /\ <<"snapshotLive", "save">> # <<"save", "insert", "count">>
    /\ <<"snapshotLive", "save">> # <<"insert", "count">> /\ <<"snapshotLive", "save">> # <<"count", "save">>
    /\ <<"snapshotLive", "save">> # <<"count">>
    /\ <<"insert", "count">> # <<"insert", "count", "save">> /\ <<"insert", "count">> # <<"save", "insert", "count">>
    /\ <<"insert", "count">> # <<"count", "save">> /\ <<"insert", "count">> # <<"count">>
    /\ <<"count">> # <<"insert", "count", "save">> /\ <<"count">> # <<"save", "insert", "count">>
    /\ <<"count">> # <<"insert", "count">>
    /\ <<"join">> # <<"insert", "count", "save">> /\ <<"join">> # <<"save", "insert", "count">>
    /\ <<"join">> # <<"insert", "count">> /\ <<"join">> # <<"count", "save">>
    /\ <<"join">> # <<"count">>
  OBVIOUS

\* A create about to insert is not another plan.
LEMMA PlansApart ==
    /\ <<"count", "save">> # <<"insert", "count", "save">> /\ <<"count", "save">> # <<"insert", "count">>
    /\ <<"save", "insert", "count">> # <<"insert", "count", "save">> /\ <<"save", "insert", "count">> # <<"insert", "count">>
    /\ <<"drop", "erase">> # <<"insert", "count", "save">> /\ <<"drop", "erase">> # <<"insert", "count">>
    /\ <<"erase", "drop">> # <<"insert", "count", "save">> /\ <<"erase", "drop">> # <<"insert", "count">>
    /\ <<"scan", "drop">> # <<"insert", "count", "save">> /\ <<"scan", "drop">> # <<"insert", "count">>
    /\ <<"unlink", "drop">> # <<"insert", "count", "save">> /\ <<"unlink", "drop">> # <<"insert", "count">>
    /\ <<"join", "snapshot", "save">> # <<"insert", "count", "save">> /\ <<"join", "snapshot", "save">> # <<"insert", "count">>
    /\ <<"snapshot", "save">> # <<"insert", "count", "save">> /\ <<"snapshot", "save">> # <<"insert", "count">>
    /\ <<"join", "snapshotLive", "save">> # <<"insert", "count", "save">> /\ <<"join", "snapshotLive", "save">> # <<"insert", "count">>
    /\ <<"snapshotLive", "save">> # <<"insert", "count", "save">> /\ <<"snapshotLive", "save">> # <<"insert", "count">>
    /\ <<"link", "join">> # <<"insert", "count", "save">> /\ <<"link", "join">> # <<"insert", "count">>
    /\ <<"leave", "snapshot", "save">> # <<"insert", "count", "save">> /\ <<"leave", "snapshot", "save">> # <<"insert", "count">>
    /\ <<"leave", "snapshotLive", "save">> # <<"insert", "count", "save">> /\ <<"leave", "snapshotLive", "save">> # <<"insert", "count">>
  OBVIOUS

\* Only a create goes on to insert or to count.
LEMMA AnsweredPlans ==
    ASSUME WsTypeOK, NEW c \in WsClients, NEW req \in UnderWay, Answered(c, req),
           req.plan = wsReq[c].plan, req.ws = wsReq[c].ws
    PROVE  /\ Inserting(c)' => wsReq[c].plan = <<"save", "insert", "count">> /\ wsReq'[c].ws = wsReq[c].ws
           /\ wsReq'[c].plan \in {<<"count", "save">>, <<"count">>} <=>
                wsReq[c].plan \in {<<"insert", "count", "save">>, <<"insert", "count">>}
<1>1. wsReq'[c] = IF Len(req.plan) = 1 THEN NoRequest ELSE [req EXCEPT !.plan = Tail(@)]
  <2>1. wsReq' = [wsReq EXCEPT ![c] =
                    IF Len(req.plan) = 1 THEN NoRequest ELSE [req EXCEPT !.plan = Tail(@)]]
    BY AnsweredEffect
  <2>2. wsReq \in [WsClients -> {NoRequest} \cup UnderWay]
    BY DEF WsTypeOK
  <2> QED
    BY <2>1, <2>2
<1>2. CASE Len(req.plan) = 1
  <2>1. wsReq'[c].plan = <<>>
    BY <1>1, <1>2 DEF NoRequest
  <2>2. /\ <<>> # <<"insert", "count", "save">> /\ <<>> # <<"save", "insert", "count">>
        /\ <<>> # <<"insert", "count">> /\ <<>> # <<"count", "save">> /\ <<>> # <<"count">>
    OBVIOUS
  <2>3. req.plan # <<"insert", "count", "save">> /\ req.plan # <<"insert", "count">>
    BY <1>2, NotLastSteps
  <2> QED
    BY <2>1, <2>2, <2>3, Zenon DEF Inserting
<1>3. CASE Len(req.plan) # 1
  <2>1. wsReq'[c].plan = Tail(req.plan) /\ wsReq'[c].ws = req.ws
    BY <1>1, <1>3 DEF UnderWay
  <2>2. /\ Tail(req.plan) \in {<<"insert", "count", "save">>, <<"save", "insert", "count">>, <<"insert", "count">>}
             => req.plan = <<"save", "insert", "count">>
        /\ Tail(req.plan) \in {<<"count", "save">>, <<"count">>} <=>
             req.plan \in {<<"insert", "count", "save">>, <<"insert", "count">>}
    <3>1. \/ req.plan \in {<<"insert", "count", "save">>, <<"count", "save">>, <<"save", "insert", "count">>, <<"insert", "count">>}
          \/ req.plan \in {<<"drop", "erase">>, <<"erase", "drop">>, <<"scan", "drop">>, <<"unlink", "drop">>}
          \/ req.plan \in {<<"join", "snapshot", "save">>, <<"snapshot", "save">>, <<"join", "snapshotLive", "save">>, <<"snapshotLive", "save">>}
          \/ req.plan \in {<<"link", "join">>, <<"leave", "snapshot", "save">>, <<"leave", "snapshotLive", "save">>}
      BY <1>3, LongPlans
    <3>2. CASE req.plan \in {<<"insert", "count", "save">>, <<"count", "save">>, <<"save", "insert", "count">>, <<"insert", "count">>}
      BY <3>2, Tails, TailsOfCreates, PlansApart, Zenon
    <3>3. CASE req.plan \in {<<"drop", "erase">>, <<"erase", "drop">>, <<"scan", "drop">>, <<"unlink", "drop">>}
      BY <3>3, Tails, TailsOfCreates, PlansApart, Zenon
    <3>4. CASE req.plan \in {<<"join", "snapshot", "save">>, <<"snapshot", "save">>, <<"join", "snapshotLive", "save">>, <<"snapshotLive", "save">>}
      BY <3>4, Tails, TailsOfCreates, PlansApart, Zenon
    <3>5. CASE req.plan \in {<<"link", "join">>, <<"leave", "snapshot", "save">>, <<"leave", "snapshotLive", "save">>}
      BY <3>5, Tails, TailsOfCreates, PlansApart, Zenon
    <3> QED
      BY <3>1, <3>2, <3>3, <3>4, <3>5
  <2> QED
    BY <2>1, <2>2, Zenon DEF Inserting
<1> QED
  BY <1>2, <1>3

\* A step other than an arrival: the other handlers are as they were, only an
\* insert leaves a handler to count, only a count pays it, and a handler that
\* is still to insert was so before and has not.
LEMMA CreatesAdvance ==
    ASSUME WorkspaceInv, NEW c \in WsClients, HandlerStep(c), ~Request(c)
    PROVE  /\ \A d \in WsClients : d # c => wsReq'[d] = wsReq[d]
           /\ Inserting(c)' => Inserting(c) /\ wsReq'[c].ws = wsReq[c].ws /\ ~Insert(c)
           /\ c \in Counting' <=> Insert(c)
           /\ c \in Counting <=> Count(c)
           /\ Insert(c) => Inserting(c)
           /\ wsIndex' # wsIndex => Insert(c) \/ Drop(c)
           /\ wsTotal' # wsTotal => Count(c) \/ Drop(c)
<1> DEFINE InsertPlans == {<<"insert", "count", "save">>, <<"insert", "count">>}
           CountPlans == {<<"count", "save">>, <<"count">>}
<1>0. wsReq \in [WsClients -> {NoRequest} \cup UnderWay] /\ WsTypeOK
  BY DEF WorkspaceInv, WsTypeOK
<1>1. wsReq[c] # NoRequest
  BY DEF HandlerStep, Insert, Count, Drop, Join, Leave, Snapshot, Store, Erase, Scan, Unlink,
         StorageFails, Stores, Doing
<1>2. PICK r \in UnderWay : r = wsReq[c]
  BY <1>1, HandlerUnderWay
<1>3. /\ r.plan \in InsertPlans <=> Head(r.plan) = "insert"
      /\ r.plan \in CountPlans <=> Head(r.plan) = "count"
  <2>1. /\ Head(<<"insert", "count", "save">>) = "insert" /\ Head(<<"insert", "count">>) = "insert"
        /\ Head(<<"count", "save">>) = "count" /\ Head(<<"count">>) = "count"
    OBVIOUS
  <2>2. /\ Head(r.plan) = "insert" => r.plan = <<"insert", "count", "save">> \/ r.plan = <<"insert", "count">>
        /\ Head(r.plan) = "count" => r.plan = <<"count", "save">> \/ r.plan = <<"count">>
    BY NextStep
  <2> QED
    BY <2>1, <2>2, Zenon
<1>4. /\ Insert(c) => Head(r.plan) = "insert"
      /\ Count(c) => Head(r.plan) = "count"
      /\ Head(r.plan) = "insert" => Insert(c)
      /\ Head(r.plan) = "count" => Count(c)
  BY <1>1, <1>2 DEF HandlerStep, Insert, Count, Drop, Join, Leave, Snapshot, Store, Erase, Scan, Unlink,
         StorageFails, Stores, Doing
<1>5. c \in Counting <=> Count(c)
  BY <1>2, <1>3, <1>4 DEF Counting
<1>6. Insert(c) => Inserting(c)
  BY <1>2, <1>3, <1>4 DEF Inserting
<1>7. Inserting(c) /\ r.plan \notin InsertPlans => r.plan = <<"save", "insert", "count">>
  BY <1>2 DEF Inserting
<1>8. ASSUME Rejected(c)
      PROVE  /\ \A d \in WsClients : d # c => wsReq'[d] = wsReq[d]
             /\ ~Inserting(c)' /\ c \notin Counting'
  <2>1. wsReq'[c] = NoRequest /\ \A d \in WsClients : d # c => wsReq'[d] = wsReq[d]
    BY <1>0, <1>8 DEF Rejected
  <2>2. wsReq'[c].plan = <<>>
    BY <2>1 DEF NoRequest
  <2>3. /\ <<>> # <<"insert", "count", "save">> /\ <<>> # <<"save", "insert", "count">>
        /\ <<>> # <<"insert", "count">> /\ <<>> # <<"count", "save">> /\ <<>> # <<"count">>
    OBVIOUS
  <2>4. ~Inserting(c)' /\ c \notin Counting'
    BY <2>2, <2>3, Zenon DEF Inserting, Counting
  <2> QED
    BY <2>1, <2>4
<1>9. ASSUME NEW req \in UnderWay, Answered(c, req), req.plan = r.plan, req.ws = r.ws
      PROVE  /\ \A d \in WsClients : d # c => wsReq'[d] = wsReq[d]
             /\ Inserting(c)' => r.plan = <<"save", "insert", "count">> /\ wsReq'[c].ws = wsReq[c].ws
             /\ c \in Counting' <=> r.plan \in InsertPlans
  <2>1. \A d \in WsClients : d # c => wsReq'[d] = wsReq[d]
    BY <1>0, <1>9 DEF Answered
  <2>2. /\ Inserting(c)' => wsReq[c].plan = <<"save", "insert", "count">> /\ wsReq'[c].ws = wsReq[c].ws
        /\ wsReq'[c].plan \in {<<"count", "save">>, <<"count">>} <=>
             wsReq[c].plan \in {<<"insert", "count", "save">>, <<"insert", "count">>}
    BY <1>0, <1>2, <1>9, AnsweredPlans
  <2> QED
    BY <1>2, <2>1, <2>2 DEF Counting
<1>10. ASSUME Proceeds(c)
       PROVE  /\ \A d \in WsClients : d # c => wsReq'[d] = wsReq[d]
              /\ Inserting(c)' => r.plan = <<"save", "insert", "count">> /\ wsReq'[c].ws = wsReq[c].ws
              /\ c \in Counting' <=> r.plan \in InsertPlans
  BY <1>2, <1>9, <1>10 DEF Proceeds
<1>11. r.plan = <<"save", "insert", "count">> => Inserting(c) /\ ~Insert(c)
  <2>1. r.plan = <<"save", "insert", "count">> => Head(r.plan) = "save"
    OBVIOUS
  <2> QED
    BY <1>2, <1>4, <2>1 DEF Inserting
<1> DEFINE Moved == /\ \A d \in WsClients : d # c => wsReq'[d] = wsReq[d]
                    /\ Inserting(c)' => r.plan = <<"save", "insert", "count">> /\ wsReq'[c].ws = wsReq[c].ws
                    /\ c \in Counting' <=> Head(r.plan) = "insert"
<1>12. Moved
  <2>1. CASE Proceeds(c)
    BY <1>3, <1>10, <2>1
  <2>2. CASE Rejected(c) /\ ~Insert(c)
    BY <1>4, <1>8, <2>2
  <2>3. CASE Snapshot(c)
    <3>1. PICK snap \in WsSnapshots :
            /\ Head(r.plan) \in {"snapshot", "snapshotLive"}
            /\ Answered(c, [wsReq[c] EXCEPT !.snap = snap]) \/ Rejected(c)
      <4>1. PICK snap : snap = IF wsReq[c].ws \in wsIndex
                               THEN [name |-> "named", sessions |-> In(wsMembers[wsReq[c].ws])]
                               ELSE [name |-> "blank", sessions |-> {}]
        OBVIOUS
      <4>2. snap \in WsSnapshots
        BY <4>1 DEF WsSnapshots, In
      <4> QED
        BY <1>2, <2>3, <4>1, <4>2 DEF Snapshot, Doing, Rejected
    <3>2. PICK req : req = [r EXCEPT !.snap = snap]
      OBVIOUS
    <3>3. req \in UnderWay /\ req.plan = r.plan /\ req.ws = r.ws
      BY <3>1, <3>2 DEF UnderWay
    <3>4. Answered(c, req) \/ Rejected(c)
      BY <1>2, <3>1, <3>2
    <3>5. r.plan \notin InsertPlans /\ Head(r.plan) # "insert"
      BY <1>3, <3>1
    <3> QED
      BY <1>8, <1>9, <3>3, <3>4, <3>5
  <2>4. CASE Erase(c) \/ Scan(c)
    <3>1. Head(r.plan) \in {"erase", "scan"} /\ r.op = "delete"
      BY <1>2, <2>4, NextStep DEF Erase, Scan, Doing
    <3>2. /\ wsReq'[c] \in UnderWay /\ wsReq'[c].op = "delete"
          /\ \A d \in WsClients : d # c => wsReq'[d] = wsReq[d]
      <4>1. wsReq' \in [WsClients -> {NoRequest} \cup UnderWay]
        BY HandlerStepFine DEF RequestsFine
      <4>2. \A d \in WsClients : d # c => wsReq'[d] = wsReq[d]
        BY <1>0, <2>4 DEF Erase, Scan
      <4>3. wsReq'[c].op = "delete" /\ wsReq'[c].ws = r.ws /\ wsReq'[c] # NoRequest
        <5>1. CASE Erase(c)
          <6>1. PICK plan : plan = <<"scan">> \o Tail(r.plan)
            OBVIOUS
          <6>2. wsReq'[c] = [r EXCEPT !.plan = plan]
            BY <1>0, <1>2, <5>1, <6>1 DEF Erase
          <6> QED
            BY <3>1, <6>2 DEF UnderWay, NoRequest
        <5>2. CASE Scan(c)
          <6>1. PICK plan, found : plan = <<"unlink">> \o Tail(r.plan) /\ found = In(wsLink[r.ws])
            OBVIOUS
          <6>2. wsReq'[c] = [r EXCEPT !.plan = plan, !.scan = found]
            BY <1>0, <1>2, <5>2, <6>1 DEF Scan
          <6> QED
            BY <3>1, <6>2 DEF UnderWay, NoRequest
        <5> QED
          BY <2>4, <5>1, <5>2
      <4> QED
        BY <4>1, <4>2, <4>3
    <3>3. wsReq'[c].plan \in Stages("delete", wsReq'[c].via) /\ wsReq'[c].via \in {"mcp", "grpc", "rest"}
      BY <3>2 DEF UnderWay, WsVias
    <3>4. ~Inserting(c)' /\ c \notin Counting'
      BY <3>3 DEF Stages, Inserting, Counting
    <3> QED
      BY <3>1, <3>2, <3>4
  <2>5. CASE ~(Snapshot(c) \/ Erase(c) \/ Scan(c))
    <3>1. Proceeds(c) \/ (Rejected(c) /\ ~Insert(c))
      <4>1. CASE Insert(c)
        BY <4>1 DEF Insert
      <4>2. CASE ~Insert(c)
        BY <2>5, <4>2 DEF HandlerStep, Count, Drop, Join, Leave, Store, Unlink, StorageFails
      <4> QED
        BY <4>1, <4>2
    <3> QED
      BY <2>1, <2>2, <3>1
  <2> QED
    BY <2>3, <2>4, <2>5
<1>13. wsIndex' # wsIndex => Insert(c) \/ Drop(c)
  BY DEF HandlerStep, Count, Join, Leave, Snapshot, Store, Erase, Scan, Unlink, StorageFails
<1>14. wsTotal' # wsTotal => Count(c) \/ Drop(c)
  BY DEF HandlerStep, Insert, Join, Leave, Snapshot, Store, Erase, Scan, Unlink, StorageFails
<1>15. /\ \A d \in WsClients : d # c => wsReq'[d] = wsReq[d]
       /\ Inserting(c)' => Inserting(c) /\ wsReq'[c].ws = wsReq[c].ws /\ ~Insert(c)
       /\ c \in Counting' <=> Insert(c)
  BY <1>4, <1>11, <1>12
<1> QED
  BY <1>5, <1>6, <1>13, <1>14, <1>15

\* Every step keeps the inserts fresh.
LEMMA InsertsFreshStep ==
    ASSUME WorkspaceInv, NEW c \in WsClients, HandlerStep(c)
    PROVE  InsertsFresh'
<1>0. wsReq \in [WsClients -> {NoRequest} \cup UnderWay] /\ InsertsFresh
  BY DEF WorkspaceInv, WsTypeOK
<1>1. CASE Request(c)
  <2>1. PICK new \in UnderWay :
             /\ wsReq' = [wsReq EXCEPT ![c] = new] /\ new.plan \in FirstPlans
             /\ new.plan \in {<<"insert", "count", "save">>, <<"save", "insert", "count">>} =>
                  new.ws \notin wsIndex /\ \A d \in WsClients : wsReq[d] # NoRequest => wsReq[d].ws # new.ws
    BY <1>1, RequestArrives
  <2>2. wsReq'[c] = new /\ (\A d \in WsClients : d # c => wsReq'[d] = wsReq[d]) /\ wsIndex' = wsIndex
    BY <1>0, <1>1, <2>1 DEF Request
  <2>3. \A d \in WsClients : Inserting(d) => wsReq[d] # NoRequest
    BY DEF Inserting, NoRequest
  <2>4. Inserting(c)' => new.plan \in {<<"insert", "count", "save">>, <<"save", "insert", "count">>}
    BY <2>1, <2>2, FirstPlansFresh DEF Inserting
  <2>5. \A d \in WsClients : d # c => (Inserting(d)' <=> Inserting(d))
    BY <2>2 DEF Inserting
  <2> QED
    BY <1>0, <2>1, <2>2, <2>3, <2>4, <2>5 DEF InsertsFresh
<1>2. CASE ~Request(c)
  <2>1. /\ \A d \in WsClients : d # c => wsReq'[d] = wsReq[d]
        /\ Inserting(c)' => Inserting(c) /\ wsReq'[c].ws = wsReq[c].ws /\ ~Insert(c)
        /\ Insert(c) => Inserting(c)
        /\ wsIndex' # wsIndex => Insert(c) \/ Drop(c)
    BY <1>2, CreatesAdvance
  <2>2. \A d \in WsClients : Inserting(d)' => Inserting(d) /\ wsReq'[d].ws = wsReq[d].ws
    BY <2>1 DEF Inserting
  <2>3. \A d \in WsClients : Inserting(d)' => wsReq[d].ws \notin wsIndex'
    <3>1. CASE Insert(c)
      <4>1. wsIndex' = wsIndex \cup {wsReq[c].ws} /\ Inserting(c) /\ ~Inserting(c)'
        BY <2>1, <3>1 DEF Insert
      <4> QED
        BY <1>0, <2>2, <4>1 DEF InsertsFresh
    <3>2. CASE ~Insert(c)
      <4>1. wsIndex' \subseteq wsIndex
        BY <2>1, <3>2 DEF Drop
      <4> QED
        BY <1>0, <2>2, <4>1 DEF InsertsFresh
    <3> QED
      BY <3>1, <3>2
  <2> QED
    BY <1>0, <2>2, <2>3 DEF InsertsFresh
<1> QED
  BY <1>1, <1>2

WsBalance == Cardinality(wsIndex) - Cardinality(Counting)

LEMMA WsFinite ==
    ASSUME WorkspaceInv
    PROVE  /\ IsFiniteSet(wsIndex) /\ IsFiniteSet(Counting)
           /\ Cardinality(wsIndex) \in Nat /\ Cardinality(Counting) \in Nat /\ WsBalance \in Int
<1>1. wsIndex \subseteq WsIds /\ Counting \subseteq WsClients
  BY DEF WorkspaceInv, WsTypeOK, Counting
<1>2. IsFiniteSet(wsIndex) /\ IsFiniteSet(Counting)
  BY <1>1, WorkspaceAssumption, FS_Subset
<1>3. Cardinality(wsIndex) \in Nat /\ Cardinality(Counting) \in Nat
  BY <1>2, FS_CardinalityType
<1> QED
  BY <1>2, <1>3 DEF WsBalance

LEMMA WsWrapPositive == WsWrap \in Nat /\ WsWrap > 0
<1>1. Cardinality(WsIds) \in Nat
  BY WorkspaceAssumption, FS_CardinalityType
<1> QED
  BY <1>1, WorkspaceAssumption

\* Every step keeps the counter and the balance together: it wraps below zero
\* when a workspace is dropped before its create has counted it, and wraps
\* back.
LEMMA CountFollowsStep ==
    ASSUME WorkspaceInv, NEW c \in WsClients, HandlerStep(c)
    PROVE  CountFollows'
<1>0. wsReq \in [WsClients -> {NoRequest} \cup UnderWay] /\ InsertsFresh /\ wsTotal = WsBalance % WsWrap
  BY DEF WorkspaceInv, WsTypeOK, CountFollows, WsBalance
<1>1. SUFFICES wsTotal' = WsBalance' % WsWrap
  BY DEF CountFollows, WsBalance
<1>2. CASE Request(c)
  <2>1. PICK new \in UnderWay : wsReq' = [wsReq EXCEPT ![c] = new] /\ new.plan \in FirstPlans
    BY <1>2, RequestArrives
  <2>2. wsReq[c] = NoRequest /\ wsIndex' = wsIndex /\ wsTotal' = wsTotal
    BY <1>2 DEF Request
  <2>3. c \notin Counting
    BY <2>2 DEF Counting, NoRequest
  <2>4. new.plan \notin {<<"count", "save">>, <<"count">>}
    BY <2>1, FirstPlansFresh
  <2>5. Counting' = Counting
    BY <1>0, <2>1, <2>3, <2>4 DEF Counting
  <2> QED
    BY <1>0, <2>2, <2>5 DEF WsBalance
<1>3. ASSUME ~Request(c)
      PROVE  /\ Counting' \ {c} = Counting \ {c}
             /\ c \in Counting' <=> Insert(c)
             /\ c \in Counting <=> Count(c)
             /\ Insert(c) => Inserting(c)
             /\ wsIndex' # wsIndex => Insert(c) \/ Drop(c)
             /\ wsTotal' # wsTotal => Count(c) \/ Drop(c)
  BY <1>3, CreatesAdvance DEF Counting
<1>4. ASSUME ~Request(c), Insert(c) PROVE wsTotal' = WsBalance' % WsWrap
  <2>1. wsReq[c].ws \notin wsIndex /\ wsIndex' = wsIndex \cup {wsReq[c].ws} /\ wsTotal' = wsTotal
    BY <1>0, <1>3, <1>4 DEF Insert, InsertsFresh
  <2>2. ~Count(c)
    <3>1. Head(wsReq[c].plan) = "insert"
      BY <1>4 DEF Insert, Doing
    <3> QED
      BY <3>1 DEF Count, Doing
  <2>3. c \notin Counting /\ Counting' = Counting \cup {c}
    BY <1>3, <1>4, <2>2
  <2>4. Cardinality(wsIndex') = Cardinality(wsIndex) + 1
    BY <2>1, WsFinite, FS_AddElement
  <2>5. Cardinality(Counting') = Cardinality(Counting) + 1
    BY <2>3, WsFinite, FS_AddElement
  <2>6. WsBalance' = WsBalance
    BY <2>4, <2>5, WsFinite DEF WsBalance
  <2> QED
    BY <1>0, <2>1, <2>6
<1>5. ASSUME ~Request(c), Count(c) PROVE wsTotal' = WsBalance' % WsWrap
  <2>1. wsIndex' = wsIndex /\ wsTotal' = (wsTotal + 1) % WsWrap
    BY <1>5 DEF Count
  <2>2. ~Insert(c)
    <3>1. Head(wsReq[c].plan) = "count"
      BY <1>5 DEF Count, Doing
    <3> QED
      BY <3>1 DEF Insert, Doing
  <2>3. c \in Counting /\ Counting' = Counting \ {c}
    BY <1>3, <1>5, <2>2
  <2>4. Cardinality(Counting') = Cardinality(Counting) - 1
    BY <2>3, WsFinite, FS_RemoveElement
  <2>5. WsBalance' = WsBalance + 1
    BY <2>1, <2>4, WsFinite DEF WsBalance
  <2>6. PICK b \in Int : b = WsBalance
    BY WsFinite
  <2>7. ((b % WsWrap) + 1) % WsWrap = (b + 1) % WsWrap
    <3>1. 1 \in Int
      OBVIOUS
    <3> QED
      BY <3>1, WsWrapPositive, ModAbsorb, Zenon
  <2> QED
    BY <1>0, <2>1, <2>5, <2>6, <2>7, Zenon
<1>6. ASSUME ~Request(c), Drop(c) PROVE wsTotal' = WsBalance' % WsWrap
  <2>1. ~Insert(c) /\ ~Count(c)
    <3>1. Head(wsReq[c].plan) = "drop"
      BY <1>6 DEF Drop, Doing
    <3> QED
      BY <3>1 DEF Insert, Count, Doing
  <2>2. Counting' = Counting
    BY <1>3, <1>6, <2>1
  <2>3. CASE wsReq[c].ws \in wsIndex
    <3>1. /\ wsIndex' = wsIndex \ {wsReq[c].ws} /\ wsTotal' = (wsTotal + WsWrap - 1) % WsWrap
      BY <1>6, <2>3 DEF Drop, DropCounts
    <3>2. Cardinality(wsIndex') = Cardinality(wsIndex) - 1
      BY <2>3, <3>1, WsFinite, FS_RemoveElement
    <3>3. WsBalance' = WsBalance - 1
      BY <2>2, <3>2, WsFinite DEF WsBalance
    <3>4. PICK b \in Int, m \in Int, a \in Int : b = WsBalance /\ m = WsWrap - 1 /\ a = b - 1
      BY WsFinite, WsWrapPositive
    <3>5. wsTotal' = ((b % WsWrap) + m) % WsWrap
      <4>1. wsTotal \in Int
        <5>1. b % WsWrap \in Int
          BY WsWrapPositive
        <5> QED
          BY <1>0, <3>4, <5>1
      <4>2. wsTotal + WsWrap - 1 = wsTotal + m
        BY <3>4, <4>1, WsWrapPositive
      <4> QED
        BY <1>0, <3>1, <3>4, <4>2
    <3>6. ((b % WsWrap) + m) % WsWrap = (b + m) % WsWrap
      BY WsWrapPositive, ModAbsorb
    <3>7. b + m = a + WsWrap
      BY <3>4, WsWrapPositive
    <3>8. (a + WsWrap) % WsWrap = a % WsWrap
      BY WsWrapPositive, ModShift
    <3>9. WsBalance' = a
      BY <3>3, <3>4
    <3> QED
      BY <3>5, <3>6, <3>7, <3>8, <3>9, Zenon
  <2>4. CASE wsReq[c].ws \notin wsIndex
    <3>1. wsIndex' = wsIndex /\ wsTotal' = wsTotal
      BY <1>6, <2>4 DEF Drop, DropCounts
    <3> QED
      BY <1>0, <2>2, <3>1 DEF WsBalance
  <2> QED
    BY <2>3, <2>4
<1>7. ASSUME ~Request(c), ~Insert(c), ~Count(c), ~Drop(c) PROVE wsTotal' = WsBalance' % WsWrap
  <2>1. wsIndex' = wsIndex /\ wsTotal' = wsTotal /\ Counting' = Counting
    BY <1>3, <1>7
  <2> QED
    BY <1>0, <2>1 DEF WsBalance
<1> QED
  BY <1>2, <1>4, <1>5, <1>6, <1>7

\* A restart keeps what is stored: no handler survives it, and the manager is
\* what storage lists.
LEMMA RestartKeeps ==
    ASSUME WorkspaceInv, Restart PROVE WorkspaceInv'
<1>1. /\ wsIndex' = {w \in WsIds : wsRow[w] # NoRow} /\ wsTotal' = Cardinality(wsIndex') % WsWrap
      /\ wsReq' = [c \in WsClients |-> NoRequest]
      /\ UNCHANGED <<wsRow, wsLink, wsPromised, wsDropped>>
  BY DEF Restart
<1>2. WsTypeOK'
  BY <1>1 DEF WorkspaceInv, WsTypeOK
<1>3. Busy' = {} /\ Counting' = {} /\ \A c \in WsClients : ~Inserting(c)'
  BY <1>1 DEF Busy, Counting, Inserting, NoRequest
<1>4. PromisesStored' /\ InsertsFresh'
  BY <1>1, <1>3 DEF WorkspaceInv, PromisesStored, InsertsFresh
<1>5. IsFiniteSet(wsIndex')
  BY <1>1, WorkspaceAssumption, FS_Subset
<1>6. Cardinality(wsIndex') - Cardinality(Counting') = Cardinality(wsIndex')
  BY <1>3, <1>5, FS_EmptySet, FS_CardinalityType
<1>7. CountFollows'
  BY <1>1, <1>6 DEF CountFollows
<1> QED
  BY <1>2, <1>3, <1>4, <1>7 DEF WorkspaceInv

\* What clients were told about workspaces survives the steps of other
\* handlers, storage failures and restarts until somebody asks for deletion,
\* and between requests the wrapping counter is the number of workspaces, for
\* any number of clients, workspaces and sessions.
THEOREM WorkspacesAreSound == WorkspaceSpec => []WorkspacesSound
<1>1. WorkspaceInit => WorkspaceInv
  <2> SUFFICES ASSUME WorkspaceInit PROVE WorkspaceInv
    OBVIOUS
  <2>1. WsTypeOK
    BY DEF WorkspaceInit, WsTypeOK, NoMembers
  <2>2. Busy = {} /\ Counting = {} /\ \A c \in WsClients : ~Inserting(c)
    BY DEF WorkspaceInit, Busy, Counting, Inserting, NoRequest
  <2>3. PromisesStored /\ InsertsFresh
    BY <2>2 DEF WorkspaceInit, PromisesStored, InsertsFresh
  <2>4. Cardinality(wsIndex) - Cardinality(Counting) = 0
    BY <2>2, FS_EmptySet DEF WorkspaceInit
  <2>5. 0 % WsWrap = 0
    <3>1. 0 \in 0 .. WsWrap - 1
      BY WsWrapPositive
    <3> QED
      BY <3>1, WsWrapPositive, ModSmall
  <2>6. CountFollows
    BY <2>4, <2>5 DEF CountFollows, WorkspaceInit
  <2> QED
    BY <2>1, <2>2, <2>3, <2>6 DEF WorkspaceInv
<1>2. WorkspaceInv /\ [WorkspaceNext]_workspaceVars => WorkspaceInv'
  <2> SUFFICES ASSUME WorkspaceInv, [WorkspaceNext]_workspaceVars PROVE WorkspaceInv'
    OBVIOUS
  <2>1. ASSUME NEW c \in WsClients, HandlerStep(c) PROVE WorkspaceInv'
    <3>1. RequestsFine /\ InsertsFresh' /\ CountFollows'
      BY <2>1, HandlerStepFine, InsertsFreshStep, CountFollowsStep
    <3>2. WsTypeOK'
      BY <2>1, <3>1, StepKeepsWorld DEF RequestsFine, WsTypeOK
    <3>3. \A d \in Busy' : StepsStand(d)'
      BY <3>1 DEF RequestsFine, Busy
    <3> QED
      BY <3>1, <3>2, <3>3 DEF RequestsFine, WorkspaceInv
  <2>2. CASE Restart
    BY <2>2, RestartKeeps
  <2>3. CASE UNCHANGED workspaceVars
    BY <2>3 DEF workspaceVars, WorkspaceInv, WsTypeOK, Busy, StepsStand, PromisesStored,
                InsertsFresh, Inserting, CountFollows, Counting
  <2>4. WorkspaceNext => Restart \/ \E c \in WsClients : HandlerStep(c)
    BY DEF WorkspaceNext, HandlerStep
  <2> QED
    BY <2>1, <2>2, <2>3, <2>4
<1>3. WorkspaceInv => WorkspacesSound
  <2> SUFFICES ASSUME WorkspaceInv PROVE WorkspacesSound
    OBVIOUS
  <2>1. AnsweredSurvives
    BY DEF WorkspaceInv, PromisesStored, AnsweredSurvives, Listed
  <2>2. CountAgrees
    <3> SUFFICES ASSUME Busy = {} PROVE wsTotal = Cardinality(wsIndex) % WsWrap
      BY DEF CountAgrees
    <3>1. Counting = {}
      BY DEF Busy, Counting, NoRequest
    <3>2. Cardinality(wsIndex) - Cardinality(Counting) = Cardinality(wsIndex)
      BY <3>1, WsFinite, FS_EmptySet
    <3> QED
      BY <3>2 DEF WorkspaceInv, CountFollows
  <2> QED
    BY <2>1, <2>2 DEF WorkspacesSound
<1> QED
  BY <1>1, <1>2, <1>3, PTL DEF WorkspaceSpec

(***************************************************************************)
(* Messages.                                                               *)
(***************************************************************************)

\* What an append keeps, of the stream st it starts from: the rows below the
\* next position, positions to come that are free, and the agreement of turn
\* index and rows.
StreamOf(st, low, high) ==
    /\ st.rows \in [Positions -> MessageRows \cup {NoMessage}]
    /\ st.turns \in [Turns -> Positions \cup {NoSeq}]
    /\ st.next \in low .. high
    /\ \A s \in Positions : s >= st.next => st.rows[s] = NoMessage

StreamAgrees(st) ==
    /\ \A s \in Positions : st.rows[s] # NoMessage => st.turns[st.rows[s].turn] = s
    /\ \A t \in Turns : st.turns[t] # NoSeq =>
          /\ st.turns[t] \in Positions /\ st.rows[st.turns[t]] # NoMessage
          /\ st.rows[st.turns[t]].turn = t

\* One message of a batch.
LEMMA AppendOneKeeps ==
    ASSUME NEW low \in Nat, NEW high \in Nat, high < MaxSeq,
           NEW st, StreamOf(st, low, high), NEW m \in MessageRows,
           NEW r, r = AppendOne(st, m)
    PROVE  /\ StreamOf(r, low, high + 1)
           /\ \A s \in Positions : s < low => r.rows[s] = st.rows[s]
           /\ StreamAgrees(st) => StreamAgrees(r)
<1> USE MessageAssumption DEF Positions, NoSeq
<1>1. m # NoMessage /\ m.turn \in Turns
  BY DEF MessageRows, NoMessage
<1>2. CASE st.turns[m.turn] # NoSeq
  <2>1. r = st
    BY <1>2 DEF AppendOne
  <2>2. st.next \in low .. high + 1
    BY DEF StreamOf
  <2> QED
    BY <2>1, <2>2 DEF StreamOf
<1>3. CASE st.turns[m.turn] = NoSeq
  <2>1. /\ r.rows = [st.rows EXCEPT ![st.next] = m]
        /\ r.turns = [st.turns EXCEPT ![m.turn] = st.next]
        /\ r.next = st.next + 1
    BY <1>3 DEF AppendOne
  <2>2. st.next \in Positions /\ st.next \in low .. high /\ st.rows[st.next] = NoMessage
    BY DEF StreamOf
  <2>3. /\ st.rows \in [Positions -> MessageRows \cup {NoMessage}]
        /\ st.turns \in [Turns -> Positions \cup {NoSeq}]
    BY DEF StreamOf
  <2>4. /\ r.rows[st.next] = m
        /\ \A s \in Positions : s # st.next => r.rows[s] = st.rows[s]
    BY <2>1, <2>2, <2>3
  <2>5. /\ r.turns[m.turn] = st.next
        /\ \A t \in Turns : t # m.turn => r.turns[t] = st.turns[t]
    BY <1>1, <2>1, <2>2, <2>3
  <2>6. r.rows \in [Positions -> MessageRows \cup {NoMessage}]
    BY <2>1, <2>2, <2>3
  <2>7. r.turns \in [Turns -> Positions \cup {NoSeq}]
    BY <1>1, <2>1, <2>2, <2>3
  <2>8. r.next \in low .. high + 1
    BY <2>1, <2>2
  <2>9. \A s \in Positions : s >= r.next => r.rows[s] = NoMessage
    BY <2>1, <2>2, <2>4 DEF StreamOf
  <2>10. ASSUME StreamAgrees(st) PROVE StreamAgrees(r)
    <3>1. ASSUME NEW s \in Positions, r.rows[s] # NoMessage PROVE r.turns[r.rows[s].turn] = s
      <4>1. CASE s = st.next
        BY <4>1, <2>4, <2>5
      <4>2. CASE s # st.next
        <5>1. r.rows[s] = st.rows[s] /\ st.rows[s] # NoMessage
          BY <4>2, <3>1, <2>4
        <5>2. st.turns[st.rows[s].turn] = s /\ s # NoSeq
          BY <5>1, <2>10 DEF StreamAgrees
        <5>3. st.rows[s].turn \in Turns
          BY <5>1, <2>3 DEF MessageRows
        <5>4. st.rows[s].turn # m.turn
          BY <5>2, <1>3
        <5> QED
          BY <5>1, <5>2, <5>3, <5>4, <2>5
      <4> QED
        BY <4>1, <4>2
    <3>2. ASSUME NEW t \in Turns, r.turns[t] # NoSeq
          PROVE  /\ r.turns[t] \in Positions /\ r.rows[r.turns[t]] # NoMessage
                 /\ r.rows[r.turns[t]].turn = t
      <4>1. CASE t = m.turn
        BY <4>1, <1>1, <2>2, <2>4, <2>5
      <4>2. CASE t # m.turn
        <5>1. r.turns[t] = st.turns[t]
          BY <4>2, <2>5
        <5>2. /\ st.turns[t] \in Positions /\ st.rows[st.turns[t]] # NoMessage
              /\ st.rows[st.turns[t]].turn = t
          BY <5>1, <3>2, <2>10 DEF StreamAgrees
        <5> QED
          BY <5>1, <5>2, <2>2, <2>4
      <4> QED
        BY <4>1, <4>2
    <3> QED
      BY <3>1, <3>2 DEF StreamAgrees
  <2>11. \A s \in Positions : s < low => r.rows[s] = st.rows[s]
    BY <2>2, <2>4
  <2> QED
    BY <2>6, <2>7, <2>8, <2>9, <2>10, <2>11 DEF StreamOf
<1> QED
  BY <1>2, <1>3

\* The streams after each message of a batch: the recursive function exists.
LEMMA AppendToSteps ==
    ASSUME NEW st, NEW b, Len(b) \in Nat
    PROVE  \E f : /\ AppendTo(st, b) = f[Len(b)] /\ f[0] = st
                  /\ \A n \in 1 .. Len(b) : f[n] = AppendOne(f[n - 1], b[n])
<1> DEFINE N == Len(b)
           Steps(k, g) == g = [n \in 0 .. k |-> IF n = 0 THEN st ELSE AppendOne(g[n - 1], b[n])]
           Bad == {k \in 0 .. N : ~\E g : Steps(k, g)}
<1>1. Bad = {}
  <2> SUFFICES ASSUME Bad # {} PROVE FALSE
    OBVIOUS
  <2>1. Bad \in SUBSET Nat
    OBVIOUS
  <2>2. PICK k \in Bad : \A j \in Bad : k <= j
    BY <2>1, LeastNat
  <2>3. k # 0
    <3>1. Steps(0, [n \in 0 .. 0 |-> st])
      OBVIOUS
    <3> QED
      BY <2>2, <3>1
  <2>4. k - 1 \in 0 .. N /\ k - 1 \notin Bad /\ k \in 1 .. N
    <3>1. k \in 0 .. N
      BY <2>2
    <3>2. k - 1 \in 0 .. N /\ k \in 1 .. N /\ ~(k <= k - 1)
      BY <2>3, <3>1
    <3> HIDE DEF Bad
    <3> QED
      BY <2>2, <3>2
  <2>5. PICK g : Steps(k - 1, g)
    BY <2>4
  <2> DEFINE h == [n \in 0 .. k |-> IF n = k THEN AppendOne(g[k - 1], b[k]) ELSE g[n]]
  <2>6. \A n \in 0 .. k - 1 : g[n] = IF n = 0 THEN st ELSE AppendOne(g[n - 1], b[n])
    BY <2>5
  <2>7. Steps(k, h)
    <3>1. ASSUME NEW n \in 0 .. k PROVE h[n] = IF n = 0 THEN st ELSE AppendOne(h[n - 1], b[n])
      <4>1. CASE n = 0
        BY <4>1, <2>4, <2>6
      <4>2. CASE n = k
        BY <4>2, <2>4
      <4>3. CASE n # 0 /\ n # k
        <5>1. n \in 0 .. k - 1 /\ n - 1 \in 0 .. k /\ n - 1 # k
          BY <4>3, <2>4
        <5> QED
          BY <4>3, <5>1, <2>6
      <4> QED
        BY <4>1, <4>2, <4>3
    <3> QED
      BY <3>1
  <2> QED
    BY <2>2, <2>7
<1>2. N \in 0 .. N
  OBVIOUS
<1>3. \E g : Steps(N, g)
  BY <1>1, <1>2
<1>4. PICK f : Steps(N, f) /\ AppendTo(st, b) = f[N]
  BY <1>3 DEF AppendTo
<1>5. f[0] = st
  BY <1>4
<1>6. \A n \in 1 .. N : f[n] = AppendOne(f[n - 1], b[n])
  BY <1>4
<1> QED
  BY <1>4, <1>5, <1>6

\* A whole batch.
LEMMA AppendToKeeps ==
    ASSUME MessageInv, NEW b \in Batches, nextSeq + Len(b) <= MaxSeq,
           NEW r, r = AppendTo(Stream, b)
    PROVE  /\ StreamOf(r, nextSeq, MaxSeq)
           /\ \A s \in Positions : s < nextSeq => r.rows[s] = message[s]
           /\ ~crossed => StreamAgrees(r)
<1>1. b \in Seq(MessageRows) /\ Len(b) \in Nat /\ nextSeq \in Nat /\ MaxSeq \in Nat
  <2>1. b \in Seq(MessageRows)
    BY MessageAssumption DEF MessageRows
  <2>2. nextSeq \in Nat /\ MaxSeq \in Nat
    BY MessageAssumption DEF MessageInv, MessageTypeOK
  <2>3. Len(b) \in Nat
    BY <2>1, LenProperties
  <2> QED
    BY <2>1, <2>2, <2>3
<1>2. PICK f : /\ AppendTo(Stream, b) = f[Len(b)] /\ f[0] = Stream
               /\ \A n \in 1 .. Len(b) : f[n] = AppendOne(f[n - 1], b[n])
  BY <1>1, AppendToSteps
<1> DEFINE Good(n) == /\ StreamOf(f[n], nextSeq, nextSeq + n)
                      /\ \A s \in Positions : s < nextSeq => f[n].rows[s] = message[s]
                      /\ ~crossed => StreamAgrees(f[n])
           Bad == {n \in 0 .. Len(b) : ~Good(n)}
<1>3. Good(0)
  <2>1. f[0].rows = message /\ f[0].turns = turnSeq /\ f[0].next = nextSeq
    BY <1>2 DEF Stream
  <2>2. StreamOf(f[0], nextSeq, nextSeq + 0)
    BY <1>1, <2>1 DEF MessageInv, MessageTypeOK, AheadIsFree, StreamOf
  <2>3. ~crossed => StreamAgrees(f[0])
    BY <2>1 DEF MessageInv, TurnsAgree, StreamAgrees, Stored
  <2> QED
    BY <2>1, <2>2, <2>3
<1>4. Bad = {}
  <2> SUFFICES ASSUME Bad # {} PROVE FALSE
    OBVIOUS
  <2>1. Bad \in SUBSET Nat
    BY <1>1
  <2> HIDE DEF Good
  <2>2. PICK k \in Bad : \A j \in Bad : k <= j
    BY <2>1, LeastNat
  <2>3. k # 0
    BY <1>3, <2>2
  <2>4. k - 1 \in 0 .. Len(b) /\ k - 1 \in Nat /\ k \in 1 .. Len(b) /\ k - 1 \notin Bad
    BY <1>1, <2>2, <2>3
  <2>5. Good(k - 1)
    BY <2>4
  <2>6. b[k] \in MessageRows
    BY <1>1, <2>4
  <2>7. PICK high \in Nat : high = nextSeq + (k - 1)
    BY <1>1, <2>4
  <2>8. high < MaxSeq /\ high + 1 = nextSeq + k
    BY <1>1, <2>4, <2>7
  <2>9. f[k] = AppendOne(f[k - 1], b[k])
    BY <1>2, <2>4
  <2>10. StreamOf(f[k - 1], nextSeq, high)
    BY <2>5, <2>7 DEF Good
  <2>11. /\ StreamOf(f[k], nextSeq, high + 1)
         /\ \A s \in Positions : s < nextSeq => f[k].rows[s] = f[k - 1].rows[s]
         /\ StreamAgrees(f[k - 1]) => StreamAgrees(f[k])
    BY <1>1, <2>6, <2>8, <2>9, <2>10, AppendOneKeeps
  <2>12. Good(k)
    BY <2>5, <2>8, <2>11 DEF Good
  <2> QED
    BY <2>2, <2>12
<1>5. Good(Len(b))
  BY <1>1, <1>4
<1>6. r = f[Len(b)]
  BY <1>2
<1>7. StreamOf(r, nextSeq, MaxSeq)
  <2>1. StreamOf(r, nextSeq, nextSeq + Len(b))
    BY <1>5, <1>6
  <2>2. r.next \in nextSeq .. MaxSeq
    BY <1>1, <2>1 DEF StreamOf
  <2> QED
    BY <2>1, <2>2 DEF StreamOf
<1> QED
  BY <1>5, <1>6, <1>7

\* The initial states satisfy the invariant.
LEMMA MessageInitInv ==
    ASSUME MessageInit PROVE MessageInv
<1>1. MessageTypeOK
  <2>1. nextSeq \in 0 .. MaxSeq
    BY MessageAssumption DEF MessageInit
  <2> QED
    BY <2>1 DEF MessageInit, MessageTypeOK
<1>2. AheadIsFree /\ ScanStands
  BY DEF MessageInit, AheadIsFree, ScanStands
<1>3. TurnsAgree
  BY DEF MessageInit, TurnsAgree, Stored
<1> QED
  BY <1>1, <1>2, <1>3 DEF MessageInv, MessageInit

\* append_messages.
LEMMA AppendKeeps ==
    ASSUME MessageInv, NEW b \in Batches, AppendMessages(b)
    PROVE  /\ MessageInv'
           /\ \A s \in Positions : message[s] = NoMessage /\ message'[s] # NoMessage => s \notin used
<1>1. PICK r : r = AppendTo(Stream, b)
  OBVIOUS
<1>2. /\ nextSeq + Len(b) <= MaxSeq
      /\ message' = r.rows /\ turnSeq' = r.turns /\ nextSeq' = r.next
      /\ used' = used \cup {s \in Positions : message[s] = NoMessage /\ r.rows[s] # NoMessage}
      /\ scanned' = scanned /\ sweeping' = sweeping /\ crossed' = crossed
  BY <1>1 DEF AppendMessages
<1>3. /\ StreamOf(r, nextSeq, MaxSeq)
      /\ \A s \in Positions : s < nextSeq => message'[s] = message[s]
      /\ ~crossed => StreamAgrees(r)
  BY <1>1, <1>2, AppendToKeeps
<1>4. MessageTypeOK
  BY DEF MessageInv
<1>5. nextSeq' \in nextSeq .. MaxSeq /\ nextSeq \in Nat /\ MaxSeq \in Nat
  BY <1>2, <1>3, <1>4, MessageAssumption DEF StreamOf, MessageTypeOK
<1>6. MessageTypeOK'
  BY <1>2, <1>3, <1>4, <1>5 DEF StreamOf, MessageTypeOK
<1>7. \A s \in Positions : s < nextSeq \/ s >= nextSeq
  BY <1>5 DEF Positions
<1>8. ASSUME NEW s \in Positions, message[s] = NoMessage, message'[s] # NoMessage
      PROVE  s \notin used /\ s < nextSeq'
  <2>1. s >= nextSeq
    BY <1>3, <1>7, <1>8
  <2>2. s < nextSeq'
    BY <1>2, <1>3, <1>5, <1>8 DEF StreamOf, Positions
  <2> QED
    BY <2>1, <2>2 DEF MessageInv, AheadIsFree
<1>9. AheadIsFree'
  <2> SUFFICES ASSUME NEW s \in Positions, s >= nextSeq'
               PROVE  message'[s] = NoMessage /\ s \notin used'
    BY DEF AheadIsFree
  <2>1. message'[s] = NoMessage
    BY <1>2, <1>3 DEF StreamOf
  <2>2. s >= nextSeq
    BY <1>5 DEF Positions
  <2>3. s \notin used
    BY <2>2 DEF MessageInv, AheadIsFree
  <2> QED
    BY <1>2, <2>1, <2>3
<1>10. ScanStands'
  <2> SUFFICES ASSUME ~crossed, NEW m \in scanned
               PROVE  message'[m.seq] # NoMessage /\ message'[m.seq].turn = m.turn
    BY <1>2 DEF ScanStands
  <2>1. m.seq \in Positions /\ message[m.seq] # NoMessage /\ message[m.seq].turn = m.turn
    BY <1>4 DEF MessageInv, ScanStands, MessageTypeOK
  <2>2. m.seq < nextSeq
    BY <1>7, <2>1 DEF MessageInv, AheadIsFree
  <2> QED
    BY <1>3, <2>1, <2>2
<1>11. TurnsAgree'
  BY <1>2, <1>3 DEF TurnsAgree, StreamAgrees, Stored
<1> QED
  BY <1>2, <1>6, <1>8, <1>9, <1>10, <1>11 DEF MessageInv

\* delete_messages_before, its scan and its batch.
LEMMA RetentionKeeps ==
    ASSUME MessageInv, RetentionScan \/ RetentionWrite
    PROVE  /\ MessageInv'
           /\ \A s \in Positions : message'[s] # NoMessage => message[s] # NoMessage
<1>0. MessageTypeOK
  BY DEF MessageInv
<1>1. CASE RetentionScan
  <2>1. /\ message' = message /\ turnSeq' = turnSeq /\ nextSeq' = nextSeq
        /\ used' = used /\ crossed' = crossed /\ sweeping' = TRUE
        /\ scanned' = {[seq |-> s, turn |-> message[s].turn] : s \in {x \in Stored : message[x].old}}
    BY <1>1 DEF RetentionScan, streamVars
  <2>2. \A s \in Stored : message[s] \in MessageRows /\ s \in Positions /\ message[s] # NoMessage
    BY <1>0 DEF MessageTypeOK, Stored
  <2>3. scanned' \subseteq [seq : Positions, turn : Turns]
    BY <2>1, <2>2 DEF MessageRows
  <2>4. MessageTypeOK'
    BY <1>0, <2>1, <2>3 DEF MessageTypeOK
  <2>5. ScanStands'
    <3> SUFFICES ASSUME NEW m \in scanned'
                 PROVE  message[m.seq] # NoMessage /\ message[m.seq].turn = m.turn
      BY <2>1 DEF ScanStands
    <3>1. PICK s \in Stored : m = [seq |-> s, turn |-> message[s].turn]
      BY <2>1
    <3> QED
      BY <3>1, <2>2
  <2>6. AheadIsFree' /\ TurnsAgree'
    BY <2>1 DEF MessageInv, AheadIsFree, TurnsAgree, Stored
  <2> QED
    BY <2>1, <2>4, <2>5, <2>6 DEF MessageInv
<1>2. CASE RetentionWrite
  <2>1. /\ message' = [s \in Positions |->
                     IF \E m \in scanned : m.seq = s THEN NoMessage ELSE message[s]]
        /\ turnSeq' = [t \in Turns |->
                     IF \E m \in scanned : m.turn = t THEN NoSeq ELSE turnSeq[t]]
        /\ scanned' = {} /\ sweeping' = FALSE /\ nextSeq' = nextSeq /\ used' = used
        /\ crossed' = crossed
    BY <1>2 DEF RetentionWrite
  <2>2. MessageTypeOK'
    BY <1>0, <2>1 DEF MessageTypeOK
  <2>3. \A s \in Positions : message'[s] # NoMessage => message'[s] = message[s]
    BY <2>1
  <2>4. AheadIsFree'
    BY <2>1, <2>3 DEF MessageInv, AheadIsFree
  <2>5. TurnsAgree'
    <3> SUFFICES ASSUME ~crossed
                 PROVE  /\ \A s \in Positions : message'[s] # NoMessage => turnSeq'[message'[s].turn] = s
                        /\ \A t \in Turns : turnSeq'[t] # NoSeq =>
                             /\ turnSeq'[t] \in Positions /\ message'[turnSeq'[t]] # NoMessage
                             /\ message'[turnSeq'[t]].turn = t
      BY <2>1 DEF TurnsAgree, Stored
    <3>0. /\ \A s \in Positions : message[s] # NoMessage => turnSeq[message[s].turn] = s
          /\ \A t \in Turns : turnSeq[t] # NoSeq =>
               /\ turnSeq[t] \in Positions /\ message[turnSeq[t]] # NoMessage
               /\ message[turnSeq[t]].turn = t
      BY DEF MessageInv, TurnsAgree, Stored
    <3>1. \A m \in scanned : /\ m.seq \in Positions /\ m.turn \in Turns
                             /\ message[m.seq] # NoMessage /\ message[m.seq].turn = m.turn
      BY <1>0 DEF MessageInv, ScanStands, MessageTypeOK
    <3>2. ASSUME NEW s \in Positions, message'[s] # NoMessage PROVE turnSeq'[message'[s].turn] = s
      <4>1. message'[s] = message[s] /\ ~\E m \in scanned : m.seq = s
        BY <2>1, <3>2
      <4>2. message[s].turn \in Turns /\ turnSeq[message[s].turn] = s
        BY <1>0, <3>0, <3>2, <4>1 DEF MessageTypeOK, MessageRows
      <4>3. ~\E m \in scanned : m.turn = message[s].turn
        BY <3>0, <3>1, <4>1, <4>2
      <4> QED
        BY <2>1, <4>1, <4>2, <4>3
    <3>3. ASSUME NEW t \in Turns, turnSeq'[t] # NoSeq
          PROVE  /\ turnSeq'[t] \in Positions /\ message'[turnSeq'[t]] # NoMessage
                 /\ message'[turnSeq'[t]].turn = t
      <4>1. turnSeq'[t] = turnSeq[t] /\ ~\E m \in scanned : m.turn = t
        BY <2>1, <3>3
      <4>2. /\ turnSeq[t] \in Positions /\ message[turnSeq[t]] # NoMessage
            /\ message[turnSeq[t]].turn = t
        BY <3>0, <3>3, <4>1
      <4>3. ~\E m \in scanned : m.seq = turnSeq[t]
        BY <3>1, <4>1, <4>2
      <4>4. message'[turnSeq[t]] = message[turnSeq[t]]
        BY <2>1, <4>2, <4>3
      <4> QED
        BY <4>1, <4>2, <4>4
    <3> QED
      BY <3>2, <3>3
  <2>6. ScanStands'
    BY <2>1 DEF ScanStands
  <2> QED
    BY <2>1, <2>2, <2>3, <2>4, <2>5, <2>6 DEF MessageInv
<1> QED
  BY <1>1, <1>2

\* delete_session.
LEMMA DeleteStreamKeeps ==
    ASSUME MessageInv, DeleteStream
    PROVE  MessageInv' /\ \A s \in Positions : message'[s] = NoMessage
<1>1. /\ message' = [s \in Positions |-> NoMessage] /\ turnSeq' = [t \in Turns |-> NoSeq]
      /\ nextSeq' = 0 /\ used' = {} /\ crossed' = sweeping
      /\ scanned' = scanned /\ sweeping' = sweeping
  BY DEF DeleteStream
<1>2. MessageTypeOK'
  BY <1>1, MessageAssumption DEF MessageInv, MessageTypeOK
<1>3. AheadIsFree' /\ TurnsAgree'
  BY <1>1 DEF AheadIsFree, TurnsAgree, Stored
<1>4. ScanStands'
  BY <1>1 DEF MessageInv, ScanStands
<1> QED
  BY <1>1, <1>2, <1>3, <1>4 DEF MessageInv

\* Every step preserves the invariant and fills only positions never used.
LEMMA MessageStepInv ==
    ASSUME MessageInv, [MessageNext]_messageVars
    PROVE  /\ MessageInv'
           /\ \A s \in Positions : message[s] = NoMessage /\ message'[s] # NoMessage => s \notin used
<1>1. CASE UNCHANGED messageVars
  <2>1. /\ message' = message /\ turnSeq' = turnSeq /\ nextSeq' = nextSeq /\ scanned' = scanned
        /\ sweeping' = sweeping /\ used' = used /\ crossed' = crossed
    BY <1>1 DEF messageVars, streamVars
  <2> QED
    BY <2>1 DEF MessageInv, MessageTypeOK, AheadIsFree, ScanStands, TurnsAgree, Stored
<1>2. CASE MessageNext
  BY <1>2, AppendKeeps, RetentionKeeps, DeleteStreamKeeps DEF MessageNext
<1> QED
  BY <1>1, <1>2

\* However often turns are sent again, retention runs and the session is deleted,
\* turn index and rows agree, unless a delete fell between retention's scan and
\* its batch (append_messages, delete_messages_before, delete_session).
THEOREM TurnIndexAgrees == MessageSpec => []TurnsAgree
<1>1. MessageInv => TurnsAgree
  BY DEF MessageInv
<1> QED
  BY <1>1, MessageInitInv, MessageStepInv, PTL DEF MessageSpec

\* No append fills a position handed out before in the life of the session,
\* whatever retention deletes meanwhile (message_next is kept apart).
THEOREM PositionsAreNotReused == MessageSpec => PositionsNotReused
<1>1. MessageInv /\ [MessageNext]_messageVars =>
        [\A s \in Positions : message[s] = NoMessage /\ message'[s] # NoMessage
            => s \notin used]_messageVars
  BY MessageStepInv
<1> QED
  BY <1>1, MessageInitInv, MessageStepInv, PTL DEF MessageSpec, PositionsNotReused

(***************************************************************************)
(* Transfer.                                                               *)
(***************************************************************************)

\* What Tail, concatenation and the empty sequence do to the elements that
\* are still to be treated.
LEMMA TodoHead ==
    ASSUME NEW S, NEW q \in Seq(S), q # <<>>
    PROVE  Tail(q) \in Seq(S) /\ q[1] \in S /\ ToSet(q) = {q[1]} \cup ToSet(Tail(q))
<1>1. /\ Len(q) \in Nat \ {0} /\ DOMAIN q = 1 .. Len(q) /\ q[1] \in S
      /\ Tail(q) \in Seq(S) /\ DOMAIN Tail(q) = 1 .. (Len(q) - 1)
      /\ \A j \in 1 .. (Len(q) - 1) : Tail(q)[j] = q[j + 1]
  OBVIOUS
<1>2. ASSUME NEW x \in ToSet(q) PROVE x \in {q[1]} \cup ToSet(Tail(q))
  <2>1. PICK j \in 1 .. Len(q) : x = q[j]
    BY <1>1 DEF ToSet
  <2>2. CASE j = 1
    BY <2>1, <2>2
  <2>3. CASE j # 1
    <3>1. j - 1 \in 1 .. (Len(q) - 1) /\ x = Tail(q)[j - 1]
      BY <1>1, <2>1, <2>3
    <3> QED BY <1>1, <3>1 DEF ToSet
  <2> QED BY <2>2, <2>3
<1>3. ASSUME NEW x \in {q[1]} \cup ToSet(Tail(q)) PROVE x \in ToSet(q)
  <2>1. CASE x = q[1]
    BY <1>1, <2>1 DEF ToSet
  <2>2. CASE x \in ToSet(Tail(q))
    <3>1. PICK j \in 1 .. (Len(q) - 1) : x = Tail(q)[j]
      BY <1>1, <2>2 DEF ToSet
    <3>2. j + 1 \in 1 .. Len(q) /\ x = q[j + 1]
      BY <1>1, <3>1
    <3> QED BY <1>1, <3>2 DEF ToSet
  <2> QED BY <2>1, <2>2, <1>3
<1> QED BY <1>1, <1>2, <1>3

LEMMA TodoJoin ==
    ASSUME NEW S, NEW p \in Seq(S), NEW q \in Seq(S)
    PROVE  p \o q \in Seq(S) /\ ToSet(p \o q) = ToSet(p) \cup ToSet(q)
<1>1. /\ p \o q \in Seq(S) /\ DOMAIN (p \o q) = 1 .. (Len(p) + Len(q))
      /\ Len(p) \in Nat /\ Len(q) \in Nat /\ DOMAIN p = 1 .. Len(p) /\ DOMAIN q = 1 .. Len(q)
      /\ \A j \in 1 .. (Len(p) + Len(q)) :
            (p \o q)[j] = IF j <= Len(p) THEN p[j] ELSE q[j - Len(p)]
  OBVIOUS
<1>2. ASSUME NEW x \in ToSet(p \o q) PROVE x \in ToSet(p) \cup ToSet(q)
  <2>1. PICK j \in 1 .. (Len(p) + Len(q)) : x = (p \o q)[j]
    BY <1>1 DEF ToSet
  <2>2. j <= Len(p) => j \in DOMAIN p /\ x = p[j]
    BY <1>1, <2>1
  <2>3. ~(j <= Len(p)) => j - Len(p) \in DOMAIN q /\ x = q[j - Len(p)]
    BY <1>1, <2>1
  <2> QED BY <2>2, <2>3 DEF ToSet
<1>3. ASSUME NEW x \in ToSet(p) PROVE x \in ToSet(p \o q)
  <2>1. PICK j \in 1 .. Len(p) : x = p[j]
    BY <1>1, <1>3 DEF ToSet
  <2>2. j \in 1 .. (Len(p) + Len(q)) /\ x = (p \o q)[j]
    BY <1>1, <2>1
  <2> QED BY <1>1, <2>2 DEF ToSet
<1>4. ASSUME NEW x \in ToSet(q) PROVE x \in ToSet(p \o q)
  <2>1. PICK j \in 1 .. Len(q) : x = q[j]
    BY <1>1, <1>4 DEF ToSet
  <2>2. /\ j + Len(p) \in 1 .. (Len(p) + Len(q)) /\ ~(j + Len(p) <= Len(p))
        /\ (j + Len(p)) - Len(p) = j
    BY <1>1
  <2>3. x = (p \o q)[j + Len(p)]
    BY <1>1, <2>1, <2>2
  <2> QED BY <1>1, <2>2, <2>3 DEF ToSet
<1> QED BY <1>1, <1>2, <1>3, <1>4

LEMMA TodoEmpty == ToSet(<<>>) = {}
BY DEF ToSet

LEMMA OwnElements ==
    ASSUME NEW S, NEW q \in Seq(S) PROVE q \in Seq(ToSet(q))
<1>1. Len(q) \in Nat /\ q = [j \in 1 .. Len(q) |-> q[j]] /\ DOMAIN q = 1 .. Len(q)
  OBVIOUS
<1>2. \A j \in 1 .. Len(q) : q[j] \in ToSet(q)
  BY <1>1 DEF ToSet
<1> DEFINE T == ToSet(q)
<1> HIDE DEF T
<1>3. q \in [1 .. Len(q) -> T]
  BY <1>1, <1>2 DEF T
<1>4. q \in Seq(T)
  BY <1>1, <1>3
<1> QED BY <1>4 DEF T

\* An order of a finite set lists all of it.
LEMMA OrderIsOnto ==
    ASSUME NEW S, IsFiniteSet(S), NEW o \in SetToSeqs(S)
    PROVE  o \in Seq(S) /\ ToSet(o) = S
<1> DEFINE n == Cardinality(S)
<1>1. n \in Nat
  BY FS_CardinalityType
<1>2. o \in [1 .. n -> S] /\ \A i, j \in 1 .. n : i # j => o[i] # o[j]
  BY DEF SetToSeqs
<1>3. IsFiniteSet(1 .. n) /\ Cardinality(1 .. n) = n
  <2> HIDE DEF n
  <2>1. IsFiniteSet(1 .. n) /\ Cardinality(1 .. n) = IF 1 > n THEN 0 ELSE n - 1 + 1
    BY <1>1, FS_Interval
  <2> QED BY <1>1, <2>1
<1>4. o \in Injection(1 .. n, S)
  BY <1>2 DEF Injection, IsInjective
<1>5. o \in Surjection(1 .. n, S)
  BY <1>3, <1>4, FS_Injection
<1>6. o \in Seq(S) /\ DOMAIN o = 1 .. n
  <2> HIDE DEF n
  <2> QED BY <1>1, <1>2
<1>7. \A x \in S : \E j \in 1 .. n : o[j] = x
  BY <1>5 DEF Surjection
<1> HIDE DEF n
<1>8. ToSet(o) = S
  BY <1>2, <1>6, <1>7 DEF ToSet
<1> QED BY <1>6, <1>8

LEMMA FiniteTagged ==
    ASSUME NEW D, IsFiniteSet(D), NEW tag
    PROVE  IsFiniteSet({<<tag, x>> : x \in D})
<1> DEFINE T == {<<tag, x>> : x \in D}
           f == [x \in D |-> <<tag, x>>]
<1>1. f \in Surjection(D, T)
  BY DEF Surjection
<1> HIDE DEF f
<1> QED BY <1>1, FS_Surjection

LEMMA FiniteLinks ==
    ASSUME NEW D, IsFiniteSet(D), NEW w
    PROVE  IsFiniteSet({<<"link", <<w, s>>>> : s \in D})
<1> DEFINE T == {<<"link", <<w, s>>>> : s \in D}
           f == [s \in D |-> <<"link", <<w, s>>>>]
<1>1. f \in Surjection(D, T)
  BY DEF Surjection
<1> HIDE DEF f
<1> QED BY <1>1, FS_Surjection

LEMMA ItemsFinite ==
    ASSUME NEW data, IsStore(data) PROVE IsFiniteSet(Items(data))
<1> DEFINE A == {<<"session", s>> : s \in DOMAIN data.sessions}
           B == {<<"workspace", w>> : w \in DOMAIN data.workspaces}
           C == {<<"check", c>> : c \in data.checks}
           V == {<<"vectors", "all">>}
<1>1. IsFiniteSet(A) /\ IsFiniteSet(B) /\ IsFiniteSet(C) /\ IsFiniteSet(V)
  <2>1. IsFiniteSet(DOMAIN data.sessions) /\ IsFiniteSet(DOMAIN data.workspaces)
        /\ IsFiniteSet(data.checks)
    BY DEF IsStore
  <2>2. IsFiniteSet(A)
    BY <2>1, FiniteTagged, Zenon
  <2>3. IsFiniteSet(B)
    BY <2>1, FiniteTagged, Zenon
  <2>4. IsFiniteSet(C)
    BY <2>1, FiniteTagged, Zenon
  <2> QED BY <2>2, <2>3, <2>4, FS_Singleton
<1> HIDE DEF A, B, C, V
<1>2. IsFiniteSet(A \cup B)
  BY <1>1, FS_Union
<1>3. IsFiniteSet((A \cup B) \cup C)
  BY <1>1, <1>2, FS_Union
<1>4. IsFiniteSet(((A \cup B) \cup C) \cup V)
  BY <1>1, <1>3, FS_Union
<1> QED BY <1>4 DEF Items, A, B, C, V

LEMMA RowsOf ==
    ASSUME NEW store
    PROVE  \A x : x \in Rows(store) <=>
             \E s \in DOMAIN store.sessions : \E u \in store.sessions[s] : x = <<s, u>>
BY DEF Rows

LEMMA TransferInitInv == TransferInit => TransferInv
<1> SUFFICES ASSUME TransferInit PROVE TransferInv
  OBVIOUS
<1>1. trRun.kind = "none"
  BY DEF TransferInit, NoRun
<1>2. ASSUME NEW file \in trFile PROVE IsStore(file.data) /\ file.must = Rows(file.data)
  <2>1. PICK v : file = OldFile(v)
    BY <1>2 DEF TransferInit
  <2> QED BY <2>1, TransferAssumption DEF OldFile
<1>3. IsStore(trSource) /\ DOMAIN trTarget = StoreFields
  BY TransferAssumption DEF TransferInit
<1>4. TransferTypeOK
  BY <1>1, <1>2, <1>3 DEF TransferTypeOK, Importing
<1>5. ExportComplete
  BY <1>2 DEF ExportComplete
<1>6. ExportCollects /\ ImportPlaces
  BY <1>1 DEF ExportCollects, ImportPlaces, Importing
<1> QED BY <1>4, <1>5, <1>6 DEF TransferInv

\* A command that ends, by itself or not, leaves what it wrote.
LEMMA CommandEnds ==
    ASSUME TransferInv, trRun' = NoRun, trSource' = trSource, trTarget' = trTarget,
           trBackend' = trBackend, trFile' \subseteq trFile
    PROVE  TransferInv'
<1>1. trRun'.kind = "none"
  BY DEF NoRun
<1>2. TransferTypeOK'
  BY <1>1 DEF TransferInv, TransferTypeOK, Importing
<1>3. ExportComplete'
  BY DEF TransferInv, ExportComplete
<1>4. ExportCollects' /\ ImportPlaces'
  BY <1>1 DEF ExportCollects, ImportPlaces, Importing
<1> QED BY <1>2, <1>3, <1>4 DEF TransferInv

\* A step of an export: what it owes is loaded, left out or ahead.
LEMMA ExportStep ==
    ASSUME TransferInv, trRun'.kind = "export",
           trSource' = trSource, trTarget' = trTarget, trBackend' = trBackend, trFile' = trFile,
           DOMAIN trRun' = {"kind", "ask", "path", "todo", "blob", "stage", "lost", "page",
                            "compress", "data"},
           IsStore(trRun'.data), NEW S, trRun'.todo \in Seq(S),
           trMust' \subseteq Rows(trSource),
           \A x \in trMust' : x[1] \notin trRun'.lost /\ x[1] \notin ToSet(trRun'.todo)
                                => x \in Rows(trRun'.data),
           trRun'.stage # "sessions" => trRun'.todo = <<>>,
           trRun'.blob # {} => trRun'.todo # <<>>
    PROVE  TransferInv'
<1>1. trRun'.todo \in Seq(ToSet(trRun'.todo))
  BY OwnElements
<1>2. TransferTypeOK'
  BY <1>1 DEF TransferInv, TransferTypeOK, Importing
<1>3. ExportComplete'
  BY DEF TransferInv, ExportComplete
<1>4. ExportCollects' /\ ImportPlaces'
  BY DEF ExportCollects, ImportPlaces, Importing, Ahead
<1> QED BY <1>2, <1>3, <1>4 DEF TransferInv

LEMMA DaemonAddsInv == TransferInv /\ DaemonAdds => TransferInv'
<1> SUFFICES ASSUME TransferInv, DaemonAdds PROVE TransferInv'
  OBVIOUS
<1>1. PICK x \in TrNew :
        /\ x[1] \in DOMAIN trSource.sessions
        /\ trSource' = [trSource EXCEPT !.sessions[x[1]] = @ \cup {x[2]},
                                        !.vectors = @ \cup {x}]
  BY DEF DaemonAdds
<1>2. /\ trRun.kind = "export" /\ trRun' = trRun /\ trBackend' = trBackend
      /\ trTarget' = trTarget /\ trFile' = trFile /\ trMust' = trMust
  BY DEF DaemonAdds
<1>3. DOMAIN trSource = StoreFields /\ IsStore(trSource)
  BY DEF TransferInv, TransferTypeOK, IsStore
<1>4. /\ DOMAIN trSource' = StoreFields /\ trSource'.workspaces = trSource.workspaces
      /\ trSource'.checks = trSource.checks
      /\ trSource'.sessions = [trSource.sessions EXCEPT ![x[1]] = @ \cup {x[2]}]
  BY <1>1, <1>3 DEF StoreFields
<1>5. IsStore(trSource')
  BY <1>3, <1>4 DEF IsStore
<1>6. Rows(trSource) \subseteq Rows(trSource')
  <2> SUFFICES ASSUME NEW s \in DOMAIN trSource.sessions, NEW u \in trSource.sessions[s]
               PROVE  <<s, u>> \in Rows(trSource')
    BY RowsOf
  <2>1. s \in DOMAIN trSource'.sessions /\ u \in trSource'.sessions[s]
    BY <1>4
  <2> QED BY <2>1, RowsOf
<1>7. TransferTypeOK'
  BY <1>2, <1>5 DEF TransferInv, TransferTypeOK, Importing
<1>8. ExportComplete'
  BY <1>2 DEF TransferInv, ExportComplete
<1>9. ExportCollects' /\ ImportPlaces'
  BY <1>2, <1>6 DEF TransferInv, ExportCollects, ImportPlaces, Importing, Ahead
<1> QED BY <1>7, <1>8, <1>9 DEF TransferInv

LEMMA DaemonRemovesInv == TransferInv /\ DaemonRemoves => TransferInv'
<1> SUFFICES ASSUME TransferInv, DaemonRemoves PROVE TransferInv'
  OBVIOUS
<1>1. PICK x \in Rows(trSource) :
        /\ trSource' = [trSource EXCEPT !.sessions[x[1]] = @ \ {x[2]}, !.vectors = @ \ {x}]
        /\ trMust' = trMust \ {x}
  BY DEF DaemonRemoves
<1>2. /\ trRun.kind = "export" /\ trRun' = trRun /\ trBackend' = trBackend
      /\ trTarget' = trTarget /\ trFile' = trFile
  BY DEF DaemonRemoves
<1>3. DOMAIN trSource = StoreFields /\ IsStore(trSource)
  BY DEF TransferInv, TransferTypeOK, IsStore
<1>4. /\ DOMAIN trSource' = StoreFields /\ trSource'.workspaces = trSource.workspaces
      /\ trSource'.checks = trSource.checks
      /\ trSource'.sessions = [trSource.sessions EXCEPT ![x[1]] = @ \ {x[2]}]
  BY <1>1, <1>3 DEF StoreFields
<1>5. IsStore(trSource')
  BY <1>3, <1>4 DEF IsStore
<1>6. Rows(trSource) \ {x} \subseteq Rows(trSource')
  <2> SUFFICES ASSUME NEW s \in DOMAIN trSource.sessions, NEW u \in trSource.sessions[s],
                      <<s, u>> # x
               PROVE  <<s, u>> \in Rows(trSource')
    BY RowsOf
  <2>1. PICK t \in DOMAIN trSource.sessions : \E v \in trSource.sessions[t] : x = <<t, v>>
    BY RowsOf
  <2>2. s \in DOMAIN trSource'.sessions /\ u \in trSource'.sessions[s]
    BY <1>4, <2>1
  <2> QED BY <2>2, RowsOf
<1>7. TransferTypeOK'
  BY <1>2, <1>5 DEF TransferInv, TransferTypeOK, Importing
<1>8. ExportComplete'
  BY <1>2 DEF TransferInv, ExportComplete
<1>9. trMust' \subseteq Rows(trSource')
  BY <1>1, <1>2, <1>6 DEF TransferInv, ExportCollects
<1>10. ExportCollects' /\ ImportPlaces'
  BY <1>1, <1>2, <1>9 DEF TransferInv, ExportCollects, ImportPlaces, Importing, Ahead
<1> QED BY <1>7, <1>8, <1>10 DEF TransferInv

LEMMA BeginExportInv ==
    ASSUME TransferInv, NEW k \in TrKinds, NEW path, NEW compress,
           BeginExport(k, path, compress)
    PROVE  TransferInv'
<1>1. IsStore(trSource)
  BY DEF TransferInv, TransferTypeOK
<1>2. IsFiniteSet(Exported(k))
  BY <1>1, TransferAssumption DEF BeginExport, Exported, IsStore
<1> DEFINE data == IF k.kind = "workspace"
                   THEN [NoData EXCEPT !.workspaces =
                            [w \in {k.workspace} |-> trSource.workspaces[w]]]
                   ELSE NoData
<1>3. PICK order \in SetToSeqs(Exported(k)) :
        trRun' = [kind |-> "export", ask |-> k, path |-> path, todo |-> order, blob |-> {},
                  stage |-> "sessions", lost |-> {}, page |-> 0,
                  compress |-> IF compress = "unset" THEN FromPath(path) ELSE compress,
                  data |-> data]
  BY DEF BeginExport
<1>4. order \in Seq(Exported(k)) /\ ToSet(order) = Exported(k)
  BY <1>2, OrderIsOnto
<1>5. IsStore(data)
  <2>1. DOMAIN <<>> = {}
    OBVIOUS
  <2>2. IsStore(NoData)
    BY <2>1, FS_EmptySet DEF IsStore, NoData, StoreFields
  <2>3. CASE k.kind = "workspace"
    <3>1. /\ DOMAIN data = StoreFields /\ data.checks = {} /\ data.sessions = <<>>
          /\ data.workspaces = [w \in {k.workspace} |-> trSource.workspaces[w]]
      BY <2>3 DEF NoData, StoreFields
    <3>2. k.workspace \in DOMAIN trSource.workspaces
      BY <2>3 DEF BeginExport
    <3> HIDE DEF data
    <3>3. IsFiniteSet(DOMAIN data.workspaces) /\ IsFiniteSet(data.checks)
          /\ IsFiniteSet(DOMAIN data.sessions)
      BY <2>1, <3>1, FS_EmptySet, FS_Singleton
    <3>4. ASSUME NEW w \in DOMAIN data.workspaces
          PROVE  data.workspaces[w] = trSource.workspaces[w] /\ w \in DOMAIN trSource.workspaces
      BY <3>1, <3>2
    <3> QED BY <1>1, <3>1, <3>3, <3>4 DEF IsStore
  <2> QED BY <2>2, <2>3
<1> HIDE DEF data
<1>6. /\ trRun'.kind = "export" /\ trRun'.todo = order /\ trRun'.data = data
      /\ trRun'.stage = "sessions" /\ trRun'.blob = {}
      /\ DOMAIN trRun' = {"kind", "ask", "path", "todo", "blob", "stage", "lost", "page",
                          "compress", "data"}
  BY <1>3
<1>7. trMust' = {x \in Rows(trSource) : x[1] \in Exported(k)}
  BY DEF BeginExport
<1>8. /\ trSource' = trSource /\ trTarget' = trTarget /\ trBackend' = trBackend
      /\ trFile' = trFile
  BY DEF BeginExport
<1> QED BY <1>4, <1>5, <1>6, <1>7, <1>8, ExportStep

\* What an export in progress is.
LEMMA ExportFacts ==
    ASSUME TransferInv, trRun.kind = "export"
    PROVE  /\ DOMAIN trRun = {"kind", "ask", "path", "todo", "blob", "stage", "lost", "page",
                              "compress", "data"}
           /\ IsStore(trRun.data) /\ DOMAIN trRun.data = StoreFields /\ IsStore(trSource)
           /\ trRun.todo \in Seq(ToSet(trRun.todo))
           /\ trMust \subseteq Rows(trSource)
           /\ \A x \in trMust : x[1] \notin trRun.lost /\ x[1] \notin ToSet(trRun.todo)
                                  => x \in Rows(trRun.data)
           /\ trRun.stage # "sessions" => trRun.todo = <<>>
           /\ trRun.blob # {} => trRun.todo # <<>>
BY DEF TransferInv, TransferTypeOK, ExportCollects, Ahead, IsStore

LEMMA LoadBlobInv == TransferInv /\ LoadBlob => TransferInv'
<1> SUFFICES ASSUME TransferInv, LoadBlob PROVE TransferInv'
  OBVIOUS
<1>1. trRun.kind = "export" /\ trRun.todo # <<>>
  BY DEF LoadBlob, Exporting
<1>2. /\ trRun' = [trRun EXCEPT !.blob = {trSource.sessions[trRun.todo[1]]}]
      /\ trSource' = trSource /\ trTarget' = trTarget /\ trBackend' = trBackend
      /\ trFile' = trFile /\ trMust' = trMust
  BY DEF LoadBlob
<1>3. /\ DOMAIN trRun' = DOMAIN trRun /\ trRun'.kind = "export" /\ trRun'.todo = trRun.todo
      /\ trRun'.lost = trRun.lost /\ trRun'.data = trRun.data /\ trRun'.stage = trRun.stage
  BY <1>1, <1>2, ExportFacts
<1> QED BY <1>1, <1>2, <1>3, ExportFacts, ExportStep

LEMMA LoadRowsInv == TransferInv /\ LoadRows => TransferInv'
<1> SUFFICES ASSUME TransferInv, LoadRows PROVE TransferInv'
  OBVIOUS
<1> DEFINE s == trRun.todo[1]
           all == (UNION trRun.blob) \cup trSource.sessions[s]
<1>1. trRun.kind = "export" /\ trRun.stage = "sessions" /\ trRun.todo # <<>>
  BY ExportFacts DEF LoadRows, Exporting
<1>2. /\ Tail(trRun.todo) \in Seq(ToSet(trRun.todo))
      /\ ToSet(trRun.todo) = {s} \cup ToSet(Tail(trRun.todo))
  BY <1>1, ExportFacts, TodoHead
<1>3. /\ trRun' = [trRun EXCEPT !.todo = Tail(@), !.blob = {}, !.data.sessions = Put(@, s, all)]
      /\ trSource' = trSource /\ trTarget' = trTarget /\ trBackend' = trBackend
      /\ trFile' = trFile /\ trMust' = trMust
  BY DEF LoadRows
<1>4. trSource.sessions[s] \subseteq all
  OBVIOUS
<1> HIDE DEF all
<1>5. /\ DOMAIN trRun' = DOMAIN trRun /\ trRun'.kind = "export"
      /\ trRun'.todo = Tail(trRun.todo) /\ trRun'.lost = trRun.lost
      /\ trRun'.stage = "sessions" /\ trRun'.blob = {}
      /\ trRun'.data = [trRun.data EXCEPT !.sessions = Put(@, s, all)]
  BY <1>1, <1>3, ExportFacts
<1>6. /\ DOMAIN trRun'.data = StoreFields
      /\ trRun'.data.sessions = Put(trRun.data.sessions, s, all)
      /\ trRun'.data.workspaces = trRun.data.workspaces /\ trRun'.data.checks = trRun.data.checks
  BY <1>1, <1>5, ExportFacts DEF StoreFields
<1>7. /\ DOMAIN trRun'.data.sessions = DOMAIN trRun.data.sessions \cup {s}
      /\ \A t \in DOMAIN trRun.data.sessions \cup {s} :
           trRun'.data.sessions[t] = IF t = s THEN all ELSE trRun.data.sessions[t]
  BY <1>6 DEF Put
<1>8. IsStore(trRun'.data)
  <2>1. IsStore(trRun.data)
    BY <1>1, ExportFacts
  <2>2. IsFiniteSet(DOMAIN trRun'.data.sessions)
    <3>1. IsFiniteSet(DOMAIN trRun.data.sessions)
      BY <2>1 DEF IsStore
    <3>2. IsFiniteSet(DOMAIN trRun.data.sessions \cup {s})
      BY <3>1, FS_AddElement
    <3> QED BY <1>7, <3>2
  <2> QED BY <1>6, <2>1, <2>2 DEF IsStore
<1>9. ASSUME NEW x \in trMust, x[1] \notin trRun.lost, x[1] \notin ToSet(Tail(trRun.todo))
      PROVE  x \in Rows(trRun'.data)
  <2>1. PICK t \in DOMAIN trSource.sessions : \E u \in trSource.sessions[t] : x = <<t, u>>
    BY <1>1, ExportFacts, RowsOf
  <2>2. PICK u \in trSource.sessions[t] : x = <<t, u>>
    BY <2>1
  <2>3. CASE t = s
    BY <1>4, <1>7, <2>2, <2>3, RowsOf
  <2>4. CASE t # s
    <3>1. x \in Rows(trRun.data)
      BY <1>1, <1>2, <1>9, <2>2, <2>4, ExportFacts
    <3>2. t \in DOMAIN trRun.data.sessions /\ u \in trRun.data.sessions[t]
      BY <2>2, <3>1, RowsOf
    <3> QED BY <1>7, <2>2, <2>4, <3>2, RowsOf
  <2> QED BY <2>3, <2>4
<1> QED BY <1>1, <1>2, <1>3, <1>5, <1>8, <1>9, ExportFacts, ExportStep

LEMMA LoadFailsInv == TransferInv /\ LoadFails => TransferInv'
<1> SUFFICES ASSUME TransferInv, LoadFails PROVE TransferInv'
  OBVIOUS
<1>1. trRun.kind = "export" /\ trRun.stage = "sessions" /\ trRun.todo # <<>>
  BY DEF LoadFails, Exporting
<1>2. /\ trSource' = trSource /\ trTarget' = trTarget /\ trBackend' = trBackend
      /\ trFile' = trFile /\ trMust' = trMust
  BY DEF LoadFails
<1>3. CASE trRun' = NoRun
  BY <1>2, <1>3, CommandEnds
<1>4. CASE trRun' = [trRun EXCEPT !.todo = Tail(@), !.blob = {}, !.lost = @ \cup {trRun.todo[1]}]
  <2>1. /\ Tail(trRun.todo) \in Seq(ToSet(trRun.todo))
        /\ ToSet(trRun.todo) = {trRun.todo[1]} \cup ToSet(Tail(trRun.todo))
    BY <1>1, ExportFacts, TodoHead
  <2>2. /\ DOMAIN trRun' = DOMAIN trRun /\ trRun'.kind = "export"
        /\ trRun'.todo = Tail(trRun.todo) /\ trRun'.lost = trRun.lost \cup {trRun.todo[1]}
        /\ trRun'.stage = "sessions" /\ trRun'.blob = {} /\ trRun'.data = trRun.data
    BY <1>1, <1>4, ExportFacts
  <2> QED BY <1>1, <1>2, <2>1, <2>2, ExportFacts, ExportStep
<1> QED BY <1>3, <1>4 DEF LoadFails

LEMMA ListRestInv == TransferInv /\ ListRest => TransferInv'
<1> SUFFICES ASSUME TransferInv, ListRest PROVE TransferInv'
  OBVIOUS
<1>1. trRun.kind = "export" /\ trRun.todo = <<>> /\ trRun.blob = {}
  BY ExportFacts DEF ListRest, Exporting
<1>2. /\ trSource' = trSource /\ trTarget' = trTarget /\ trBackend' = trBackend
      /\ trFile' = trFile /\ trMust' = trMust
  BY DEF ListRest
<1> DEFINE full == trRun.ask.kind = "full"
           ws == IF full THEN trSource.workspaces ELSE trRun.data.workspaces
           cs == IF full /\ trRun.ask.checkpoints THEN trSource.checks ELSE trRun.data.checks
           stage == IF trBackend.source = "surrealdb" THEN "pages" ELSE "write"
<1>3. trRun' = [trRun EXCEPT !.data.workspaces = ws, !.data.checks = cs, !.stage = stage]
  BY DEF ListRest
<1>4. /\ IsFiniteSet(DOMAIN ws) /\ IsFiniteSet(cs)
      /\ \A w \in DOMAIN ws : /\ IsFiniteSet(DOMAIN ws[w])
                              /\ ws[w] = [s \in DOMAIN ws[w] |-> ws[w][s]]
  BY <1>1, ExportFacts DEF IsStore
<1> HIDE DEF ws, cs, stage
<1>5. /\ DOMAIN trRun' = DOMAIN trRun /\ trRun'.kind = "export" /\ trRun'.todo = trRun.todo
      /\ trRun'.lost = trRun.lost /\ trRun'.blob = trRun.blob
      /\ trRun'.data = [trRun.data EXCEPT !.workspaces = ws, !.checks = cs]
  BY <1>1, <1>3, ExportFacts
<1>6. /\ DOMAIN trRun'.data = StoreFields /\ trRun'.data.sessions = trRun.data.sessions
      /\ trRun'.data.workspaces = ws /\ trRun'.data.checks = cs
  BY <1>1, <1>5, ExportFacts DEF StoreFields
<1>7. IsStore(trRun'.data)
  BY <1>1, <1>4, <1>6, ExportFacts DEF IsStore
<1>8. Rows(trRun'.data) = Rows(trRun.data)
  BY <1>6 DEF Rows
<1> QED BY <1>1, <1>2, <1>5, <1>7, <1>8, ExportFacts, ExportStep

LEMMA PageOfVectorsInv == TransferInv /\ PageOfVectors => TransferInv'
<1> SUFFICES ASSUME TransferInv, PageOfVectors PROVE TransferInv'
  OBVIOUS
<1>1. trRun.kind = "export" /\ trRun.todo = <<>> /\ trRun.blob = {}
  BY ExportFacts DEF PageOfVectors, Exporting
<1>2. /\ trSource' = trSource /\ trTarget' = trTarget /\ trBackend' = trBackend
      /\ trFile' = trFile /\ trMust' = trMust
  BY DEF PageOfVectors
<1>3. \E vs, n, stage :
        trRun' = [trRun EXCEPT !.data.vectors = vs, !.page = n, !.stage = stage]
  BY DEF PageOfVectors
<1>4. PICK vs, n, stage :
        trRun' = [trRun EXCEPT !.data.vectors = vs, !.page = n, !.stage = stage]
  BY <1>3
<1>5. /\ DOMAIN trRun' = DOMAIN trRun /\ trRun'.kind = "export" /\ trRun'.todo = trRun.todo
      /\ trRun'.lost = trRun.lost /\ trRun'.blob = trRun.blob
      /\ trRun'.data = [trRun.data EXCEPT !.vectors = vs]
  BY <1>1, <1>4, ExportFacts
<1>6. /\ DOMAIN trRun'.data = StoreFields /\ trRun'.data.sessions = trRun.data.sessions
      /\ trRun'.data.workspaces = trRun.data.workspaces
      /\ trRun'.data.checks = trRun.data.checks
  BY <1>1, <1>5, ExportFacts DEF StoreFields
<1>7. IsStore(trRun'.data)
  BY <1>1, <1>6, ExportFacts DEF IsStore
<1>8. Rows(trRun'.data) = Rows(trRun.data)
  BY <1>6 DEF Rows
<1> QED BY <1>1, <1>2, <1>5, <1>7, <1>8, ExportFacts, ExportStep

LEMMA WriteExportFileInv == TransferInv /\ WriteExportFile => TransferInv'
<1> SUFFICES ASSUME TransferInv, WriteExportFile PROVE TransferInv'
  OBVIOUS
<1>1. trRun.kind = "export" /\ trRun.stage = "write"
  BY DEF WriteExportFile, Exporting
<1>2. /\ trSource' = trSource /\ trTarget' = trTarget /\ trBackend' = trBackend
      /\ trRun' = NoRun
  BY DEF WriteExportFile
<1>3. ASSUME NEW file \in trFile'
      PROVE  file.data = trRun.data /\ file.must = trMust /\ file.lost = trRun.lost
  BY <1>3 DEF WriteExportFile
<1>4. trRun.todo = <<>>
  BY <1>1, ExportFacts
<1>5. ExportComplete'
  BY <1>1, <1>3, <1>4, ExportFacts, TodoEmpty DEF ExportComplete
<1>6. trRun'.kind = "none"
  BY <1>2 DEF NoRun
<1>7. TransferTypeOK'
  BY <1>1, <1>2, <1>3, <1>6, ExportFacts DEF TransferInv, TransferTypeOK, Importing
<1>8. ExportCollects' /\ ImportPlaces'
  BY <1>6 DEF ExportCollects, ImportPlaces, Importing
<1> QED BY <1>5, <1>7, <1>8 DEF TransferInv

\* What an import or migration in progress is.
LEMMA ImportFacts ==
    ASSUME TransferInv, Importing
    PROVE  /\ DOMAIN trRun = {"kind", "data", "opt", "todo", "skipped", "errors"}
           /\ IsStore(trRun.data) /\ DOMAIN trTarget = StoreFields
           /\ trRun.todo \in Seq(ImportTasks(trRun.data))
           /\ trRun.kind = "migrate" => trBackend.target = "surrealdb"
BY DEF TransferInv, TransferTypeOK

LEMMA TaskFacts ==
    ASSUME NEW data, NEW i \in ImportTasks(data)
    PROVE  /\ i = <<i[1], i[2]>>
           /\ i[1] = "workspace" => i[2] \in DOMAIN data.workspaces
           /\ i[1] = "link" => \E w \in DOMAIN data.workspaces :
                                 \E s \in DOMAIN data.workspaces[w] : i[2] = <<w, s>>
BY DEF ImportTasks, Items, Links

LEMMA SeqOfMore ==
    ASSUME NEW S, NEW T, S \subseteq T, NEW q \in Seq(S) PROVE q \in Seq(T)
OBVIOUS

\* A step of an import changes the target and what is ahead.
LEMMA ImportStep ==
    ASSUME TransferInv, Importing,
           trSource' = trSource, trBackend' = trBackend, trFile' = trFile,
           DOMAIN trTarget' = StoreFields,
           trRun'.kind = trRun.kind, trRun'.data = trRun.data,
           DOMAIN trRun' = {"kind", "data", "opt", "todo", "skipped", "errors"},
           trRun'.todo \in Seq(ImportTasks(trRun.data)), ImportPlaces'
    PROVE  TransferInv'
<1>1. trRun.kind # "export" /\ Importing'
  BY DEF Importing
<1>2. TransferTypeOK'
  BY <1>1 DEF TransferInv, TransferTypeOK, Importing
<1>3. ExportComplete'
  BY DEF TransferInv, ExportComplete
<1>4. ExportCollects'
  BY <1>1 DEF ExportCollects
<1> QED BY <1>2, <1>3, <1>4 DEF TransferInv

\* An item is done and what follows from it comes next.
LEMMA Advanced ==
    ASSUME TransferInv, Importing, trRun.todo # <<>>,
           NEW more \in Seq(ImportTasks(trRun.data)), Advance(more)
    PROVE  /\ trRun'.kind = trRun.kind /\ trRun'.data = trRun.data /\ trRun'.opt = trRun.opt
           /\ trRun'.skipped = trRun.skipped /\ trRun'.errors = trRun.errors
           /\ DOMAIN trRun' = {"kind", "data", "opt", "todo", "skipped", "errors"}
           /\ trRun'.todo \in Seq(ImportTasks(trRun.data))
           /\ \A x : Ahead(x) => x = trRun.todo[1] \/ Ahead(x)'
           /\ \A x \in ToSet(more) : Ahead(x)'
<1>1. /\ Tail(trRun.todo) \in Seq(ImportTasks(trRun.data))
      /\ ToSet(trRun.todo) = {trRun.todo[1]} \cup ToSet(Tail(trRun.todo))
  BY ImportFacts, TodoHead
<1>2. /\ more \o Tail(trRun.todo) \in Seq(ImportTasks(trRun.data))
      /\ ToSet(more \o Tail(trRun.todo)) = ToSet(more) \cup ToSet(Tail(trRun.todo))
  BY <1>1, TodoJoin
<1>3. /\ trRun'.kind = trRun.kind /\ trRun'.data = trRun.data /\ trRun'.opt = trRun.opt
      /\ trRun'.skipped = trRun.skipped /\ trRun'.errors = trRun.errors
      /\ DOMAIN trRun' = DOMAIN trRun /\ trRun'.todo = more \o Tail(trRun.todo)
  BY ImportFacts DEF Advance
<1> QED BY <1>1, <1>2, <1>3, ImportFacts DEF Ahead

LEMMA Done ==
    ASSUME TransferInv, Importing, trRun.todo # <<>>, Advance(<<>>)
    PROVE  /\ trRun'.kind = trRun.kind /\ trRun'.data = trRun.data /\ trRun'.opt = trRun.opt
           /\ trRun'.skipped = trRun.skipped /\ trRun'.errors = trRun.errors
           /\ DOMAIN trRun' = {"kind", "data", "opt", "todo", "skipped", "errors"}
           /\ trRun'.todo \in Seq(ImportTasks(trRun.data))
           /\ \A x : Ahead(x) => x = trRun.todo[1] \/ Ahead(x)'
<1>1. <<>> \in Seq(ImportTasks(trRun.data))
  OBVIOUS
<1> QED BY <1>1, Advanced

LEMMA RefuseInv ==
    ASSUME TransferInv, Importing, trRun.todo # <<>>, Refuse,
           trSource' = trSource, trBackend' = trBackend, trFile' = trFile, trTarget' = trTarget
    PROVE  TransferInv'
<1>1. Tail(trRun.todo) \in Seq(ImportTasks(trRun.data))
  BY ImportFacts, TodoHead
<1>2. /\ trRun'.kind = trRun.kind /\ trRun'.data = trRun.data
      /\ trRun'.errors = 1 /\ DOMAIN trRun' = DOMAIN trRun
      /\ trRun'.todo = Tail(trRun.todo)
  BY ImportFacts DEF Refuse
<1>3. ImportPlaces'
  BY <1>2 DEF ImportPlaces
<1> QED BY <1>1, <1>2, <1>3, ImportFacts, ImportStep

\* What was in its place stays there, if the item that is done, i, is another
\* and the step changed nothing of it.
LEMMA KeepPlaces ==
    ASSUME TransferInv, Importing, NEW i,
           trRun.errors = 0, trRun'.kind = trRun.kind, trRun'.data = trRun.data,
           trRun'.opt = trRun.opt, trRun.skipped \subseteq trRun'.skipped,
           trBackend' = trBackend, \A x : Ahead(x) => x = i \/ Ahead(x)'
    PROVE  /\ \A s \in DOMAIN trRun.data.sessions :
                /\ i # <<"session", s>>
                /\ s \in DOMAIN trTarget.sessions =>
                     s \in DOMAIN trTarget'.sessions
                     /\ trTarget.sessions[s] \subseteq trTarget'.sessions[s]
                => SessionPlaced(s)'
           /\ \A w \in DOMAIN trRun.data.workspaces :
                /\ i # <<"workspace", w>> /\ \A s : i # <<"link", <<w, s>>>>
                /\ w \in DOMAIN trTarget.workspaces =>
                     w \in DOMAIN trTarget'.workspaces
                     /\ trTarget'.workspaces[w] = trTarget.workspaces[w]
                => WorkspacePlaced(w)'
           /\ \A c \in trRun.data.checks :
                i # <<"check", c>> /\ trTarget.checks \subseteq trTarget'.checks
                => Ahead(<<"check", c>>)' \/ c \in trTarget'.checks
           /\ /\ i # <<"vectors", "all">> /\ trTarget.vectors \subseteq trTarget'.vectors
              => (trBackend.target = "surrealdb" =>
                    Ahead(<<"vectors", "all">>)' \/ trRun.data.vectors \subseteq trTarget'.vectors)
<1>0. ImportPlaces
  BY DEF TransferInv
<1>1. ASSUME NEW s \in DOMAIN trRun.data.sessions, i # <<"session", s>>,
             s \in DOMAIN trTarget.sessions =>
               s \in DOMAIN trTarget'.sessions
               /\ trTarget.sessions[s] \subseteq trTarget'.sessions[s]
      PROVE  SessionPlaced(s)'
  <2>1. SessionPlaced(s)
    BY <1>0 DEF ImportPlaces
  <2> QED BY <1>1, <2>1 DEF SessionPlaced, Excluded
<1>2. ASSUME NEW w \in DOMAIN trRun.data.workspaces, i # <<"workspace", w>>,
             \A s : i # <<"link", <<w, s>>>>,
             w \in DOMAIN trTarget.workspaces =>
               w \in DOMAIN trTarget'.workspaces
               /\ trTarget'.workspaces[w] = trTarget.workspaces[w]
      PROVE  WorkspacePlaced(w)'
  <2>1. WorkspacePlaced(w)
    BY <1>0 DEF ImportPlaces
  <2>2. CASE Ahead(<<"workspace", w>>) \/ <<"workspace", w>> \in trRun.skipped
    BY <1>2, <2>2 DEF WorkspacePlaced
  <2>3. CASE ~(Ahead(<<"workspace", w>>) \/ <<"workspace", w>> \in trRun.skipped)
    <3>1. w \in DOMAIN trTarget'.workspaces /\ trTarget'.workspaces[w] = trTarget.workspaces[w]
      BY <1>2, <2>1, <2>3 DEF WorkspacePlaced
    <3>2. \A s : Ahead(<<"link", <<w, s>>>>) => Ahead(<<"link", <<w, s>>>>)'
      BY <1>2
    <3> QED BY <2>1, <2>3, <3>1, <3>2 DEF WorkspacePlaced
  <2> QED BY <2>2, <2>3
<1>3. ASSUME NEW c \in trRun.data.checks, i # <<"check", c>>,
             trTarget.checks \subseteq trTarget'.checks
      PROVE  Ahead(<<"check", c>>)' \/ c \in trTarget'.checks
  BY <1>0, <1>3 DEF ImportPlaces
<1>4. ASSUME i # <<"vectors", "all">>, trTarget.vectors \subseteq trTarget'.vectors,
             trBackend.target = "surrealdb"
      PROVE  Ahead(<<"vectors", "all">>)' \/ trRun.data.vectors \subseteq trTarget'.vectors
  BY <1>0, <1>4 DEF ImportPlaces
<1> QED BY <1>1, <1>2, <1>3, <1>4

LEMMA BeginInv ==
    ASSUME TransferInv, NEW kind \in {"import", "migrate"}, NEW data, IsStore(data), NEW opt,
           kind = "migrate" => trBackend.target = "surrealdb", Begin(kind, data, opt),
           trTarget' = trTarget
    PROVE  TransferInv'
<1>1. PICK order \in SetToSeqs(Items(data)) :
        trRun' = [kind |-> kind, data |-> data, opt |-> opt, todo |-> order,
                  skipped |-> {}, errors |-> 0]
  BY DEF Begin, Orders
<1>2. order \in Seq(Items(data)) /\ ToSet(order) = Items(data)
  BY ItemsFinite, OrderIsOnto
<1>3. order \in Seq(ImportTasks(data))
  BY <1>2, SeqOfMore DEF ImportTasks
<1>4. /\ trRun'.kind = kind /\ trRun'.data = data /\ trRun'.todo = order
      /\ DOMAIN trRun' = {"kind", "data", "opt", "todo", "skipped", "errors"}
  BY <1>1
<1>5. trSource' = trSource /\ trBackend' = trBackend /\ trFile' = trFile
  BY DEF Begin
<1>6. \A x \in Items(data) : Ahead(x)'
  BY <1>2, <1>4 DEF Ahead
<1>7. /\ \A s \in DOMAIN data.sessions : Ahead(<<"session", s>>)'
      /\ \A w \in DOMAIN data.workspaces : Ahead(<<"workspace", w>>)'
      /\ \A c \in data.checks : Ahead(<<"check", c>>)'
      /\ Ahead(<<"vectors", "all">>)'
  BY <1>6 DEF Items
<1>8. ImportPlaces'
  BY <1>4, <1>7 DEF ImportPlaces, SessionPlaced, WorkspacePlaced
<1>9. TransferTypeOK'
  BY <1>3, <1>4, <1>5 DEF TransferInv, TransferTypeOK, Importing
<1>10. ExportComplete' /\ ExportCollects'
  BY <1>4, <1>5 DEF TransferInv, ExportComplete, ExportCollects
<1> QED BY <1>8, <1>9, <1>10 DEF TransferInv

LEMMA PassOverInv ==
    ASSUME TransferInv, NEW what \in {"session", "workspace"}, PassOver(what)
    PROVE  TransferInv'
<1>1. Importing /\ trRun.todo # <<>> /\ trRun.todo[1][1] = what
  BY DEF PassOver, Loading, Importing
<1>2. /\ trSource' = trSource /\ trTarget' = trTarget /\ trBackend' = trBackend
      /\ trFile' = trFile
  BY DEF PassOver
<1>3. trRun.todo[1] \in ImportTasks(trRun.data)
  BY <1>1, ImportFacts, TodoHead
<1>4. trRun.todo[1] = <<what, Item>>
  BY <1>1, <1>3, TaskFacts DEF Item
<1>5. CASE Passes(what) /\ Advance(<<>>)
  <2>1. what = "session" /\ Excluded(Item)
    BY <1>5 DEF Passes
  <2>2. trRun.errors = 0 => ImportPlaces'
    <3> SUFFICES ASSUME trRun.errors = 0 PROVE ImportPlaces'
      OBVIOUS
    <3>2. \A s \in DOMAIN trRun.data.sessions : Excluded(s)' <=> Excluded(s)
      BY <1>1, <1>5, Done DEF Excluded
    <3>3. \A s \in DOMAIN trRun.data.sessions : SessionPlaced(s)'
      <4> SUFFICES ASSUME NEW s \in DOMAIN trRun.data.sessions PROVE SessionPlaced(s)'
        OBVIOUS
      <4>1. CASE s = Item
        BY <2>1, <3>2, <4>1 DEF SessionPlaced
      <4>2. CASE s # Item
        BY <1>1, <1>2, <1>4, <1>5, <4>2, Done, KeepPlaces
      <4> QED BY <4>1, <4>2
    <3>4. \A w \in DOMAIN trRun.data.workspaces : WorkspacePlaced(w)'
      BY <1>1, <1>2, <1>4, <1>5, <2>1, Done, KeepPlaces
    <3>5. ASSUME NEW c \in trRun.data.checks PROVE Ahead(<<"check", c>>)' \/ c \in trTarget'.checks
      <4>1. trRun.todo[1] # <<"check", c>>
        BY <1>4, <2>1
      <4> QED BY <1>1, <1>2, <1>5, <4>1, Done, KeepPlaces
    <3>6. trBackend.target = "surrealdb" =>
            Ahead(<<"vectors", "all">>)' \/ trRun.data.vectors \subseteq trTarget'.vectors
      BY <1>1, <1>2, <1>4, <1>5, <2>1, Done, KeepPlaces
    <3> QED BY <1>1, <1>2, <1>5, <3>3, <3>4, <3>5, <3>6, Done DEF ImportPlaces
  <2>3. trRun.errors # 0 => ImportPlaces'
    BY <1>1, <1>5, Done DEF ImportPlaces
  <2> QED BY <1>1, <1>2, <1>5, <2>2, <2>3, Done, ImportFacts, ImportStep
<1>6. CASE trRun' = [trRun EXCEPT !.todo = Tail(@), !.skipped = @ \cup {<<what, Item>>}]
  <2>1. /\ Tail(trRun.todo) \in Seq(ImportTasks(trRun.data))
        /\ ToSet(trRun.todo) = {trRun.todo[1]} \cup ToSet(Tail(trRun.todo))
    BY <1>1, ImportFacts, TodoHead
  <2>2. /\ trRun'.kind = trRun.kind /\ trRun'.data = trRun.data /\ trRun'.opt = trRun.opt
        /\ trRun'.skipped = trRun.skipped \cup {<<what, Item>>}
        /\ trRun'.errors = trRun.errors /\ DOMAIN trRun' = DOMAIN trRun
        /\ trRun'.todo = Tail(trRun.todo)
    BY <1>1, <1>6, ImportFacts
  <2>3. \A x : Ahead(x) => x = trRun.todo[1] \/ Ahead(x)'
    BY <2>1, <2>2 DEF Ahead
  <2>4. ASSUME trRun.errors = 0 PROVE ImportPlaces'
    <3>1. \A s \in DOMAIN trRun.data.sessions : SessionPlaced(s)'
      <4> SUFFICES ASSUME NEW s \in DOMAIN trRun.data.sessions PROVE SessionPlaced(s)'
        OBVIOUS
      <4>1. CASE trRun.todo[1] = <<"session", s>>
        BY <1>4, <2>2, <4>1 DEF SessionPlaced
      <4>2. CASE trRun.todo[1] # <<"session", s>>
        BY <1>1, <1>2, <2>2, <2>3, <2>4, <4>2, KeepPlaces
      <4> QED BY <4>1, <4>2
    <3>2. \A w \in DOMAIN trRun.data.workspaces : WorkspacePlaced(w)'
      <4> SUFFICES ASSUME NEW w \in DOMAIN trRun.data.workspaces PROVE WorkspacePlaced(w)'
        OBVIOUS
      <4>1. CASE trRun.todo[1] = <<"workspace", w>>
        BY <1>4, <2>2, <4>1 DEF WorkspacePlaced
      <4>2. CASE trRun.todo[1] # <<"workspace", w>>
        <5>1. \A s : trRun.todo[1] # <<"link", <<w, s>>>>
          BY <1>4
        <5> QED BY <1>1, <1>2, <2>2, <2>3, <2>4, <4>2, <5>1, KeepPlaces
      <4> QED BY <4>1, <4>2
    <3>3. /\ \A c \in trRun.data.checks : Ahead(<<"check", c>>)' \/ c \in trTarget'.checks
          /\ trBackend.target = "surrealdb" =>
               Ahead(<<"vectors", "all">>)' \/ trRun.data.vectors \subseteq trTarget'.vectors
      BY <1>1, <1>2, <1>4, <2>2, <2>3, <2>4, KeepPlaces
    <3> QED BY <1>1, <1>2, <2>2, <3>1, <3>2, <3>3 DEF ImportPlaces
  <2>5. trRun.errors # 0 => ImportPlaces'
    BY <2>2 DEF ImportPlaces
  <2> QED BY <1>1, <1>2, <2>1, <2>2, <2>4, <2>5, ImportFacts, ImportStep
<1>7. CASE Refuse
  BY <1>1, <1>2, <1>7, RefuseInv
<1> QED BY <1>5, <1>6, <1>7 DEF PassOver

\* An item is saved; the target keeps what it had of the others.
LEMMA SaveStep ==
    ASSUME TransferInv, Importing, trRun.todo # <<>>,
           NEW more \in Seq(ImportTasks(trRun.data)), Advance(more),
           trSource' = trSource, trBackend' = trBackend, trFile' = trFile,
           DOMAIN trTarget' = StoreFields,
           \A s \in DOMAIN trRun.data.sessions :
              \/ /\ s \in DOMAIN trTarget'.sessions
                 /\ trRun.data.sessions[s] \subseteq trTarget'.sessions[s]
              \/ /\ trRun.todo[1] # <<"session", s>>
                 /\ s \in DOMAIN trTarget.sessions =>
                      s \in DOMAIN trTarget'.sessions
                      /\ trTarget.sessions[s] \subseteq trTarget'.sessions[s],
           trRun.errors = 0 => \A w \in DOMAIN trRun.data.workspaces :
              \/ WorkspacePlaced(w)'
              \/ /\ trRun.todo[1] # <<"workspace", w>>
                 /\ \A s : trRun.todo[1] # <<"link", <<w, s>>>>
                 /\ w \in DOMAIN trTarget.workspaces =>
                      w \in DOMAIN trTarget'.workspaces
                      /\ trTarget'.workspaces[w] = trTarget.workspaces[w],
           trTarget.checks \subseteq trTarget'.checks,
           \A c : trRun.todo[1] = <<"check", c>> => c \in trTarget'.checks,
           trTarget.vectors \subseteq trTarget'.vectors,
           trRun.todo[1] = <<"vectors", "all">> /\ trBackend.target = "surrealdb"
              => trRun.data.vectors \subseteq trTarget'.vectors
    PROVE  TransferInv'
<1>1. /\ trRun'.kind = trRun.kind /\ trRun'.data = trRun.data /\ trRun'.opt = trRun.opt
      /\ trRun'.skipped = trRun.skipped /\ trRun'.errors = trRun.errors
      /\ DOMAIN trRun' = {"kind", "data", "opt", "todo", "skipped", "errors"}
      /\ trRun'.todo \in Seq(ImportTasks(trRun.data))
      /\ \A x : Ahead(x) => x = trRun.todo[1] \/ Ahead(x)'
  BY Advanced
<1>2. ASSUME trRun.errors = 0 PROVE ImportPlaces'
  <2>1. \A s \in DOMAIN trRun.data.sessions : SessionPlaced(s)'
    <3> SUFFICES ASSUME NEW s \in DOMAIN trRun.data.sessions PROVE SessionPlaced(s)'
      OBVIOUS
    <3>1. CASE /\ s \in DOMAIN trTarget'.sessions
               /\ trRun.data.sessions[s] \subseteq trTarget'.sessions[s]
      BY <1>1, <3>1 DEF SessionPlaced
    <3>2. CASE /\ trRun.todo[1] # <<"session", s>>
               /\ s \in DOMAIN trTarget.sessions =>
                    s \in DOMAIN trTarget'.sessions
                    /\ trTarget.sessions[s] \subseteq trTarget'.sessions[s]
      BY <1>1, <1>2, <3>2, KeepPlaces
    <3> QED BY <3>1, <3>2
  <2>2. \A w \in DOMAIN trRun.data.workspaces : WorkspacePlaced(w)'
    BY <1>1, <1>2, KeepPlaces, SMTT(30)
  <2>3. ASSUME NEW c \in trRun.data.checks PROVE Ahead(<<"check", c>>)' \/ c \in trTarget'.checks
    <3>1. CASE trRun.todo[1] = <<"check", c>>
      BY <3>1
    <3>2. CASE trRun.todo[1] # <<"check", c>>
      BY <1>1, <1>2, <3>2, KeepPlaces
    <3> QED BY <3>1, <3>2
  <2>4. trBackend.target = "surrealdb" =>
          Ahead(<<"vectors", "all">>)' \/ trRun.data.vectors \subseteq trTarget'.vectors
    BY <1>1, <1>2, KeepPlaces
  <2> QED BY <1>1, <2>1, <2>2, <2>3, <2>4 DEF ImportPlaces
<1>3. trRun.errors # 0 => ImportPlaces'
  BY <1>1 DEF ImportPlaces
<1> QED BY <1>1, <1>2, <1>3, ImportStep

LEMMA SaveSessionInv == TransferInv /\ SaveSession => TransferInv'
<1> SUFFICES ASSUME TransferInv, SaveSession PROVE TransferInv'
  OBVIOUS
<1>1. Importing /\ trRun.todo # <<>> /\ trRun.todo[1][1] = "session"
  BY DEF SaveSession, Saves, Loading, Importing
<1>2. /\ trSource' = trSource /\ trBackend' = trBackend /\ trFile' = trFile
      /\ trTarget' = [trTarget EXCEPT !.sessions = Put(@, Item, Kept(Item) \cup trRun.data.sessions[Item])]
      /\ Advance(<<<<"rows", Item>>>>)
  BY DEF SaveSession
<1>3. trRun.todo[1] \in ImportTasks(trRun.data)
  BY <1>1, ImportFacts, TodoHead
<1>4. trRun.todo[1] = <<"session", Item>> /\ Item \in DOMAIN trRun.data.sessions
  BY <1>1, <1>3 DEF Item, ImportTasks, Items, Links
<1>5. <<<<"rows", Item>>>> \in Seq(ImportTasks(trRun.data))
  <2>1. <<"rows", Item>> \in ImportTasks(trRun.data)
    BY <1>4 DEF ImportTasks
  <2> QED BY <2>1
<1> DEFINE all == Kept(Item) \cup trRun.data.sessions[Item]
<1>6. /\ DOMAIN trTarget' = StoreFields /\ trTarget'.workspaces = trTarget.workspaces
      /\ trTarget'.checks = trTarget.checks /\ trTarget'.vectors = trTarget.vectors
      /\ trTarget'.sessions = Put(trTarget.sessions, Item, all)
  BY <1>1, <1>2, ImportFacts DEF StoreFields
<1>7. ASSUME NEW s \in DOMAIN trRun.data.sessions
      PROVE  \/ /\ s \in DOMAIN trTarget'.sessions
                /\ trRun.data.sessions[s] \subseteq trTarget'.sessions[s]
             \/ /\ trRun.todo[1] # <<"session", s>>
                /\ s \in DOMAIN trTarget.sessions =>
                     s \in DOMAIN trTarget'.sessions
                     /\ trTarget.sessions[s] \subseteq trTarget'.sessions[s]
  <2>1. CASE s = Item
    BY <1>6, <2>1 DEF Put
  <2>2. CASE s # Item
    BY <1>4, <1>6, <2>2 DEF Put
  <2> QED BY <2>1, <2>2
<1>8. /\ \A w : trRun.todo[1] # <<"workspace", w>>
      /\ \A w, s : trRun.todo[1] # <<"link", <<w, s>>>>
      /\ \A c : trRun.todo[1] # <<"check", c>>
      /\ trRun.todo[1] # <<"vectors", "all">>
  BY <1>4
<1> QED BY <1>1, <1>2, <1>5, <1>6, <1>7, <1>8, SaveStep

LEMMA SaveRowsInv == TransferInv /\ SaveRows => TransferInv'
<1> SUFFICES ASSUME TransferInv, SaveRows PROVE TransferInv'
  OBVIOUS
<1>1. Importing /\ trRun.todo # <<>> /\ trRun.todo[1][1] = "rows"
  BY DEF SaveRows, Loading, Importing
<1>2. /\ trSource' = trSource /\ trBackend' = trBackend /\ trFile' = trFile
      /\ trTarget' = [trTarget EXCEPT !.sessions[Item] = @ \cup trRun.data.sessions[Item]]
      /\ Advance(<<>>)
  BY DEF SaveRows
<1>3. <<>> \in Seq(ImportTasks(trRun.data))
  OBVIOUS
<1>4. /\ DOMAIN trTarget' = StoreFields /\ trTarget'.workspaces = trTarget.workspaces
      /\ trTarget'.checks = trTarget.checks /\ trTarget'.vectors = trTarget.vectors
      /\ trTarget'.sessions = [trTarget.sessions EXCEPT ![Item] = @ \cup trRun.data.sessions[Item]]
  BY <1>1, <1>2, ImportFacts DEF StoreFields
<1>5. \A s \in DOMAIN trTarget.sessions :
        s \in DOMAIN trTarget'.sessions /\ trTarget.sessions[s] \subseteq trTarget'.sessions[s]
  BY <1>4
<1>6. /\ \A s : trRun.todo[1] # <<"session", s>>
      /\ \A w : trRun.todo[1] # <<"workspace", w>>
      /\ \A w, s : trRun.todo[1] # <<"link", <<w, s>>>>
      /\ \A c : trRun.todo[1] # <<"check", c>>
      /\ trRun.todo[1] # <<"vectors", "all">>
  BY <1>1
<1> QED BY <1>1, <1>2, <1>3, <1>4, <1>5, <1>6, SaveStep

LEMMA ReplaceWorkspaceInv == TransferInv /\ ReplaceWorkspace => TransferInv'
<1> SUFFICES ASSUME TransferInv, ReplaceWorkspace PROVE TransferInv'
  OBVIOUS
<1>1. Importing /\ trRun.todo # <<>> /\ trRun.todo[1][1] = "workspace"
  BY DEF ReplaceWorkspace, Saves, Loading, Importing
<1>2. /\ trSource' = trSource /\ trBackend' = trBackend /\ trFile' = trFile /\ trRun' = trRun
      /\ trTarget' = [trTarget EXCEPT !.workspaces = [w \in DOMAIN @ \ {Item} |-> @[w]]]
  BY DEF ReplaceWorkspace
<1>3. trRun.todo[1] \in ImportTasks(trRun.data) /\ trRun.todo[1] \in ToSet(trRun.todo)
  BY <1>1, ImportFacts, TodoHead
<1>4. trRun.todo[1] = <<"workspace", Item>>
  BY <1>1, <1>3, TaskFacts DEF Item
<1>5. /\ DOMAIN trTarget' = StoreFields /\ trTarget'.sessions = trTarget.sessions
      /\ trTarget'.checks = trTarget.checks /\ trTarget'.vectors = trTarget.vectors
      /\ trTarget'.workspaces = [w \in DOMAIN trTarget.workspaces \ {Item} |-> trTarget.workspaces[w]]
  BY <1>1, <1>2, ImportFacts DEF StoreFields
<1>6. ASSUME trRun.errors = 0 PROVE ImportPlaces'
  <2>1. ImportPlaces
    BY DEF TransferInv
  <2>2. \A w \in DOMAIN trRun.data.workspaces : WorkspacePlaced(w)'
    <3> SUFFICES ASSUME NEW w \in DOMAIN trRun.data.workspaces PROVE WorkspacePlaced(w)'
      OBVIOUS
    <3>1. CASE w = Item
      BY <1>2, <1>3, <1>4, <3>1 DEF WorkspacePlaced, Ahead
    <3>2. CASE w # Item
      <4>1. <<"workspace", w>> # <<"workspace", Item>>
        BY <3>2
      <4>2. /\ w \in DOMAIN trTarget.workspaces <=> w \in DOMAIN trTarget'.workspaces
            /\ w \in DOMAIN trTarget.workspaces =>
                 trTarget'.workspaces[w] = trTarget.workspaces[w]
        BY <1>5, <3>2
      <4>3. WorkspacePlaced(w)
        BY <1>1, <1>6, <2>1 DEF ImportPlaces
      <4> QED BY <1>2, <4>2, <4>3 DEF WorkspacePlaced, Ahead
    <3> QED BY <3>1, <3>2
  <2>3. ASSUME NEW s \in DOMAIN trRun.data.sessions PROVE SessionPlaced(s)'
    <3>1. SessionPlaced(s)
      BY <1>1, <1>6, <2>1 DEF ImportPlaces
    <3> QED BY <1>2, <1>5, <3>1 DEF SessionPlaced, Ahead, Excluded
  <2> QED BY <1>2, <1>5, <1>1, <1>6, <2>1, <2>2, <2>3 DEF ImportPlaces, Ahead
<1>7. trRun.errors # 0 => ImportPlaces'
  BY <1>2 DEF ImportPlaces
<1> QED BY <1>1, <1>2, <1>5, <1>6, <1>7, ImportFacts, ImportStep

LEMMA SaveWorkspaceInv == TransferInv /\ SaveWorkspace => TransferInv'
<1> SUFFICES ASSUME TransferInv, SaveWorkspace PROVE TransferInv'
  OBVIOUS
<1> DEFINE roles == trRun.data.workspaces[Item]
           old == IF Exists("workspace", Item) THEN trTarget.workspaces[Item] ELSE <<>>
           saved == [s \in DOMAIN old \cup (IF trBackend.target = "surrealdb" THEN DOMAIN roles ELSE {}) |->
                        IF s \in DOMAIN roles THEN "Primary" ELSE old[s]]
           links == {<<"link", <<Item, s>>>> : s \in DOMAIN roles}
<1>1. /\ Importing /\ trRun.todo # <<>> /\ trRun.todo[1][1] = "workspace"
      /\ trRun.kind = "import" => Item \notin DOMAIN trTarget.workspaces
  BY DEF SaveWorkspace, Saves, Loading, Importing, Exists
<1>2. /\ trSource' = trSource /\ trBackend' = trBackend /\ trFile' = trFile
      /\ trTarget' = [trTarget EXCEPT !.workspaces = Put(@, Item, saved)]
  BY DEF SaveWorkspace
<1>3. PICK order \in SetToSeqs(links) :
        Advance(IF trRun.kind = "import" THEN order ELSE <<>>)
  BY DEF SaveWorkspace
<1>4. trRun.todo[1] \in ImportTasks(trRun.data)
  BY <1>1, ImportFacts, TodoHead
<1>5. trRun.todo[1] = <<"workspace", Item>> /\ Item \in DOMAIN trRun.data.workspaces
  BY <1>1, <1>4, TaskFacts DEF Item
<1>6. IsFiniteSet(DOMAIN roles)
  BY <1>1, <1>5, ImportFacts DEF IsStore
<1>7. order \in Seq(links) /\ ToSet(order) = links
  <2>1. IsFiniteSet(links)
    BY <1>6, FiniteLinks, Zenon
  <2> QED BY <2>1, OrderIsOnto
<1>8. links \subseteq ImportTasks(trRun.data)
  BY <1>5 DEF ImportTasks, Links
<1> DEFINE more == IF trRun.kind = "import" THEN order ELSE <<>>
<1>9. more \in Seq(ImportTasks(trRun.data))
  <2>1. order \in Seq(ImportTasks(trRun.data))
    BY <1>7, <1>8, SeqOfMore
  <2>2. CASE trRun.kind = "import"
    BY <2>1, <2>2
  <2>3. CASE trRun.kind # "import"
    BY <2>3
  <2> QED BY <2>2, <2>3
<1>10. Advance(more)
  BY <1>3
<1>11. trRun.kind = "import" => \A s \in DOMAIN roles : <<"link", <<Item, s>>>> \in ToSet(more)
  BY <1>7
<1> HIDE DEF more
<1>12. /\ trRun'.kind = trRun.kind /\ trRun'.data = trRun.data
       /\ \A x \in ToSet(more) : Ahead(x)'
  BY <1>1, <1>9, <1>10, Advanced
<1>13. /\ saved = [s \in DOMAIN saved |-> saved[s]]
       /\ trRun.kind = "import" => DOMAIN saved \subseteq DOMAIN roles
       /\ trRun.kind = "migrate" => DOMAIN roles \subseteq DOMAIN saved
  <2>1. DOMAIN <<>> = {}
    OBVIOUS
  <2>2. trRun.kind = "import" => old = <<>>
    BY <1>1 DEF Exists
  <2>3. trRun.kind = "migrate" => trBackend.target = "surrealdb"
    BY <1>1, ImportFacts
  <2> HIDE DEF old
  <2> QED BY <2>1, <2>2, <2>3
<1> HIDE DEF saved, links
<1>14. /\ DOMAIN trTarget' = StoreFields /\ trTarget'.sessions = trTarget.sessions
       /\ trTarget'.checks = trTarget.checks /\ trTarget'.vectors = trTarget.vectors
       /\ trTarget'.workspaces = Put(trTarget.workspaces, Item, saved)
  BY <1>1, <1>2, ImportFacts DEF StoreFields
<1>15. ASSUME NEW w \in DOMAIN trRun.data.workspaces
       PROVE  \/ WorkspacePlaced(w)'
              \/ /\ trRun.todo[1] # <<"workspace", w>>
                 /\ \A s : trRun.todo[1] # <<"link", <<w, s>>>>
                 /\ w \in DOMAIN trTarget.workspaces =>
                      w \in DOMAIN trTarget'.workspaces
                      /\ trTarget'.workspaces[w] = trTarget.workspaces[w]
  <2>1. CASE w # Item
    BY <1>5, <1>14, <2>1 DEF Put
  <2>2. CASE w = Item
    <3>1. Item \in DOMAIN trTarget'.workspaces /\ trTarget'.workspaces[Item] = saved
      BY <1>14 DEF Put
    <3>2. CASE trRun.kind = "migrate"
      BY <1>12, <1>13, <2>2, <3>1, <3>2 DEF WorkspacePlaced
    <3>3. CASE trRun.kind = "import"
      <4>1. \A s \in DOMAIN trRun.data.workspaces[w] : <<"link", <<w, s>>>> \in ToSet(more)
        BY <1>11, <2>2, <3>3
      <4>2. \A s \in DOMAIN trRun.data.workspaces[w] : Ahead(<<"link", <<w, s>>>>)'
        BY <1>12, <4>1
      <4> QED BY <1>12, <1>13, <2>2, <3>1, <3>3, <4>2 DEF WorkspacePlaced
    <3> QED BY <1>1, <3>2, <3>3 DEF Importing
  <2> QED BY <2>1, <2>2
<1>16. /\ \A s : trRun.todo[1] # <<"session", s>>
       /\ \A c : trRun.todo[1] # <<"check", c>>
       /\ trRun.todo[1] # <<"vectors", "all">>
  BY <1>5
<1> QED BY <1>1, <1>2, <1>9, <1>10, <1>14, <1>15, <1>16, SaveStep

LEMMA AddSessionInv == TransferInv /\ AddSessionToWorkspace => TransferInv'
<1> SUFFICES ASSUME TransferInv, AddSessionToWorkspace PROVE TransferInv'
  OBVIOUS
<1>1. Importing /\ trRun.todo # <<>> /\ trRun.todo[1][1] = "link"
  BY DEF AddSessionToWorkspace, Loading, Importing
<1>2. trRun.todo[1] \in ImportTasks(trRun.data)
  BY <1>1, ImportFacts, TodoHead
<1>3. PICK w \in DOMAIN trRun.data.workspaces :
        \E s \in DOMAIN trRun.data.workspaces[w] : trRun.todo[1] = <<"link", <<w, s>>>>
  BY <1>1, <1>2, TaskFacts
<1>4. PICK s \in DOMAIN trRun.data.workspaces[w] : trRun.todo[1] = <<"link", <<w, s>>>>
  BY <1>3
<1> DEFINE role == trRun.data.workspaces[w][s]
<1>5. Item[1] = w /\ Item[2] = s
  BY <1>4 DEF Item
<1>6. /\ trSource' = trSource /\ trBackend' = trBackend /\ trFile' = trFile
      /\ trTarget' = [trTarget EXCEPT !.workspaces[w] = Put(@, s, role)]
      /\ Advance(<<>>)
  BY <1>5 DEF AddSessionToWorkspace
<1>7. <<>> \in Seq(ImportTasks(trRun.data))
  OBVIOUS
<1>8. /\ trRun'.kind = trRun.kind /\ trRun'.data = trRun.data
      /\ trRun'.skipped = trRun.skipped
      /\ \A x : Ahead(x) => x = trRun.todo[1] \/ Ahead(x)'
  BY <1>1, <1>6, Done
<1> HIDE DEF role
<1>9. /\ DOMAIN trTarget' = StoreFields /\ trTarget'.sessions = trTarget.sessions
      /\ trTarget'.checks = trTarget.checks /\ trTarget'.vectors = trTarget.vectors
      /\ trTarget'.workspaces = [trTarget.workspaces EXCEPT ![w] = Put(@, s, role)]
  BY <1>1, <1>6, ImportFacts DEF StoreFields
<1>10. ASSUME trRun.errors = 0, NEW v \in DOMAIN trRun.data.workspaces
       PROVE  \/ WorkspacePlaced(v)'
              \/ /\ trRun.todo[1] # <<"workspace", v>>
                 /\ \A t : trRun.todo[1] # <<"link", <<v, t>>>>
                 /\ v \in DOMAIN trTarget.workspaces =>
                      v \in DOMAIN trTarget'.workspaces
                      /\ trTarget'.workspaces[v] = trTarget.workspaces[v]
  <2>1. CASE v # w
    BY <1>4, <1>9, <2>1
  <2>2. CASE v = w
    <3>1. WorkspacePlaced(w)
      BY <1>1, <1>10 DEF TransferInv, ImportPlaces
    <3>2. Ahead(<<"workspace", w>>) => Ahead(<<"workspace", w>>)'
      BY <1>4, <1>8
    <3>3. CASE Ahead(<<"workspace", w>>) \/ <<"workspace", w>> \in trRun.skipped
      BY <1>8, <2>2, <3>2, <3>3 DEF WorkspacePlaced
    <3>4. CASE ~(Ahead(<<"workspace", w>>) \/ <<"workspace", w>> \in trRun.skipped)
      <4> DEFINE roles == trRun.data.workspaces[w]
                 stored == trTarget.workspaces[w]
                 after == trTarget'.workspaces[w]
      <4>1. w \in DOMAIN trTarget.workspaces
        BY <3>1, <3>4 DEF WorkspacePlaced
      <4>2. w \in DOMAIN trTarget'.workspaces /\ after = Put(stored, s, role)
        BY <1>9, <4>1
      <4>3. /\ DOMAIN after = DOMAIN stored \cup {s} /\ after[s] = role
            /\ after = [t \in DOMAIN after |-> after[t]]
            /\ \A t \in DOMAIN stored : t # s => after[t] = stored[t]
        BY <4>2 DEF Put
      <4>4. CASE trRun.kind = "migrate"
        BY <1>8, <2>2, <3>1, <3>4, <4>2, <4>3, <4>4 DEF WorkspacePlaced
      <4>5. CASE trRun.kind = "import"
        <5>1. DOMAIN stored \subseteq DOMAIN roles
          BY <3>1, <3>4, <4>5 DEF WorkspacePlaced
        <5>2. ASSUME NEW t \in DOMAIN roles
              PROVE  \/ Ahead(<<"link", <<w, t>>>>)'
                     \/ t \in DOMAIN after /\ after[t] = roles[t]
          <6>1. CASE t = s
            BY <4>3, <6>1 DEF role
          <6>2. CASE t # s
            <7>1. \/ Ahead(<<"link", <<w, t>>>>)
                  \/ t \in DOMAIN stored /\ stored[t] = roles[t]
              BY <3>1, <3>4, <4>5 DEF WorkspacePlaced
            <7>2. <<"link", <<w, t>>>> # trRun.todo[1]
              BY <1>4, <6>2
            <7> QED BY <1>8, <4>3, <6>2, <7>1, <7>2
          <6> QED BY <6>1, <6>2
        <5> HIDE DEF roles, stored, after
        <5>3. trRun'.kind = "import" /\ DOMAIN after \subseteq DOMAIN roles
          BY <1>8, <4>3, <4>5, <5>1 DEF roles
        <5> QED BY <1>8, <2>2, <4>2, <4>3, <5>2, <5>3 DEF WorkspacePlaced, roles, after
      <4> QED BY <1>1, <4>4, <4>5 DEF Importing
    <3> QED BY <3>3, <3>4
  <2> QED BY <2>1, <2>2
<1>11. /\ \A t : trRun.todo[1] # <<"session", t>>
       /\ \A c : trRun.todo[1] # <<"check", c>>
       /\ trRun.todo[1] # <<"vectors", "all">>
  BY <1>4
<1> QED BY <1>1, <1>6, <1>7, <1>9, <1>10, <1>11, SaveStep

LEMMA SaveCheckpointInv == TransferInv /\ SaveCheckpoint => TransferInv'
<1> SUFFICES ASSUME TransferInv, SaveCheckpoint PROVE TransferInv'
  OBVIOUS
<1>1. Importing /\ trRun.todo # <<>> /\ trRun.todo[1][1] = "check"
  BY DEF SaveCheckpoint, Loading, Importing
<1>2. /\ trSource' = trSource /\ trBackend' = trBackend /\ trFile' = trFile
      /\ trTarget' = [trTarget EXCEPT !.checks = @ \cup {Item}]
      /\ Advance(<<>>)
  BY DEF SaveCheckpoint
<1>3. <<>> \in Seq(ImportTasks(trRun.data))
  OBVIOUS
<1>4. /\ DOMAIN trTarget' = StoreFields /\ trTarget'.workspaces = trTarget.workspaces
      /\ trTarget'.sessions = trTarget.sessions /\ trTarget'.vectors = trTarget.vectors
      /\ trTarget'.checks = trTarget.checks \cup {Item}
  BY <1>1, <1>2, ImportFacts DEF StoreFields
<1>5. \A c : trRun.todo[1] = <<"check", c>> => c \in trTarget'.checks
  BY <1>4 DEF Item
<1>6. /\ \A s : trRun.todo[1] # <<"session", s>>
      /\ \A w : trRun.todo[1] # <<"workspace", w>>
      /\ \A w, s : trRun.todo[1] # <<"link", <<w, s>>>>
      /\ trRun.todo[1] # <<"vectors", "all">>
  BY <1>1
<1> QED BY <1>1, <1>2, <1>3, <1>4, <1>5, <1>6, SaveStep

LEMMA ImportVectorsInv == TransferInv /\ ImportVectors => TransferInv'
<1> SUFFICES ASSUME TransferInv, ImportVectors PROVE TransferInv'
  OBVIOUS
<1>1. Importing /\ trRun.todo # <<>> /\ trRun.todo[1][1] = "vectors"
  BY DEF ImportVectors, Loading, Importing
<1>2. /\ trSource' = trSource /\ trBackend' = trBackend /\ trFile' = trFile
      /\ trTarget' = IF trBackend.target = "rocksdb" THEN trTarget
                     ELSE [trTarget EXCEPT !.vectors = @ \cup trRun.data.vectors]
      /\ Advance(<<>>)
  BY DEF ImportVectors
<1>3. <<>> \in Seq(ImportTasks(trRun.data))
  OBVIOUS
<1>4. /\ DOMAIN trTarget' = StoreFields /\ trTarget'.workspaces = trTarget.workspaces
      /\ trTarget'.sessions = trTarget.sessions /\ trTarget'.checks = trTarget.checks
      /\ trTarget.vectors \subseteq trTarget'.vectors
      /\ trBackend.target = "surrealdb" => trRun.data.vectors \subseteq trTarget'.vectors
  BY <1>1, <1>2, ImportFacts DEF StoreFields
<1>5. /\ \A s : trRun.todo[1] # <<"session", s>>
      /\ \A w : trRun.todo[1] # <<"workspace", w>>
      /\ \A w, s : trRun.todo[1] # <<"link", <<w, s>>>>
      /\ \A c : trRun.todo[1] # <<"check", c>>
  BY <1>1
<1> QED BY <1>1, <1>2, <1>3, <1>4, <1>5, SaveStep

LEMMA TransferStep == TransferInv /\ [TransferNext]_transferVars => TransferInv'
<1> SUFFICES ASSUME TransferInv, [TransferNext]_transferVars PROVE TransferInv'
  OBVIOUS
<1>1. CASE UNCHANGED transferVars
  <2>1. /\ trSource' = trSource /\ trTarget' = trTarget /\ trBackend' = trBackend
        /\ trFile' = trFile /\ trRun' = trRun /\ trMust' = trMust
    BY <1>1 DEF transferVars
  <2>2. TransferTypeOK' /\ ExportComplete' /\ ExportCollects'
    BY <2>1 DEF TransferInv, TransferTypeOK, ExportComplete, ExportCollects, Importing, Ahead
  <2>3. ImportPlaces'
    BY <2>1 DEF TransferInv, ImportPlaces, Importing, SessionPlaced, WorkspacePlaced, Ahead,
                Excluded
  <2> QED BY <2>2, <2>3 DEF TransferInv
<1>2. CASE ExportFails
  <2>1. /\ trSource' = trSource /\ trTarget' = trTarget /\ trBackend' = trBackend
        /\ trRun' = NoRun /\ trFile' \subseteq trFile
    BY <1>2 DEF ExportFails
  <2> QED BY <2>1, CommandEnds
<1>3. CASE Report
  <2>1. /\ trSource' = trSource /\ trTarget' = trTarget /\ trBackend' = trBackend
        /\ trRun' = NoRun /\ trFile' \subseteq trFile
    BY <1>3 DEF Report
  <2> QED BY <2>1, CommandEnds
<1>4. CASE Killed
  <2>1. /\ trSource' = trSource /\ trTarget' = trTarget /\ trBackend' = trBackend
        /\ trRun' = NoRun /\ trFile' \subseteq trFile
    BY <1>4 DEF Killed
  <2> QED BY <2>1, CommandEnds
<1>5. CASE SaveFails
  <2>1. Importing /\ trRun.todo # <<>>
    BY <1>5 DEF SaveFails, Saves, Loading, Importing
  <2>2. /\ trSource' = trSource /\ trTarget' = trTarget /\ trBackend' = trBackend
        /\ trFile' = trFile
    BY <1>5 DEF SaveFails
  <2>3. trRun' = NoRun \/ Refuse
    BY <1>5 DEF SaveFails
  <2> QED BY <2>1, <2>2, <2>3, CommandEnds, RefuseInv
<1>6. CASE \E opt \in TrOptions : BeginImport(opt)
  <2>1. PICK opt \in TrOptions : BeginImport(opt)
    BY <1>6
  <2>2. PICK file \in trFile : Begin("import", file.data, opt)
    BY <2>1 DEF BeginImport
  <2>3. IsStore(file.data) /\ trTarget' = trTarget
    BY <2>2 DEF TransferInv, TransferTypeOK, Begin
  <2> QED BY <2>2, <2>3, BeginInv
<1>7. CASE BeginMigrate
  <2>1. /\ trBackend.target = "surrealdb" /\ trTarget' = trTarget /\ IsStore(trSource)
        /\ Begin("migrate", trSource, [filter |-> {}, skip |-> FALSE, overwrite |-> TRUE])
    BY <1>7 DEF BeginMigrate, Begin, TransferInv, TransferTypeOK
  <2> QED BY <2>1, BeginInv
<1>8. CASE \E k \in TrKinds, path \in TrPaths, compress \in TrCompress :
             BeginExport(k, path, compress)
  BY <1>8, BeginExportInv
<1>9. CASE \E what \in {"session", "workspace"} : PassOver(what)
  BY <1>9, PassOverInv
<1> QED
  BY <1>1, <1>2, <1>3, <1>4, <1>5, <1>6, <1>7, <1>8, <1>9, DaemonAddsInv, DaemonRemovesInv,
     LoadBlobInv, LoadRowsInv, LoadFailsInv, ListRestInv, PageOfVectorsInv, WriteExportFileInv,
     SaveSessionInv, SaveRowsInv, ReplaceWorkspaceInv, SaveWorkspaceInv, AddSessionInv,
     SaveCheckpointInv, ImportVectorsInv
  DEF TransferNext

LEMMA TransferInvSuffices == TransferInv => TransferSound
<1> SUFFICES ASSUME TransferInv PROVE TransferRestores
  BY DEF TransferInv, TransferSound
<1> SUFFICES ASSUME Importing, trRun.todo = <<>>, trRun.errors = 0
             PROVE  /\ \A s \in DOMAIN trRun.data.sessions :
                        \/ Excluded(s) \/ <<"session", s>> \in trRun.skipped
                        \/ /\ s \in DOMAIN trTarget.sessions
                           /\ trRun.data.sessions[s] \subseteq trTarget.sessions[s]
                    /\ \A w \in DOMAIN trRun.data.workspaces :
                        \/ <<"workspace", w>> \in trRun.skipped
                        \/ /\ w \in DOMAIN trTarget.workspaces
                           /\ IF trRun.kind = "import"
                              THEN trTarget.workspaces[w] = trRun.data.workspaces[w]
                              ELSE DOMAIN trRun.data.workspaces[w]
                                     \subseteq DOMAIN trTarget.workspaces[w]
                    /\ trRun.data.checks \subseteq trTarget.checks
                    /\ trBackend.target = "surrealdb" =>
                         trRun.data.vectors \subseteq trTarget.vectors
  BY DEF TransferRestores, Importing
<1>1. \A x : ~Ahead(x)
  BY TodoEmpty DEF Ahead
<1>2. /\ \A s \in DOMAIN trRun.data.sessions : SessionPlaced(s)
      /\ \A w \in DOMAIN trRun.data.workspaces : WorkspacePlaced(w)
      /\ \A c \in trRun.data.checks : Ahead(<<"check", c>>) \/ c \in trTarget.checks
      /\ trBackend.target = "surrealdb" =>
           Ahead(<<"vectors", "all">>) \/ trRun.data.vectors \subseteq trTarget.vectors
  BY DEF TransferInv, ImportPlaces
<1>3. ASSUME NEW s \in DOMAIN trRun.data.sessions
      PROVE  \/ Excluded(s) \/ <<"session", s>> \in trRun.skipped
             \/ /\ s \in DOMAIN trTarget.sessions
                /\ trRun.data.sessions[s] \subseteq trTarget.sessions[s]
  <2>1. SessionPlaced(s) /\ ~Ahead(<<"session", s>>)
    BY <1>1, <1>2
  <2> QED BY <2>1 DEF SessionPlaced
<1>4. ASSUME NEW w \in DOMAIN trRun.data.workspaces, <<"workspace", w>> \notin trRun.skipped
      PROVE  /\ w \in DOMAIN trTarget.workspaces
             /\ IF trRun.kind = "import"
                THEN trTarget.workspaces[w] = trRun.data.workspaces[w]
                ELSE DOMAIN trRun.data.workspaces[w] \subseteq DOMAIN trTarget.workspaces[w]
  <2> DEFINE roles == trRun.data.workspaces[w]
             stored == trTarget.workspaces[w]
  <2>1. WorkspacePlaced(w) /\ ~Ahead(<<"workspace", w>>)
    BY <1>1, <1>2
  <2>2. CASE trRun.kind = "import"
    <3>1. /\ w \in DOMAIN trTarget.workspaces /\ DOMAIN stored \subseteq DOMAIN roles
          /\ stored = [s \in DOMAIN stored |-> stored[s]]
          /\ \A s \in DOMAIN roles : s \in DOMAIN stored /\ stored[s] = roles[s]
      BY <1>1, <1>4, <2>1, <2>2 DEF WorkspacePlaced
    <3>2. roles = [s \in DOMAIN roles |-> roles[s]]
      BY ImportFacts DEF IsStore
    <3> HIDE DEF roles, stored
    <3>3. DOMAIN stored = DOMAIN roles
      BY <3>1
    <3>4. stored = roles
      BY <3>1, <3>2, <3>3
    <3> QED BY <2>2, <3>1, <3>4 DEF roles, stored
  <2>3. CASE trRun.kind # "import"
    BY <1>4, <2>1, <2>3 DEF WorkspacePlaced
  <2> QED BY <2>2, <2>3
<1> QED BY <1>1, <1>2, <1>3, <1>4

\* TransferSound of exports, imports and migrations, for any stores, options,
\* failures, kills and writes of the source's daemon: a file has every update
\* it owes, and an import that reports no error has put everything in place.
THEOREM TransfersAreSound == TransferSpec => []TransferSound
<1>1. TransferInit => TransferInv
  BY TransferInitInv
<1>2. TransferInv /\ [TransferNext]_transferVars => TransferInv'
  BY TransferStep
<1>3. TransferInv => TransferSound
  BY TransferInvSuffices
<1> QED BY <1>1, <1>2, <1>3, PTL DEF TransferSpec

(***************************************************************************)
(* Freshness.                                                              *)
(***************************************************************************)

\* One step further along the dependencies.
Spread(b, deps, S) == S \cup UNION {DueDependents(b, deps, s) : s \in S}

\* What is within a number of dependencies: the recursive function exists, and
\* does not depend on how far it is defined.
LEMMA WithinSteps ==
    ASSUME NEW b, NEW deps, NEW sym, NEW n \in Nat
    PROVE  /\ Within(b, deps, sym, 0) = {sym}
           /\ Within(b, deps, sym, n + 1) = Spread(b, deps, Within(b, deps, sym, n))
<1> DEFINE Reaches(k, g) ==
             g = [m \in 0 .. k |-> IF m = 0 THEN {sym} ELSE Spread(b, deps, g[m - 1])]
           Bad == {k \in Nat : ~\E g : Reaches(k, g)}
<1>1. Bad = {}
  <2> SUFFICES ASSUME Bad # {} PROVE FALSE
    OBVIOUS
  <2>1. Bad \in SUBSET Nat
    OBVIOUS
  <2>2. PICK k \in Bad : \A j \in Bad : k <= j
    BY <2>1, LeastNat
  <2>3. k # 0
    <3>1. Reaches(0, [m \in 0 .. 0 |-> {sym}])
      OBVIOUS
    <3> QED BY <2>2, <3>1
  <2>4. k \in Nat /\ k - 1 \in Nat /\ k - 1 \notin Bad
    <3>1. k \in Nat
      BY <2>2
    <3>2. k - 1 \in Nat /\ ~(k <= k - 1)
      BY <2>3, <3>1
    <3> HIDE DEF Bad
    <3> QED BY <2>2, <3>1, <3>2
  <2>5. PICK g : Reaches(k - 1, g)
    BY <2>4
  <2> DEFINE h == [m \in 0 .. k |-> IF m = k THEN Spread(b, deps, g[k - 1]) ELSE g[m]]
  <2>6. \A m \in 0 .. k - 1 : g[m] = IF m = 0 THEN {sym} ELSE Spread(b, deps, g[m - 1])
    BY <2>5
  <2>7. Reaches(k, h)
    <3>1. ASSUME NEW m \in 0 .. k
          PROVE  h[m] = IF m = 0 THEN {sym} ELSE Spread(b, deps, h[m - 1])
      <4>1. CASE m = 0
        BY <4>1, <2>3, <2>4, <2>6
      <4>2. CASE m = k
        BY <4>2, <2>3, <2>4
      <4>3. CASE m # 0 /\ m # k
        <5>1. m \in 0 .. k - 1 /\ m - 1 \in 0 .. k /\ m - 1 # k
          BY <4>3, <2>4
        <5> QED BY <4>3, <5>1, <2>6
      <4> QED BY <4>1, <4>2, <4>3
    <3> QED BY <3>1
  <2> QED BY <2>2, <2>7
<1>2. ASSUME NEW k \in Nat
      PROVE  \E g : Reaches(k, g) /\ Within(b, deps, sym, k) = g[k]
  <2>1. \E g : Reaches(k, g)
    BY <1>1
  <2> QED BY <2>1 DEF Within, Spread
<1>3. ASSUME NEW k \in Nat, NEW f, Reaches(k, f), NEW g, Reaches(k + 1, g), NEW m \in 0 .. k
      PROVE  f[m] = g[m]
  <2> DEFINE Apart == {j \in 0 .. k : f[j] # g[j]}
  <2>1. Apart = {}
    <3> SUFFICES ASSUME Apart # {} PROVE FALSE
      OBVIOUS
    <3>1. Apart \in SUBSET Nat
      OBVIOUS
    <3>2. PICK j \in Apart : \A i \in Apart : j <= i
      BY <3>1, LeastNat
    <3>3. j \in 0 .. k /\ j \in 0 .. k + 1
      BY <3>2
    <3>4. /\ f[j] = IF j = 0 THEN {sym} ELSE Spread(b, deps, f[j - 1])
          /\ g[j] = IF j = 0 THEN {sym} ELSE Spread(b, deps, g[j - 1])
      BY <1>3, <3>3
    <3>5. j # 0
      BY <3>2, <3>4
    <3>6. j - 1 \in 0 .. k /\ ~(j <= j - 1)
      BY <3>3, <3>5
    <3>7. f[j - 1] = g[j - 1]
      BY <3>2, <3>6
    <3> QED BY <3>2, <3>4, <3>5, <3>7
  <2> QED BY <2>1
<1>4. Within(b, deps, sym, 0) = {sym}
  <2>1. 0 \in Nat /\ 0 \in 0 .. 0
    OBVIOUS
  <2>2. PICK g : Reaches(0, g) /\ Within(b, deps, sym, 0) = g[0]
    <3> HIDE DEF Reaches
    <3> QED BY <1>2, <2>1
  <2> QED BY <2>1, <2>2
<1>5. PICK f : Reaches(n, f) /\ Within(b, deps, sym, n) = f[n]
  BY <1>2
<1>6. PICK g : Reaches(n + 1, g) /\ Within(b, deps, sym, n + 1) = g[n + 1]
  <2>1. n + 1 \in Nat
    OBVIOUS
  <2> HIDE DEF Reaches
  <2> QED BY <1>2, <2>1
<1>7. f[n] = g[n]
  <2>1. n \in 0 .. n
    OBVIOUS
  <2> HIDE DEF Reaches
  <2> QED BY <1>3, <1>5, <1>6, <2>1
<1>8. g[n + 1] = Spread(b, deps, g[n])
  <2>1. n + 1 \in 0 .. n + 1 /\ n + 1 # 0 /\ (n + 1) - 1 = n
    OBVIOUS
  <2> QED BY <1>6, <2>1
<1> QED BY <1>4, <1>5, <1>6, <1>7, <1>8

LEMMA WithinZero == ASSUME NEW b, NEW deps, NEW sym PROVE Within(b, deps, sym, 0) = {sym}
BY WithinSteps

\* A set that nothing leads out of has all that is within any distance.
LEMMA WithinClosed ==
    ASSUME NEW b, NEW deps, NEW sym, NEW S, sym \in S, NEW n \in Nat,
           \A s \in S : DueDependents(b, deps, s) \subseteq S
    PROVE  Within(b, deps, sym, n) \subseteq S
<1> DEFINE Bad == {k \in Nat : ~(Within(b, deps, sym, k) \subseteq S)}
<1>1. Bad = {}
  <2> SUFFICES ASSUME Bad # {} PROVE FALSE
    OBVIOUS
  <2>1. Bad \in SUBSET Nat
    OBVIOUS
  <2>2. PICK k \in Bad : \A j \in Bad : k <= j
    BY <2>1, LeastNat
  <2>3. k \in Nat /\ k # 0
    BY <2>2, WithinZero
  <2>4. PICK m \in Nat : k = m + 1
    BY <2>3
  <2>5. m \notin Bad
    <3>1. ~(k <= m)
      BY <2>4
    <3> HIDE DEF Bad
    <3> QED BY <2>2, <3>1
  <2>6. Within(b, deps, sym, k) = Spread(b, deps, Within(b, deps, sym, m))
    BY <2>4, WithinSteps
  <2>7. Within(b, deps, sym, m) \subseteq S
    BY <2>5
  <2>8. Within(b, deps, sym, k) \subseteq S
    BY <2>6, <2>7 DEF Spread
  <2> QED BY <2>2, <2>8
<1> QED BY <1>1

LEMMA WithinStart ==
    ASSUME NEW b, NEW deps, NEW sym, NEW n \in Nat PROVE sym \in Within(b, deps, sym, n)
<1> DEFINE Bad == {k \in Nat : sym \notin Within(b, deps, sym, k)}
<1>1. Bad = {}
  <2> SUFFICES ASSUME Bad # {} PROVE FALSE
    OBVIOUS
  <2>1. Bad \in SUBSET Nat
    OBVIOUS
  <2>2. PICK k \in Bad : \A j \in Bad : k <= j
    BY <2>1, LeastNat
  <2>3. k \in Nat /\ k # 0
    BY <2>2, WithinZero
  <2>4. PICK m \in Nat : k = m + 1
    BY <2>3
  <2>5. m \notin Bad
    <3>1. ~(k <= m)
      BY <2>4
    <3> HIDE DEF Bad
    <3> QED BY <2>2, <3>1
  <2>6. sym \in Within(b, deps, sym, k)
    BY <2>4, <2>5, WithinSteps DEF Spread
  <2> QED BY <2>2, <2>6
<1> QED BY <1>1

LEMMA DueKnown ==
    ASSUME NEW b, b = frBackend, NEW deps \in SUBSET frDeps, NEW s
    PROVE  DueDependents(b, deps, s) \subseteq DependentsOf(s)
<1> SUFFICES ASSUME NEW d \in deps,
                    d[2] = s \/ (d[2] = <<"any", s[2]>> /\ (b = "rocksdb" => FrLast[s[2]] = s[2]))
             PROVE  d[1] \in DependentsOf(s)
  BY DEF DueDependents
<1>1. \/ d[2] = s
      \/ IF Rocks THEN d[2][2] = FrLast[s[2]] ELSE d[2] = <<"any", s[2]>>
  BY DEF Rocks
<1> QED BY <1>1 DEF DependentsOf, Rocks

\* The queue of a walk after its first symbol was taken and others were added.
QueueMoved(X, queue, more, q) ==
    /\ q \in Seq(X) /\ DOMAIN q = 1 .. Len(q) /\ Len(q) \in Nat
    /\ \A i \in DOMAIN q :
         \/ i + 1 \in DOMAIN queue /\ q[i] = queue[i + 1]
         \/ i > Len(queue) - 1 /\ q[i] \in ToSet(more)
    /\ ToSet(queue) \subseteq {queue[1]} \cup ToSet(q)
    /\ ToSet(more) \subseteq ToSet(q) /\ ToSet(q) \subseteq ToSet(queue) \cup ToSet(more)
    /\ 1 \in DOMAIN queue

LEMMA QueueMoves ==
    ASSUME NEW X, NEW queue \in Seq(X), queue # <<>>, NEW more \in Seq(X)
    PROVE  QueueMoved(X, queue, more, Tail(queue) \o more)
<1>0. PICK q : q = Tail(queue) \o more
  OBVIOUS
<1>1. PICK n \in Nat : n + 1 = Len(queue)
  <2>1. Len(queue) \in Nat /\ Len(queue) # 0
    BY EmptySeq
  <2>2. Len(queue) - 1 \in Nat /\ (Len(queue) - 1) + 1 = Len(queue)
    BY <2>1
  <2> QED BY <2>2
<1>2. PICK m \in Nat : m = Len(more)
  OBVIOUS
<1>3. /\ Tail(queue) \in Seq(X) /\ Len(Tail(queue)) = n
      /\ \A i \in 1 .. n : Tail(queue)[i] = queue[i + 1]
  BY <1>1, HeadTailProperties
<1>4. /\ q \in Seq(X) /\ Len(q) = n + m
      /\ \A i \in 1 .. n : q[i] = queue[i + 1]
      /\ \A i \in 1 .. m : q[n + i] = more[i]
  <2>1. /\ q \in Seq(X) /\ Len(q) = n + m
        /\ \A i \in 1 .. n + m :
             q[i] = IF i <= n THEN Tail(queue)[i] ELSE more[i - n]
    <3>1. PICK s : s = Tail(queue)
      OBVIOUS
    <3>2. s \in Seq(X) /\ q = s \o more /\ Len(s) = n
      BY <1>0, <1>3, <3>1
    <3>3. /\ s \o more \in Seq(X) /\ Len(s \o more) = Len(s) + Len(more)
          /\ \A i \in 1 .. Len(s) + Len(more) :
               (s \o more)[i] = IF i <= Len(s) THEN s[i] ELSE more[i - Len(s)]
      BY <3>2, ConcatProperties
    <3> QED BY <1>2, <3>1, <3>2, <3>3
  <2>2. ASSUME NEW i \in 1 .. n PROVE q[i] = queue[i + 1]
    <3>1. i \in 1 .. n + m /\ i <= n
      BY <1>2
    <3> QED BY <1>3, <2>1, <3>1
  <2>3. ASSUME NEW i \in 1 .. m PROVE q[n + i] = more[i]
    <3>1. n + i \in 1 .. n + m /\ ~(n + i <= n) /\ (n + i) - n = i
      BY <1>2
    <3> QED BY <2>1, <3>1
  <2> QED BY <2>1, <2>2, <2>3
<1>5. DOMAIN q = 1 .. n + m /\ DOMAIN queue = 1 .. n + 1 /\ DOMAIN more = 1 .. m
  BY <1>1, <1>2, <1>4, LenProperties
<1>6. ASSUME NEW i \in DOMAIN q
      PROVE  \/ i + 1 \in DOMAIN queue /\ q[i] = queue[i + 1]
             \/ i > Len(queue) - 1 /\ q[i] \in ToSet(more)
  <2>1. CASE i <= n
    BY <1>4, <1>5, <2>1
  <2>2. CASE i > n
    <3>1. i - n \in 1 .. m /\ n + (i - n) = i
      BY <1>5, <2>2
    <3>2. q[i] = more[i - n]
      BY <1>4, <3>1
    <3> QED BY <1>1, <1>5, <2>2, <3>1, <3>2 DEF ToSet
  <2> QED BY <1>5, <2>1, <2>2
<1>7. ASSUME NEW i \in DOMAIN queue PROVE queue[i] \in {queue[1]} \cup ToSet(q)
  <2>1. CASE i = 1
    BY <2>1
  <2>2. CASE i # 1
    <3>1. i - 1 \in 1 .. n /\ (i - 1) + 1 = i /\ i - 1 \in DOMAIN q
      BY <1>5, <2>2
    <3>2. q[i - 1] = queue[i]
      BY <1>4, <3>1
    <3> QED BY <3>1, <3>2 DEF ToSet
  <2> QED BY <2>1, <2>2
<1>8. ASSUME NEW i \in DOMAIN more PROVE more[i] \in ToSet(q)
  <2>1. n + i \in DOMAIN q /\ q[n + i] = more[i]
    BY <1>2, <1>4, <1>5
  <2> QED BY <2>1 DEF ToSet
<1>9. ToSet(q) \subseteq ToSet(queue) \cup ToSet(more)
  BY <1>6 DEF ToSet
<1>10. ToSet(queue) \subseteq {queue[1]} \cup ToSet(q) /\ ToSet(more) \subseteq ToSet(q)
  BY <1>7, <1>8 DEF ToSet
<1>11. 1 \in DOMAIN queue
  BY <1>5
<1>12. Len(q) \in Nat /\ DOMAIN q = 1 .. Len(q)
  BY <1>2, <1>4, <1>5
<1> QED BY <1>0, <1>4, <1>6, <1>9, <1>10, <1>11, <1>12 DEF QueueMoved

\* The walk goes on: k is the task before, m after one symbol.
WalkSteps(b, deps, k, m, sym, depth, new, more) ==
    /\ b = frBackend /\ deps \in SUBSET frDeps
    /\ k.queue \in Seq(FrSymbols \X Nat) /\ k.queue # <<>> /\ k.max \in Nat
    /\ sym = k.queue[1][1] /\ depth = k.queue[1][2]
    /\ new = IF Expands(depth, k.max) THEN DependentsOf(sym) \ k.seen ELSE {}
    /\ more \in Seq(FrSymbols \X Nat)
    /\ \A x \in ToSet(more) : x[1] \in new /\ x[2] = depth + 1
    /\ \A s \in new : \E x \in ToSet(more) : x[1] = s
    /\ m.queue = Tail(k.queue) \o more /\ m.seen = k.seen \cup new
    /\ m.max = k.max /\ m.changed = k.changed
    /\ ToSet(k.found) \cup {sym} \subseteq {m.changed} \cup ToSet(m.found)

LEMMA WalkGoesOn ==
    ASSUME NEW b, NEW deps, NEW k, NEW m, NEW sym, NEW depth, NEW new, NEW more,
           WalkCovers(b, k, deps), WalkSteps(b, deps, k, m, sym, depth, new, more)
    PROVE  WalkCovers(b, m, deps)
<1> USE DEF WalkSteps
<1>1. PICK q : q = m.queue
  OBVIOUS
<1>2. /\ q \in Seq(FrSymbols \X Nat)
      /\ \A i \in DOMAIN q :
           \/ i + 1 \in DOMAIN k.queue /\ q[i] = k.queue[i + 1]
           \/ i > Len(k.queue) - 1 /\ q[i] \in ToSet(more)
      /\ ToSet(k.queue) \subseteq {k.queue[1]} \cup ToSet(q)
      /\ ToSet(more) \subseteq ToSet(q) /\ ToSet(q) \subseteq ToSet(k.queue) \cup ToSet(more)
      /\ 1 \in DOMAIN k.queue /\ DOMAIN q = 1 .. Len(q) /\ Len(q) \in Nat
  <2>1. PICK X : X = FrSymbols \X Nat
    OBVIOUS
  <2>2. QueueMoved(X, k.queue, more, Tail(k.queue) \o more)
    BY <2>1, QueueMoves
  <2>3. QueueMoved(X, k.queue, more, q)
    BY <1>1, <2>2
  <2> QED BY <2>1, <2>3 DEF QueueMoved
<1>3. depth \in Nat /\ depth <= k.max /\ Len(k.queue) \in Nat /\ DOMAIN k.queue = 1 .. Len(k.queue)
  BY <1>2 DEF WalkCovers
<1>4. /\ \A i, j \in DOMAIN k.queue :
           k.queue[i][2] \in {depth, depth + 1} /\ (i < j => k.queue[i][2] <= k.queue[j][2])
      /\ \A i \in DOMAIN k.queue : k.queue[i][2] <= k.max
      /\ Within(b, deps, k.changed, depth) \subseteq k.seen
      /\ k.seen \subseteq {k.changed} \cup ToSet(k.found) \cup WalkQueue(k)
  BY DEF WalkCovers
<1>5. \A x \in ToSet(more) : x[2] = depth + 1 /\ depth < k.max
  BY DEF Expands
<1>6. depth < k.max =>
        DueDependents(b, deps, sym) \subseteq m.seen /\ new = DependentsOf(sym) \ k.seen
  BY DueKnown DEF Expands
<1>7. WalkQueue(k) \subseteq {sym} \cup WalkQueue(m)
  BY <1>1, <1>2 DEF WalkQueue
<1>8. new \subseteq WalkQueue(m)
  BY <1>1, <1>2 DEF WalkQueue
<1>9. m.seen \subseteq {m.changed} \cup ToSet(m.found) \cup WalkQueue(m)
  BY <1>4, <1>7, <1>8
\* Everything seen that is not in the queue any more was expanded.
<1>10. depth < k.max => \A s \in m.seen : s \in WalkQueue(m) \/ DueDependents(b, deps, s) \subseteq m.seen
  <2> SUFFICES ASSUME depth < k.max, NEW s \in m.seen
               PROVE  s \in WalkQueue(m) \/ DueDependents(b, deps, s) \subseteq m.seen
    OBVIOUS
  <2>1. CASE s \in new
    BY <1>8, <2>1
  <2>2. CASE s \in k.seen
    <3>1. s \in WalkQueue(k) \/ DueDependents(b, deps, s) \subseteq k.seen
      BY <2>2 DEF WalkCovers
    <3>2. CASE s = sym
      BY <1>6, <3>2
    <3> QED BY <1>7, <3>1, <3>2
  <2> QED BY <2>1, <2>2
<1>11. depth < k.max =>
         Within(b, deps, k.changed, depth + 1) \subseteq
           k.seen \cup UNION {DueDependents(b, deps, s) :
                                s \in {x[1] : x \in {p \in ToSet(k.queue) : p[2] = depth}}}
  BY DEF WalkCovers
<1>12. \A i \in DOMAIN q : q[i][2] \in {depth, depth + 1} /\ q[i][2] <= k.max
  <2> SUFFICES ASSUME NEW i \in DOMAIN q
               PROVE  q[i][2] \in {depth, depth + 1} /\ q[i][2] <= k.max
    OBVIOUS
  <2>1. CASE i + 1 \in DOMAIN k.queue /\ q[i] = k.queue[i + 1]
    BY <1>4, <2>1
  <2>2. CASE q[i] \in ToSet(more)
    BY <1>3, <1>5, <2>2
  <2> QED BY <1>2, <2>1, <2>2
<1>13. \A i, j \in DOMAIN q : i < j => q[i][2] <= q[j][2]
  <2> SUFFICES ASSUME NEW i \in DOMAIN q, NEW j \in DOMAIN q, i < j PROVE q[i][2] <= q[j][2]
    OBVIOUS
  <2>1. i \in Nat /\ j \in Nat
    <3>1. DOMAIN q = 1 .. Len(q) /\ Len(q) \in Nat
      BY <1>2
    <3> QED BY <3>1
  <2>2. CASE q[j] \in ToSet(more)
    <3>1. q[i][2] \in {depth, depth + 1} /\ q[j][2] = depth + 1
      BY <1>5, <1>12, <2>2
    <3> QED BY <1>3, <3>1
  <2>3. CASE j + 1 \in DOMAIN k.queue /\ q[j] = k.queue[j + 1]
    <3>1. ~(i > Len(k.queue) - 1)
      BY <1>3, <2>1, <2>3
    <3>2. i + 1 \in DOMAIN k.queue /\ q[i] = k.queue[i + 1]
      BY <1>2, <3>1
    <3> QED BY <1>4, <2>1, <2>3, <3>2, SMTT(30)
  <2> QED BY <1>2, <2>2, <2>3
<1>14. CASE q = <<>>
  <2>1. WalkQueue(m) = {}
    BY <1>1, <1>14 DEF WalkQueue, ToSet
  <2>2. Within(b, deps, m.changed, m.max) \subseteq m.seen
    <3>1. CASE depth < k.max
      <4>1. \A s \in m.seen : DueDependents(b, deps, s) \subseteq m.seen
        BY <1>10, <2>1, <3>1
      <4>2. m.changed \in m.seen
        <5>1. k.changed \in Within(b, deps, k.changed, depth)
          BY <1>3, WithinStart
        <5> QED BY <1>4, <5>1
      <4> QED BY <4>1, <4>2, WithinClosed
    <3>2. CASE depth = k.max
      BY <1>4, <3>2
    <3> QED BY <1>3, <3>1, <3>2
  <2> QED BY <1>1, <1>9, <1>14, <2>2 DEF WalkCovers
<1>15. CASE q # <<>>
  <2>1. PICK e \in Nat : e = q[1][2]
    BY <1>2, <1>15
  <2>2. 1 \in DOMAIN q /\ e \in {depth, depth + 1} /\ e <= k.max
    <3>1. Len(q) # 0
      BY <1>2, <1>15, EmptySeq
    <3>2. 1 \in DOMAIN q
      BY <1>2, <3>1
    <3> QED BY <1>12, <2>1, <3>2
  <2>3. \A i, j \in DOMAIN q :
          q[i][2] \in {e, e + 1} /\ (i < j => q[i][2] <= q[j][2]) /\ q[i][2] <= k.max
    <3> SUFFICES ASSUME NEW i \in DOMAIN q PROVE q[i][2] \in {e, e + 1}
      BY <1>12, <1>13
    <3>1. i = 1 \/ 1 < i
      BY <1>2
    <3>2. PICK z : z = q[i][2]
      OBVIOUS
    <3>3. e <= z /\ z \in {depth, depth + 1}
      BY <1>3, <1>12, <1>13, <2>1, <2>2, <3>1, <3>2
    <3>4. z \in {e, e + 1}
      BY <1>3, <2>1, <2>2, <3>3
    <3> QED BY <3>2, <3>4
  <2>4. Within(b, deps, m.changed, e) \subseteq m.seen
    <3>1. CASE e = depth
      BY <1>4, <3>1
    <3>2. CASE e = depth + 1
      <4>1. \A x \in ToSet(k.queue) : x[2] = depth => x = k.queue[1]
        <5> SUFFICES ASSUME NEW x \in ToSet(k.queue), x # k.queue[1] PROVE x[2] # depth
          OBVIOUS
        <5>1. x \in ToSet(q)
          BY <1>2
        <5>2. PICK i \in DOMAIN q : x = q[i]
          BY <5>1 DEF ToSet
        <5>3. i = 1 \/ 1 < i
          BY <1>2
        <5>4. e <= q[i][2] /\ q[i][2] \in {depth, depth + 1}
          BY <1>3, <1>12, <1>13, <2>1, <2>2, <5>3
        <5> QED BY <1>3, <3>2, <5>2, <5>4
      <4>2. depth < k.max
        BY <1>3, <2>2, <3>2
      <4>3. Within(b, deps, k.changed, depth + 1) \subseteq k.seen \cup DueDependents(b, deps, sym)
        BY <1>11, <4>1, <4>2
      <4> QED BY <1>6, <3>2, <4>2, <4>3
    <3> QED BY <2>2, <3>1, <3>2
  <2>5. e < m.max =>
          /\ Within(b, deps, m.changed, e + 1) \subseteq
               m.seen \cup UNION {DueDependents(b, deps, s) :
                                    s \in {x[1] : x \in {p \in ToSet(q) : p[2] = e}}}
          /\ \A s \in m.seen : s \in WalkQueue(m) \/ DueDependents(b, deps, s) \subseteq m.seen
    <3> SUFFICES ASSUME e < m.max
                 PROVE  /\ Within(b, deps, m.changed, e + 1) \subseteq
                             m.seen \cup UNION {DueDependents(b, deps, s) :
                                s \in {x[1] : x \in {p \in ToSet(q) : p[2] = e}}}
                        /\ \A s \in m.seen : \/ s \in WalkQueue(m)
                                             \/ DueDependents(b, deps, s) \subseteq m.seen
      OBVIOUS
    <3>1. depth < k.max
      BY <1>3, <2>2
    <3>2. ASSUME NEW y \in Within(b, deps, m.changed, e + 1)
          PROVE  y \in m.seen \cup UNION {DueDependents(b, deps, s) :
                                s \in {x[1] : x \in {p \in ToSet(q) : p[2] = e}}}
      <4>1. CASE e = depth
        <5>1. CASE y \in k.seen
          BY <5>1
        <5>2. CASE y \notin k.seen
          <6>4. y \in Within(b, deps, k.changed, depth + 1)
            BY <3>2, <4>1
          <6>5. y \in UNION {DueDependents(b, deps, s) :
                                s \in {x[1] : x \in {p \in ToSet(k.queue) : p[2] = depth}}}
            BY <1>11, <3>1, <5>2, <6>4
          <6>6. PICK s \in {x[1] : x \in {p \in ToSet(k.queue) : p[2] = depth}} :
                  y \in DueDependents(b, deps, s)
            BY <6>5
          <6>1. PICK x \in ToSet(k.queue) : x[2] = depth /\ y \in DueDependents(b, deps, x[1])
            BY <6>6
          <6>2. CASE x = k.queue[1]
            BY <1>6, <3>1, <6>1, <6>2
          <6>3. CASE x # k.queue[1]
            BY <1>2, <4>1, <6>1, <6>3
          <6> QED BY <6>2, <6>3
        <5> QED BY <5>1, <5>2
      <4>2. CASE e = depth + 1
        <5>1. y \in Spread(b, deps, Within(b, deps, m.changed, e))
          BY <3>2, WithinSteps
        <5>2. y \in m.seen \/ \E s \in m.seen : y \in DueDependents(b, deps, s)
          BY <2>4, <5>1 DEF Spread
        <5>3. ASSUME NEW s \in m.seen, y \in DueDependents(b, deps, s), y \notin m.seen
              PROVE  \E x \in ToSet(q) : x[2] = e /\ x[1] = s
          <6>1. s \in WalkQueue(m)
            BY <1>10, <3>1, <5>3
          <6>4. PICK x \in ToSet(q) : s = x[1]
            BY <1>1, <6>1 DEF WalkQueue
          <6>5. PICK i \in DOMAIN q : x = q[i]
            BY <6>4 DEF ToSet
          <6>2. q[i][1] = s
            BY <6>4, <6>5
          <6>3. q[i][2] = e
            BY <1>3, <1>12, <2>3, <4>2, <6>2, SMTT(30)
          <6> QED BY <6>2, <6>3 DEF ToSet
        <5>4. CASE \E s \in m.seen : y \in DueDependents(b, deps, s)
          <6>1. PICK s \in m.seen : y \in DueDependents(b, deps, s)
            BY <5>4
          <6>2. CASE y \in m.seen
            BY <6>2
          <6>3. CASE y \notin m.seen
            <7>1. PICK x \in ToSet(q) : x[2] = e /\ x[1] = s
              BY <5>3, <6>1, <6>3
            <7>2. s \in {z[1] : z \in {p \in ToSet(q) : p[2] = e}}
              BY <7>1
            <7> QED BY <6>1, <7>2
          <6> QED BY <6>2, <6>3
        <5> QED BY <5>2, <5>4
      <4> QED BY <2>2, <4>1, <4>2
    <3> QED BY <1>10, <3>1, <3>2
  <2>6. m.queue = q /\ m.queue[1][2] = e /\ m.queue # <<>>
    BY <1>1, <1>15, <2>1
  <2>7. e <= m.max
    BY <2>2
  <2>8. \A i, j \in DOMAIN m.queue :
          m.queue[i][2] \in {e, e + 1} /\ (i < j => m.queue[i][2] <= m.queue[j][2])
    BY <2>3, <2>6
  <2>9. \A i \in DOMAIN m.queue : m.queue[i][2] <= m.max
    BY <2>3, <2>6
  <2>10. m.queue[1][2] < m.max =>
          /\ Within(b, deps, m.changed, m.queue[1][2] + 1) \subseteq
               m.seen \cup UNION {DueDependents(b, deps, s) :
                 s \in {x[1] : x \in {p \in ToSet(m.queue) : p[2] = m.queue[1][2]}}}
          /\ \A s \in m.seen : s \in WalkQueue(m) \/ DueDependents(b, deps, s) \subseteq m.seen
    <3> HIDE DEF WalkSteps
    <3> QED BY <2>5, <2>6, ZenonT(30)
  <2>11. Within(b, deps, m.changed, m.queue[1][2]) \subseteq m.seen
    BY <2>4, <2>6
  <2> QED BY <1>9, <2>6, <2>7, <2>8, <2>9, <2>10, <2>11, ZenonT(40) DEF WalkCovers
<1> QED BY <1>14, <1>15

\* What a task owes does not grow when the references it covers stay, or get
\* marked, and dependencies are added.
RefsKept(due) ==
    \A e \in due \cap DOMAIN frRefs' :
        /\ e \in DOMAIN frRefs
        /\ frRefs'[e].file = frRefs[e].file /\ frRefs'[e].name = frRefs[e].name
        /\ frRefs[e].stale => frRefs'[e].stale

LEMMA FileOwesKept ==
    ASSUME NEW k, NEW m, FileOwes(k), m.due \subseteq k.due, RefsKept(m.due),
           m.read = k.read, m.doomed = k.doomed, m.file = k.file
    PROVE  FileOwes(m)'
<1> SUFFICES ASSUME NEW e \in m.due \cap DOMAIN frRefs'
             PROVE  IF m.read THEN <<frRefs'[e].file, e>> \in m.doomed ELSE frRefs'[e].file = m.file
  BY DEF FileOwes
<1>1. e \in k.due \cap DOMAIN frRefs /\ frRefs'[e].file = frRefs[e].file
  BY DEF RefsKept
<1>2. IF k.read THEN <<frRefs[e].file, e>> \in k.doomed ELSE frRefs[e].file = k.file
  BY <1>1 DEF FileOwes
<1> QED BY <1>1, <1>2

LEMMA CascadeOwesKept ==
    ASSUME NEW k, NEW m, CascadeOwes(k), m.due \subseteq k.due, RefsKept(m.due),
           frBackend' = frBackend, frDeps \subseteq frDeps',
           m.stage = k.stage, m.changed = k.changed, m.max = k.max, m.queue = k.queue,
           m.seen = k.seen, m.found = k.found, m.doomed = k.doomed, m.left = k.left,
           m.marks = k.marks
    PROVE  CascadeOwes(m)'
<1>1. ASSUME NEW e \in m.due \cap DOMAIN frRefs'
      PROVE  /\ e \in k.due \cap DOMAIN frRefs /\ frRefs'[e].file = frRefs[e].file
             /\ SymbolOf(e)' = SymbolOf(e) /\ (frRefs[e].stale => frRefs'[e].stale)
  BY DEF RefsKept, SymbolOf
<1>2. ASSUME m.stage = "walk"
      PROVE  \E deps \in SUBSET frDeps' :
                /\ WalkCovers(frBackend, m, deps)
                /\ \A e \in m.due \cap DOMAIN frRefs' :
                     SymbolOf(e)' \in Within(frBackend, deps, m.changed, m.max)
  <2>1. PICK deps \in SUBSET frDeps :
               /\ WalkCovers(frBackend, k, deps)
               /\ \A e \in k.due \cap DOMAIN frRefs :
                    SymbolOf(e) \in Within(frBackend, deps, k.changed, k.max)
    BY <1>2 DEF CascadeOwes
  <2>2. WalkCovers(frBackend, m, deps)
    BY <2>1 DEF WalkCovers, WalkQueue
  <2>3. deps \in SUBSET frDeps'
    OBVIOUS
  <2> QED BY <1>1, <2>1, <2>2, <2>3
<1>3. ASSUME m.stage = "read", NEW e \in m.due \cap DOMAIN frRefs'
      PROVE  \/ <<frRefs'[e].file, e>> \in m.doomed
             \/ frRefs'[e].file \in m.left /\ SymbolOf(e)' \in ToSet(m.marks)
  BY <1>1, <1>3 DEF CascadeOwes
<1>4. ASSUME m.stage = "mark", NEW e \in m.due \cap DOMAIN frRefs'
      PROVE  frRefs'[e].stale \/ SymbolOf(e)' \in ToSet(m.marks)
  BY <1>1, <1>4 DEF CascadeOwes
<1> QED BY <1>2, <1>3, <1>4 DEF CascadeOwes

LEMMA TaskKept ==
    ASSUME NEW k, FreshnessTask(k), frBackend' = frBackend PROVE FreshnessTask(k)'
BY DEF FreshnessTask, Rocks

\* A step of one task: the others keep what they owe.
LEMMA TaskSteps ==
    ASSUME FreshnessInv, frOpen, frOpen' = frOpen, frBackend' = frBackend, frMarker' = frMarker,
           frDeps \subseteq frDeps', \A d \in frDeps' : d[1] \in DOMAIN FrDeps,
           NEW t \in FrTasks, NEW m, frTask' = [frTask EXCEPT ![t] = m], FreshnessTask(m),
           \A e \in DOMAIN frRefs' :
              /\ DOMAIN frRefs'[e] = {"file", "name", "hash", "ast", "stale"}
              /\ frRefs'[e].stale \in BOOLEAN
              /\ <<frRefs[e].file, e>> \in frIndex => <<frRefs[e].file, e>> \in frIndex',
           RefsKept(DOMAIN frRefs'),
           m.op = "invalidate" => FileOwes(m)', m.op = "cascade" => CascadeOwes(m)',
           \A e \in frDue' \cap DOMAIN frRefs' : e \in frDue \/ (~Rocks /\ frRefs'[e].stale)
    PROVE  FreshnessInv'
<1>1. ASSUME NEW u \in FrTasks PROVE frTask'[u] = IF u = t THEN m ELSE frTask[u]
  BY DEF FreshnessInv, FreshnessTypeOK
<1>2. FreshnessTypeOK'
  <2>1. ASSUME NEW u \in FrTasks PROVE FreshnessTask(frTask[u])'
    <3>1. PICK k : k = frTask'[u]
      OBVIOUS
    <3>2. FreshnessTask(k)
      BY <1>1, <3>1 DEF FreshnessInv, FreshnessTypeOK
    <3> QED BY <3>1, <3>2 DEF FreshnessTask, Rocks
  <2>2. DOMAIN frTask' = FrTasks
    BY DEF FreshnessInv, FreshnessTypeOK
  <2> QED BY <2>1, <2>2 DEF FreshnessTypeOK
<1>3. IndexComplete'
  BY DEF FreshnessInv, IndexComplete, RefsKept, Rocks
<1>4. ASSUME NEW u \in FrTasks
      PROVE  /\ frTask'[u].op = "invalidate" => FileOwes(frTask[u])'
             /\ frTask'[u].op = "cascade" => CascadeOwes(frTask[u])'
  <2>1. PICK k : k = frTask'[u]
    OBVIOUS
  <2>2. CASE u = t
    <3>1. k = m
      BY <1>1, <2>1, <2>2
    <3>2. (k.op = "invalidate" => FileOwes(k)') /\ (k.op = "cascade" => CascadeOwes(k)')
      BY <3>1
    <3> QED BY <2>1, <3>2 DEF FileOwes, CascadeOwes, SymbolOf
  <2>3. CASE u # t
    <3>1. k = frTask[u] /\ RefsKept(k.due)
      BY <1>1, <2>1, <2>3 DEF RefsKept
    <3>2. (k.op = "invalidate" => FileOwes(k)) /\ (k.op = "cascade" => CascadeOwes(k))
      BY <3>1 DEF FreshnessInv, InvalidationsOwe
    <3>3. (k.op = "invalidate" => FileOwes(k)') /\ (k.op = "cascade" => CascadeOwes(k)')
      BY <3>1, <3>2, FileOwesKept, CascadeOwesKept
    <3> QED BY <2>1, <3>3 DEF FileOwes, CascadeOwes, SymbolOf
  <2> QED BY <2>2, <2>3
<1>5. InvalidationsOwe'
  BY <1>4 DEF InvalidationsOwe
<1>6. DueIsStale'
  BY DEF FreshnessInv, DueIsStale, RefsKept, Rocks
<1> QED BY <1>2, <1>3, <1>5, <1>6 DEF FreshnessInv

LEMMA TaskOnly ==
    ASSUME FreshnessInv, frOpen,
           UNCHANGED <<frBackend, frOpen, frRefs, frIndex, frMarker, frDue>>,
           frDeps \subseteq frDeps', \A d \in frDeps' : d[1] \in DOMAIN FrDeps,
           NEW t \in FrTasks, NEW m, frTask' = [frTask EXCEPT ![t] = m], FreshnessTask(m),
           m.op = "invalidate" => FileOwes(m), m.op = "cascade" => CascadeOwes(m)
    PROVE  FreshnessInv'
<1>1. \A e \in DOMAIN frRefs' :
        /\ DOMAIN frRefs'[e] = {"file", "name", "hash", "ast", "stale"}
        /\ frRefs'[e].stale \in BOOLEAN
        /\ <<frRefs[e].file, e>> \in frIndex => <<frRefs[e].file, e>> \in frIndex'
  BY DEF FreshnessInv, FreshnessTypeOK
<1>2. RefsKept(DOMAIN frRefs') /\ RefsKept(m.due)
  BY DEF RefsKept
<1>3. (m.op = "invalidate" => FileOwes(m)') /\ (m.op = "cascade" => CascadeOwes(m)')
  BY <1>2, FileOwesKept, CascadeOwesKept
<1>4. \A e \in frDue' \cap DOMAIN frRefs' : e \in frDue \/ (~Rocks /\ frRefs'[e].stale)
  OBVIOUS
<1> QED BY <1>1, <1>2, <1>3, <1>4, TaskSteps

\* A task that runs has an open storage under it, indexed on RocksDB.
LEMMA TaskRuns ==
    ASSUME FreshnessInv, NEW t \in FrTasks, frTask[t] # NoTask
    PROVE  frOpen /\ (Rocks => frMarker)
BY DEF FreshnessInv, IndexComplete

LEMMA TaskKinds ==
    ASSUME FreshnessInv, NEW t \in FrTasks
    PROVE  FreshnessTask(frTask[t])
BY DEF FreshnessInv, FreshnessTypeOK

LEMMA DepsKnown == ASSUME FreshnessInv PROVE \A d \in frDeps : d[1] \in DOMAIN FrDeps
BY DEF FreshnessInv, FreshnessTypeOK

LEMMA RegisterSourceKeeps ==
    ASSUME FreshnessInv, NEW t \in FrTasks, NEW r \in FrRefs, RegisterSource(t, r)
    PROVE  FreshnessInv'
<1>1. PICK m : m = [op |-> "register", ref |-> r, read |-> FALSE, old |-> "none"]
  OBVIOUS
<1>2. FreshnessTask(m) /\ m.op = "register"
  BY <1>1 DEF FreshnessTask
<1>3. frTask' = [frTask EXCEPT ![t] = m]
  BY <1>1 DEF RegisterSource, Becomes
<1> QED BY <1>2, <1>3, TaskOnly, DepsKnown DEF RegisterSource

LEMMA RegisterSourceBatchKeeps ==
    ASSUME FreshnessInv, NEW refs \in [FrTasks -> FrRefs], RegisterSourceBatch(refs)
    PROVE  FreshnessInv'
<1>1. ASSUME NEW t \in FrTasks
      PROVE  frTask'[t] = [op |-> "register", ref |-> refs[t], read |-> FALSE, old |-> "none"]
  BY DEF RegisterSourceBatch
<1>2. ASSUME NEW t \in FrTasks PROVE FreshnessTask(frTask[t])' /\ frTask'[t].op = "register"
  <2>1. PICK k : k = frTask'[t]
    OBVIOUS
  <2>2. k = [op |-> "register", ref |-> refs[t], read |-> FALSE, old |-> "none"] /\ refs[t] \in FrRefs
    BY <1>1, <2>1
  <2>3. k.op = "register" /\ FreshnessTask(k)'
    BY <2>2 DEF FreshnessTask
  <2> QED BY <2>1, <2>3 DEF FreshnessTask, Rocks
<1>3. FreshnessTypeOK'
  BY <1>2 DEF RegisterSourceBatch, FreshnessInv, FreshnessTypeOK
<1>4. IndexComplete'
  BY DEF RegisterSourceBatch, FreshnessInv, IndexComplete, Rocks
<1>5. InvalidationsOwe'
  BY <1>2 DEF InvalidationsOwe
<1>6. DueIsStale'
  BY DEF RegisterSourceBatch, FreshnessInv, DueIsStale, Rocks
<1> QED BY <1>3, <1>4, <1>5, <1>6 DEF FreshnessInv

LEMMA ReadOldKeeps ==
    ASSUME FreshnessInv, NEW t \in FrTasks, ReadOld(t)
    PROVE  FreshnessInv'
<1>1. PICK k : k = frTask[t]
  OBVIOUS
<1>2. PICK old : old = IF k.ref.entry \in DOMAIN frRefs THEN frRefs[k.ref.entry].file ELSE "none"
  OBVIOUS
<1>3. PICK m : m = [k EXCEPT !.read = TRUE, !.old = old]
  OBVIOUS
<1>4. frTask' = [frTask EXCEPT ![t] = m]
  BY <1>1, <1>2, <1>3 DEF ReadOld, Becomes
<1>5. k.op = "register" /\ k # NoTask
  BY <1>1 DEF ReadOld, NoTask
<1>6. DOMAIN k = {"op", "ref", "read", "old"} /\ k.ref \in FrRefs
  BY <1>1, <1>5, TaskKinds DEF FreshnessTask, NoTask
<1>7. FreshnessTask(m) /\ m.op = "register"
  BY <1>3, <1>5, <1>6 DEF FreshnessTask
<1> QED BY <1>1, <1>4, <1>5, <1>7, TaskOnly, TaskRuns, DepsKnown DEF ReadOld

LEMMA RegisterSymbolDependenciesKeeps ==
    ASSUME FreshnessInv, NEW t \in FrTasks, NEW from \in DOMAIN FrDeps,
           RegisterSymbolDependencies(t, from)
    PROVE  FreshnessInv'
<1>1. PICK m : m = [op |-> "depend", from |-> from, left |-> FrDeps[from]]
  OBVIOUS
<1>2. FreshnessTask(m) /\ m.op = "depend"
  BY <1>1 DEF FreshnessTask
<1>3. frTask' = [frTask EXCEPT ![t] = m]
  BY <1>1 DEF RegisterSymbolDependencies, Becomes
<1> QED BY <1>2, <1>3, TaskOnly, DepsKnown DEF RegisterSymbolDependencies

LEMMA WriteDependenciesKeeps ==
    ASSUME FreshnessInv, NEW t \in FrTasks, WriteDependencies(t)
    PROVE  FreshnessInv'
<1>1. PICK k : k = frTask[t]
  OBVIOUS
<1>2. k.op = "depend" /\ k # NoTask
  BY <1>1 DEF WriteDependencies, NoTask
<1>3. DOMAIN k = {"op", "from", "left"} /\ k.from \in DOMAIN FrDeps
  BY <1>1, <1>2, TaskKinds DEF FreshnessTask, NoTask
<1>0. PICK some \in IF Rocks THEN {frTask[t].left} ELSE {{x} : x \in frTask[t].left} :
        /\ frDeps' = frDeps \cup {<<frTask[t].from, x>> : x \in some}
        /\ Becomes(t, IF frTask[t].left \ some = {} THEN NoTask
                       ELSE [frTask[t] EXCEPT !.left = frTask[t].left \ some])
  BY DEF WriteDependencies
<1>4. /\ frDeps' = frDeps \cup {<<k.from, x>> : x \in some}
        /\ Becomes(t, IF k.left \ some = {} THEN NoTask ELSE [k EXCEPT !.left = k.left \ some])
  BY <1>0, <1>1
<1>5. PICK m : m = IF k.left \ some = {} THEN NoTask ELSE [k EXCEPT !.left = k.left \ some]
  OBVIOUS
<1>6. frTask' = [frTask EXCEPT ![t] = m]
  BY <1>4, <1>5 DEF Becomes
<1>7. FreshnessTask(m) /\ m.op \in {"depend", "idle"}
  BY <1>2, <1>3, <1>5 DEF FreshnessTask, NoTask
<1>8. frDeps \subseteq frDeps' /\ \A d \in frDeps' : d[1] \in DOMAIN FrDeps
  BY <1>3, <1>4, DepsKnown
<1> QED BY <1>1, <1>2, <1>6, <1>7, <1>8, TaskOnly, TaskRuns DEF WriteDependencies

LEMMA FailKeeps ==
    ASSUME FreshnessInv, NEW t \in FrTasks, Fail(t)
    PROVE  FreshnessInv'
<1>1. PICK m : m = NoTask
  OBVIOUS
<1>2. frTask' = [frTask EXCEPT ![t] = m] /\ frTask[t] # NoTask
  BY <1>1 DEF Fail, Becomes
<1>3. FreshnessTask(m) /\ m.op = "idle"
  BY <1>1 DEF FreshnessTask, NoTask
<1> QED BY <1>2, <1>3, TaskOnly, TaskRuns, DepsKnown DEF Fail

LEMMA OpenStorageKeeps ==
    ASSUME FreshnessInv, OpenStorage
    PROVE  FreshnessInv'
<1>1. ASSUME NEW t \in FrTasks PROVE frTask'[t] = NoTask
  BY DEF FreshnessInv, IndexComplete, OpenStorage
<1>2. ASSUME NEW t \in FrTasks PROVE FreshnessTask(frTask[t])' /\ frTask'[t].op = "idle"
  BY <1>1 DEF FreshnessTask, NoTask
<1>3. FreshnessTypeOK'
  BY <1>2 DEF OpenStorage, FreshnessInv, FreshnessTypeOK
<1>4. IndexComplete'
  BY <1>1 DEF OpenStorage, FreshnessInv, IndexComplete, Rocks
<1>5. InvalidationsOwe'
  BY <1>2 DEF InvalidationsOwe
<1>6. DueIsStale'
  BY DEF OpenStorage, FreshnessInv, DueIsStale, Rocks
<1> QED BY <1>3, <1>4, <1>5, <1>6 DEF FreshnessInv

LEMMA CrashKeeps ==
    ASSUME FreshnessInv, Crash
    PROVE  FreshnessInv'
<1>1. ASSUME NEW t \in FrTasks PROVE frTask'[t] = NoTask
  BY DEF Crash
<1>2. ASSUME NEW t \in FrTasks PROVE FreshnessTask(frTask[t])' /\ frTask'[t].op = "idle"
  BY <1>1 DEF FreshnessTask, NoTask
<1>3. FreshnessTypeOK'
  BY <1>2 DEF Crash, FreshnessInv, FreshnessTypeOK
<1>4. IndexComplete'
  BY <1>1 DEF Crash, FreshnessInv, IndexComplete, Rocks
<1>5. InvalidationsOwe'
  BY <1>2 DEF InvalidationsOwe
<1>6. DueIsStale'
  BY DEF Crash, FreshnessInv, DueIsStale, Rocks
<1> QED BY <1>3, <1>4, <1>5, <1>6 DEF FreshnessInv

LEMMA TailSet ==
    ASSUME NEW X, NEW s \in Seq(X), s # <<>>
    PROVE  /\ ToSet(s) = {s[1]} \cup ToSet(Tail(s)) /\ Tail(s) \in Seq(X)
           /\ Len(s) = 1 => ToSet(s) = {s[1]}
           /\ Len(s) # 1 => Tail(s) # <<>>
<1>1. Len(s) \in Nat \ {0} /\ DOMAIN s = 1 .. Len(s)
  BY EmptySeq, LenProperties
<1>2. PICK n \in Nat : n + 1 = Len(s)
  <2>1. Len(s) - 1 \in Nat /\ (Len(s) - 1) + 1 = Len(s)
    BY <1>1
  <2> QED BY <2>1
<1>3. Tail(s) \in Seq(X) /\ Len(Tail(s)) = n /\ \A i \in 1 .. n : Tail(s)[i] = s[i + 1]
  BY <1>2, HeadTailProperties
<1>4. DOMAIN Tail(s) = 1 .. n
  BY <1>3, LenProperties
<1>5. ASSUME NEW i \in DOMAIN s PROVE s[i] \in {s[1]} \cup ToSet(Tail(s))
  <2>1. CASE i = 1
    BY <2>1
  <2>2. CASE i # 1
    <3>1. i - 1 \in 1 .. n /\ (i - 1) + 1 = i
      BY <1>1, <1>2, <2>2
    <3>2. Tail(s)[i - 1] = s[i]
      BY <1>3, <3>1
    <3> QED BY <1>4, <3>1, <3>2 DEF ToSet
  <2> QED BY <2>1, <2>2
<1>6. ASSUME NEW i \in DOMAIN Tail(s) PROVE Tail(s)[i] \in ToSet(s)
  <2>1. i + 1 \in DOMAIN s /\ Tail(s)[i] = s[i + 1]
    <3>1. i \in 1 .. n
      BY <1>4
    <3>2. i + 1 \in 1 .. Len(s)
      BY <1>2, <3>1
    <3> QED BY <1>1, <1>3, <3>1, <3>2
  <2> QED BY <2>1 DEF ToSet
<1>7. s[1] \in ToSet(s)
  BY <1>1 DEF ToSet
<1>8. ToSet(s) = {s[1]} \cup ToSet(Tail(s))
  BY <1>5, <1>6, <1>7 DEF ToSet
<1>9. Len(s) = 1 => ToSet(s) = {s[1]}
  BY <1>1 DEF ToSet
<1>10. Len(s) # 1 => Tail(s) # <<>>
  BY <1>2, <1>3, EmptySeq
<1> QED BY <1>3, <1>8, <1>9, <1>10

LEMMA JoinSet ==
    ASSUME NEW X, NEW s \in Seq(X), NEW t \in Seq(X)
    PROVE  ToSet(s \o t) = ToSet(s) \cup ToSet(t) /\ s \o t \in Seq(X)
<1>1. PICK n \in Nat, m \in Nat : n = Len(s) /\ m = Len(t)
  BY LenProperties
<1>2. DOMAIN s = 1 .. n /\ DOMAIN t = 1 .. m
  BY <1>1, LenProperties
<1>3. /\ s \o t \in Seq(X) /\ Len(s \o t) = n + m
      /\ \A i \in 1 .. n + m : (s \o t)[i] = IF i <= n THEN s[i] ELSE t[i - n]
  BY <1>1, ConcatProperties
<1>4. DOMAIN (s \o t) = 1 .. n + m
  BY <1>3, LenProperties
<1>5. ASSUME NEW i \in 1 .. n PROVE s[i] \in ToSet(s \o t)
  <2>1. i \in 1 .. n + m /\ i <= n
    BY <1>1
  <2>2. (s \o t)[i] = s[i]
    BY <1>3, <2>1
  <2> QED BY <1>4, <2>1, <2>2 DEF ToSet
<1>6. ASSUME NEW i \in 1 .. m PROVE t[i] \in ToSet(s \o t)
  <2>1. n + i \in 1 .. n + m /\ ~(n + i <= n) /\ (n + i) - n = i
    BY <1>1
  <2>2. (s \o t)[n + i] = t[i]
    BY <1>3, <2>1
  <2> QED BY <1>4, <2>1, <2>2 DEF ToSet
<1>7. ASSUME NEW i \in 1 .. n + m PROVE (s \o t)[i] \in ToSet(s) \cup ToSet(t)
  <2>1. CASE i <= n
    <3>1. i \in DOMAIN s /\ (s \o t)[i] = s[i]
      BY <1>1, <1>2, <1>3, <2>1
    <3> QED BY <3>1 DEF ToSet
  <2>2. CASE ~(i <= n)
    <3>1. i - n \in DOMAIN t /\ (s \o t)[i] = t[i - n]
      BY <1>1, <1>2, <1>3, <2>2
    <3> QED BY <3>1 DEF ToSet
  <2> QED BY <2>1, <2>2
<1> QED BY <1>2, <1>3, <1>4, <1>5, <1>6, <1>7 DEF ToSet

LEMMA OneSet == ASSUME NEW X, NEW x \in X PROVE ToSet(<<x>>) = {x} /\ <<x>> \in Seq(X)
BY DEF ToSet

LEMMA InvalidateKeeps ==
    ASSUME FreshnessInv, NEW t \in FrTasks, NEW file, Invalidate(t, file)
    PROVE  FreshnessInv'
<1>1. PICK due : due = {e \in DOMAIN frRefs : frRefs[e].file = file}
  OBVIOUS
<1>2. PICK m : m = [op |-> "invalidate", file |-> file, read |-> FALSE, doomed |-> {}, due |-> due]
  OBVIOUS
<1>3. FreshnessTask(m) /\ m.op = "invalidate"
  BY <1>2 DEF FreshnessTask
<1>4. FileOwes(m)
  BY <1>1, <1>2 DEF FileOwes
<1>5. frTask' = [frTask EXCEPT ![t] = m]
  BY <1>1, <1>2 DEF Invalidate, Becomes
<1> QED BY <1>3, <1>4, <1>5, TaskOnly, DepsKnown DEF Invalidate

LEMMA ReadFileKeeps ==
    ASSUME FreshnessInv, NEW t \in FrTasks, ReadFile(t)
    PROVE  FreshnessInv'
<1>1. PICK k : k = frTask[t]
  OBVIOUS
<1>2. k.op = "invalidate" /\ k # NoTask /\ Rocks /\ ~k.read
  BY <1>1 DEF ReadFile, NoTask
<1>3. DOMAIN k = {"op", "file", "read", "doomed", "due"}
  BY <1>1, <1>2, TaskKinds DEF FreshnessTask, NoTask
<1>4. PICK doomed : doomed = {<<k.file, e>> : e \in ReferencesForFile(k.file)}
  OBVIOUS
<1>5. PICK m : m = [k EXCEPT !.read = TRUE, !.doomed = doomed]
  OBVIOUS
<1>6. frTask' = [frTask EXCEPT ![t] = m]
  BY <1>1, <1>4, <1>5 DEF ReadFile, Becomes
<1>7. FreshnessTask(m) /\ m.op = "invalidate"
  BY <1>2, <1>3, <1>5 DEF FreshnessTask
<1>8. ASSUME NEW e \in m.due \cap DOMAIN frRefs PROVE <<frRefs[e].file, e>> \in m.doomed
  <2>1. e \in k.due /\ FileOwes(k)
    BY <1>1, <1>2, <1>3, <1>5 DEF FreshnessInv, InvalidationsOwe
  <2>2. frRefs[e].file = k.file
    BY <1>2, <2>1 DEF FileOwes
  <2>3. <<frRefs[e].file, e>> \in frIndex
    BY <1>1, <1>2, TaskRuns DEF FreshnessInv, IndexComplete
  <2>4. e \in ReferencesForFile(k.file)
    BY <2>2, <2>3 DEF ReferencesForFile
  <2> QED BY <1>3, <1>4, <1>5, <2>2, <2>4
<1>9. FileOwes(m)
  BY <1>3, <1>5, <1>8 DEF FileOwes
<1> QED BY <1>1, <1>2, <1>6, <1>7, <1>9, TaskOnly, TaskRuns, DepsKnown DEF ReadFile

\* What a RocksDB task deletes: the index loses no reference that stays.
LEMMA DeletedKeeps ==
    ASSUME FreshnessInv, NEW doomed, Deleted(doomed)
    PROVE  /\ \A e \in DOMAIN frRefs' :
                /\ DOMAIN frRefs'[e] = {"file", "name", "hash", "ast", "stale"}
                /\ frRefs'[e].stale \in BOOLEAN
                /\ <<frRefs[e].file, e>> \in frIndex => <<frRefs[e].file, e>> \in frIndex'
           /\ RefsKept(DOMAIN frRefs')
           /\ \A e \in DOMAIN frRefs' : <<frRefs[e].file, e>> \notin doomed /\ e \in DOMAIN frRefs
<1> SUFFICES ASSUME NEW e \in DOMAIN frRefs'
             PROVE  /\ DOMAIN frRefs'[e] = {"file", "name", "hash", "ast", "stale"}
                    /\ frRefs'[e].stale \in BOOLEAN
                    /\ <<frRefs[e].file, e>> \in frIndex => <<frRefs[e].file, e>> \in frIndex'
                    /\ e \in DOMAIN frRefs /\ frRefs'[e] = frRefs[e]
                    /\ <<frRefs[e].file, e>> \notin doomed
  BY DEF RefsKept
<1>1. e \in DOMAIN frRefs /\ e \notin {d[2] : d \in doomed} /\ frRefs'[e] = frRefs[e]
  BY DEF Deleted
<1>2. <<frRefs[e].file, e>> \notin doomed
  <2> SUFFICES ASSUME <<frRefs[e].file, e>> \in doomed PROVE FALSE
    OBVIOUS
  <2>1. <<frRefs[e].file, e>>[2] \in {d[2] : d \in doomed}
    OBVIOUS
  <2> QED BY <1>1, <2>1
<1>3. <<frRefs[e].file, e>> \in frIndex => <<frRefs[e].file, e>> \in frIndex'
  BY <1>2 DEF Deleted
<1> QED BY <1>1, <1>2, <1>3 DEF FreshnessInv, FreshnessTypeOK

LEMMA MarkedKeeps ==
    ASSUME FreshnessInv, NEW chosen, Marked(chosen)
    PROVE  /\ \A e \in DOMAIN frRefs' :
                /\ DOMAIN frRefs'[e] = {"file", "name", "hash", "ast", "stale"}
                /\ frRefs'[e].stale \in BOOLEAN
                /\ <<frRefs[e].file, e>> \in frIndex => <<frRefs[e].file, e>> \in frIndex'
           /\ RefsKept(DOMAIN frRefs')
           /\ DOMAIN frRefs' = DOMAIN frRefs
           /\ \A e \in DOMAIN frRefs' \cap chosen : frRefs'[e].stale
<1>1. DOMAIN frRefs' = DOMAIN frRefs /\ frIndex' = frIndex
  BY DEF Marked
<1>2. ASSUME NEW e \in DOMAIN frRefs
      PROVE  /\ DOMAIN frRefs'[e] = {"file", "name", "hash", "ast", "stale"}
             /\ frRefs'[e].stale \in BOOLEAN
             /\ frRefs'[e].file = frRefs[e].file /\ frRefs'[e].name = frRefs[e].name
             /\ frRefs[e].stale \/ e \in chosen => frRefs'[e].stale
  <2>1. PICK r : r = frRefs[e]
    OBVIOUS
  <2>2. frRefs'[e] = IF e \in chosen THEN [r EXCEPT !.stale = TRUE] ELSE r
    BY <2>1 DEF Marked
  <2>3. DOMAIN r = {"file", "name", "hash", "ast", "stale"} /\ r.stale \in BOOLEAN
    BY <2>1 DEF FreshnessInv, FreshnessTypeOK
  <2> QED BY <2>1, <2>2, <2>3
<1> QED BY <1>1, <1>2 DEF RefsKept

LEMMA InvalidateSourceKeeps ==
    ASSUME FreshnessInv, NEW t \in FrTasks, InvalidateSource(t)
    PROVE  FreshnessInv'
<1>1. PICK k : k = frTask[t]
  OBVIOUS
<1>2. k.op = "invalidate" /\ k # NoTask /\ (Rocks => k.read)
  BY <1>1 DEF InvalidateSource, NoTask
<1>3. k.read => Rocks
  BY <1>1, <1>2, TaskKinds DEF FreshnessTask, NoTask
<1>4. PICK m : m = NoTask
  OBVIOUS
<1>5. frTask' = [frTask EXCEPT ![t] = m] /\ frDue' = frDue \cup k.due
  BY <1>1, <1>4 DEF InvalidateSource, Finish, Becomes
<1>6. FreshnessTask(m) /\ m.op = "idle"
  BY <1>4 DEF FreshnessTask, NoTask
<1>7. FileOwes(k)
  BY <1>1, <1>2 DEF FreshnessInv, InvalidationsOwe
<1>8. CASE Rocks
  <2>1. Deleted(k.doomed)
    BY <1>1, <1>8 DEF InvalidateSource
  <2>2. \A e \in k.due : e \notin DOMAIN frRefs'
    BY <1>2, <1>7, <1>8, <2>1, DeletedKeeps DEF FileOwes
  <2> QED BY <1>1, <1>2, <1>5, <1>6, <2>1, <2>2, DeletedKeeps, TaskSteps, TaskRuns, DepsKnown
          DEF InvalidateSource
<1>9. CASE ~Rocks
  <2>1. PICK chosen : chosen = {e \in DOMAIN frRefs : frRefs[e].file = k.file}
    OBVIOUS
  <2>2. Marked(chosen)
    BY <1>1, <1>9, <2>1 DEF InvalidateSource
  <2>3. \A e \in k.due \cap DOMAIN frRefs' : frRefs'[e].stale
    <3> SUFFICES ASSUME NEW e \in k.due, e \in DOMAIN frRefs' PROVE frRefs'[e].stale
      OBVIOUS
    <3>1. e \in DOMAIN frRefs
      BY <2>2, MarkedKeeps
    <3>2. frRefs[e].file = k.file
      BY <1>3, <1>7, <1>9, <3>1 DEF FileOwes
    <3>3. e \in chosen
      BY <2>1, <3>1, <3>2
    <3> QED BY <2>2, <3>3, MarkedKeeps
  <2> QED BY <1>1, <1>2, <1>5, <1>6, <1>9, <2>2, <2>3, MarkedKeeps, TaskSteps, TaskRuns, DepsKnown
          DEF InvalidateSource
<1> QED BY <1>8, <1>9

LEMMA WriteReferenceKeeps ==
    ASSUME FreshnessInv, NEW t \in FrTasks, WriteReference(t)
    PROVE  FreshnessInv'
<1>1. PICK r : r = frTask[t].ref
  OBVIOUS
<1>2. PICK old : old = frTask[t].old
  OBVIOUS
<1>3. /\ frTask[t].op = "register" /\ frTask[t] # NoTask
      /\ frRefs' = [e \in DOMAIN frRefs \cup {r.entry} |->
                      IF e = r.entry THEN StoredRefs(r, FALSE) ELSE frRefs[e]]
      /\ frIndex' = IF Rocks THEN Indexed(r, old) ELSE frIndex
      /\ frDue' = frDue \ {r.entry}
      /\ frTask' = [u \in FrTasks |->
                      IF u = t THEN NoTask
                      ELSE IF frTask[u].op \in {"invalidate", "cascade"}
                           THEN [frTask[u] EXCEPT !.due = @ \ {r.entry}] ELSE frTask[u]]
      /\ UNCHANGED <<frBackend, frOpen, frMarker, frDeps>>
  BY <1>1, <1>2 DEF WriteReference, NoTask
<1>4. frOpen /\ (Rocks => frMarker)
  BY <1>3, TaskRuns
<1>5. ASSUME NEW e \in DOMAIN frRefs', e # r.entry
      PROVE  e \in DOMAIN frRefs /\ frRefs'[e] = frRefs[e]
  BY <1>3, <1>5
<1>6. r.entry \in DOMAIN frRefs' /\ frRefs'[r.entry] = StoredRefs(r, FALSE)
  BY <1>3
<1>7. ASSUME NEW u \in FrTasks
      PROVE  /\ FreshnessTask(frTask[u])'
             /\ frTask'[u].op = "invalidate" => FileOwes(frTask[u])'
             /\ frTask'[u].op = "cascade" => CascadeOwes(frTask[u])'
  <2>1. PICK k : k = frTask[u]
    OBVIOUS
  <2>2. PICK m : m = frTask'[u]
    OBVIOUS
  <2>3. FreshnessTask(k)
    BY <2>1, TaskKinds
  <2>4. m = IF u = t THEN NoTask
            ELSE IF k.op \in {"invalidate", "cascade"} THEN [k EXCEPT !.due = @ \ {r.entry}] ELSE k
    BY <1>3, <2>1, <2>2
  <2>5. CASE m = NoTask
    <3>1. m.op = "idle" /\ FreshnessTask(m)
      BY <2>5 DEF NoTask, FreshnessTask
    <3> QED BY <1>3, <2>2, <3>1 DEF FreshnessTask, Rocks
  <2>6. CASE k.op \in {"invalidate", "cascade"} /\ m = [k EXCEPT !.due = @ \ {r.entry}]
    <3>1. "due" \in DOMAIN k /\ "op" \in DOMAIN k
      BY <2>3, <2>6 DEF FreshnessTask, NoTask
    <3>2. m.op = k.op /\ m.due = k.due \ {r.entry}
      BY <2>6, <3>1
    <3>3. FreshnessTask(m)
      <4>1. CASE k.op = "invalidate"
        <5>1. DOMAIN k = {"op", "file", "read", "doomed", "due"} /\ (k.read => Rocks)
          BY <2>3, <4>1 DEF FreshnessTask, NoTask
        <5> QED BY <2>6, <4>1, <5>1 DEF FreshnessTask
      <4>2. CASE k.op = "cascade"
        <5>1. /\ k.stage \in {"walk", IF Rocks THEN "read" ELSE "mark"}
              /\ DOMAIN k = {"op", "changed", "max", "queue", "seen", "found", "stage", "marks",
                             "left", "doomed", "due"}
              /\ k.max \in Nat /\ k.queue \in Seq(FrSymbols \X Nat) /\ k.changed \in FrSymbols
              /\ \A i \in DOMAIN k.queue : k.queue[i][2] = 0 => k.queue[i][1] = k.changed
              /\ k.found \in Seq(FrSymbols) /\ k.marks \in Seq(FrSymbols)
              /\ k.stage = "mark" => k.marks # <<>>
          BY <2>3, <4>2 DEF FreshnessTask, NoTask
        <5>2. /\ m.op = "cascade" /\ DOMAIN m = DOMAIN k /\ m.stage = k.stage /\ m.max = k.max
              /\ m.queue = k.queue /\ m.changed = k.changed /\ m.found = k.found
              /\ m.marks = k.marks
          BY <2>6, <4>2, <5>1
        <5> QED BY <5>1, <5>2 DEF FreshnessTask
      <4> QED BY <2>6, <4>1, <4>2
    <3>4. RefsKept(m.due)
      BY <1>5, <3>2 DEF RefsKept
    <3>5. (k.op = "invalidate" => FileOwes(k)) /\ (k.op = "cascade" => CascadeOwes(k))
      BY <2>1 DEF FreshnessInv, InvalidationsOwe
    <3>6. m.op = "invalidate" => FileOwes(m)'
      <4> SUFFICES ASSUME m.op = "invalidate" PROVE FileOwes(m)'
        OBVIOUS
      <4>1. DOMAIN k = {"op", "file", "read", "doomed", "due"}
        BY <2>3, <3>2 DEF FreshnessTask, NoTask
      <4>2. m.read = k.read /\ m.doomed = k.doomed /\ m.file = k.file
        BY <2>6, <4>1
      <4>3. m.due \subseteq k.due /\ FileOwes(k)
        BY <3>2, <3>5
      <4> QED BY <3>4, <4>2, <4>3, FileOwesKept
    <3>7. m.op = "cascade" => CascadeOwes(m)'
      <4> SUFFICES ASSUME m.op = "cascade" PROVE CascadeOwes(m)'
        OBVIOUS
      <4>1. DOMAIN k = {"op", "changed", "max", "queue", "seen", "found", "stage", "marks",
                        "left", "doomed", "due"}
        BY <2>3, <3>2 DEF FreshnessTask, NoTask
      <4>2. /\ m.stage = k.stage /\ m.changed = k.changed /\ m.max = k.max /\ m.queue = k.queue
            /\ m.seen = k.seen /\ m.found = k.found /\ m.doomed = k.doomed /\ m.left = k.left
            /\ m.marks = k.marks
        BY <2>6, <4>1
      <4>3. m.due \subseteq k.due /\ CascadeOwes(k) /\ frDeps \subseteq frDeps'
        BY <1>3, <3>2, <3>5
      <4> QED BY <1>3, <3>4, <4>2, <4>3, CascadeOwesKept
    <3>8. FreshnessTask(m)'
      BY <1>3, <3>3, TaskKept
    <3>9. FreshnessTask(frTask[u])'
      BY <2>2, <3>8 DEF FreshnessTask, Rocks
    <3>10. frTask'[u].op = "invalidate" => FileOwes(frTask[u])'
      BY <2>2, <3>6 DEF FileOwes
    <3>11. frTask'[u].op = "cascade" => CascadeOwes(frTask[u])'
      BY <2>2, <3>7 DEF CascadeOwes, SymbolOf
    <3> QED BY <3>9, <3>10, <3>11
  <2>7. CASE m = k /\ k.op \notin {"invalidate", "cascade"}
    BY <1>3, <2>2, <2>3, <2>7 DEF FreshnessTask, Rocks
  <2> QED BY <2>4, <2>5, <2>6, <2>7
<1>8. ASSUME NEW e \in DOMAIN frRefs'
      PROVE  /\ DOMAIN frRefs'[e] = {"file", "name", "hash", "ast", "stale"}
             /\ frRefs'[e].stale \in BOOLEAN
             /\ Rocks => <<frRefs'[e].file, e>> \in frIndex'
  <2>1. CASE e = r.entry
    <3>1. frRefs'[e] = StoredRefs(r, FALSE)
      BY <1>6, <2>1
    <3>2. Rocks => <<r.file, e>> \in frIndex'
      BY <1>3, <2>1 DEF Indexed
    <3> QED BY <3>1, <3>2 DEF StoredRefs
  <2>2. CASE e # r.entry
    <3>1. e \in DOMAIN frRefs /\ frRefs'[e] = frRefs[e]
      BY <1>5, <2>2
    <3>2. Rocks => <<frRefs[e].file, e>> \in frIndex
      BY <1>4, <3>1 DEF FreshnessInv, IndexComplete
    <3>3. <<frRefs[e].file, e>> # <<old, r.entry>>
      BY <2>2
    <3>4. Rocks => <<frRefs[e].file, e>> \in frIndex'
      BY <1>3, <3>2, <3>3 DEF Indexed
    <3> QED BY <3>1, <3>4 DEF FreshnessInv, FreshnessTypeOK
  <2> QED BY <2>1, <2>2
<1>9. FreshnessTypeOK'
  <2>1. DOMAIN frTask' = FrTasks
    BY <1>3
  <2> QED BY <1>3, <1>7, <1>8, <2>1, DepsKnown DEF FreshnessTypeOK
<1>10. IndexComplete'
  BY <1>3, <1>4, <1>8 DEF IndexComplete, Rocks
<1>11. DueIsStale'
  BY <1>3, <1>5 DEF FreshnessInv, DueIsStale, Rocks
<1> QED BY <1>7, <1>9, <1>10, <1>11 DEF FreshnessInv, InvalidationsOwe

\* What is known of a cascade while it runs.
LEMMA CascadeKnown ==
    ASSUME FreshnessInv, NEW t \in FrTasks, NEW k, k = frTask[t], k.op = "cascade"
    PROVE  /\ k.stage \in {"walk", IF Rocks THEN "read" ELSE "mark"}
           /\ DOMAIN k = {"op", "changed", "max", "queue", "seen", "found", "stage", "marks",
                          "left", "doomed", "due"}
           /\ k.max \in Nat /\ k.queue \in Seq(FrSymbols \X Nat) /\ k.changed \in FrSymbols
           /\ \A i \in DOMAIN k.queue : k.queue[i][2] = 0 => k.queue[i][1] = k.changed
           /\ k.found \in Seq(FrSymbols) /\ k.marks \in Seq(FrSymbols)
           /\ k.stage = "mark" => k.marks # <<>>
           /\ frOpen /\ (Rocks => frMarker) /\ CascadeOwes(k)
<1>1. frTask[t] # NoTask
  BY DEF NoTask
<1>2. FreshnessTask(k) /\ CascadeOwes(k)
  BY DEF FreshnessInv, FreshnessTypeOK, InvalidationsOwe
<1> QED BY <1>1, <1>2, TaskRuns DEF FreshnessTask, NoTask

LEMMA CascadeInvalidateKeeps ==
    ASSUME FreshnessInv, FreshnessAssumption, NEW t \in FrTasks, NEW c \in FrChanged,
           CascadeInvalidate(t, c[1], c[2])
    PROVE  FreshnessInv'
<1>1. PICK changed, max, due :
        /\ changed = c[1] /\ max = DepthOf(c[2])
        /\ due = {e \in DOMAIN frRefs : <<frRefs[e].file, frRefs[e].name>>
                                          \in Within(frBackend, frDeps, c[1], DepthOf(c[2]))}
  OBVIOUS
<1>2. changed \in FrSymbols /\ max \in Nat
  BY <1>1 DEF FrSymbols, FreshnessAssumption, DepthOf
<1>3. PICK m : m = [op |-> "cascade", changed |-> changed, max |-> max,
                    queue |-> <<<<changed, 0>>>>, seen |-> {changed}, found |-> <<>>,
                    stage |-> "walk", marks |-> <<>>, left |-> {}, doomed |-> {}, due |-> due]
  OBVIOUS
<1>4. frTask' = [frTask EXCEPT ![t] = m]
  BY <1>1, <1>3 DEF CascadeInvalidate, Becomes
<1>5. m.queue = <<<<changed, 0>>>> /\ m.queue \in Seq(FrSymbols \X Nat)
      /\ DOMAIN m.queue = {1} /\ m.queue[1] = <<changed, 0>> /\ m.queue # <<>>
  <2>1. <<changed, 0>> \in FrSymbols \X Nat
    BY <1>2
  <2>2. m.queue = <<<<changed, 0>>>>
    BY <1>3
  <2>3. DOMAIN <<<<changed, 0>>>> = {1}
    OBVIOUS
  <2> QED BY <2>1, <2>2, <2>3
<1>6. FreshnessTask(m) /\ m.op = "cascade" /\ m.stage = "walk"
  BY <1>2, <1>3, <1>5 DEF FreshnessTask
<1>7. WalkCovers(frBackend, m, frDeps)
  <2>1. WalkQueue(m) = {changed} /\ ToSet(m.queue) = {<<changed, 0>>}
    BY <1>5 DEF WalkQueue, ToSet
  <2>2. m.seen = {changed} /\ m.changed = changed /\ m.max = max
    BY <1>3
  <2>3. Within(frBackend, frDeps, changed, 0) = {changed}
    BY WithinZero
  <2>4. Within(frBackend, frDeps, changed, 0 + 1)
          = {changed} \cup DueDependents(frBackend, frDeps, changed)
    <3>1. 0 \in Nat
      OBVIOUS
    <3> QED BY <2>3, <3>1, WithinSteps DEF Spread
  <2>5. {q[1] : q \in {p \in ToSet(m.queue) : p[2] = 0}} = {changed}
    <3>1. <<changed, 0>>[2] = 0 /\ <<changed, 0>>[1] = changed
      OBVIOUS
    <3>2. {p \in ToSet(m.queue) : p[2] = 0} = {<<changed, 0>>}
      BY <2>1, <3>1
    <3>3. {q[1] : q \in {<<changed, 0>>}} = {<<changed, 0>>[1]}
      OBVIOUS
    <3> QED BY <3>1, <3>2, <3>3
  <2>6. m.queue[1][2] = 0 /\ 0 <= max
    BY <1>2, <1>5
  <2>7. \A i, j \in DOMAIN m.queue :
          m.queue[i][2] \in {0, 0 + 1} /\ (i < j => m.queue[i][2] <= m.queue[j][2])
    BY <1>5
  <2>8. \A i \in DOMAIN m.queue : m.queue[i][2] <= m.max
    BY <1>5, <2>2, <2>6
  <2>9. Within(frBackend, frDeps, m.changed, 0 + 1)
          \subseteq m.seen \cup UNION {DueDependents(frBackend, frDeps, s) :
                               s \in {q[1] : q \in {p \in ToSet(m.queue) : p[2] = 0}}}
    BY <2>2, <2>4, <2>5
  <2>10. \A s \in m.seen : s \in WalkQueue(m)
    BY <2>1, <2>2
  <2>11. m.seen \subseteq {m.changed} \cup ToSet(m.found) \cup WalkQueue(m)
    BY <2>2
  <2>12. Within(frBackend, frDeps, m.changed, 0) \subseteq m.seen
    BY <2>2, <2>3
  <2> QED BY <1>5, <2>2, <2>6, <2>7, <2>8, <2>9, <2>10, <2>11, <2>12 DEF WalkCovers
<1>8. CascadeOwes(m)
  <2>1. \A e \in m.due \cap DOMAIN frRefs :
          SymbolOf(e) \in Within(frBackend, frDeps, m.changed, m.max)
    BY <1>1, <1>3 DEF SymbolOf
  <2> QED BY <1>6, <1>7, <2>1 DEF CascadeOwes
<1> QED BY <1>4, <1>6, <1>8, TaskOnly, DepsKnown DEF CascadeInvalidate

LEMMA WalkKeeps ==
    ASSUME FreshnessInv, FreshnessAssumption, NEW t \in FrTasks, Walk(t)
    PROVE  FreshnessInv'
<1>1. PICK k : k = frTask[t]
  OBVIOUS
<1>2. k.op = "cascade" /\ k.stage = "walk" /\ k.queue # <<>>
  BY <1>1 DEF Walk
<1>3. /\ DOMAIN k = {"op", "changed", "max", "queue", "seen", "found", "stage", "marks",
                     "left", "doomed", "due"}
      /\ k.max \in Nat /\ k.queue \in Seq(FrSymbols \X Nat) /\ k.changed \in FrSymbols
      /\ \A i \in DOMAIN k.queue : k.queue[i][2] = 0 => k.queue[i][1] = k.changed
      /\ k.found \in Seq(FrSymbols) /\ k.marks \in Seq(FrSymbols)
      /\ frOpen /\ CascadeOwes(k)
  BY <1>1, <1>2, CascadeKnown
<1>4. PICK deps \in SUBSET frDeps :
        /\ WalkCovers(frBackend, k, deps)
        /\ \A e \in k.due \cap DOMAIN frRefs :
             SymbolOf(e) \in Within(frBackend, deps, k.changed, k.max)
  BY <1>2, <1>3 DEF CascadeOwes
<1>5. PICK sym, depth : sym = k.queue[1][1] /\ depth = k.queue[1][2]
  OBVIOUS
<1>6. PICK new : new = IF Expands(depth, k.max) THEN DependentsOf(sym) \ k.seen ELSE {}
  OBVIOUS
<1>7. UNCHANGED <<frBackend, frOpen, frRefs, frIndex, frMarker, frDeps, frDue>>
  BY DEF Walk
<1>8. PICK order \in SetToSeqs(new) :
        frTask' = [frTask EXCEPT ![t] = [k EXCEPT
             !.queue = Tail(@) \o [i \in DOMAIN order |-> <<order[i], depth + 1>>],
             !.seen = @ \cup new,
             !.found = IF depth > 0 THEN Append(@, sym) ELSE @]]
  <2>1. PICK order \in SetToSeqs(IF Expands(frTask[t].queue[1][2], frTask[t].max)
                                 THEN DependentsOf(frTask[t].queue[1][1]) \ frTask[t].seen ELSE {}) :
          frTask' = [frTask EXCEPT ![t] = [frTask[t] EXCEPT
             !.queue = Tail(@) \o [i \in DOMAIN order |-> <<order[i], frTask[t].queue[1][2] + 1>>],
             !.seen = @ \cup (IF Expands(frTask[t].queue[1][2], frTask[t].max)
                              THEN DependentsOf(frTask[t].queue[1][1]) \ frTask[t].seen ELSE {}),
             !.found = IF frTask[t].queue[1][2] > 0 THEN Append(@, frTask[t].queue[1][1]) ELSE @]]
    BY Zenon DEF Walk, Becomes
  <2>2. order \in SetToSeqs(new)
    BY <1>1, <1>5, <1>6, <2>1
  <2>3. frTask' = [frTask EXCEPT ![t] = [k EXCEPT
             !.queue = Tail(@) \o [i \in DOMAIN order |-> <<order[i], depth + 1>>],
             !.seen = @ \cup new,
             !.found = IF depth > 0 THEN Append(@, sym) ELSE @]]
    BY <1>1, <1>5, <1>6, <2>1
  <2> QED BY <2>2, <2>3
<1>9. PICK more : more = [i \in DOMAIN order |-> <<order[i], depth + 1>>]
  OBVIOUS
<1>10. PICK m : m = [k EXCEPT !.queue = Tail(@) \o more, !.seen = @ \cup new,
                              !.found = IF depth > 0 THEN Append(@, sym) ELSE @]
  OBVIOUS
<1>11. frTask' = [frTask EXCEPT ![t] = m]
  BY <1>8, <1>9, <1>10
<1>12. /\ m.op = "cascade" /\ m.stage = "walk" /\ DOMAIN m = DOMAIN k /\ m.max = k.max
       /\ m.queue = Tail(k.queue) \o more /\ m.seen = k.seen \cup new
       /\ m.found = (IF depth > 0 THEN Append(k.found, sym) ELSE k.found)
       /\ m.changed = k.changed /\ m.marks = k.marks /\ m.due = k.due
  BY <1>2, <1>3, <1>10
<1>13. sym \in FrSymbols /\ depth \in Nat /\ 1 \in DOMAIN k.queue
  <2>1. Len(k.queue) \in Nat \ {0} /\ DOMAIN k.queue = 1 .. Len(k.queue)
    BY <1>2, <1>3, EmptySeq, LenProperties
  <2>2. 1 \in DOMAIN k.queue
    BY <2>1
  <2>3. k.queue[1] \in FrSymbols \X Nat
    BY <1>3, <2>1, <2>2, ElementOfSeq
  <2> QED BY <1>5, <2>2, <2>3
<1>14. new \subseteq DOMAIN FrDeps /\ IsFiniteSet(new) /\ new \subseteq FrSymbols
  <2>1. new \subseteq DOMAIN FrDeps
    BY <1>6, DepsKnown DEF DependentsOf
  <2> QED BY <2>1, FS_Subset DEF FreshnessAssumption, FrSymbols
<1>15. order \in Seq(new) /\ ToSet(order) = new
  BY <1>14, OrderIsOnto
<1>16. DOMAIN order = 1 .. Len(order) /\ Len(order) \in Nat /\ \A i \in DOMAIN order : order[i] \in new
  BY <1>15, LenProperties, ElementOfSeq
<1>17. /\ more \in Seq(FrSymbols \X Nat)
       /\ \A x \in ToSet(more) : x[1] \in new /\ x[2] = depth + 1
       /\ \A s \in new : \E x \in ToSet(more) : x[1] = s
  <2>1. DOMAIN more = 1 .. Len(order)
    BY <1>9, <1>16
  <2>2. \A i \in 1 .. Len(order) : more[i] = <<order[i], depth + 1>>
    BY <1>9, <1>16
  <2>3. \A i \in 1 .. Len(order) : <<order[i], depth + 1>> \in FrSymbols \X Nat
    BY <1>13, <1>14, <1>16
  <2>4. more \in Seq(FrSymbols \X Nat)
    <3> DEFINE e(i) == <<order[i], depth + 1>>
    <3>1. more = [i \in 1 .. Len(order) |-> e(i)]
      BY <1>9, <1>16
    <3>2. \A i \in 1 .. Len(order) : e(i) \in FrSymbols \X Nat
      BY <2>3
    <3> HIDE DEF e
    <3> QED BY <1>16, <3>1, <3>2
  <2>5. ASSUME NEW x \in ToSet(more) PROVE x[1] \in new /\ x[2] = depth + 1
    <3>1. PICK i \in 1 .. Len(order) : x = more[i]
      BY <2>1 DEF ToSet
    <3> QED BY <1>16, <2>2, <3>1
  <2>6. ASSUME NEW s \in new PROVE \E x \in ToSet(more) : x[1] = s
    <3>1. PICK i \in 1 .. Len(order) : s = order[i]
      BY <1>15, <1>16 DEF ToSet
    <3>2. more[i] = <<s, depth + 1>> /\ more[i] \in ToSet(more)
      BY <2>1, <2>2, <3>1 DEF ToSet
    <3> QED BY <3>2
  <2> QED BY <2>4, <2>5, <2>6
<1>18. m.found \in Seq(FrSymbols) /\ ToSet(k.found) \cup {sym} \subseteq {m.changed} \cup ToSet(m.found)
  <2>1. CASE depth > 0
    <3>1. Append(k.found, sym) = k.found \o <<sym>>
      BY <1>3, <1>13
    <3>2. ToSet(<<sym>>) = {sym} /\ <<sym>> \in Seq(FrSymbols)
      BY <1>13, OneSet
    <3>3. m.found = k.found \o <<sym>>
      BY <1>12, <2>1, <3>1
    <3>4. ToSet(m.found) = ToSet(k.found) \cup {sym} /\ m.found \in Seq(FrSymbols)
      <4>1. PICK X, s, u : X = FrSymbols /\ s = k.found /\ u = <<sym>>
        OBVIOUS
      <4>2. s \in Seq(X) /\ u \in Seq(X) /\ ToSet(u) = {sym} /\ m.found = s \o u
        BY <1>3, <3>2, <3>3, <4>1
      <4>3. ToSet(s \o u) = ToSet(s) \cup ToSet(u) /\ s \o u \in Seq(X)
        BY <4>2, JoinSet
      <4> QED BY <4>1, <4>2, <4>3
    <3> QED BY <3>4
  <2>2. CASE ~(depth > 0)
    <3>1. sym = k.changed /\ m.found = k.found
      BY <1>3, <1>5, <1>12, <1>13, <2>2
    <3> QED BY <1>3, <1>12, <3>1
  <2> QED BY <2>1, <2>2
<1>19. WalkCovers(frBackend, m, deps)
  <2>1. PICK b : b = frBackend
    OBVIOUS
  <2>2. WalkCovers(b, k, deps)
    BY <1>4, <2>1
  <2>3. WalkCovers(b, m, deps)
    <3>1. WalkSteps(b, deps, k, m, sym, depth, new, more)
      BY <1>2, <1>3, <1>5, <1>6, <1>12, <1>17, <1>18, <2>1, <2>2 DEF WalkSteps
    <3> QED BY <2>2, <3>1, WalkGoesOn
  <2> QED BY <2>1, <2>3
<1>20. CascadeOwes(m)
  BY <1>4, <1>12, <1>19 DEF CascadeOwes
<1>21. /\ m.queue \in Seq(FrSymbols \X Nat)
       /\ \A i \in DOMAIN m.queue : m.queue[i][2] = 0 => m.queue[i][1] = m.changed
  <2>1. PICK X : X = FrSymbols \X Nat
    OBVIOUS
  <2>2. QueueMoved(X, k.queue, more, m.queue)
    BY <1>2, <1>3, <1>12, <1>17, <2>1, QueueMoves
  <2>3. ASSUME NEW i \in DOMAIN m.queue, m.queue[i][2] = 0 PROVE m.queue[i][1] = m.changed
    <3>1. CASE i + 1 \in DOMAIN k.queue /\ m.queue[i] = k.queue[i + 1]
      BY <1>3, <1>12, <2>3, <3>1
    <3>2. CASE m.queue[i] \in ToSet(more)
      <4>1. m.queue[i][2] = depth + 1
        BY <1>17, <3>2
      <4> QED BY <1>13, <2>3, <4>1
    <3> QED BY <2>2, <3>1, <3>2 DEF QueueMoved
  <2> QED BY <2>1, <2>2, <2>3 DEF QueueMoved
<1>22. FreshnessTask(m)
  BY <1>3, <1>12, <1>18, <1>21 DEF FreshnessTask
<1> QED BY <1>3, <1>7, <1>11, <1>12, <1>20, <1>22, TaskOnly, DepsKnown

LEMMA WalkedKeeps ==
    ASSUME FreshnessInv, NEW t \in FrTasks, Walked(t)
    PROVE  FreshnessInv'
<1>1. PICK k : k = frTask[t]
  OBVIOUS
<1>2. k.op = "cascade" /\ k.stage = "walk" /\ k.queue = <<>>
  BY <1>1 DEF Walked
<1>3. /\ DOMAIN k = {"op", "changed", "max", "queue", "seen", "found", "stage", "marks",
                     "left", "doomed", "due"}
      /\ k.max \in Nat /\ k.changed \in FrSymbols /\ k.found \in Seq(FrSymbols)
      /\ frOpen /\ CascadeOwes(k)
  BY <1>1, <1>2, CascadeKnown
<1>4. PICK m : m = [k EXCEPT !.stage = IF Rocks THEN "read" ELSE "mark",
                             !.left = {k.changed[1]} \cup {s[1] : s \in ToSet(k.found)},
                             !.marks = <<k.changed>> \o k.found]
  OBVIOUS
<1>5. frTask' = [frTask EXCEPT ![t] = m]
  BY <1>1, <1>4 DEF Walked, Becomes
<1>6. /\ m.op = "cascade" /\ m.stage = (IF Rocks THEN "read" ELSE "mark")
      /\ DOMAIN m = DOMAIN k /\ m.max = k.max /\ m.queue = <<>> /\ m.found = k.found
      /\ m.left = {k.changed[1]} \cup {s[1] : s \in ToSet(k.found)}
      /\ m.marks = <<k.changed>> \o k.found /\ m.changed = k.changed /\ m.due = k.due
  BY <1>2, <1>3, <1>4
<1>7. m.marks \in Seq(FrSymbols) /\ ToSet(m.marks) = {k.changed} \cup ToSet(k.found) /\ m.marks # <<>>
  <2>1. ToSet(<<k.changed>>) = {k.changed} /\ <<k.changed>> \in Seq(FrSymbols)
    BY <1>3, OneSet
  <2>2. m.marks \in Seq(FrSymbols) /\ ToSet(m.marks) = {k.changed} \cup ToSet(k.found)
    <3>1. PICK X, s, u : X = FrSymbols /\ s = <<k.changed>> /\ u = k.found
      OBVIOUS
    <3>2. s \in Seq(X) /\ u \in Seq(X) /\ ToSet(s) = {k.changed} /\ m.marks = s \o u
      BY <1>3, <1>6, <2>1, <3>1
    <3>3. ToSet(s \o u) = ToSet(s) \cup ToSet(u) /\ s \o u \in Seq(X)
      BY <3>2, JoinSet
    <3> QED BY <3>1, <3>2, <3>3
  <2>3. ToSet(<<>>) = {}
    BY DEF ToSet
  <2> QED BY <2>2, <2>3
<1>8. FreshnessTask(m)
  <2>1. m.queue \in Seq(FrSymbols \X Nat) /\ DOMAIN m.queue = {}
    BY <1>6
  <2> QED BY <1>3, <1>6, <1>7, <2>1 DEF FreshnessTask
<1>9. \A e \in m.due \cap DOMAIN frRefs : SymbolOf(e) \in ToSet(m.marks) /\ frRefs[e].file \in m.left
  <2>1. PICK deps \in SUBSET frDeps :
          /\ WalkCovers(frBackend, k, deps)
          /\ \A e \in k.due \cap DOMAIN frRefs :
               SymbolOf(e) \in Within(frBackend, deps, k.changed, k.max)
    BY <1>2, <1>3 DEF CascadeOwes
  <2>2. WalkQueue(k) = {}
    BY <1>2 DEF WalkQueue, ToSet
  <2>3. Within(frBackend, deps, k.changed, k.max) \subseteq {k.changed} \cup ToSet(k.found)
    BY <1>2, <2>1, <2>2 DEF WalkCovers
  <2> SUFFICES ASSUME NEW e \in m.due \cap DOMAIN frRefs
               PROVE  SymbolOf(e) \in ToSet(m.marks) /\ frRefs[e].file \in m.left
    OBVIOUS
  <2>4. PICK s : s = SymbolOf(e)
    OBVIOUS
  <2>5. s \in {k.changed} \cup ToSet(k.found) /\ s[1] = frRefs[e].file
    BY <1>6, <2>1, <2>3, <2>4 DEF SymbolOf
  <2>6. s[1] \in m.left
    BY <1>6, <2>5
  <2> QED BY <1>7, <2>4, <2>5, <2>6
<1>10. CascadeOwes(m)
  BY <1>6, <1>9 DEF CascadeOwes
<1> QED BY <1>3, <1>5, <1>6, <1>8, <1>10, TaskOnly, DepsKnown DEF Walked

LEMMA ReadDependentsKeeps ==
    ASSUME FreshnessInv, NEW t \in FrTasks, ReadDependents(t)
    PROVE  FreshnessInv'
<1>1. PICK k : k = frTask[t]
  OBVIOUS
<1>2. k.op = "cascade" /\ k.stage = "read"
  BY <1>1 DEF ReadDependents
<1>3. /\ DOMAIN k = {"op", "changed", "max", "queue", "seen", "found", "stage", "marks",
                     "left", "doomed", "due"}
      /\ k.max \in Nat /\ k.queue \in Seq(FrSymbols \X Nat) /\ k.changed \in FrSymbols
      /\ \A i \in DOMAIN k.queue : k.queue[i][2] = 0 => k.queue[i][1] = k.changed
      /\ k.found \in Seq(FrSymbols) /\ k.marks \in Seq(FrSymbols)
      /\ frOpen /\ CascadeOwes(k) /\ Rocks /\ frMarker
  BY <1>1, <1>2, CascadeKnown
<1>4. PICK file \in frTask[t].left :
        Becomes(t, [frTask[t] EXCEPT !.left = @ \ {file}, !.doomed = @ \cup
            {<<file, e>> : e \in {x \in ReferencesForFile(file) :
                                    <<file, frRefs[x].name>> \in ToSet(frTask[t].marks)}}])
  BY DEF ReadDependents
<1>5. PICK some : some = {<<file, e>> : e \in {x \in ReferencesForFile(file) :
                                    <<file, frRefs[x].name>> \in ToSet(frTask[t].marks)}}
  OBVIOUS
<1>6. PICK m : m = [k EXCEPT !.left = @ \ {file}, !.doomed = @ \cup some]
  OBVIOUS
<1>7. frTask' = [frTask EXCEPT ![t] = m]
  BY <1>1, <1>4, <1>5, <1>6 DEF Becomes
<1>8. /\ m.op = "cascade" /\ m.stage = "read" /\ DOMAIN m = DOMAIN k /\ m.max = k.max
      /\ m.queue = k.queue /\ m.found = k.found /\ m.marks = k.marks /\ m.changed = k.changed
      /\ m.left = k.left \ {file} /\ m.doomed = k.doomed \cup some /\ m.due = k.due
  BY <1>2, <1>3, <1>6
<1>9. FreshnessTask(m)
  BY <1>3, <1>8 DEF FreshnessTask
<1>10. ASSUME NEW e \in m.due \cap DOMAIN frRefs
       PROVE  \/ <<frRefs[e].file, e>> \in m.doomed
              \/ frRefs[e].file \in m.left /\ SymbolOf(e) \in ToSet(m.marks)
  <2>1. \/ <<frRefs[e].file, e>> \in k.doomed
        \/ frRefs[e].file \in k.left /\ SymbolOf(e) \in ToSet(k.marks)
    BY <1>2, <1>3, <1>8 DEF CascadeOwes
  <2>2. CASE <<frRefs[e].file, e>> \in k.doomed
    BY <1>8, <2>2
  <2>3. CASE frRefs[e].file \in k.left /\ SymbolOf(e) \in ToSet(k.marks)
    <3>1. CASE frRefs[e].file = file
      <4>1. e \in ReferencesForFile(file)
        BY <1>3, <3>1 DEF ReferencesForFile, FreshnessInv, IndexComplete
      <4>2. <<file, frRefs[e].name>> \in ToSet(frTask[t].marks)
        BY <1>1, <2>3, <3>1 DEF SymbolOf
      <4>3. <<file, e>> \in some
        BY <1>5, <4>1, <4>2
      <4> QED BY <1>8, <3>1, <4>3
    <3>2. CASE frRefs[e].file # file
      BY <1>8, <2>3, <3>2
    <3> QED BY <3>1, <3>2
  <2> QED BY <2>1, <2>2, <2>3
<1>11. CascadeOwes(m)
  BY <1>8, <1>10 DEF CascadeOwes
<1> QED BY <1>3, <1>7, <1>8, <1>9, <1>11, TaskOnly, DepsKnown DEF ReadDependents

LEMMA DeleteDependentsKeeps ==
    ASSUME FreshnessInv, NEW t \in FrTasks, DeleteDependents(t)
    PROVE  FreshnessInv'
<1>1. PICK k : k = frTask[t]
  OBVIOUS
<1>2. k.op = "cascade" /\ k.stage = "read" /\ k.left = {}
  BY <1>1 DEF DeleteDependents
<1>3. frOpen /\ CascadeOwes(k)
  BY <1>1, <1>2, CascadeKnown
<1>4. PICK m : m = NoTask
  OBVIOUS
<1>5. frTask' = [frTask EXCEPT ![t] = m] /\ frDue' = frDue \cup k.due
  BY <1>1, <1>4 DEF DeleteDependents, Finish, Becomes
<1>6. FreshnessTask(m) /\ m.op = "idle"
  BY <1>4 DEF FreshnessTask, NoTask
<1>7. Deleted(k.doomed)
  BY <1>1 DEF DeleteDependents
<1>8. \A e \in k.due : e \notin DOMAIN frRefs'
  BY <1>2, <1>3, <1>7, DeletedKeeps DEF CascadeOwes
<1> QED BY <1>3, <1>5, <1>6, <1>7, <1>8, DeletedKeeps, TaskSteps, DepsKnown DEF DeleteDependents

LEMMA MarkDependentKeeps ==
    ASSUME FreshnessInv, NEW t \in FrTasks, MarkDependent(t)
    PROVE  FreshnessInv'
<1>1. PICK k : k = frTask[t]
  OBVIOUS
<1>2. k.op = "cascade" /\ k.stage = "mark"
  BY <1>1 DEF MarkDependent
<1>3. /\ DOMAIN k = {"op", "changed", "max", "queue", "seen", "found", "stage", "marks",
                     "left", "doomed", "due"}
      /\ k.max \in Nat /\ k.queue \in Seq(FrSymbols \X Nat) /\ k.changed \in FrSymbols
      /\ \A i \in DOMAIN k.queue : k.queue[i][2] = 0 => k.queue[i][1] = k.changed
      /\ k.found \in Seq(FrSymbols) /\ k.marks \in Seq(FrSymbols) /\ k.marks # <<>>
      /\ frOpen /\ CascadeOwes(k) /\ ~Rocks
  BY <1>1, <1>2, CascadeKnown
<1>4. PICK chosen : chosen = {e \in DOMAIN frRefs : <<frRefs[e].file, frRefs[e].name>> = k.marks[1]}
  OBVIOUS
<1>5. Marked(chosen)
  BY <1>1, <1>4 DEF MarkDependent
<1>6. /\ ToSet(k.marks) = {k.marks[1]} \cup ToSet(Tail(k.marks)) /\ Tail(k.marks) \in Seq(FrSymbols)
      /\ Len(k.marks) = 1 => ToSet(k.marks) = {k.marks[1]}
      /\ Len(k.marks) # 1 => Tail(k.marks) # <<>>
  BY <1>3, TailSet
<1>7. ASSUME NEW e \in k.due \cap DOMAIN frRefs'
      PROVE  frRefs'[e].stale \/ (SymbolOf(e) \in ToSet(k.marks) /\ SymbolOf(e) # k.marks[1])
  <2>1. e \in k.due \cap DOMAIN frRefs /\ (frRefs[e].stale => frRefs'[e].stale)
    BY <1>5, MarkedKeeps DEF RefsKept
  <2>2. frRefs[e].stale \/ SymbolOf(e) \in ToSet(k.marks)
    BY <1>2, <1>3, <2>1 DEF CascadeOwes
  <2>3. SymbolOf(e) = k.marks[1] => frRefs'[e].stale
    BY <1>4, <1>5, <2>1, MarkedKeeps DEF SymbolOf
  <2> QED BY <2>1, <2>2, <2>3
<1>8. CASE Len(k.marks) = 1
  <2>1. PICK m : m = NoTask
    OBVIOUS
  <2>2. frTask' = [frTask EXCEPT ![t] = m] /\ frDue' = frDue \cup k.due
    BY <1>1, <1>8, <2>1 DEF MarkDependent, Finish, Becomes
  <2>3. FreshnessTask(m) /\ m.op = "idle"
    BY <2>1 DEF FreshnessTask, NoTask
  <2>4. \A e \in k.due \cap DOMAIN frRefs' : frRefs'[e].stale
    BY <1>6, <1>7, <1>8
  <2> QED BY <1>3, <1>5, <2>2, <2>3, <2>4, MarkedKeeps, TaskSteps, DepsKnown DEF MarkDependent
<1>9. CASE Len(k.marks) # 1
  <2>1. PICK m : m = [k EXCEPT !.marks = Tail(@)]
    OBVIOUS
  <2>2. frTask' = [frTask EXCEPT ![t] = m] /\ frDue' = frDue
    BY <1>1, <1>9, <2>1 DEF MarkDependent, Becomes
  <2>3. /\ m.op = "cascade" /\ m.stage = "mark" /\ DOMAIN m = DOMAIN k /\ m.max = k.max
        /\ m.queue = k.queue /\ m.found = k.found /\ m.marks = Tail(k.marks)
        /\ m.changed = k.changed /\ m.due = k.due
    BY <1>2, <1>3, <2>1
  <2>4. FreshnessTask(m)
    BY <1>3, <1>6, <1>9, <2>3 DEF FreshnessTask
  <2>5. ASSUME NEW e \in m.due \cap DOMAIN frRefs'
        PROVE  frRefs'[e].stale \/ SymbolOf(e)' \in ToSet(m.marks)
    <3>1. SymbolOf(e)' = SymbolOf(e)
      BY <1>5, MarkedKeeps DEF RefsKept, SymbolOf
    <3> QED BY <1>6, <1>7, <2>3, <3>1
  <2>6. CascadeOwes(m)'
    BY <2>3, <2>5 DEF CascadeOwes
  <2> QED BY <1>3, <1>5, <2>2, <2>3, <2>4, <2>6, MarkedKeeps, TaskSteps, DepsKnown DEF MarkDependent
<1> QED BY <1>8, <1>9

LEMMA FreshnessInvariant == FreshnessSpec => []FreshnessInv
<1> USE FreshnessAssumption
<1>1. FreshnessInit => FreshnessInv
  <2> SUFFICES ASSUME FreshnessInit PROVE FreshnessInv
    OBVIOUS
  <2>1. ASSUME NEW t \in FrTasks PROVE frTask[t] = NoTask /\ frTask[t].op = "idle"
    BY DEF FreshnessInit, NoTask
  <2>2. \A e \in DOMAIN frRefs : /\ DOMAIN frRefs[e] = {"file", "name", "hash", "ast", "stale"}
                                  /\ frRefs[e].stale \in BOOLEAN
    <3>1. PICK old \in FrOld :
            frRefs = [e \in {r.entry : r \in old} |->
                        StoredRefs(CHOOSE r \in old : r.entry = e, FALSE)]
      BY DEF FreshnessInit
    <3> SUFFICES ASSUME NEW e \in DOMAIN frRefs
                 PROVE  /\ DOMAIN frRefs[e] = {"file", "name", "hash", "ast", "stale"}
                        /\ frRefs[e].stale \in BOOLEAN
      OBVIOUS
    <3>2. PICK r : frRefs[e] = StoredRefs(r, FALSE)
      BY <3>1
    <3> QED BY <3>2 DEF StoredRefs
  <2>3. FreshnessTypeOK
    BY <2>1, <2>2 DEF FreshnessInit, FreshnessTypeOK, FreshnessTask
  <2>4. IndexComplete
    BY <2>1 DEF FreshnessInit, IndexComplete
  <2>5. InvalidationsOwe
    BY <2>1 DEF InvalidationsOwe
  <2>6. DueIsStale
    BY DEF FreshnessInit, DueIsStale
  <2> QED BY <2>3, <2>4, <2>5, <2>6 DEF FreshnessInv
<1>2. FreshnessInv /\ [FreshnessNext]_freshnessVars => FreshnessInv'
  <2> SUFFICES ASSUME FreshnessInv, [FreshnessNext]_freshnessVars PROVE FreshnessInv'
    OBVIOUS
  <2>1. CASE UNCHANGED freshnessVars
    <3>1. ASSUME NEW t \in FrTasks
          PROVE  /\ FreshnessTask(frTask[t])'
                 /\ frTask'[t].op = "invalidate" => FileOwes(frTask[t])'
                 /\ frTask'[t].op = "cascade" => CascadeOwes(frTask[t])'
      <4>1. PICK k : k = frTask[t] /\ k = frTask'[t]
        BY <2>1 DEF freshnessVars
      <4>2. /\ FreshnessTask(k) /\ frBackend' = frBackend /\ frDeps \subseteq frDeps'
            /\ k.op = "invalidate" => FileOwes(k)
            /\ k.op = "cascade" => CascadeOwes(k)
        BY <2>1, <4>1 DEF FreshnessInv, FreshnessTypeOK, InvalidationsOwe, freshnessVars
      <4>3. RefsKept(k.due)
        BY <2>1 DEF RefsKept, freshnessVars
      <4>4. /\ FreshnessTask(k)'
            /\ k.op = "invalidate" => FileOwes(k)'
            /\ k.op = "cascade" => CascadeOwes(k)'
        BY <4>2, <4>3, FileOwesKept, CascadeOwesKept, TaskKept
      <4> QED BY <4>1, <4>4 DEF FreshnessTask, Rocks, FileOwes, CascadeOwes, SymbolOf
    <3>2. FreshnessTypeOK'
      BY <2>1, <3>1 DEF freshnessVars, FreshnessInv, FreshnessTypeOK
    <3>3. IndexComplete'
      BY <2>1 DEF freshnessVars, FreshnessInv, IndexComplete, Rocks
    <3>4. DueIsStale'
      BY <2>1 DEF freshnessVars, FreshnessInv, DueIsStale, Rocks
    <3> QED BY <3>1, <3>2, <3>3, <3>4 DEF FreshnessInv, InvalidationsOwe
  <2>2. CASE OpenStorage \/ Crash
    BY <2>2, OpenStorageKeeps, CrashKeeps
  <2>3. CASE \E refs \in [FrTasks -> FrRefs] : RegisterSourceBatch(refs)
    BY <2>3, RegisterSourceBatchKeeps
  <2>4. ASSUME NEW t \in FrTasks, \E r \in FrRefs : RegisterSource(t, r) PROVE FreshnessInv'
    BY <2>4, RegisterSourceKeeps
  <2>5. ASSUME NEW t \in FrTasks, ReadOld(t) \/ WriteReference(t) PROVE FreshnessInv'
    BY <2>5, ReadOldKeeps, WriteReferenceKeeps
  <2>6. ASSUME NEW t \in FrTasks,
               \/ \E from \in DOMAIN FrDeps : RegisterSymbolDependencies(t, from)
               \/ WriteDependencies(t)
        PROVE FreshnessInv'
    BY <2>6, RegisterSymbolDependenciesKeeps, WriteDependenciesKeeps
  <2>7. ASSUME NEW t \in FrTasks,
               (\E file \in FrFiles : Invalidate(t, file)) \/ ReadFile(t) \/ InvalidateSource(t)
        PROVE FreshnessInv'
    BY <2>7, InvalidateKeeps, ReadFileKeeps, InvalidateSourceKeeps
  <2>8. ASSUME NEW t \in FrTasks,
               \/ \E c \in FrChanged : CascadeInvalidate(t, c[1], c[2])
               \/ Walk(t) \/ Walked(t)
        PROVE FreshnessInv'
    BY <2>8, CascadeInvalidateKeeps, WalkKeeps, WalkedKeeps
  <2>9. ASSUME NEW t \in FrTasks,
               ReadDependents(t) \/ DeleteDependents(t) \/ MarkDependent(t) \/ Fail(t)
        PROVE FreshnessInv'
    BY <2>9, ReadDependentsKeeps, DeleteDependentsKeeps, MarkDependentKeeps, FailKeeps
  <2> QED BY <2>1, <2>2, <2>3, <2>4, <2>5, <2>6, <2>7, <2>8, <2>9 DEF FreshnessNext
<1> QED BY <1>1, <1>2, PTL DEF FreshnessSpec

\* What the invariant promises a client that checks.
LEMMA FreshnessFollows == ASSUME FreshnessInv PROVE FreshnessSound
<1>1. InvalidatedNotFresh
  <2> SUFFICES ASSUME NEW e \in frDue, NEW r \in FrRefs, NEW failed \in BOOLEAN
               PROVE  CheckFreshness([x \in {e} |-> r.hash], [x \in {e} |-> r.ast], failed)[e]
                        # "fresh"
    BY DEF InvalidatedNotFresh
  <2>1. CheckFreshness([x \in {e} |-> r.hash], [x \in {e} |-> r.ast], failed)[e]
          = IF failed THEN "unknown"
            ELSE IF Rocks THEN FreshnessOf(e, r.hash, r.ast) ELSE RecordFreshness(e, r.hash, r.ast)
    BY DEF CheckFreshness
  <2>2. e \in DOMAIN frRefs => ~Rocks /\ frRefs[e].stale
    BY DEF FreshnessInv, DueIsStale
  <2>3. Rocks => FreshnessOf(e, r.hash, r.ast) = "unknown"
    BY <2>2 DEF FreshnessOf
  <2>4. RecordFreshness(e, r.hash, r.ast) \in {"unknown", "stale"} \/ Rocks
    BY <2>2 DEF RecordFreshness, FreshnessOf
  <2> QED BY <2>1, <2>3, <2>4
<1>2. FoundByFile
  BY DEF FoundByFile, FreshnessInv, IndexComplete, DueIsStale, ReferencesForFile,
         StaleEntriesBySource
<1> QED BY <1>1, <1>2 DEF FreshnessSound

\* No check answers Fresh for an entry that a finished invalidation covered,
\* and RocksDB's index by file stays complete (rocksdb_storage/freshness.rs,
\* surrealdb_storage/freshness.rs): for any references, dependencies and tasks.
THEOREM FreshnessIsSound == FreshnessSpec => []FreshnessSound
<1>1. FreshnessInv => FreshnessSound
  BY FreshnessFollows
<1> QED BY <1>1, FreshnessInvariant, PTL

=============================================================================
