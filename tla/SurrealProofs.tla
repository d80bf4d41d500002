---------------------------- MODULE SurrealProofs ----------------------------
(***************************************************************************)
(* Theorems about the SurrealDB backend.  The lock-free put_card           *)
(* implements the atomic one of the contract, for any number of writers    *)
(* and versions; and what a session has in memory is stored once its saves *)
(* are done, although a save sends only what differs from what the process *)
(* believes to be stored.                                                  *)
(***************************************************************************)
EXTENDS SurrealCards, SurrealSessions, NumberFacts, FiniteSetTheorems, TLAPS

(***************************************************************************)
(* SurrealCards.                                                           *)
(***************************************************************************)

\* When the stored versions are 1 .. n, latest_cards returns n.
LEMMA LatestIs ==
    ASSUME NEW n \in 0 .. MaxVersion,
           \A v \in CardVersions : card[v] # NoText <=> v <= n
    PROVE  Latest = n
<1> USE SurrealCardAssumption
<1>1. IsLatest(n)
  BY DEF IsLatest, CardVersions
<1>2. \A m \in 0 .. MaxVersion : IsLatest(m) => m = n
  <2> SUFFICES ASSUME NEW m \in 0 .. MaxVersion, IsLatest(m) PROVE m = n
    OBVIOUS
  <2>1. ~(m < n)
    <3> SUFFICES ASSUME m < n PROVE FALSE
      OBVIOUS
    <3>1. n \in CardVersions /\ n > m
      BY DEF CardVersions
    <3> QED BY <3>1 DEF IsLatest
  <2>2. ~(n < m)
    <3> SUFFICES ASSUME n < m PROVE FALSE
      OBVIOUS
    <3>1. m \in CardVersions /\ m # 0
      BY DEF CardVersions
    <3> QED BY <3>1 DEF IsLatest
  <2> QED BY <2>1, <2>2
<1> QED BY <1>1, <1>2 DEF Latest

\* The initial states satisfy the invariant.
LEMMA CardInvInit == CardInit => CardInv
<1> SUFFICES ASSUME CardInit PROVE CardInv
  OBVIOUS
<1> USE SurrealCardAssumption
<1>1. CardTypeOK
  BY DEF CardInit, CardTypeOK
<1>2. Dense
  <2>1. 0 \in 0 .. MaxVersion /\ \A v \in CardVersions : card[v] # NoText <=> v <= 0
    BY DEF CardInit, CardVersions
  <2> QED BY <2>1 DEF Dense
<1>3. WritersFollow
  BY DEF CardInit, WritersFollow
<1> QED BY <1>1, <1>2, <1>3 DEF CardInv

\* At its CREATE, a writer finds the next row free exactly when its edit is
\* still the latest version.
LEMMA CreateSeesLatest ==
    ASSUME CardInv, NEW w \in CardWriters, step[w] \in {"create", "reload"}
    PROVE  /\ edited[w] \in 0 .. MaxVersion - 1
           /\ edited[w] + 1 \in CardVersions
           /\ Latest \in 0 .. MaxVersion
           /\ \A v \in CardVersions : card[v] # NoText <=> v <= Latest
           /\ card[edited[w] + 1] = NoText => edited[w] = Latest
           /\ card[edited[w] + 1] # NoText => edited[w] # Latest
<1> USE SurrealCardAssumption
<1>1. edited[w] \in -1 .. MaxVersion - 1 /\ edited[w] # -1
  BY DEF CardInv, CardTypeOK, WritersFollow
<1>2. edited[w] \in 0 .. MaxVersion - 1 /\ edited[w] + 1 \in CardVersions
  BY <1>1 DEF CardVersions
<1>3. PICK n \in 0 .. MaxVersion : \A v \in CardVersions : card[v] # NoText <=> v <= n
  BY DEF CardInv, Dense
<1>4. Latest = n
  BY <1>3, LatestIs
<1>5. edited[w] <= n
  <2>1. CASE edited[w] = 0
    BY <2>1, <1>3
  <2>2. CASE edited[w] > 0
    <3>1. edited[w] \in CardVersions /\ card[edited[w]] # NoText
      BY <1>2, <2>2 DEF CardInv, WritersFollow, CardVersions
    <3> QED BY <3>1, <1>3
  <2> QED BY <2>1, <2>2, <1>2
<1> QED BY <1>2, <1>3, <1>4, <1>5

\* Every step preserves the invariant.
LEMMA CardInvStep == CardInv /\ [CardNext]_surrealCardVars => CardInv'
<1> SUFFICES ASSUME CardInv, [CardNext]_surrealCardVars PROVE CardInv'
  OBVIOUS
<1> USE SurrealCardAssumption
<1>0. CardTypeOK /\ Dense /\ WritersFollow
  BY DEF CardInv
<1>1. CASE UNCHANGED surrealCardVars
  BY <1>0, <1>1 DEF surrealCardVars, CardInv, CardTypeOK, Dense, WritersFollow
<1>2. ASSUME NEW w \in CardWriters, NEW v \in 0 .. MaxVersion - 1, Ask(w, v)
      PROVE  CardInv'
  <2>1. CardTypeOK'
    BY <1>0, <1>2 DEF Ask, CardTypeOK
  <2>2. Dense'
    BY <1>0, <1>2 DEF Ask, Dense
  <2>3. WritersFollow'
    BY <1>0, <1>2 DEF Ask, WritersFollow, CardTypeOK
  <2> QED BY <2>1, <2>2, <2>3 DEF CardInv
<1>3. ASSUME NEW w \in CardWriters, PutRead(w)
      PROVE  CardInv'
  <2>1. CardTypeOK'
    BY <1>0, <1>3 DEF PutRead, Done, CardTypeOK
  <2>2. Dense'
    BY <1>0, <1>3 DEF PutRead, Dense
  <2>3. WritersFollow'
    <3>1. CASE Latest # edited[w] /\ Done(w, "conflict")
      BY <1>0, <1>3, <3>1 DEF PutRead, Done, WritersFollow, CardTypeOK
    <3>2. CASE /\ Latest = edited[w]
               /\ step' = [step EXCEPT ![w] = "create"]
               /\ UNCHANGED <<edited, reply>>
      <4>1. PICK n \in 0 .. MaxVersion :
              \A v \in CardVersions : card[v] # NoText <=> v <= n
        BY <1>0 DEF Dense
      <4>2. edited[w] = n
        BY <4>1, <3>2, LatestIs
      <4>3. edited[w] > 0 => card[edited[w]] # NoText
        BY <4>1, <4>2 DEF CardVersions
      <4> QED BY <1>0, <1>3, <3>2, <4>2, <4>3 DEF PutRead, WritersFollow, CardTypeOK
    <3> QED BY <1>3, <3>1, <3>2 DEF PutRead
  <2> QED BY <2>1, <2>2, <2>3 DEF CardInv
<1>4. ASSUME NEW w \in CardWriters, PutCreate(w)
      PROVE  CardInv'
  <2>0. step[w] = "create"
    BY <1>4 DEF PutCreate
  <2> DEFINE e == edited[w]
  <2>1. /\ e \in 0 .. MaxVersion - 1 /\ e + 1 \in CardVersions
        /\ \A v \in CardVersions : card[v] # NoText <=> v <= Latest
        /\ card[e + 1] = NoText => e = Latest
    BY <2>0, CreateSeesLatest
  <2>2. CASE card[e + 1] = NoText
    <3>1. card' = [card EXCEPT ![e + 1] = w] /\ Done(w, "written")
      BY <1>4, <2>2 DEF PutCreate
    <3>2. CardTypeOK'
      BY <1>0, <3>1, <2>1 DEF Done, CardTypeOK
    <3>3. \A v \in CardVersions : card'[v] = IF v = e + 1 THEN w ELSE card[v]
      BY <1>0, <3>1 DEF CardTypeOK
    <3>4. Dense'
      <4>1. e + 1 \in 0 .. MaxVersion
        BY <2>1
      <4>2. \A v \in CardVersions : card'[v] # NoText <=> v <= e + 1
        BY <3>3, <2>1, <2>2 DEF CardVersions
      <4> QED BY <4>1, <4>2 DEF Dense
    <3>5. WritersFollow'
      <4> SUFFICES ASSUME NEW x \in CardWriters
                   PROVE  /\ step'[x] = "idle" <=> edited'[x] = -1
                          /\ step'[x] \in {"create", "reload"} /\ edited'[x] > 0
                               => card'[edited'[x]] # NoText
                          /\ step'[x] = "reload" => card'[edited'[x] + 1] # NoText
        BY DEF WritersFollow
      <4>1. CASE x = w
        BY <4>1, <1>0, <3>1 DEF Done, CardTypeOK
      <4>2. CASE x # w
        <5>1. step'[x] = step[x] /\ edited'[x] = edited[x]
          BY <4>2, <1>0, <3>1 DEF Done, CardTypeOK
        <5>2. edited[x] \in -1 .. MaxVersion - 1
          BY <1>0 DEF CardTypeOK
        <5>3. step[x] \in {"create", "reload"} => edited[x] # -1
          BY <1>0 DEF WritersFollow
        <5>4. w # NoText
          OBVIOUS
        <5>5. edited[x] > 0 => edited[x] \in CardVersions
          BY <5>2 DEF CardVersions
        <5>6. edited[x] # -1 => edited[x] + 1 \in CardVersions
          BY <5>2 DEF CardVersions
        <5> QED BY <5>1, <5>3, <5>4, <5>5, <5>6, <3>3, <1>0 DEF WritersFollow
      <4> QED BY <4>1, <4>2
    <3> QED BY <3>2, <3>4, <3>5 DEF CardInv
  <2>3. CASE card[e + 1] # NoText
    <3>1. step' = [step EXCEPT ![w] = "reload"] /\ UNCHANGED <<card, edited, reply>>
      BY <1>4, <2>3 DEF PutCreate
    <3>2. CardTypeOK'
      BY <1>0, <3>1 DEF CardTypeOK
    <3>3. Dense'
      BY <1>0, <3>1 DEF Dense
    <3>4. WritersFollow'
      BY <1>0, <3>1, <2>0, <2>3, <2>1 DEF WritersFollow, CardTypeOK
    <3> QED BY <3>2, <3>3, <3>4 DEF CardInv
  <2> QED BY <2>2, <2>3
<1>5. ASSUME NEW w \in CardWriters, PutReload(w) \/ PutFailed(w)
      PROVE  CardInv'
  <2>1. CardTypeOK'
    BY <1>0, <1>5 DEF PutReload, PutFailed, Done, CardTypeOK
  <2>2. Dense'
    BY <1>0, <1>5 DEF PutReload, PutFailed, Dense
  <2>3. WritersFollow'
    BY <1>0, <1>5 DEF PutReload, PutFailed, Done, WritersFollow, CardTypeOK
  <2> QED BY <2>1, <2>2, <2>3 DEF CardInv
<1> QED BY <1>1, <1>2, <1>3, <1>4, <1>5 DEF CardNext

\* The card table stays well formed, and its versions have no gap.
THEOREM CardVersionsDense == CardSpec => []NoGaps
<1>1. CardInv => NoGaps
  <2> SUFFICES ASSUME CardInv, NEW u \in CardVersions, NEW v \in CardVersions,
                      u < v, card[v] # NoText
               PROVE  card[u] # NoText
    BY DEF NoGaps
  <2>1. PICK n \in 0 .. MaxVersion : \A x \in CardVersions : card[x] # NoText <=> x <= n
    BY DEF CardInv, Dense
  <2> QED BY <2>1, SurrealCardAssumption DEF CardVersions
<1> QED BY <1>1, CardInvInit, CardInvStep, PTL DEF CardSpec

\* A version once written is never changed: put_card uses CREATE, and the row
\* it creates is the one after the version the writer edited.
THEOREM CardHistoryKept == CardSpec => HistoryKept
<1>1. CardInv /\ [CardNext]_surrealCardVars
        => [\A v \in CardVersions : card[v] # NoText => card'[v] = card[v]]_surrealCardVars
  <2> SUFFICES ASSUME CardInv, CardNext, NEW v \in CardVersions, card[v] # NoText
               PROVE  card'[v] = card[v]
    OBVIOUS
  <2>1. CASE UNCHANGED card
    BY <2>1
  <2>2. ASSUME NEW w \in CardWriters, PutCreate(w)
        PROVE  card'[v] = card[v]
    BY <2>2 DEF PutCreate, CardInv, CardTypeOK
  <2> QED BY <2>1, <2>2 DEF CardNext, Ask, PutRead, PutReload, PutFailed
<1> QED BY <1>1, CardInvInit, CardInvStep, PTL DEF CardSpec, HistoryKept

\* Without a lock, put_card behaves as the atomic compare-and-put that the
\* trait promises and the RocksDB backend performs under its lock.
THEOREM SurrealImplementsCards == CardSpec => ImplementsCards
<1> USE SurrealCardAssumption
<1>1. CardInit => Contract!Init
  <2> SUFFICES ASSUME CardInit PROVE Contract!Init
    OBVIOUS
  <2>1. 0 \in 0 .. MaxVersion /\ \A v \in CardVersions : card[v] # NoText <=> v <= 0
    BY DEF CardInit, CardVersions
  <2>2. Latest = 0
    BY <2>1, LatestIs
  <2> QED BY <2>2 DEF CardInit, Contract!Init, Contract!Versions, CardVersions
<1>2. CardInv /\ CardInv' /\ [CardNext]_surrealCardVars => [Contract!Next]_(Contract!cardVars)
  <2> SUFFICES ASSUME CardInv, CardInv', [CardNext]_surrealCardVars
               PROVE  [Contract!Next]_(Contract!cardVars)
    OBVIOUS
  <2>0. CardTypeOK /\ WritersFollow
    BY DEF CardInv
  <2>1. UNCHANGED card => UNCHANGED Latest
    BY DEF Latest, IsLatest
  <2>2. CASE UNCHANGED surrealCardVars
    BY <2>1, <2>2 DEF surrealCardVars, Contract!cardVars
  <2>3. ASSUME NEW w \in CardWriters, NEW v \in 0 .. MaxVersion - 1, Ask(w, v)
        PROVE  Contract!Next
    <3>1. Contract!Ask(w, v)
      BY <2>0, <2>1, <2>3 DEF Ask, Contract!Ask, WritersFollow
    <3> QED BY <3>1 DEF Contract!Next
  <2>4. ASSUME NEW w \in CardWriters, PutRead(w)
        PROVE  [Contract!Next]_(Contract!cardVars)
    <3>1. CASE Latest # edited[w] /\ Done(w, "conflict")
      <4>1. Contract!PutConflict(w)
        BY <2>0, <2>1, <2>4, <3>1
           DEF PutRead, Done, Contract!PutConflict, Contract!Answer, WritersFollow
      <4> QED BY <4>1 DEF Contract!Next
    <3>2. CASE UNCHANGED <<card, edited, reply>>
      BY <2>1, <3>2 DEF Contract!cardVars
    <3> QED BY <2>4, <3>1, <3>2 DEF PutRead
  <2>5. ASSUME NEW w \in CardWriters, PutCreate(w)
        PROVE  [Contract!Next]_(Contract!cardVars)
    <3>0. step[w] = "create"
      BY <2>5 DEF PutCreate
    <3> DEFINE e == edited[w]
    <3>1. /\ e \in 0 .. MaxVersion - 1 /\ e + 1 \in CardVersions
          /\ \A v \in CardVersions : card[v] # NoText <=> v <= Latest
          /\ card[e + 1] = NoText => e = Latest
      BY <3>0, CreateSeesLatest
    <3>2. CASE card[e + 1] = NoText
      <4>1. card' = [card EXCEPT ![e + 1] = w] /\ Done(w, "written")
        BY <2>5, <3>2 DEF PutCreate
      <4>2. e + 1 \in 0 .. MaxVersion
        BY <3>1
      <4>3. \A v \in CardVersions : card'[v] # NoText <=> v <= e + 1
        BY <2>0, <4>1, <3>1, <3>2 DEF CardVersions, CardTypeOK
      <4>4. Latest' = e + 1
        <5>1. PICK n \in 0 .. MaxVersion : n = e + 1
          BY <4>2
        <5>2. \A v \in CardVersions : card'[v] # NoText <=> v <= n
          BY <4>3, <5>1
        <5>3. IsLatest(n)'
          BY <5>2 DEF IsLatest, CardVersions
        <5>4. ASSUME NEW m \in 0 .. MaxVersion, IsLatest(m)' PROVE m = n
          <6>1. ~(m < n)
            <7> SUFFICES ASSUME m < n PROVE FALSE
              OBVIOUS
            <7>1. n \in CardVersions /\ n > m
              BY DEF CardVersions
            <7> QED BY <7>1, <5>2, <5>4 DEF IsLatest
          <6>2. ~(n < m)
            <7> SUFFICES ASSUME n < m PROVE FALSE
              OBVIOUS
            <7>1. m \in CardVersions /\ m # 0
              BY DEF CardVersions
            <7> QED BY <7>1, <5>2, <5>4 DEF IsLatest
          <6> QED BY <6>1, <6>2
        <5> QED BY <5>1, <5>3, <5>4 DEF Latest
      <4>5. e = Latest /\ Latest < MaxVersion /\ Latest' = Latest + 1
        BY <3>1, <3>2, <4>4
      <4>6. /\ card' = [card EXCEPT ![Latest + 1] = w]
            /\ Contract!Answer(w, "written")
        BY <4>1, <4>5 DEF Done, Contract!Answer
      <4>7. Contract!PutWritten(w)
        BY <4>5, <4>6 DEF Contract!PutWritten
      <4> QED BY <4>7 DEF Contract!Next
    <3>3. CASE card[e + 1] # NoText
      BY <2>1, <2>5, <3>3 DEF PutCreate, Contract!cardVars
    <3> QED BY <3>2, <3>3
  <2>6. ASSUME NEW w \in CardWriters, PutReload(w)
        PROVE  Contract!Next
    <3>1. step[w] = "reload"
      BY <2>6 DEF PutReload
    <3>2. edited[w] # Latest /\ edited[w] # -1
      BY <3>1, <2>0, CreateSeesLatest DEF WritersFollow
    <3>3. Contract!PutConflict(w)
      BY <2>1, <2>6, <3>2 DEF PutReload, Done, Contract!PutConflict, Contract!Answer
    <3> QED BY <3>3 DEF Contract!Next
  <2>7. ASSUME NEW w \in CardWriters, PutFailed(w)
        PROVE  Contract!Next
    <3>1. Contract!PutFailed(w)
      BY <2>0, <2>1, <2>7
         DEF PutFailed, Done, Contract!PutFailed, Contract!Answer, WritersFollow
    <3> QED BY <3>1 DEF Contract!Next
  <2> QED BY <2>2, <2>3, <2>4, <2>5, <2>6, <2>7 DEF CardNext
<1> QED BY <1>1, <1>2, CardInvInit, CardInvStep, PTL
        DEF CardSpec, ImplementsCards, Contract!Spec

(***************************************************************************)
(* SurrealSessions: operators.                                             *)
(***************************************************************************)

\* The last update is one of them, or none.
LEMMA LastUpdateIn ==
    ASSUME NEW us \in SUBSET SUpdates
    PROVE  /\ LastUpdate(us) \in 0 .. MaxUpdate
           /\ LastUpdate(us) # 0 => LastUpdate(us) \in us
<1>1. CASE us = {}
  BY <1>1, SurrealAssumption DEF LastUpdate
<1>2. CASE us # {}
  <2>1. us \in SUBSET Nat /\ MaxUpdate \in Nat /\ \A x \in us : x <= MaxUpdate
    BY SurrealAssumption DEF SUpdates
  <2>2. PICK m \in us : \A y \in us : y <= m
    BY <1>2, <2>1, GreatestNat
  <2>3. \A y \in us : m >= y
    BY <2>2
  <2>4. Max(us) \in us
    BY <2>2, <2>3 DEF Max
  <2>5. PICK x : x = Max(us)
    OBVIOUS
  <2>6. LastUpdate(us) = x
    BY <1>2, <2>5 DEF LastUpdate
  <2>7. x \in us /\ x \in 1 .. MaxUpdate
    BY <2>4, <2>5 DEF SUpdates
  <2> QED
    BY <2>1, <2>6, <2>7
<1> QED
  BY <1>1, <1>2

\* What is there before anything is.
LEMMA EmptyTypes ==
    /\ NoEnts \in SEnts /\ NoRels \in SRels
    /\ NoMem \in SSessions /\ EmptyDb \in STables /\ NoKnown \in SBeliefs
    /\ NoWork \in SWork /\ NoSave \in SSaves /\ NoGuest \in SGuests /\ NoLoad \in SLoads
<1>1. NoEnts \in SEnts /\ NoRels \in SRels
  BY SurrealAssumption DEF NoEnts, NoRels, SEnts, SRels
<1>2. NoMem \in SSessions /\ EmptyDb \in STables /\ NoKnown \in SBeliefs /\ NoLoad \in SLoads
  BY <1>1 DEF NoMem, EmptyDb, NoKnown, NoLoad, SSessions, STables, SBeliefs, SLoads
<1>3. NoWork \in SWork
  BY DEF NoWork, SWork
<1>4. NoSave \in SSaves
  BY <1>2, <1>3 DEF NoSave, SSaves
<1>5. NoGuest \in SGuests
  BY SurrealAssumption DEF NoGuest, SGuests
<1> QED
  BY <1>1, <1>2, <1>3, <1>4, <1>5

\* The fields of what is there before anything is.
LEMMA EmptyFields ==
    /\ \A n \in SNames : NoEnts[n] = {}
    /\ \A e \in SEdges : NoRels[e] = 0
    /\ NoMem.ups = {} /\ NoMem.ents = NoEnts /\ NoMem.rels = NoRels /\ ~NoMem.here
    /\ EmptyDb.ups = {} /\ EmptyDb.ents = NoEnts /\ EmptyDb.rels = NoRels
    /\ NoKnown.ups = {} /\ NoKnown.ents = NoEnts /\ NoKnown.rels = NoRels /\ ~NoKnown.some
    /\ NoWork.explicit = {} /\ NoWork.removed = {} /\ ~NoWork.some
    /\ NoSave.pc = "idle" /\ NoSave.snap = NoMem /\ NoSave.work = NoWork /\ NoSave.seen = NoKnown
    /\ ~NoSave.orphan /\ ~NoSave.full /\ NoSave.failed = {}
    /\ NoGuest.pc = "idle" /\ NoGuest.op = "none" /\ NoGuest.name = {} /\ NoGuest.gone = 0
    /\ NoLoad.pc = "idle" /\ NoLoad.ups = {}
  BY DEF NoEnts, NoRels, NoMem, EmptyDb, NoKnown, NoWork, NoSave, NoGuest, NoLoad

\* The graph after one more update.
LEMMA AppliedFields ==
    ASSUME NEW m \in SSessions, NEW u \in SUpdates
    PROVE  /\ Applied(m, u) \in SSessions
           /\ Applied(m, u).here /\ Applied(m, u).ups = m.ups \cup {u}
           /\ \A n \in SNames : Applied(m, u).ents[n]
                                = IF n \in Mentions[u] THEN m.ents[n] \cup {u} ELSE m.ents[n]
           /\ \A e \in SEdges : Applied(m, u).rels[e]
                                = IF e \subseteq Mentions[u] THEN u ELSE m.rels[e]
<1> DEFINE E == [n \in SNames |-> m.ents[n] \cup {v \in {u} : n \in Mentions[v]}]
<1> DEFINE R == [e \in SEdges |-> IF e \subseteq Mentions[u] THEN u ELSE m.rels[e]]
<1>1. /\ m.ups \in SUBSET SUpdates /\ m.ents \in [SNames -> SUBSET SUpdates]
      /\ m.rels \in [SEdges -> 0 .. MaxUpdate]
  BY DEF SSessions, SEnts, SRels
<1>2. \A n \in SNames : E[n] = IF n \in Mentions[u] THEN m.ents[n] \cup {u} ELSE m.ents[n]
  OBVIOUS
<1>3. \A e \in SEdges : R[e] = IF e \subseteq Mentions[u] THEN u ELSE m.rels[e]
  OBVIOUS
<1>4. E \in SEnts
  BY <1>1 DEF SEnts
<1>5. R \in SRels
  BY <1>1 DEF SRels, SUpdates
<1>6. Applied(m, u) = [here |-> TRUE, ups |-> m.ups \cup {u}, ents |-> E, rels |-> R]
  BY DEF Applied
<1> HIDE DEF E, R
<1> QED
  BY <1>1, <1>2, <1>3, <1>4, <1>5, <1>6, SMTT(30) DEF SSessions

\* The graph rebuilt.
LEMMA RebuiltFields ==
    ASSUME NEW ups \in SUBSET SUpdates
    PROVE  /\ Rebuilt(ups) \in SSessions
           /\ Rebuilt(ups).here /\ Rebuilt(ups).ups = ups
           /\ \A n \in SNames : Rebuilt(ups).ents[n] = {u \in ups : n \in Mentions[u]}
           /\ \A e \in SEdges : /\ Rebuilt(ups).rels[e] \in ups \cup {0}
                                /\ Rebuilt(ups).rels[e] # 0 =>
                                     \A n \in e : Rebuilt(ups).ents[n] # {}
<1> DEFINE E == [n \in SNames |-> {u \in ups : n \in Mentions[u]}]
<1> DEFINE R == [e \in SEdges |-> LastUpdate({u \in ups : e \subseteq Mentions[u]})]
<1>1. \A n \in SNames : E[n] = {u \in ups : n \in Mentions[u]}
  OBVIOUS
<1>2. ASSUME NEW e \in SEdges
      PROVE  /\ R[e] \in 0 .. MaxUpdate
             /\ R[e] # 0 => R[e] \in {u \in ups : e \subseteq Mentions[u]}
  <2>1. PICK us : us = {u \in ups : e \subseteq Mentions[u]}
    OBVIOUS
  <2>2. us \in SUBSET SUpdates
    BY <2>1
  <2> QED
    BY <2>1, <2>2, LastUpdateIn
<1>3. E \in SEnts
  BY DEF SEnts
<1>4. R \in SRels
  BY <1>2 DEF SRels
<1>5. Rebuilt(ups) = [here |-> TRUE, ups |-> ups, ents |-> E, rels |-> R]
  BY DEF Rebuilt
<1>6. ASSUME NEW e \in SEdges, NEW n \in e, R[e] # 0 PROVE E[n] # {}
  <2>1. R[e] \in ups /\ e \subseteq Mentions[R[e]]
    BY <1>2, <1>6
  <2>2. n \in SNames /\ n \in Mentions[R[e]]
    BY <2>1 DEF SEdges
  <2> QED
    BY <1>1, <2>1, <2>2
<1> HIDE DEF E, R
<1> QED
  BY <1>1, <1>2, <1>3, <1>4, <1>5, <1>6 DEF SSessions

\* The graph without an entity.
LEMMA WithoutFields ==
    ASSUME NEW m \in SSessions, NEW n \in SNames
    PROVE  /\ Without(m, n) \in SSessions
           /\ Without(m, n).here = m.here /\ Without(m, n).ups = m.ups
           /\ \A k \in SNames : Without(m, n).ents[k] = IF k = n THEN {} ELSE m.ents[k]
           /\ \A e \in SEdges : Without(m, n).rels[e] = IF n \in e THEN 0 ELSE m.rels[e]
<1> DEFINE E == [m.ents EXCEPT ![n] = {}]
<1> DEFINE R == [e \in SEdges |-> IF n \in e THEN 0 ELSE m.rels[e]]
<1>1. /\ m.here \in BOOLEAN /\ m.ups \in SUBSET SUpdates /\ m.ents \in [SNames -> SUBSET SUpdates]
      /\ m.rels \in [SEdges -> 0 .. MaxUpdate]
  BY DEF SSessions, SEnts, SRels
<1>2. \A k \in SNames : E[k] = IF k = n THEN {} ELSE m.ents[k]
  BY <1>1
<1>3. \A e \in SEdges : R[e] = IF n \in e THEN 0 ELSE m.rels[e]
  OBVIOUS
<1>4. E \in SEnts
  BY <1>1 DEF SEnts
<1>5. R \in SRels
  BY <1>1, SurrealAssumption DEF SRels
<1>6. Without(m, n) = [m EXCEPT !.ents = E, !.rels = R]
  BY Zenon DEF Without
<1> HIDE DEF E, R
<1>7. Without(m, n) = [here |-> m.here, ups |-> m.ups, ents |-> E, rels |-> R]
  BY <1>6 DEF SSessions
<1> QED
  BY <1>1, <1>2, <1>3, <1>4, <1>5, <1>7 DEF SSessions

\* The tables after a query.
LEMMA PersistedFields ==
    ASSUME NEW db \in STables, NEW s \in SSaves, NEW failed \in SUBSET Statements,
           NEW r, r = Persisted(db, s, failed)
    PROVE  /\ r \in STables
           /\ r.ups
                = (db.ups \cup IF "updates" \in failed THEN {} ELSE UpdatesToWrite(s))
                    \ IF "removed" \in failed THEN {} ELSE s.work.removed
           /\ \A n \in SNames : r.ents[n]
                = IF /\ "entities" \notin failed /\ s.snap.ents[n] # {}
                     /\ s.full \/ s.seen.ents[n] # s.snap.ents[n]
                  THEN s.snap.ents[n] ELSE db.ents[n]
           /\ \A e \in SEdges : r.rels[e]
                = IF /\ "relations" \notin failed /\ s.snap.rels[e] # 0
                     /\ s.full \/ s.seen.rels[e] # s.snap.rels[e]
                  THEN s.snap.rels[e] ELSE db.rels[e]
<1> DEFINE E == [n \in SNames |-> IF "entities" \notin failed /\ n \in EntitiesToWrite(s)
                                  THEN s.snap.ents[n] ELSE db.ents[n]]
<1> DEFINE R == [e \in SEdges |-> IF "relations" \notin failed /\ e \in RelationsToWrite(s)
                                  THEN s.snap.rels[e] ELSE db.rels[e]]
<1> DEFINE U == (db.ups \cup IF "updates" \in failed THEN {} ELSE UpdatesToWrite(s))
                    \ IF "removed" \in failed THEN {} ELSE s.work.removed
<1>1. /\ db.row \in BOOLEAN /\ db.ups \in SUBSET SUpdates /\ db.ents \in [SNames -> SUBSET SUpdates]
      /\ db.rels \in [SEdges -> 0 .. MaxUpdate]
  BY DEF STables, SEnts, SRels
<1>2. s.snap \in SSessions /\ s.work \in SWork /\ s.seen \in SBeliefs
  BY DEF SSaves
<1>3. /\ s.snap.ups \in SUBSET SUpdates /\ s.snap.ents \in [SNames -> SUBSET SUpdates]
      /\ s.snap.rels \in [SEdges -> 0 .. MaxUpdate] /\ s.work.explicit \in SUBSET SUpdates
  BY <1>2 DEF SSessions, SEnts, SRels, SWork
<1>4. \A n \in SNames : E[n] = IF /\ "entities" \notin failed /\ s.snap.ents[n] # {}
                                  /\ s.full \/ s.seen.ents[n] # s.snap.ents[n]
                               THEN s.snap.ents[n] ELSE db.ents[n]
  BY DEF EntitiesToWrite
<1>5. \A e \in SEdges : R[e] = IF /\ "relations" \notin failed /\ s.snap.rels[e] # 0
                                  /\ s.full \/ s.seen.rels[e] # s.snap.rels[e]
                               THEN s.snap.rels[e] ELSE db.rels[e]
  BY DEF RelationsToWrite
<1>6. E \in SEnts
  BY <1>1, <1>3 DEF SEnts
<1>7. R \in SRels
  BY <1>1, <1>3 DEF SRels
<1>8. U \in SUBSET SUpdates
  BY <1>1, <1>3 DEF UpdatesToWrite
<1>9. r
        = [row |-> db.row \/ "session" \notin failed, ups |-> U, ents |-> E, rels |-> R]
  BY DEF Persisted
<1>10. (db.row \/ "session" \notin failed) \in BOOLEAN
  OBVIOUS
<1>11. /\ r.ups = U /\ r.ents = E
       /\ r.rels = R
  BY <1>9
<1> HIDE DEF E, R, U
<1>12. r \in STables
  BY <1>6, <1>7, <1>8, <1>9, <1>10 DEF STables
<1> USE DEF E, R, U
<1> QED
  BY <1>4, <1>5, <1>11, <1>12

\* What is known after the query.
LEMMA KnownAfterFields ==
    ASSUME NEW s \in SSaves
    PROVE  /\ KnownAfter(s) \in SBeliefs
           /\ ~KnownAfter(s).some => KnownAfter(s) = NoKnown
           /\ KnownAfter(s).ups \subseteq s.seen.ups \cup UpdatesToWrite(s)
           /\ "updates" \in s.failed => KnownAfter(s).ups = {}
           /\ \/ KnownAfter(s).ents = NoEnts /\ KnownAfter(s).rels = NoRels
              \/ /\ s.failed = {}
                 /\ KnownAfter(s).ents = s.snap.ents /\ KnownAfter(s).rels = s.snap.rels
<1>1. s.snap \in SSessions /\ s.work \in SWork /\ s.seen \in SBeliefs /\ s.failed \in SUBSET Statements
  BY DEF SSaves
<1>2. /\ s.snap.ups \in SUBSET SUpdates /\ s.snap.ents \in SEnts /\ s.snap.rels \in SRels
      /\ s.work.explicit \in SUBSET SUpdates /\ s.seen.ups \in SUBSET SUpdates
  BY <1>1 DEF SSessions, SWork, SBeliefs
<1>3. CASE s.failed \cap {"session", "updates", "removed"} # {}
  <2>1. KnownAfter(s) = NoKnown
    BY <1>3 DEF KnownAfter
  <2> QED
    BY <2>1, EmptyTypes, EmptyFields
<1>4. CASE s.failed \cap {"session", "updates", "removed"} = {}
  <2> DEFINE U == (s.seen.ups \cup UpdatesToWrite(s)) \ s.work.removed
  <2>1. U \in SUBSET SUpdates /\ U \subseteq s.seen.ups \cup UpdatesToWrite(s)
    BY <1>2 DEF UpdatesToWrite
  <2>2. "updates" \notin s.failed
    BY <1>4
  <2>3. CASE s.failed \cap {"entities", "relations"} = {}
    <3>1. s.failed = {}
      BY <1>1, <1>4, <2>3 DEF Statements
    <3>2. KnownAfter(s) = [some |-> TRUE, ups |-> U, ents |-> s.snap.ents, rels |-> s.snap.rels]
      BY <1>4, <2>3 DEF KnownAfter
    <3> HIDE DEF U
    <3> QED
      BY <1>2, <2>1, <2>2, <3>1, <3>2 DEF SBeliefs
  <2>4. CASE s.failed \cap {"entities", "relations"} # {}
    <3>1. KnownAfter(s) = [some |-> TRUE, ups |-> U, ents |-> NoEnts, rels |-> NoRels]
      BY <1>4, <2>4 DEF KnownAfter
    <3> HIDE DEF U
    <3> QED
      BY <2>1, <2>2, <3>1, EmptyTypes DEF SBeliefs
  <2> QED
    BY <2>3, <2>4
<1> QED
  BY <1>3, <1>4

\* The tables after an erasing operation.
LEMMA ErasedFields ==
    ASSUME NEW db \in STables, NEW g \in SGuests, g.op # "none",
           NEW r, r = Erased(db, g)
    PROVE  /\ r \in STables
           /\ r.ups = IF g.op = "session" THEN {} ELSE db.ups
           /\ \A n \in SNames : r.ents[n]
                = IF g.op = "entity" /\ n \notin g.name THEN db.ents[n] ELSE {}
           /\ \A e \in SEdges : r.rels[e]
                = IF g.op = "entity" /\ e \cap g.name = {} THEN db.rels[e] ELSE 0
<1>1. /\ db.row \in BOOLEAN /\ db.ups \in SUBSET SUpdates /\ db.ents \in [SNames -> SUBSET SUpdates]
      /\ db.rels \in [SEdges -> 0 .. MaxUpdate]
  BY DEF STables, SEnts, SRels
<1>2. g.op \in {"graph", "entity", "session"}
  BY DEF SGuests
<1>3. CASE g.op = "session"
  <2>1. r = EmptyDb
    BY <1>3 DEF Erased
  <2> QED
    BY <1>3, <2>1, EmptyTypes, EmptyFields
<1>4. CASE g.op = "graph"
  <2>1. r = [db EXCEPT !.ents = NoEnts, !.rels = NoRels]
    BY <1>4 DEF Erased
  <2>2. r = [row |-> db.row, ups |-> db.ups, ents |-> NoEnts, rels |-> NoRels]
    BY <2>1 DEF STables
  <2> QED
    BY <1>1, <1>4, <2>2, EmptyTypes, EmptyFields DEF STables
<1>5. CASE g.op = "entity"
  <2> DEFINE E == [n \in SNames |-> IF n \in g.name THEN {} ELSE db.ents[n]]
  <2> DEFINE R == [e \in SEdges |-> IF e \cap g.name # {} THEN 0 ELSE db.rels[e]]
  <2>1. r = [db EXCEPT !.ents = E, !.rels = R]
    BY <1>5 DEF Erased
  <2>2. r = [row |-> db.row, ups |-> db.ups, ents |-> E, rels |-> R]
    BY <2>1 DEF STables
  <2>3. E \in SEnts /\ \A n \in SNames : E[n] = IF n \in g.name THEN {} ELSE db.ents[n]
    BY <1>1 DEF SEnts
  <2>4. R \in SRels /\ \A e \in SEdges : R[e] = IF e \cap g.name # {} THEN 0 ELSE db.rels[e]
    BY <1>1, SurrealAssumption DEF SRels
  <2> HIDE DEF E, R
  <2> QED
    BY <1>1, <1>5, <2>2, <2>3, <2>4 DEF STables
<1> QED
  BY <1>2, <1>3, <1>4, <1>5

\* What a load reads of the edges.
LEMMA ReadRelsFields ==
    ASSUME NEW db \in STables
    PROVE  /\ ReadRels(db) \in SRels
           /\ \A e \in SEdges : ReadRels(db)[e]
                = IF \A n \in e : db.ents[n] # {} THEN db.rels[e] ELSE 0
<1>1. db.rels \in [SEdges -> 0 .. MaxUpdate]
  BY DEF STables, SRels
<1> QED
  BY <1>1, SurrealAssumption DEF ReadRels, SRels

(***************************************************************************)
(* SurrealSessions: the steps keep the invariant.                          *)
(***************************************************************************)

\* The parts of the variables.
LEMMA SurrealFields ==
    ASSUME SurrealTypeOK
    PROVE  /\ sMem.here \in BOOLEAN /\ sMem.ups \in SUBSET SUpdates /\ sMem.ents \in SEnts /\ sMem.rels \in SRels
           /\ sDb.row \in BOOLEAN /\ sDb.ups \in SUBSET SUpdates /\ sDb.ents \in SEnts /\ sDb.rels \in SRels
           /\ sKnown.some \in BOOLEAN /\ sKnown.ups \in SUBSET SUpdates /\ sKnown.ents \in SEnts /\ sKnown.rels \in SRels
           /\ sPending.some \in BOOLEAN /\ sPending.explicit \in SUBSET SUpdates /\ sPending.removed \in SUBSET SUpdates
           /\ sSave.pc \in {"idle", "begun", "query", "sent"} /\ sSave.snap \in SSessions /\ sSave.work \in SWork
           /\ sSave.seen \in SBeliefs /\ sSave.full \in BOOLEAN /\ sSave.failed \in SUBSET Statements
           /\ sSave.orphan \in BOOLEAN
           /\ sGuest.name \in SUBSET SNames /\ sGuest.gone \in 0 .. MaxUpdate
           /\ sLoad.ups \in SUBSET SUpdates /\ sLoad.ents \in SEnts /\ sLoad.rels \in SRels
  BY DEF SurrealTypeOK, SSessions, STables, SBeliefs, SWork, SSaves, SGuests, SLoads

EntSafe(n) ==
    RowSafe({}, sMem.ents[n], sSave.snap.ents[n], sKnown.ents[n], sSave.seen.ents[n],
            sDb.ents[n], n \in sGuest.name)

EdgeSafe(e) ==
    RowSafe(0, sMem.rels[e], sSave.snap.rels[e], sKnown.rels[e], sSave.seen.rels[e],
            sDb.rels[e], e \cap sGuest.name # {})

\* One row, when an update is added: its content is new, or what it was.
LEMMA AddUpdateRow ==
    ASSUME SurrealInv, AddUpdate, NEW z, NEW m, NEW s, NEW k, NEW q, NEW d,
           NEW own \in BOOLEAN, NEW m2,
           RowSafe(z, m, s, k, q, d, own), m2 = m \/ (~own /\ m2 # k)
    PROVE  RowSafe(z, m2, s, k, q, d, own)'
<1>1. sPending'.some /\ sSave' = sSave /\ sGuest' = sGuest /\ sBroken' = sBroken
  BY DEF AddUpdate, Queued
<1> QED
  BY <1>1 DEF RowSafe, Clearing, Overtaken

\* An update is added: its rows are dirty in memory and a persist is queued.
LEMMA AddUpdateKeeps ==
    ASSUME SurrealInv, AddUpdate
    PROVE  SurrealInv'
<1> DEFINE u == sNext
<1>0. u \in SUpdates /\ u \in Nat /\ sMem \in SSessions
  BY DEF AddUpdate, SurrealInv, SurrealTypeOK, SUpdates
<1>1. /\ sMem' \in SSessions /\ sMem'.here /\ sMem'.ups = sMem.ups \cup {u}
      /\ \A n \in SNames : sMem'.ents[n] = IF n \in Mentions[u] THEN sMem.ents[n] \cup {u} ELSE sMem.ents[n]
      /\ \A e \in SEdges : sMem'.rels[e] = IF e \subseteq Mentions[u] THEN u ELSE sMem.rels[e]
  <2>1. sMem' = Applied(sMem, u)
    BY DEF AddUpdate
  <2>2. /\ Applied(sMem, u) \in SSessions
        /\ Applied(sMem, u).here /\ Applied(sMem, u).ups = sMem.ups \cup {u}
        /\ \A n \in SNames : Applied(sMem, u).ents[n]
                             = IF n \in Mentions[u] THEN sMem.ents[n] \cup {u} ELSE sMem.ents[n]
        /\ \A e \in SEdges : Applied(sMem, u).rels[e]
                             = IF e \subseteq Mentions[u] THEN u ELSE sMem.rels[e]
    BY <1>0, AppliedFields, Zenon
  <2> QED
    BY <2>1, <2>2, Zenon
<1>2. /\ sPending' \in SWork /\ sPending'.some /\ sPending'.removed = sPending.removed
      /\ sPending'.explicit = sPending.explicit \cup {u}
  BY <1>0, SurrealFields DEF AddUpdate, Queued, SWork, SurrealInv
<1>3. sDb' = sDb /\ sKnown' = sKnown /\ sSave' = sSave /\ sGuest' = sGuest /\ sLoad' = sLoad /\ sBroken' = sBroken
  BY DEF AddUpdate
<1>4. sNext' = sNext + 1 /\ sCrossed' = sCrossed \cup (Mentions[u] \cap sGuest.name)
  BY DEF AddUpdate
<1>5. Mentions[u] \subseteq SNames
  BY <1>0, SurrealAssumption
<1>6. SurrealTypeOK'
  <2>1. sNext' \in 1 .. MaxUpdate + 1 /\ sCrossed' \in SUBSET SNames
    BY <1>0, <1>4, <1>5, SurrealAssumption DEF SurrealInv, SurrealTypeOK, SUpdates
  <2> QED
    BY <1>1, <1>2, <1>3, <2>1 DEF SurrealInv, SurrealTypeOK
<1>7. NotYetSeen'
  <2> SUFFICES ASSUME NEW v \in SUpdates, v >= sNext'
               PROVE  /\ NowhereIn(v, sMem') /\ NowhereIn(v, sDb) /\ NowhereIn(v, sKnown)
                      /\ NowhereIn(v, sSave.snap) /\ NowhereIn(v, sSave.seen)
                      /\ v \notin sPending'.explicit \cup sPending'.removed
                      /\ v \notin sSave.work.explicit \cup sSave.work.removed
                      /\ v # sGuest.gone
    BY <1>3 DEF NotYetSeen, NowhereIn
  <2>1. v >= sNext /\ v # u
    BY <1>0, <1>4 DEF SUpdates
  <2>2. NowhereIn(v, sMem)
    BY <2>1 DEF SurrealInv, NotYetSeen
  <2>3. NowhereIn(v, sMem')
    BY <1>1, <2>1, <2>2 DEF NowhereIn
  <2> QED
    BY <1>2, <2>1, <2>3 DEF SurrealInv, NotYetSeen
<1>8. StagesFit'
  BY <1>1, <1>2, <1>3 DEF SurrealInv, StagesFit, AddUpdate, Quiet
<1>9. EndsKept'
  <2> SUFFICES ASSUME NEW e \in SEdges, sMem'.rels[e] # 0, NEW n \in e PROVE sMem'.ents[n] # {}
    BY DEF EndsKept
  <2>1. n \in SNames
    BY DEF SEdges
  <2> QED
    BY <1>1, <2>1 DEF SurrealInv, EndsKept
<1>10. UpdatesSafe'
  <2>1. NowhereIn(u, sKnown) /\ NowhereIn(u, sSave.seen) /\ NowhereIn(u, sSave.snap)
    BY <1>0 DEF SurrealInv, NotYetSeen
  <2>2. /\ u \notin sPending.removed /\ u \notin sSave.work.explicit \cup sSave.work.removed
        /\ u # sGuest.gone
    BY <1>0 DEF SurrealInv, NotYetSeen
  <2>3. u \notin sKnown.ups /\ u \notin sSave.seen.ups /\ u \notin UpdatesToWrite(sSave)
    BY <2>1, <2>2 DEF NowhereIn, UpdatesToWrite
  <2>4. SUsed' = SUsed \cup {u}
    BY <1>1, <1>3 DEF SUsed
  <2>5. UpdatesToWrite(sSave)' = UpdatesToWrite(sSave)
    BY <1>3 DEF UpdatesToWrite
  <2>6. UpdatesSafe
    BY DEF SurrealInv
  <2>7. /\ sKnown'.ups \cap SUsed' \subseteq sDb'.ups
        /\ sSave'.pc \in {"query", "sent"} => sSave'.seen.ups \cap SUsed' \subseteq sDb'.ups
        /\ sSave'.pc = "sent" /\ "updates" \notin sSave'.failed =>
             UpdatesToWrite(sSave)' \cap SUsed' \subseteq sDb'.ups
    BY <1>3, <2>3, <2>4, <2>5, <2>6 DEF UpdatesSafe
  <2>8. /\ sSave'.pc = "idle" /\ sMem'.here /\ ~sBroken' =>
             sMem'.ups \subseteq sDb'.ups \cup sPending'.explicit
        /\ sSave'.pc # "idle" => sMem'.ups \subseteq sSave'.snap.ups \cup sPending'.explicit
    BY <1>1, <1>2, <1>3, <2>6 DEF UpdatesSafe, SurrealInv, StagesFit, NoMem
  <2>9. /\ sPending'.removed \cap sMem'.ups = {} /\ sGuest'.gone \notin sMem'.ups
        /\ sSave'.work.removed \cap SUsed' = {}
    BY <1>1, <1>2, <1>3, <2>2, <2>4, <2>6 DEF UpdatesSafe
  <2> QED
    BY <2>7, <2>8, <2>9 DEF UpdatesSafe
<1>11. ASSUME NEW n \in SNames \ sCrossed' PROVE EntSafe(n)'
  <2>1. PICK m, s, k, q, d, own, m2 :
          /\ m = sMem.ents[n] /\ s = sSave.snap.ents[n] /\ k = sKnown.ents[n]
          /\ q = sSave.seen.ents[n] /\ d = sDb.ents[n] /\ own = (n \in sGuest.name)
          /\ m2 = sMem'.ents[n]
    OBVIOUS
  <2> own \in BOOLEAN
    BY <2>1
  <2>2. RowSafe({}, m, s, k, q, d, own)
    BY <1>4, <1>11, <2>1 DEF SurrealInv, RowsSafe
  <2>3. m2 = m \/ (~own /\ m2 # k)
    <3>1. u \notin k
      BY <1>0, <2>1 DEF SurrealInv, NotYetSeen, NowhereIn
    <3> QED
      BY <1>1, <1>4, <1>11, <2>1, <3>1
  <2>4. RowSafe({}, m2, s, k, q, d, own)'
    BY <2>2, <2>3, AddUpdateRow, Zenon
  <2> QED
    BY <1>3, <2>1, <2>4 DEF EntSafe, RowSafe, Clearing, Overtaken
<1>12. ASSUME NEW e \in SEdges, e \cap sCrossed' = {} PROVE EdgeSafe(e)'
  <2>1. PICK m, s, k, q, d, own, m2 :
          /\ m = sMem.rels[e] /\ s = sSave.snap.rels[e] /\ k = sKnown.rels[e]
          /\ q = sSave.seen.rels[e] /\ d = sDb.rels[e] /\ own = (e \cap sGuest.name # {})
          /\ m2 = sMem'.rels[e]
    OBVIOUS
  <2> own \in BOOLEAN
    BY <2>1
  <2>2. RowSafe(0, m, s, k, q, d, own)
    BY <1>4, <1>12, <2>1 DEF SurrealInv, RowsSafe
  <2>3. m2 = m \/ (~own /\ m2 # k)
    <3>1. u # k
      BY <1>0, <2>1 DEF SurrealInv, NotYetSeen, NowhereIn
    <3> QED
      BY <1>1, <1>4, <1>12, <2>1, <3>1
  <2>4. RowSafe(0, m2, s, k, q, d, own)'
    BY <2>2, <2>3, AddUpdateRow, Zenon
  <2> QED
    BY <1>3, <2>1, <2>4 DEF EdgeSafe, RowSafe, Clearing, Overtaken
<1> QED
  BY <1>6, <1>7, <1>8, <1>9, <1>10, <1>11, <1>12 DEF SurrealInv, RowsSafe, EntSafe, EdgeSafe

\* Nothing contains no update.
LEMMA NowhereInNothing ==
    \A u \in SUpdates : NowhereIn(u, NoMem) /\ NowhereIn(u, NoKnown) /\ NowhereIn(u, EmptyDb)
  BY EmptyFields, SurrealAssumption DEF NowhereIn, SUpdates

\* An edge has ends.
LEMMA SomeEnd == \A e \in SEdges : e # {}
<1>1. Cardinality({}) = 0
  BY FS_EmptySet
<1> QED
  BY <1>1 DEF SEdges

\* The session leaves memory.
LEMMA EvictKeeps ==
    ASSUME SurrealInv, Evict
    PROVE  SurrealInv'
<1> SurrealTypeOK /\ NotYetSeen /\ StagesFit /\ EndsKept /\ UpdatesSafe /\ RowsSafe
  BY DEF SurrealInv
<1>1. /\ sMem' = NoMem /\ sMem.here /\ Quiet /\ ~sBroken /\ sDb.row
      /\ ~sMem'.here /\ sMem'.ups = {} /\ sMem'.ents = NoEnts /\ sMem'.rels = NoRels
  BY EmptyFields DEF Evict
<1>2. sPending' = sPending /\ sDb' = sDb /\ sKnown' = sKnown /\ sSave' = sSave /\ sGuest' = sGuest /\ sLoad' = sLoad /\ sNext' = sNext /\ sBroken' = sBroken /\ sCrossed' = sCrossed
  BY DEF Evict
<1>3. SurrealTypeOK'
  BY <1>1, <1>2, EmptyTypes DEF SurrealTypeOK
<1>4. NotYetSeen'
  BY <1>1, <1>2, NowhereInNothing DEF NotYetSeen
<1>5. StagesFit'
  BY <1>1, <1>2, EmptyFields DEF StagesFit, Quiet
<1>6. EndsKept'
  BY <1>1, EmptyFields DEF EndsKept
<1>7. UpdatesSafe'
  BY <1>1, <1>2 DEF UpdatesSafe, SUsed, UpdatesToWrite
<1>8. ASSUME NEW n \in SNames \ sCrossed' PROVE EntSafe(n)'
  <2>1. EntSafe(n)
    BY <1>2, <1>8 DEF RowsSafe, EntSafe
  <2> QED
    BY <1>1, <1>2, <2>1, EmptyFields DEF EntSafe, RowSafe, Clearing, Overtaken
<1>9. ASSUME NEW e \in SEdges, e \cap sCrossed' = {} PROVE EdgeSafe(e)'
  <2>1. EdgeSafe(e)
    BY <1>2, <1>9 DEF RowsSafe, EdgeSafe
  <2> QED
    BY <1>1, <1>2, <2>1, EmptyFields DEF EdgeSafe, RowSafe, Clearing, Overtaken
<1> QED
  BY <1>3, <1>4, <1>5, <1>6, <1>7, <1>8, <1>9 DEF SurrealInv, RowsSafe, EntSafe, EdgeSafe

\* The persister hands over the session.
LEMMA SaveBeginKeeps ==
    ASSUME SurrealInv, SaveBegin
    PROVE  SurrealInv'
<1> SurrealTypeOK /\ NotYetSeen /\ StagesFit /\ EndsKept /\ UpdatesSafe /\ RowsSafe
  BY DEF SurrealInv
<1>1. /\ sSave' \in SSaves /\ sSave'.pc = "begun" /\ sSave'.snap = sMem /\ sSave'.work = sPending
      /\ sSave'.seen = NoKnown /\ sSave'.failed = {} /\ ~sSave'.orphan
      /\ sPending' = NoWork /\ ~sPending'.some /\ sPending.some /\ sMem.here /\ sSave.pc = "idle"
      /\ sGuest.pc \notin {"locked", "erased"}
  <2>1. sSave' = [NoSave EXCEPT !.pc = "begun", !.snap = sMem, !.work = sPending, !.full = ~sDb.row]
    BY DEF SaveBegin
  <2>2. sMem \in SSessions /\ sPending \in SWork /\ (~sDb.row) \in BOOLEAN
    BY DEF SurrealTypeOK
  <2>3. /\ sSave'.pc = "begun" /\ sSave'.snap = sMem /\ sSave'.work = sPending
        /\ sSave'.seen = NoKnown /\ sSave'.failed = {} /\ ~sSave'.orphan
    BY <2>1 DEF NoSave
  <2>4. sSave' \in SSaves
    BY <2>1, <2>2, EmptyTypes DEF SSaves
  <2> QED
    BY <2>3, <2>4, EmptyFields DEF SaveBegin
<1>2. sMem' = sMem /\ sDb' = sDb /\ sKnown' = sKnown /\ sGuest' = sGuest /\ sLoad' = sLoad /\ sNext' = sNext /\ sBroken' = sBroken /\ sCrossed' = sCrossed
  BY DEF SaveBegin
<1>3. SurrealTypeOK'
  BY <1>1, <1>2, EmptyTypes DEF SurrealTypeOK
<1>4. NotYetSeen'
  BY <1>1, <1>2, NowhereInNothing, EmptyFields DEF NotYetSeen
<1>5. StagesFit'
  BY <1>1, <1>2 DEF StagesFit, Quiet
<1>6. EndsKept'
  BY <1>2 DEF EndsKept
<1>7. UpdatesSafe'
  BY <1>1, <1>2, EmptyFields DEF UpdatesSafe, SUsed, UpdatesToWrite, StagesFit
<1>8. ASSUME NEW n \in SNames \ sCrossed' PROVE EntSafe(n)'
  <2>1. EntSafe(n)
    BY <1>2, <1>8 DEF RowsSafe, EntSafe
  <2> QED
    BY <1>1, <1>2, <2>1, EmptyFields DEF EntSafe, RowSafe, Clearing, Overtaken
<1>9. ASSUME NEW e \in SEdges, e \cap sCrossed' = {} PROVE EdgeSafe(e)'
  <2>1. EdgeSafe(e)
    BY <1>2, <1>9 DEF RowsSafe, EdgeSafe
  <2> QED
    BY <1>1, <1>2, <2>1, EmptyFields DEF EdgeSafe, RowSafe, Clearing, Overtaken
<1> QED
  BY <1>3, <1>4, <1>5, <1>6, <1>7, <1>8, <1>9 DEF SurrealInv, RowsSafe, EntSafe, EdgeSafe

\* The slot is locked and what is known read.
LEMMA SaveLockKeeps ==
    ASSUME SurrealInv, SaveLock
    PROVE  SurrealInv'
<1> SurrealTypeOK /\ NotYetSeen /\ StagesFit /\ EndsKept /\ UpdatesSafe /\ RowsSafe
  BY DEF SurrealInv
<1>1. /\ sSave' \in SSaves /\ sSave'.pc = "query" /\ sSave.pc = "begun" /\ sSave'.snap = sSave.snap
      /\ sSave'.work = sSave.work /\ sSave'.full = sSave.full /\ sSave'.orphan = sSave.orphan
      /\ sSave'.seen.ups \in {sKnown.ups, sDb.ups}
      /\ sSave'.seen.ents = sKnown.ents /\ sSave'.seen.rels = sKnown.rels
  <2>1. PICK seen : seen = IF sKnown.some THEN sKnown ELSE [NoKnown EXCEPT !.ups = sDb.ups]
    OBVIOUS
  <2>2. sSave' = [sSave EXCEPT !.pc = "query", !.seen = seen]
    BY <2>1 DEF SaveLock
  <2>3. /\ seen \in SBeliefs /\ seen.ups \in {sKnown.ups, sDb.ups}
        /\ seen.ents = sKnown.ents /\ seen.rels = sKnown.rels
    <3>1. CASE sKnown.some
      BY <2>1, <3>1 DEF SurrealTypeOK
    <3>2. CASE ~sKnown.some
      <4>1. sKnown = NoKnown
        BY <3>2 DEF StagesFit
      <4>2. seen = [NoKnown EXCEPT !.ups = sDb.ups]
        BY <2>1, <3>2
      <4>3. seen = [some |-> FALSE, ups |-> sDb.ups, ents |-> NoEnts, rels |-> NoRels]
        BY <4>2 DEF NoKnown
      <4> QED
        BY <4>1, <4>3, SurrealFields, EmptyTypes, EmptyFields DEF SBeliefs
    <3> QED
      BY <3>1, <3>2
  <2>4. sSave \in SSaves
    BY DEF SurrealTypeOK
  <2>5. sSave' \in SSaves
    BY <2>2, <2>3, <2>4 DEF SSaves
  <2>6. /\ sSave'.pc = "query" /\ sSave'.snap = sSave.snap /\ sSave'.seen = seen
        /\ sSave'.work = sSave.work /\ sSave'.full = sSave.full /\ sSave'.orphan = sSave.orphan
    BY <2>2, <2>4 DEF SSaves
  <2> QED
    BY <2>3, <2>5, <2>6 DEF SaveLock
<1>2. sMem' = sMem /\ sPending' = sPending /\ sDb' = sDb /\ sKnown' = sKnown /\ sGuest' = sGuest /\ sLoad' = sLoad /\ sNext' = sNext /\ sBroken' = sBroken /\ sCrossed' = sCrossed
  BY DEF SaveLock
<1>3. SurrealTypeOK'
  BY <1>1, <1>2 DEF SurrealTypeOK
<1>4. NotYetSeen'
  BY <1>1, <1>2 DEF NotYetSeen, NowhereIn
<1>5. StagesFit'
  BY <1>1, <1>2 DEF StagesFit, Quiet
<1>6. EndsKept'
  BY <1>2 DEF EndsKept
<1>7. UpdatesSafe'
  BY <1>1, <1>2 DEF UpdatesSafe, SUsed, UpdatesToWrite
<1>8. ASSUME NEW n \in SNames \ sCrossed' PROVE EntSafe(n)'
  <2>1. EntSafe(n)
    BY <1>2, <1>8 DEF RowsSafe, EntSafe
  <2>2. n \in sGuest.name => sGuest.op = "entity"
    BY DEF StagesFit
  <2> QED
    BY <1>1, <1>2, <2>1, <2>2 DEF EntSafe, RowSafe, Clearing, Overtaken
<1>9. ASSUME NEW e \in SEdges, e \cap sCrossed' = {} PROVE EdgeSafe(e)'
  <2>1. EdgeSafe(e)
    BY <1>2, <1>9 DEF RowsSafe, EdgeSafe
  <2> QED
    BY <1>1, <1>2, <2>1 DEF EdgeSafe, RowSafe, Clearing, Overtaken
<1> QED
  BY <1>3, <1>4, <1>5, <1>6, <1>7, <1>8, <1>9 DEF SurrealInv, RowsSafe, EntSafe, EdgeSafe

\* What a query without an error does to the tables, as far as the invariant is
\* concerned: nothing appears from nowhere, and nothing in use goes.
LEMMA QueryFields ==
    ASSUME SurrealInv, sSave.pc = "query", NEW failed \in SUBSET Statements, NEW db,
           db = Persisted(sDb, sSave, failed)
    PROVE  /\ db \in STables
           /\ \A u \in SUpdates : u >= sNext => NowhereIn(u, db)
           /\ db.ups \cap SUsed = (sDb.ups \cup IF "updates" \in failed THEN {} ELSE UpdatesToWrite(sSave)) \cap SUsed
           /\ \A n \in SNames : db.ents[n]
                = IF /\ "entities" \notin failed /\ sSave.snap.ents[n] # {}
                     /\ sSave.full \/ sSave.seen.ents[n] # sSave.snap.ents[n]
                  THEN sSave.snap.ents[n] ELSE sDb.ents[n]
           /\ \A e \in SEdges : db.rels[e]
                = IF /\ "relations" \notin failed /\ sSave.snap.rels[e] # 0
                     /\ sSave.full \/ sSave.seen.rels[e] # sSave.snap.rels[e]
                  THEN sSave.snap.rels[e] ELSE sDb.rels[e]
<1>1. sDb \in STables /\ sSave \in SSaves
  BY DEF SurrealInv, SurrealTypeOK
<1>2. /\ db \in STables
      /\ db.ups = (sDb.ups \cup IF "updates" \in failed THEN {} ELSE UpdatesToWrite(sSave))
                    \ IF "removed" \in failed THEN {} ELSE sSave.work.removed
      /\ \A n \in SNames : db.ents[n]
                = IF /\ "entities" \notin failed /\ sSave.snap.ents[n] # {}
                     /\ sSave.full \/ sSave.seen.ents[n] # sSave.snap.ents[n]
                  THEN sSave.snap.ents[n] ELSE sDb.ents[n]
      /\ \A e \in SEdges : db.rels[e]
                = IF /\ "relations" \notin failed /\ sSave.snap.rels[e] # 0
                     /\ sSave.full \/ sSave.seen.rels[e] # sSave.snap.rels[e]
                  THEN sSave.snap.rels[e] ELSE sDb.rels[e]
  BY <1>1, PersistedFields
<1>3. ASSUME NEW u \in SUpdates, u >= sNext PROVE NowhereIn(u, db)
  <2>1. NowhereIn(u, sDb) /\ NowhereIn(u, sSave.snap) /\ u \notin sSave.work.explicit
    BY <1>3 DEF SurrealInv, NotYetSeen
  <2>2. u \notin db.ups
    BY <1>2, <2>1 DEF NowhereIn, UpdatesToWrite
  <2> QED
    BY <1>2, <2>1, <2>2 DEF NowhereIn
<1>4. sSave.work.removed \cap SUsed = {}
  BY DEF SurrealInv, UpdatesSafe
<1>5. db.ups \cap SUsed = (sDb.ups \cup IF "updates" \in failed THEN {} ELSE UpdatesToWrite(sSave)) \cap SUsed
  BY <1>2, <1>4
<1> QED
  BY <1>2, <1>3, <1>5

\* The query is answered; statements of it may have failed.
LEMMA SaveQueryKeeps ==
    ASSUME SurrealInv, SaveQuery
    PROVE  SurrealInv'
<1> SurrealTypeOK /\ NotYetSeen /\ StagesFit /\ EndsKept /\ UpdatesSafe /\ RowsSafe
  BY DEF SurrealInv
<1>0. PICK failed : /\ failed \in SUBSET Statements
                    /\ sDb' = Persisted(sDb, sSave, failed)
                    /\ sSave' = [sSave EXCEPT !.pc = "sent", !.failed = failed]
  <2>1. {{}} \cup (IF Faults THEN {{x} : x \in Statements} ELSE {}) \subseteq SUBSET Statements
    OBVIOUS
  <2> QED
    BY <2>1 DEF SaveQuery
<1>1. /\ sSave' \in SSaves /\ sSave'.pc = "sent" /\ sSave.pc = "query" /\ sSave'.failed = failed
      /\ sSave'.snap = sSave.snap /\ sSave'.seen = sSave.seen
      /\ sSave'.work = sSave.work /\ sSave'.full = sSave.full /\ sSave'.orphan = sSave.orphan
  <2>1. sSave \in SSaves
    BY DEF SurrealTypeOK
  <2> QED
    BY <1>0, <2>1 DEF SSaves, SaveQuery
<1>1a. PICK db : db = sDb'
  OBVIOUS
<1>1b. db = Persisted(sDb, sSave, failed) /\ failed \in SUBSET Statements /\ sSave.pc = "query"
  BY <1>0, <1>1, <1>1a
<1>1c. /\ db \in STables
       /\ \A u \in SUpdates : u >= sNext => NowhereIn(u, db)
       /\ db.ups \cap SUsed = (sDb.ups \cup IF "updates" \in failed THEN {} ELSE UpdatesToWrite(sSave)) \cap SUsed
       /\ \A n \in SNames : db.ents[n]
            = IF /\ "entities" \notin failed /\ sSave.snap.ents[n] # {}
                 /\ sSave.full \/ sSave.seen.ents[n] # sSave.snap.ents[n]
              THEN sSave.snap.ents[n] ELSE sDb.ents[n]
       /\ \A e \in SEdges : db.rels[e]
            = IF /\ "relations" \notin failed /\ sSave.snap.rels[e] # 0
                 /\ sSave.full \/ sSave.seen.rels[e] # sSave.snap.rels[e]
              THEN sSave.snap.rels[e] ELSE sDb.rels[e]
  BY <1>1b, QueryFields
<1>2. sMem' = sMem /\ sPending' = sPending /\ sKnown' = sKnown /\ sGuest' = sGuest /\ sLoad' = sLoad /\ sNext' = sNext /\ sBroken' = sBroken /\ sCrossed' = sCrossed
  BY DEF SaveQuery
<1>3. SurrealTypeOK'
  BY <1>1, <1>1a, <1>1c, <1>2 DEF SurrealTypeOK
<1>4. NotYetSeen'
  BY <1>1, <1>1a, <1>1c, <1>2 DEF NotYetSeen, NowhereIn
<1>5. StagesFit'
  BY <1>1, <1>2 DEF StagesFit, Quiet
<1>6. EndsKept'
  BY <1>2 DEF EndsKept
<1>7. UpdatesSafe'
  <2>1. SUsed' = SUsed /\ UpdatesToWrite(sSave)' = UpdatesToWrite(sSave)
    BY <1>1, <1>2 DEF SUsed, UpdatesToWrite
  <2> QED
    BY <1>1, <1>1a, <1>1c, <1>2, <2>1 DEF UpdatesSafe
<1>8. ASSUME NEW n \in SNames \ sCrossed' PROVE EntSafe(n)'
  <2>1. EntSafe(n)
    BY <1>2, <1>8 DEF RowsSafe, EntSafe
  <2>2. sDb'.ents[n] = IF /\ "entities" \notin failed /\ sSave.snap.ents[n] # {}
                          /\ sSave.full \/ sSave.seen.ents[n] # sSave.snap.ents[n]
                       THEN sSave.snap.ents[n] ELSE sDb.ents[n]
    BY <1>1a, <1>1c
  <2> QED
    BY <1>1, <1>2, <2>1, <2>2 DEF EntSafe, RowSafe, Clearing, Overtaken
<1>9. ASSUME NEW e \in SEdges, e \cap sCrossed' = {} PROVE EdgeSafe(e)'
  <2>1. EdgeSafe(e)
    BY <1>2, <1>9 DEF RowsSafe, EdgeSafe
  <2>2. sDb'.rels[e] = IF /\ "relations" \notin failed /\ sSave.snap.rels[e] # 0
                          /\ sSave.full \/ sSave.seen.rels[e] # sSave.snap.rels[e]
                       THEN sSave.snap.rels[e] ELSE sDb.rels[e]
    BY <1>1a, <1>1c
  <2> QED
    BY <1>1, <1>2, <2>1, <2>2 DEF EdgeSafe, RowSafe, Clearing, Overtaken
<1> QED
  BY <1>3, <1>4, <1>5, <1>6, <1>7, <1>8, <1>9 DEF SurrealInv, RowsSafe, EntSafe, EdgeSafe

\* The query returned an error, carried out or not.
LEMMA SaveLostKeeps ==
    ASSUME SurrealInv, SaveLost
    PROVE  SurrealInv'
<1> SurrealTypeOK /\ NotYetSeen /\ StagesFit /\ EndsKept /\ UpdatesSafe /\ RowsSafe
  BY DEF SurrealInv
<1>1. /\ sSave' = NoSave /\ sSave'.pc = "idle" /\ sSave.pc = "query" /\ sBroken' = TRUE
      /\ sSave'.snap = NoMem /\ sSave'.work = NoWork /\ sSave'.seen = NoKnown
      /\ sSave'.failed = {} /\ ~sSave'.orphan
  BY EmptyFields DEF SaveLost
<1>1a. PICK db : db = sDb'
  OBVIOUS
<1>1b. PICK dc : dc = Persisted(sDb, sSave, {})
  OBVIOUS
<1>1c. {} \in SUBSET Statements
  OBVIOUS
<1>1d. /\ dc \in STables
       /\ \A u \in SUpdates : u >= sNext => NowhereIn(u, dc)
       /\ dc.ups \cap SUsed = (sDb.ups \cup IF "updates" \in {} THEN {} ELSE UpdatesToWrite(sSave)) \cap SUsed
       /\ \A n \in SNames : dc.ents[n]
            = IF /\ "entities" \notin {} /\ sSave.snap.ents[n] # {}
                 /\ sSave.full \/ sSave.seen.ents[n] # sSave.snap.ents[n]
              THEN sSave.snap.ents[n] ELSE sDb.ents[n]
       /\ \A e \in SEdges : dc.rels[e]
            = IF /\ "relations" \notin {} /\ sSave.snap.rels[e] # 0
                 /\ sSave.full \/ sSave.seen.rels[e] # sSave.snap.rels[e]
              THEN sSave.snap.rels[e] ELSE sDb.rels[e]
  BY <1>1, <1>1b, <1>1c, QueryFields
<1>1e. db = sDb \/ db = dc
  BY <1>1a, <1>1b DEF SaveLost
<1>1f. /\ db \in STables
       /\ \A u \in SUpdates : u >= sNext => NowhereIn(u, db)
       /\ sDb.ups \cap SUsed \subseteq db.ups
       /\ \A n \in SNames : db.ents[n] = sSave.snap.ents[n] \/ db.ents[n] = sDb.ents[n]
       /\ \A e \in SEdges : db.rels[e] = sSave.snap.rels[e] \/ db.rels[e] = sDb.rels[e]
  <2>1. CASE db = sDb
    BY <2>1 DEF SurrealTypeOK, NotYetSeen
  <2>2. CASE db = dc
    <3>1. sDb.ups \cap SUsed \subseteq dc.ups
      BY <1>1d
    <3> QED
      BY <1>1d, <2>2, <3>1
  <2> QED
    BY <1>1e, <2>1, <2>2
<1>2. sMem' = sMem /\ sPending' = sPending /\ sKnown' = sKnown /\ sGuest' = sGuest /\ sLoad' = sLoad /\ sNext' = sNext /\ sCrossed' = sCrossed
  BY DEF SaveLost
<1>3. SurrealTypeOK'
  BY <1>1, <1>1a, <1>1f, <1>2, EmptyTypes DEF SurrealTypeOK
<1>4. NotYetSeen'
  BY <1>1, <1>1a, <1>1f, <1>2, NowhereInNothing, EmptyFields DEF NotYetSeen
<1>5. StagesFit'
  <2>1. sLoad.pc = "idle"
    BY <1>1 DEF StagesFit, Quiet
  <2> QED
    BY <1>1, <1>2, <2>1 DEF StagesFit, Quiet
<1>6. EndsKept'
  BY <1>2 DEF EndsKept
<1>7. UpdatesSafe'
  <2>1. SUsed' \subseteq SUsed /\ SUsed' = sMem.ups
    BY <1>1, <1>2 DEF SUsed
  <2> QED
    BY <1>1, <1>1a, <1>1f, <1>2, <2>1, EmptyFields DEF UpdatesSafe
<1>8. ASSUME NEW n \in SNames \ sCrossed' PROVE EntSafe(n)'
  <2>1. EntSafe(n)
    BY <1>2, <1>8 DEF RowsSafe, EntSafe
  <2>2. sDb'.ents[n] = sSave.snap.ents[n] \/ sDb'.ents[n] = sDb.ents[n]
    BY <1>1a, <1>1f
  <2> QED
    BY <1>1, <1>2, <2>1, <2>2 DEF EntSafe, RowSafe, Clearing, Overtaken
<1>9. ASSUME NEW e \in SEdges, e \cap sCrossed' = {} PROVE EdgeSafe(e)'
  <2>1. EdgeSafe(e)
    BY <1>2, <1>9 DEF RowsSafe, EdgeSafe
  <2>2. sDb'.rels[e] = sSave.snap.rels[e] \/ sDb'.rels[e] = sDb.rels[e]
    BY <1>1a, <1>1f
  <2> QED
    BY <1>1, <1>2, <2>1, <2>2 DEF EdgeSafe, RowSafe, Clearing, Overtaken
<1> QED
  BY <1>3, <1>4, <1>5, <1>6, <1>7, <1>8, <1>9 DEF SurrealInv, RowsSafe, EntSafe, EdgeSafe

\* The slot is told what is stored now.
LEMMA SaveEndKeeps ==
    ASSUME SurrealInv, SaveEnd
    PROVE  SurrealInv'
<1> SurrealTypeOK /\ NotYetSeen /\ StagesFit /\ EndsKept /\ UpdatesSafe /\ RowsSafe
  BY DEF SurrealInv
<1>1. /\ sSave' = NoSave /\ sSave'.pc = "idle" /\ sSave.pc = "sent" /\ sBroken' = (sSave.failed # {})
      /\ sSave'.snap = NoMem /\ sSave'.work = NoWork /\ sSave'.seen = NoKnown
      /\ sSave'.failed = {} /\ ~sSave'.orphan
  BY EmptyFields DEF SaveEnd
<1>1a. PICK k : k = sKnown'
  OBVIOUS
<1>1b. /\ k \in SBeliefs
       /\ ~k.some => k = NoKnown
       /\ k.ups \subseteq sSave.seen.ups \cup UpdatesToWrite(sSave)
       /\ "updates" \in sSave.failed => k.ups = {}
       /\ \/ k.ents = NoEnts /\ k.rels = NoRels
          \/ /\ sSave.failed = {} /\ ~sSave.orphan
             /\ k.ents = sSave.snap.ents /\ k.rels = sSave.snap.rels
  <2>1. CASE sSave.orphan
    <3>1. k = NoKnown
      BY <1>1a, <2>1 DEF SaveEnd, StagesFit
    <3> QED
      BY <3>1, EmptyFields, EmptyTypes
  <2>2. CASE ~sSave.orphan
    <3>1. k = KnownAfter(sSave)
      BY <1>1a, <2>2 DEF SaveEnd
    <3>2. sSave \in SSaves
      BY DEF SurrealTypeOK
    <3>3. /\ KnownAfter(sSave) \in SBeliefs
          /\ ~KnownAfter(sSave).some => KnownAfter(sSave) = NoKnown
          /\ KnownAfter(sSave).ups \subseteq sSave.seen.ups \cup UpdatesToWrite(sSave)
          /\ "updates" \in sSave.failed => KnownAfter(sSave).ups = {}
          /\ \/ KnownAfter(sSave).ents = NoEnts /\ KnownAfter(sSave).rels = NoRels
             \/ /\ sSave.failed = {}
                /\ KnownAfter(sSave).ents = sSave.snap.ents /\ KnownAfter(sSave).rels = sSave.snap.rels
      BY <3>2, KnownAfterFields
    <3> QED
      BY <2>2, <3>1, <3>3
  <2> QED
    BY <2>1, <2>2
<1>2. sMem' = sMem /\ sPending' = sPending /\ sDb' = sDb /\ sGuest' = sGuest /\ sLoad' = sLoad /\ sNext' = sNext /\ sCrossed' = sCrossed
  BY DEF SaveEnd
<1>3. SurrealTypeOK'
  <2>1. (sSave.failed # {}) \in BOOLEAN
    OBVIOUS
  <2> QED
    BY <1>1, <1>1a, <1>1b, <1>2, <2>1, EmptyTypes DEF SurrealTypeOK
<1>4. NotYetSeen'
  <2> SUFFICES ASSUME NEW u \in SUpdates, u >= sNext PROVE NowhereIn(u, k)
    BY <1>1, <1>1a, <1>2, NowhereInNothing, EmptyFields DEF NotYetSeen
  <2>1. /\ NowhereIn(u, sSave.snap) /\ NowhereIn(u, sSave.seen) /\ NowhereIn(u, NoKnown)
        /\ u \notin sSave.work.explicit
    BY NowhereInNothing DEF NotYetSeen
  <2>2. u \notin k.ups
    BY <1>1b, <2>1 DEF NowhereIn, UpdatesToWrite
  <2> QED
    BY <1>1b, <2>1, <2>2, EmptyFields DEF NowhereIn
<1>5. StagesFit'
  <2>1. sLoad.pc = "idle"
    BY <1>1 DEF StagesFit, Quiet
  <2> QED
    BY <1>1, <1>1a, <1>1b, <1>2, <2>1 DEF StagesFit, Quiet
<1>6. EndsKept'
  BY <1>2 DEF EndsKept
<1>7. UpdatesSafe'
  <2>1. SUsed' \subseteq SUsed /\ SUsed' = sMem.ups /\ sSave.snap.ups \subseteq SUsed
    BY <1>1, <1>2 DEF SUsed
  <2>2. k.ups \cap SUsed' \subseteq sDb.ups
    BY <1>1, <1>1b, <2>1 DEF UpdatesSafe
  <2>3. sSave.failed = {} => sSave.snap.ups \subseteq sDb.ups
    <3> SUFFICES ASSUME sSave.failed = {}, NEW u \in sSave.snap.ups PROVE u \in sDb.ups
      OBVIOUS
    <3>1. u \notin sSave.work.removed
      BY <2>1 DEF UpdatesSafe
    <3>2. u \in sSave.seen.ups \/ u \in UpdatesToWrite(sSave)
      BY <3>1 DEF UpdatesToWrite
    <3> QED
      BY <1>1, <2>1, <3>2 DEF UpdatesSafe
  <2> QED
    BY <1>1, <1>1a, <1>2, <2>1, <2>2, <2>3, EmptyFields DEF UpdatesSafe
<1>8. ASSUME NEW n \in SNames \ sCrossed' PROVE EntSafe(n)'
  <2>1. EntSafe(n)
    BY <1>2, <1>8 DEF RowsSafe, EntSafe
  <2>2. \/ sKnown'.ents[n] = {}
        \/ sSave.failed = {} /\ ~sSave.orphan /\ sKnown'.ents[n] = sSave.snap.ents[n]
    BY <1>1a, <1>1b, EmptyFields
  <2> QED
    BY <1>1, <1>2, <2>1, <2>2 DEF EntSafe, RowSafe, Clearing, Overtaken
<1>9. ASSUME NEW e \in SEdges, e \cap sCrossed' = {} PROVE EdgeSafe(e)'
  <2>1. EdgeSafe(e)
    BY <1>2, <1>9 DEF RowsSafe, EdgeSafe
  <2>2. \/ sKnown'.rels[e] = 0
        \/ sSave.failed = {} /\ ~sSave.orphan /\ sKnown'.rels[e] = sSave.snap.rels[e]
    BY <1>1a, <1>1b, EmptyFields
  <2> QED
    BY <1>1, <1>2, <2>1, <2>2 DEF EdgeSafe, RowSafe, Clearing, Overtaken
<1> QED
  BY <1>3, <1>4, <1>5, <1>6, <1>7, <1>8, <1>9 DEF SurrealInv, RowsSafe, EntSafe, EdgeSafe

\* The slot is dropped while a save is under way.
LEMMA ForgetVictimKeeps ==
    ASSUME SurrealInv, ForgetVictim
    PROVE  SurrealInv'
<1> SurrealTypeOK /\ NotYetSeen /\ StagesFit /\ EndsKept /\ UpdatesSafe /\ RowsSafe
  BY DEF SurrealInv
<1>1. /\ sKnown' = NoKnown /\ sKnown'.ups = {} /\ sKnown'.ents = NoEnts /\ sKnown'.rels = NoRels
      /\ ~sKnown'.some /\ sSave.pc # "idle"
      /\ sSave' \in SSaves /\ sSave'.pc = sSave.pc /\ sSave'.snap = sSave.snap /\ sSave'.seen = sSave.seen
      /\ sSave'.work = sSave.work /\ sSave'.full = sSave.full /\ sSave'.failed = sSave.failed
      /\ sSave'.orphan = (sSave.pc # "begun")
  <2>1. sSave \in SSaves /\ (sSave.pc # "begun") \in BOOLEAN
    BY DEF SurrealTypeOK
  <2>2. sSave' = [sSave EXCEPT !.orphan = sSave.pc # "begun"]
    BY DEF ForgetVictim
  <2> QED
    BY <2>1, <2>2, EmptyFields DEF ForgetVictim, SSaves
<1>2. sMem' = sMem /\ sPending' = sPending /\ sDb' = sDb /\ sGuest' = sGuest /\ sLoad' = sLoad /\ sNext' = sNext /\ sBroken' = sBroken /\ sCrossed' = sCrossed
  BY DEF ForgetVictim
<1>3. SurrealTypeOK'
  BY <1>1, <1>2, EmptyTypes DEF SurrealTypeOK
<1>4. NotYetSeen'
  BY <1>1, <1>2, NowhereInNothing DEF NotYetSeen
<1>5. StagesFit'
  BY <1>1, <1>2, SurrealFields DEF StagesFit, Quiet
<1>6. EndsKept'
  BY <1>2 DEF EndsKept
<1>7. UpdatesSafe'
  BY <1>1, <1>2 DEF UpdatesSafe, SUsed, UpdatesToWrite
<1>8. ASSUME NEW n \in SNames \ sCrossed' PROVE EntSafe(n)'
  <2>1. EntSafe(n)
    BY <1>2, <1>8 DEF RowsSafe, EntSafe
  <2> QED
    BY <1>1, <1>2, <2>1, EmptyFields DEF EntSafe, RowSafe, Clearing, Overtaken
<1>9. ASSUME NEW e \in SEdges, e \cap sCrossed' = {} PROVE EdgeSafe(e)'
  <2>1. EdgeSafe(e)
    BY <1>2, <1>9 DEF RowsSafe, EdgeSafe
  <2> QED
    BY <1>1, <1>2, <2>1, EmptyFields DEF EdgeSafe, RowSafe, Clearing, Overtaken
<1> QED
  BY <1>3, <1>4, <1>5, <1>6, <1>7, <1>8, <1>9 DEF SurrealInv, RowsSafe, EntSafe, EdgeSafe

\* purge_update: nothing is claimed of rows until the stored graph is cleared.
LEMMA PurgeUpdateKeeps ==
    ASSUME SurrealInv, NEW u \in SUpdates, PurgeUpdate(u)
    PROVE  SurrealInv'
<1> SurrealTypeOK /\ NotYetSeen /\ StagesFit /\ EndsKept /\ UpdatesSafe /\ RowsSafe
  BY DEF SurrealInv
<1>0. sMem.ups \ {u} \in SUBSET SUpdates /\ u \in sMem.ups
  BY SurrealFields DEF PurgeUpdate
<1>1. /\ sMem' \in SSessions /\ sMem'.here /\ sMem'.ups = sMem.ups \ {u}
      /\ \A n \in SNames : sMem'.ents[n] \subseteq sMem'.ups
      /\ \A e \in SEdges : /\ sMem'.rels[e] \in sMem'.ups \cup {0}
                           /\ sMem'.rels[e] # 0 => \A n \in e : sMem'.ents[n] # {}
  <2>1. PICK ups, m : ups = sMem.ups \ {u} /\ m = sMem'
    OBVIOUS
  <2>2. ups \in SUBSET SUpdates /\ m = Rebuilt(ups)
    BY <1>0, <2>1 DEF PurgeUpdate
  <2>3. /\ m \in SSessions /\ m.here /\ m.ups = ups
        /\ \A n \in SNames : m.ents[n] \subseteq ups
        /\ \A e \in SEdges : m.rels[e] \in ups \cup {0} /\ (m.rels[e] # 0 => \A n \in e : m.ents[n] # {})
    BY <2>2, RebuiltFields
  <2> QED
    BY <2>1, <2>3
<1>1a. sGuest' = [pc |-> Enter, op |-> "graph", name |-> {}, gone |-> u] /\ sGuest.pc = "idle"
  BY DEF PurgeUpdate
<1>1b. Enter \in {"free", "waiting"} /\ sMem.here
  BY <1>0, EmptyFields DEF Enter, StagesFit
<1>1c. sGuest' \in SGuests /\ sGuest'.op = "graph" /\ sGuest'.name = {} /\ sGuest'.gone = u /\ sGuest'.pc = Enter
  BY <1>1a, <1>1b DEF SGuests, SUpdates
<1>1d. sLoad.pc = "idle" /\ sGuest' # NoGuest
  BY <1>1b, <1>1c, EmptyFields DEF StagesFit
<1>2. sPending' = sPending /\ sDb' = sDb /\ sKnown' = sKnown /\ sSave' = sSave /\ sLoad' = sLoad /\ sNext' = sNext /\ sBroken' = sBroken /\ sCrossed' = sCrossed
  BY DEF PurgeUpdate
<1>3. SurrealTypeOK'
  BY <1>1, <1>1c, <1>2 DEF SurrealTypeOK
<1>4. NotYetSeen'
  <2> SUFFICES ASSUME NEW v \in SUpdates, v >= sNext PROVE NowhereIn(v, sMem') /\ v # u
    BY <1>1c, <1>2 DEF NotYetSeen, NowhereIn
  <2>1. v \notin sMem.ups
    BY DEF NotYetSeen, NowhereIn
  <2>2. v # 0
    BY DEF SUpdates
  <2> QED
    BY <1>0, <1>1, <2>1, <2>2 DEF NowhereIn
<1>5. StagesFit'
  <2>1. sGuest'.pc \notin {"idle", "locked", "erased"}
    BY <1>1b, <1>1c
  <2> QED
    BY <1>1, <1>1b, <1>1c, <1>1d, <1>2, <2>1 DEF StagesFit, Quiet
<1>6. EndsKept'
  BY <1>1 DEF EndsKept
<1>7. UpdatesSafe'
  <2>1. SUsed' \subseteq SUsed /\ sMem'.ups \subseteq sMem.ups /\ u \notin sMem'.ups
    BY <1>1, <1>2 DEF SUsed
  <2>2. UpdatesToWrite(sSave)' = UpdatesToWrite(sSave)
    BY <1>2 DEF UpdatesToWrite
  <2> QED
    BY <1>1b, <1>1c, <1>2, <2>1, <2>2 DEF UpdatesSafe
<1>8. ASSUME NEW n \in SNames \ sCrossed' PROVE EntSafe(n)'
  BY <1>1c DEF EntSafe, RowSafe, Clearing, Overtaken
<1>9. ASSUME NEW e \in SEdges, e \cap sCrossed' = {} PROVE EdgeSafe(e)'
  BY <1>1c DEF EdgeSafe, RowSafe, Clearing, Overtaken
<1> QED
  BY <1>3, <1>4, <1>5, <1>6, <1>7, <1>8, <1>9 DEF SurrealInv, RowsSafe, EntSafe, EdgeSafe

\* delete_entity: the entity leaves memory and a persist is queued.
LEMMA DeleteEntityKeeps ==
    ASSUME SurrealInv, NEW x \in SNames, DeleteEntity(x)
    PROVE  SurrealInv'
<1> SurrealTypeOK /\ NotYetSeen /\ StagesFit /\ EndsKept /\ UpdatesSafe /\ RowsSafe
  BY DEF SurrealInv
<1>0. sMem \in SSessions /\ sGuest.pc = "idle" /\ sGuest = NoGuest
  BY DEF SurrealTypeOK, DeleteEntity, StagesFit
<1>1. /\ sMem' \in SSessions /\ sMem'.here = sMem.here /\ sMem'.ups = sMem.ups
      /\ \A n \in SNames : sMem'.ents[n] = IF n = x THEN {} ELSE sMem.ents[n]
      /\ \A e \in SEdges : sMem'.rels[e] = IF x \in e THEN 0 ELSE sMem.rels[e]
  <2>1. PICK m, m2 : m = sMem /\ m2 = sMem'
    OBVIOUS
  <2>2. m \in SSessions /\ m2 = Without(m, x)
    BY <1>0, <2>1 DEF DeleteEntity
  <2>3. /\ m2 \in SSessions /\ m2.here = m.here /\ m2.ups = m.ups
        /\ \A n \in SNames : m2.ents[n] = IF n = x THEN {} ELSE m.ents[n]
        /\ \A e \in SEdges : m2.rels[e] = IF x \in e THEN 0 ELSE m.rels[e]
    BY <2>2, WithoutFields
  <2> QED
    BY <2>1, <2>3
<1>1a. sMem.here
  BY EmptyFields DEF DeleteEntity, StagesFit
<1>1b. /\ sPending' \in SWork /\ sPending'.some /\ sPending'.removed = sPending.removed
       /\ sPending'.explicit = sPending.explicit
  BY SurrealFields DEF DeleteEntity, Queued, SWork
<1>1c. /\ sGuest' \in SGuests /\ sGuest'.op = "entity" /\ sGuest'.name = {x}
       /\ sGuest'.gone = 0 /\ sGuest'.pc = "waiting"
  BY SurrealAssumption DEF DeleteEntity, SGuests
<1>1d. sLoad.pc = "idle" /\ sGuest' # NoGuest /\ ~Clearing
  BY <1>0, <1>1a, <1>1c, EmptyFields DEF StagesFit, Clearing
<1>2. sDb' = sDb /\ sKnown' = sKnown /\ sSave' = sSave /\ sLoad' = sLoad /\ sNext' = sNext /\ sBroken' = sBroken /\ sCrossed' = sCrossed
  BY DEF DeleteEntity
<1>3. SurrealTypeOK'
  BY <1>1, <1>1b, <1>1c, <1>2 DEF SurrealTypeOK
<1>4. NotYetSeen'
  <2> SUFFICES ASSUME NEW v \in SUpdates, v >= sNext PROVE NowhereIn(v, sMem') /\ v # 0
    BY <1>1b, <1>1c, <1>2 DEF NotYetSeen, NowhereIn
  <2>1. NowhereIn(v, sMem)
    BY DEF NotYetSeen
  <2>2. v # 0
    BY DEF SUpdates
  <2> QED
    BY <1>1, <2>1, <2>2 DEF NowhereIn
<1>5. StagesFit'
  BY <1>1, <1>1a, <1>1b, <1>1c, <1>1d, <1>2 DEF StagesFit, Quiet
<1>6. EndsKept'
  <2> SUFFICES ASSUME NEW e \in SEdges, sMem'.rels[e] # 0, NEW n \in e PROVE sMem'.ents[n] # {}
    BY DEF EndsKept
  <2>1. n \in SNames /\ x \notin e
    BY <1>1 DEF SEdges
  <2> QED
    BY <1>1, <2>1 DEF EndsKept
<1>7. UpdatesSafe'
  <2>1. SUsed' = SUsed /\ UpdatesToWrite(sSave)' = UpdatesToWrite(sSave)
    BY <1>1, <1>2 DEF SUsed, UpdatesToWrite
  <2>2. 0 \notin sMem.ups
    BY SurrealFields DEF SUpdates
  <2> QED
    BY <1>1, <1>1b, <1>1c, <1>2, <2>1, <2>2 DEF UpdatesSafe
<1>8. ASSUME NEW n \in SNames \ sCrossed' PROVE EntSafe(n)'
  <2>1. EntSafe(n)
    BY <1>2, <1>8 DEF RowsSafe, EntSafe
  <2>2. sMem'.ents[n] = IF n \in sGuest'.name THEN {} ELSE sMem.ents[n]
    BY <1>1, <1>1c
  <2> QED
    BY <1>0, <1>1, <1>1b, <1>1c, <1>1d, <1>2, <2>1, <2>2, EmptyFields DEF EntSafe, RowSafe, Clearing, Overtaken
<1>9. ASSUME NEW e \in SEdges, e \cap sCrossed' = {} PROVE EdgeSafe(e)'
  <2>1. EdgeSafe(e)
    BY <1>2, <1>9 DEF RowsSafe, EdgeSafe
  <2>2. sMem'.rels[e] = IF e \cap sGuest'.name # {} THEN 0 ELSE sMem.rels[e]
    BY <1>1, <1>1c
  <2> QED
    BY <1>0, <1>1, <1>1b, <1>1c, <1>1d, <1>2, <2>1, <2>2, EmptyFields DEF EdgeSafe, RowSafe, Clearing, Overtaken
<1> QED
  BY <1>3, <1>4, <1>5, <1>6, <1>7, <1>8, <1>9 DEF SurrealInv, RowsSafe, EntSafe, EdgeSafe

\* delete_session: memory and queued work are gone.
LEMMA DeleteSessionKeeps ==
    ASSUME SurrealInv, DeleteSession
    PROVE  SurrealInv'
<1> SurrealTypeOK /\ NotYetSeen /\ StagesFit /\ EndsKept /\ UpdatesSafe /\ RowsSafe
  BY DEF SurrealInv
<1>1. /\ sMem' = NoMem /\ ~sMem'.here /\ sMem'.ups = {} /\ sMem'.ents = NoEnts /\ sMem'.rels = NoRels
      /\ sPending' = NoWork /\ ~sPending'.some /\ sPending'.explicit = {} /\ sPending'.removed = {}
      /\ sMem.here /\ sGuest.pc = "idle"
  BY EmptyFields DEF DeleteSession
<1>1b. Enter \in {"free", "waiting"} /\ (Enter = "free" => sSave.pc = "idle")
  BY DEF Enter
<1>1c. /\ sGuest' \in SGuests /\ sGuest'.op = "session" /\ sGuest'.name = {}
       /\ sGuest'.gone = 0 /\ sGuest'.pc = Enter
  BY <1>1b, SurrealAssumption DEF DeleteSession, SGuests
<1>1d. sLoad.pc = "idle" /\ sGuest' # NoGuest
  BY <1>1, <1>1c, EmptyFields DEF StagesFit
<1>2. sDb' = sDb /\ sKnown' = sKnown /\ sSave' = sSave /\ sLoad' = sLoad /\ sNext' = sNext /\ sBroken' = sBroken /\ sCrossed' = sCrossed
  BY DEF DeleteSession
<1>3. SurrealTypeOK'
  BY <1>1, <1>1c, <1>2, EmptyTypes DEF SurrealTypeOK
<1>4. NotYetSeen'
  <2>1. \A v \in SUpdates : v # 0
    BY DEF SUpdates
  <2> QED
    BY <1>1, <1>1c, <1>2, <2>1, NowhereInNothing DEF NotYetSeen
<1>5. StagesFit'
  BY <1>1, <1>1b, <1>1c, <1>1d, <1>2 DEF StagesFit, Quiet
<1>6. EndsKept'
  BY <1>1, EmptyFields DEF EndsKept
<1>7. UpdatesSafe'
  <2>1. SUsed' \subseteq SUsed /\ UpdatesToWrite(sSave)' = UpdatesToWrite(sSave)
    BY <1>1, <1>2 DEF SUsed, UpdatesToWrite
  <2> QED
    BY <1>1, <1>1c, <1>2, <2>1 DEF UpdatesSafe
<1>8. ASSUME NEW n \in SNames \ sCrossed' PROVE EntSafe(n)'
  <2>1. n \notin sGuest'.name
    BY <1>1c
  <2> QED
    BY <1>1c, <2>1 DEF EntSafe, RowSafe, Clearing, Overtaken
<1>9. ASSUME NEW e \in SEdges, e \cap sCrossed' = {} PROVE EdgeSafe(e)'
  <2>1. e \cap sGuest'.name = {}
    BY <1>1c
  <2> QED
    BY <1>1c, <2>1 DEF EdgeSafe, RowSafe, Clearing, Overtaken
<1> QED
  BY <1>3, <1>4, <1>5, <1>6, <1>7, <1>8, <1>9 DEF SurrealInv, RowsSafe, EntSafe, EdgeSafe

\* The lock of the persister's slot is taken.
LEMMA GuestLockKeeps ==
    ASSUME SurrealInv, GuestLock
    PROVE  SurrealInv'
<1> SurrealTypeOK /\ NotYetSeen /\ StagesFit /\ EndsKept /\ UpdatesSafe /\ RowsSafe
  BY DEF SurrealInv
<1>1. /\ sGuest' \in SGuests /\ sGuest'.pc \in {"locked", "free"} /\ sGuest.pc = "waiting" /\ sSave.pc = "idle"
      /\ sGuest'.op = sGuest.op /\ sGuest'.name = sGuest.name /\ sGuest'.gone = sGuest.gone
      /\ sGuest' # NoGuest
  <2>1. PICK pc : pc \in {"locked", "free"} /\ sGuest' = [sGuest EXCEPT !.pc = pc]
    BY DEF GuestLock
  <2>2. sGuest \in SGuests
    BY DEF SurrealTypeOK
  <2> QED
    BY <2>1, <2>2, EmptyFields DEF GuestLock, SGuests
<1>1a. sGuest.op # "none" /\ sLoad.pc = "idle"
  BY <1>1, EmptyFields DEF StagesFit, Quiet
<1>2. sMem' = sMem /\ sPending' = sPending /\ sDb' = sDb /\ sKnown' = sKnown /\ sSave' = sSave /\ sLoad' = sLoad /\ sNext' = sNext /\ sBroken' = sBroken /\ sCrossed' = sCrossed
  BY DEF GuestLock
<1>3. SurrealTypeOK'
  BY <1>1, <1>2 DEF SurrealTypeOK
<1>4. NotYetSeen'
  BY <1>1, <1>2 DEF NotYetSeen
<1>5. StagesFit'
  BY <1>1, <1>1a, <1>2 DEF StagesFit, Quiet
<1>6. EndsKept'
  BY <1>2 DEF EndsKept
<1>7. UpdatesSafe'
  BY <1>1, <1>2 DEF UpdatesSafe, SUsed, UpdatesToWrite
<1>8. ASSUME NEW n \in SNames \ sCrossed' PROVE EntSafe(n)'
  <2>1. EntSafe(n)
    BY <1>2, <1>8 DEF RowsSafe, EntSafe
  <2> QED
    BY <1>1, <1>2, <2>1, EmptyFields DEF EntSafe, RowSafe, Clearing, Overtaken
<1>9. ASSUME NEW e \in SEdges, e \cap sCrossed' = {} PROVE EdgeSafe(e)'
  <2>1. EdgeSafe(e)
    BY <1>2, <1>9 DEF RowsSafe, EdgeSafe
  <2> QED
    BY <1>1, <1>2, <2>1, EmptyFields DEF EdgeSafe, RowSafe, Clearing, Overtaken
<1> QED
  BY <1>3, <1>4, <1>5, <1>6, <1>7, <1>8, <1>9 DEF SurrealInv, RowsSafe, EntSafe, EdgeSafe

\* The rows are deleted.
LEMMA GuestEraseKeeps ==
    ASSUME SurrealInv, GuestErase
    PROVE  SurrealInv'
<1> SurrealTypeOK /\ NotYetSeen /\ StagesFit /\ EndsKept /\ UpdatesSafe /\ RowsSafe
  BY DEF SurrealInv
<1>0. sGuest \in SGuests /\ sDb \in STables /\ sGuest.op # "none"
  BY EmptyFields DEF SurrealTypeOK, GuestErase, StagesFit
<1>0a. PICK db : db = Erased(sDb, sGuest)
  OBVIOUS
<1>0b. /\ db \in STables
       /\ db.ups = IF sGuest.op = "session" THEN {} ELSE sDb.ups
       /\ \A n \in SNames : db.ents[n]
            = IF sGuest.op = "entity" /\ n \notin sGuest.name THEN sDb.ents[n] ELSE {}
       /\ \A e \in SEdges : db.rels[e]
            = IF sGuest.op = "entity" /\ e \cap sGuest.name = {} THEN sDb.rels[e] ELSE 0
  <2>1. PICK x, g : x = sDb /\ g = sGuest
    OBVIOUS
  <2>2. x \in STables /\ g \in SGuests /\ g.op # "none" /\ db = Erased(x, g)
    BY <1>0, <1>0a, <2>1
  <2>3. db \in STables
    BY <2>2, ErasedFields
  <2>4. db.ups = IF g.op = "session" THEN {} ELSE x.ups
    BY <2>2, ErasedFields
  <2>5. \A n \in SNames : db.ents[n] = IF g.op = "entity" /\ n \notin g.name THEN x.ents[n] ELSE {}
    BY <2>2, ErasedFields
  <2>6. \A e \in SEdges : db.rels[e] = IF g.op = "entity" /\ e \cap g.name = {} THEN x.rels[e] ELSE 0
    BY <2>2, ErasedFields
  <2> QED
    BY <2>1, <2>3, <2>4, <2>5, <2>6
<1>1. /\ sGuest' \in SGuests /\ sGuest.pc \in {"free", "locked"}
      /\ sGuest'.pc = IF sGuest.pc = "free" THEN "erasedFree" ELSE "erased"
      /\ sGuest'.op = sGuest.op /\ sGuest'.name = sGuest.name /\ sGuest'.gone = sGuest.gone
      /\ sGuest' # NoGuest /\ sDb' = db
  BY <1>0, <1>0a, EmptyFields DEF GuestErase, SGuests
<1>1a. sLoad.pc = "idle"
  BY <1>1 DEF StagesFit, Quiet
<1>2. sMem' = sMem /\ sPending' = sPending /\ sKnown' = sKnown /\ sSave' = sSave /\ sLoad' = sLoad /\ sNext' = sNext /\ sBroken' = sBroken /\ sCrossed' = sCrossed
  BY DEF GuestErase
<1>3. SurrealTypeOK'
  BY <1>0b, <1>1, <1>2 DEF SurrealTypeOK
<1>4. NotYetSeen'
  <2> SUFFICES ASSUME NEW v \in SUpdates, v >= sNext PROVE NowhereIn(v, db)
    BY <1>1, <1>2 DEF NotYetSeen, NowhereIn
  <2>1. NowhereIn(v, sDb) /\ v # 0
    BY DEF NotYetSeen, SUpdates
  <2> QED
    BY <1>0b, <2>1 DEF NowhereIn
<1>5. StagesFit'
  BY <1>1, <1>1a, <1>2 DEF StagesFit, Quiet
<1>6. EndsKept'
  BY <1>2 DEF EndsKept
<1>7. UpdatesSafe'
  <2>1. SUsed' = SUsed /\ UpdatesToWrite(sSave)' = UpdatesToWrite(sSave)
    BY <1>2 DEF SUsed, UpdatesToWrite
  <2>2. sGuest.op = "session" => SUsed = {} /\ sSave.pc = "idle" /\ ~sMem.here
    BY <1>1, EmptyFields DEF StagesFit, SUsed
  <2>3. sGuest.op # "session" => sDb'.ups = sDb.ups
    BY <1>0b, <1>1
  <2> QED
    BY <1>1, <1>2, <2>1, <2>2, <2>3 DEF UpdatesSafe
<1>8. ASSUME NEW n \in SNames \ sCrossed' PROVE EntSafe(n)'
  <2>1. EntSafe(n)
    BY <1>2, <1>8 DEF RowsSafe, EntSafe
  <2>2. sGuest.op = "entity" => sDb'.ents[n] = IF n \in sGuest.name THEN {} ELSE sDb.ents[n]
    BY <1>0b, <1>1
  <2>3. sGuest.op \in {"graph", "session", "entity"} /\ (n \in sGuest.name => sGuest.op = "entity")
    BY <1>0 DEF SGuests, StagesFit
  <2> QED
    BY <1>1, <1>2, <2>1, <2>2, <2>3 DEF EntSafe, RowSafe, Clearing, Overtaken
<1>9. ASSUME NEW e \in SEdges, e \cap sCrossed' = {} PROVE EdgeSafe(e)'
  <2>1. EdgeSafe(e)
    BY <1>2, <1>9 DEF RowsSafe, EdgeSafe
  <2>2. sGuest.op = "entity" => sDb'.rels[e] = IF e \cap sGuest.name # {} THEN 0 ELSE sDb.rels[e]
    BY <1>0b, <1>1
  <2>3. sGuest.op \in {"graph", "session", "entity"} /\ (e \cap sGuest.name # {} => sGuest.op = "entity")
    BY <1>0 DEF SGuests, StagesFit
  <2> QED
    BY <1>1, <1>2, <2>1, <2>2, <2>3 DEF EdgeSafe, RowSafe, Clearing, Overtaken
<1> QED
  BY <1>3, <1>4, <1>5, <1>6, <1>7, <1>8, <1>9 DEF SurrealInv, RowsSafe, EntSafe, EdgeSafe

\* A statement of the operation failed: what it may have erased is crossed out.
LEMMA GuestFailKeeps ==
    ASSUME SurrealInv, GuestFail
    PROVE  SurrealInv'
<1> SurrealTypeOK /\ NotYetSeen /\ StagesFit /\ EndsKept /\ UpdatesSafe /\ RowsSafe
  BY DEF SurrealInv
<1>0. sGuest \in SGuests /\ sDb \in STables /\ sGuest.op # "none"
  BY EmptyFields DEF SurrealTypeOK, GuestFail, StagesFit
<1>0a. PICK db : db = Erased(sDb, sGuest)
  OBVIOUS
<1>0b. /\ db \in STables
       /\ db.ups = IF sGuest.op = "session" THEN {} ELSE sDb.ups
       /\ \A n \in SNames : db.ents[n]
            = IF sGuest.op = "entity" /\ n \notin sGuest.name THEN sDb.ents[n] ELSE {}
       /\ \A e \in SEdges : db.rels[e]
            = IF sGuest.op = "entity" /\ e \cap sGuest.name = {} THEN sDb.rels[e] ELSE 0
  <2>1. PICK x, g : x = sDb /\ g = sGuest
    OBVIOUS
  <2>2. x \in STables /\ g \in SGuests /\ g.op # "none" /\ db = Erased(x, g)
    BY <1>0, <1>0a, <2>1
  <2>3. db \in STables
    BY <2>2, ErasedFields
  <2>4. db.ups = IF g.op = "session" THEN {} ELSE x.ups
    BY <2>2, ErasedFields
  <2>5. \A n \in SNames : db.ents[n] = IF g.op = "entity" /\ n \notin g.name THEN x.ents[n] ELSE {}
    BY <2>2, ErasedFields
  <2>6. \A e \in SEdges : db.rels[e] = IF g.op = "entity" /\ e \cap g.name = {} THEN x.rels[e] ELSE 0
    BY <2>2, ErasedFields
  <2> QED
    BY <2>1, <2>3, <2>4, <2>5, <2>6
<1>1. /\ sGuest' = NoGuest /\ sGuest'.op = "none" /\ sGuest'.pc = "idle" /\ sGuest'.name = {} /\ sGuest'.gone = 0
      /\ sGuest.pc \in {"free", "locked"} /\ sGuest.op # "session"
      /\ sCrossed' = IF sGuest.op = "graph" THEN SNames ELSE sCrossed \cup sGuest.name
  BY EmptyFields DEF GuestFail
<1>1a. /\ sDb' \in STables /\ sDb'.ups = sDb.ups /\ sDb'.rels = sDb.rels
       /\ sDb'.ents = sDb.ents \/ sDb'.ents = db.ents
  <2>1. sDb' = sDb \/ sDb' = [sDb EXCEPT !.ents = db.ents]
    BY <1>0a DEF GuestFail
  <2>2. db.ents \in SEnts
    BY <1>0b DEF STables
  <2>3. CASE sDb' = sDb
    BY <1>0, <2>3
  <2>4. CASE sDb' = [sDb EXCEPT !.ents = db.ents]
    BY <1>0, <2>2, <2>4 DEF STables
  <2> QED
    BY <2>1, <2>3, <2>4
<1>1b. sLoad.pc = "idle" /\ sGuest.op \in {"graph", "entity"}
  BY <1>0, <1>1 DEF StagesFit, Quiet, SGuests
<1>1c. sCrossed \subseteq sCrossed' /\ sCrossed' \subseteq SNames /\ sGuest.name \subseteq sCrossed'
  BY <1>1, SurrealFields DEF SurrealTypeOK, StagesFit
<1>2. sMem' = sMem /\ sPending' = sPending /\ sKnown' = sKnown /\ sSave' = sSave /\ sLoad' = sLoad /\ sNext' = sNext /\ sBroken' = sBroken
  BY DEF GuestFail
<1>3. SurrealTypeOK'
  BY <1>1, <1>1a, <1>1c, <1>2, EmptyTypes DEF SurrealTypeOK
<1>4. NotYetSeen'
  <2> SUFFICES ASSUME NEW v \in SUpdates, v >= sNext PROVE NowhereIn(v, sDb') /\ v # 0
    BY <1>1, <1>2 DEF NotYetSeen, NowhereIn
  <2>1. NowhereIn(v, sDb) /\ v # 0
    BY DEF NotYetSeen, SUpdates
  <2> QED
    BY <1>0b, <1>1a, <2>1 DEF NowhereIn
<1>5. StagesFit'
  BY <1>1, <1>1b, <1>2 DEF StagesFit, Quiet
<1>6. EndsKept'
  BY <1>2 DEF EndsKept
<1>7. UpdatesSafe'
  <2>1. SUsed' = SUsed /\ UpdatesToWrite(sSave)' = UpdatesToWrite(sSave)
    BY <1>2 DEF SUsed, UpdatesToWrite
  <2>2. 0 \notin sMem.ups
    BY SurrealFields DEF SUpdates
  <2> QED
    BY <1>1, <1>1a, <1>2, <2>1, <2>2 DEF UpdatesSafe
<1>8. ASSUME NEW n \in SNames \ sCrossed' PROVE EntSafe(n)'
  <2>1. EntSafe(n)
    BY <1>1c, <1>8 DEF RowsSafe, EntSafe
  <2>2. sGuest.op = "entity" /\ n \notin sGuest.name
    BY <1>1, <1>1b, <1>1c, <1>8
  <2>3. sDb'.ents[n] = sDb.ents[n] /\ n \notin sGuest'.name
    BY <1>0b, <1>1, <1>1a, <2>2
  <2> QED
    BY <1>1, <1>2, <2>1, <2>2, <2>3 DEF EntSafe, RowSafe, Clearing, Overtaken
<1>9. ASSUME NEW e \in SEdges, e \cap sCrossed' = {} PROVE EdgeSafe(e)'
  <2>1. EdgeSafe(e)
    BY <1>1c, <1>9 DEF RowsSafe, EdgeSafe
  <2>2. e \cap sGuest.name = {} /\ e \cap sGuest'.name = {}
    BY <1>1, <1>1c, <1>9
  <2>3. sGuest.op = "entity"
    <3>1. e \subseteq SNames /\ e # {}
      BY SomeEnd DEF SEdges
    <3> QED
      BY <1>1, <1>1b, <1>9, <3>1
  <2> QED
    BY <1>1, <1>1a, <1>2, <2>1, <2>2, <2>3 DEF EdgeSafe, RowSafe, Clearing, Overtaken
<1> QED
  BY <1>3, <1>4, <1>5, <1>6, <1>7, <1>8, <1>9 DEF SurrealInv, RowsSafe, EntSafe, EdgeSafe

\* The operation ends and what was known of the graph is forgotten.
LEMMA GuestEndKeeps ==
    ASSUME SurrealInv, GuestEnd
    PROVE  SurrealInv'
<1> SurrealTypeOK /\ NotYetSeen /\ StagesFit /\ EndsKept /\ UpdatesSafe /\ RowsSafe
  BY DEF SurrealInv
<1>0. /\ sGuest \in SGuests /\ sGuest.op \in {"graph", "entity", "session"}
      /\ sGuest.pc \in {"erased", "erasedFree"} /\ sKnown \in SBeliefs
  BY EmptyFields DEF SurrealTypeOK, GuestEnd, StagesFit, SGuests
<1>0a. /\ sGuest.op = "session" => sSave.pc = "idle" /\ ~sMem.here /\ ~sPending.some
       /\ sSave.pc \in {"idle", "begun"} \/ sSave.orphan
       /\ sLoad.pc = "idle"
  BY <1>0 DEF GuestEnd, StagesFit, Quiet
<1>1. /\ sGuest' = NoGuest /\ sGuest'.op = "none" /\ sGuest'.pc = "idle" /\ sGuest'.name = {} /\ sGuest'.gone = 0
      /\ sBroken' = (sBroken /\ sGuest.op # "session") /\ sSave' = sSave
  BY <1>0a, EmptyFields DEF GuestEnd
<1>1a. /\ sKnown' \in SBeliefs /\ sKnown'.ents = NoEnts /\ sKnown'.rels = NoRels
       /\ sKnown'.ups \subseteq sKnown.ups /\ (~sKnown'.some => sKnown' = NoKnown)
       /\ sKnown'.some => sKnown.some
  <2>1. CASE sGuest.op = "session"
    BY <2>1, EmptyTypes, EmptyFields DEF GuestEnd, Forgotten
  <2>2. CASE sGuest.op # "session"
    <3>1. sKnown' = [sKnown EXCEPT !.ents = NoEnts, !.rels = NoRels]
      BY <2>2 DEF GuestEnd, Forgotten
    <3>2. sKnown' = [some |-> sKnown.some, ups |-> sKnown.ups, ents |-> NoEnts, rels |-> NoRels]
      BY <1>0, <3>1 DEF SBeliefs
    <3>3. ~sKnown.some => sKnown.ups = {} /\ sKnown.some = FALSE
      BY EmptyFields, SurrealFields DEF StagesFit
    <3>4. sKnown' \in SBeliefs
      BY <3>2, EmptyTypes, SurrealFields DEF SBeliefs
    <3> QED
      BY <3>2, <3>3, <3>4 DEF NoKnown
  <2> QED
    BY <2>1, <2>2
<1>1b. /\ sPending' \in SWork /\ sPending'.explicit = sPending.explicit
       /\ sPending'.removed \subseteq sPending.removed \cup {sGuest.gone}
       /\ sGuest.op = "graph" => sPending'.some
       /\ sGuest.op # "graph" => sPending' = sPending
       /\ sGuest.op = "graph" => sMem.here
       /\ ~sPending'.some => sPending' = NoWork
  <2>1. CASE sGuest.op = "graph"
    <3>1. sPending' = [some |-> TRUE, explicit |-> sPending.explicit \cup {}, removed |-> sPending.removed \cup {sGuest.gone}]
      BY <2>1 DEF GuestEnd, Queued
    <3>2. sGuest.gone \in SUpdates /\ sMem.here
      BY <2>1 DEF StagesFit
    <3> QED
      BY <2>1, <3>1, <3>2, SurrealFields DEF SWork
  <2>2. CASE sGuest.op # "graph"
    BY <2>2 DEF GuestEnd, SurrealTypeOK, StagesFit
  <2> QED
    BY <2>1, <2>2
<1>2. sMem' = sMem /\ sDb' = sDb /\ sLoad' = sLoad /\ sNext' = sNext /\ sCrossed' = sCrossed
  BY DEF GuestEnd
<1>3. SurrealTypeOK'
  <2>1. (sBroken /\ sGuest.op # "session") \in BOOLEAN
    OBVIOUS
  <2> QED
    BY <1>1, <1>1a, <1>1b, <1>2, <2>1, EmptyTypes DEF SurrealTypeOK
<1>4. NotYetSeen'
  <2> SUFFICES ASSUME NEW v \in SUpdates, v >= sNext
               PROVE  NowhereIn(v, sKnown') /\ v \notin sPending'.explicit \cup sPending'.removed /\ v # 0
    BY <1>1, <1>2 DEF NotYetSeen, NowhereIn
  <2>1. NowhereIn(v, sKnown) /\ v # 0 /\ v # sGuest.gone /\ v \notin sPending.explicit \cup sPending.removed
    BY DEF NotYetSeen, SUpdates
  <2> QED
    BY <1>1a, <1>1b, <2>1, EmptyFields DEF NowhereIn
<1>5. StagesFit'
  BY <1>0a, <1>1, <1>1a, <1>1b, <1>2 DEF StagesFit, Quiet
<1>6. EndsKept'
  BY <1>2 DEF EndsKept
<1>7. UpdatesSafe'
  <2>1. SUsed' = SUsed /\ UpdatesToWrite(sSave)' = UpdatesToWrite(sSave)
    BY <1>1, <1>2 DEF SUsed, UpdatesToWrite
  <2>2. 0 \notin sMem.ups
    BY SurrealFields DEF SUpdates
  <2> QED
    BY <1>0a, <1>1, <1>1a, <1>1b, <1>2, <2>1, <2>2 DEF UpdatesSafe
<1>8. ASSUME NEW n \in SNames \ sCrossed' PROVE EntSafe(n)'
  <2>1. EntSafe(n)
    BY <1>2, <1>8 DEF RowsSafe, EntSafe
  <2>2. sKnown'.ents[n] = {} /\ n \notin sGuest'.name
    BY <1>1, <1>1a, EmptyFields
  <2>3. CASE sGuest.op = "graph"
    BY <1>0a, <1>1, <1>1b, <1>2, <2>2, <2>3 DEF EntSafe, RowSafe, Clearing, Overtaken
  <2>4. CASE sGuest.op = "session"
    BY <1>0a, <1>1, <1>1b, <1>2, <2>2, <2>4 DEF EntSafe, RowSafe, Clearing, Overtaken
  <2>5. CASE sGuest.op = "entity"
    BY <1>1, <1>1b, <1>2, <2>1, <2>2, <2>5 DEF EntSafe, RowSafe, Clearing, Overtaken
  <2> QED
    BY <1>0, <2>3, <2>4, <2>5
<1>9. ASSUME NEW e \in SEdges, e \cap sCrossed' = {} PROVE EdgeSafe(e)'
  <2>1. EdgeSafe(e)
    BY <1>2, <1>9 DEF RowsSafe, EdgeSafe
  <2>2. sKnown'.rels[e] = 0 /\ e \cap sGuest'.name = {}
    BY <1>1, <1>1a, EmptyFields
  <2>3. CASE sGuest.op = "graph"
    BY <1>0a, <1>1, <1>1b, <1>2, <2>2, <2>3 DEF EdgeSafe, RowSafe, Clearing, Overtaken
  <2>4. CASE sGuest.op = "session"
    BY <1>0a, <1>1, <1>1b, <1>2, <2>2, <2>4 DEF EdgeSafe, RowSafe, Clearing, Overtaken
  <2>5. CASE sGuest.op = "entity"
    BY <1>1, <1>1b, <1>2, <2>1, <2>2, <2>5 DEF EdgeSafe, RowSafe, Clearing, Overtaken
  <2> QED
    BY <1>0, <2>3, <2>4, <2>5
<1> QED
  BY <1>3, <1>4, <1>5, <1>6, <1>7, <1>8, <1>9 DEF SurrealInv, RowsSafe, EntSafe, EdgeSafe

\* A load reads the updates.
LEMMA LoadUpdatesKeeps ==
    ASSUME SurrealInv, ~DryRuns, LoadUpdates
    PROVE  SurrealInv'
<1> SurrealTypeOK /\ NotYetSeen /\ StagesFit /\ EndsKept /\ UpdatesSafe /\ RowsSafe
  BY DEF SurrealInv
<1>1. ~sMem.here /\ Quiet /\ sLoad.pc = "idle"
  BY DEF LoadUpdates, MayLoad
<1>1a. sLoad' \in SLoads /\ sLoad'.pc = "miss" /\ sLoad'.ups = sDb.ups
  <2>1. sLoad' = [NoLoad EXCEPT !.pc = "miss", !.ups = sDb.ups]
    BY <1>1 DEF LoadUpdates
  <2>2. sLoad' = [pc |-> "miss", ups |-> sDb.ups, ents |-> NoEnts, rels |-> NoRels]
    BY <2>1 DEF NoLoad
  <2> QED
    BY <2>2, SurrealFields, EmptyTypes DEF SLoads
<1>2. sMem' = sMem /\ sPending' = sPending /\ sDb' = sDb /\ sKnown' = sKnown /\ sSave' = sSave /\ sGuest' = sGuest /\ sNext' = sNext /\ sBroken' = sBroken /\ sCrossed' = sCrossed
  BY DEF LoadUpdates
<1>3. SurrealTypeOK'
  BY <1>1a, <1>2 DEF SurrealTypeOK
<1>4. NotYetSeen'
  BY <1>2 DEF NotYetSeen, NowhereIn
<1>5. StagesFit'
  BY <1>1, <1>1a, <1>2 DEF StagesFit, Quiet
<1>6. EndsKept'
  BY <1>2 DEF EndsKept
<1>7. UpdatesSafe'
  BY <1>2 DEF UpdatesSafe, SUsed, UpdatesToWrite
<1>8. ASSUME NEW n \in SNames \ sCrossed' PROVE EntSafe(n)'
  <2>1. EntSafe(n)
    BY <1>2, <1>8 DEF RowsSafe, EntSafe
  <2> QED
    BY <1>1, <1>2, <2>1, EmptyFields DEF EntSafe, RowSafe, Clearing, Overtaken
<1>9. ASSUME NEW e \in SEdges, e \cap sCrossed' = {} PROVE EdgeSafe(e)'
  <2>1. EdgeSafe(e)
    BY <1>2, <1>9 DEF RowsSafe, EdgeSafe
  <2> QED
    BY <1>1, <1>2, <2>1, EmptyFields DEF EdgeSafe, RowSafe, Clearing, Overtaken
<1> QED
  BY <1>3, <1>4, <1>5, <1>6, <1>7, <1>8, <1>9 DEF SurrealInv, RowsSafe, EntSafe, EdgeSafe

\* A load reads the graph.
LEMMA LoadGraphKeeps ==
    ASSUME SurrealInv, LoadGraph
    PROVE  SurrealInv'
<1> SurrealTypeOK /\ NotYetSeen /\ StagesFit /\ EndsKept /\ UpdatesSafe /\ RowsSafe
  BY DEF SurrealInv
<1>1. sLoad.pc = "miss"
  BY DEF LoadGraph, SurrealTypeOK, SLoads
<1>1a. /\ sLoad' \in SLoads /\ sLoad'.pc = "missRead" /\ sLoad'.ups = sLoad.ups
       /\ sLoad'.ents = sDb.ents /\ sLoad'.rels = ReadRels(sDb)
  <2>1. sLoad' = [sLoad EXCEPT !.pc = "missRead", !.ents = sDb.ents, !.rels = ReadRels(sDb)]
    BY <1>1 DEF LoadGraph
  <2>2. sLoad \in SLoads /\ sDb \in STables
    BY DEF SurrealTypeOK
  <2>3. ReadRels(sDb) \in SRels
    BY <2>2, ReadRelsFields
  <2> QED
    BY <2>1, <2>2, <2>3, SurrealFields DEF SLoads
<1>2. sMem' = sMem /\ sPending' = sPending /\ sDb' = sDb /\ sKnown' = sKnown /\ sSave' = sSave /\ sGuest' = sGuest /\ sNext' = sNext /\ sBroken' = sBroken /\ sCrossed' = sCrossed
  BY DEF LoadGraph
<1>3. SurrealTypeOK'
  BY <1>1a, <1>2 DEF SurrealTypeOK
<1>4. NotYetSeen'
  BY <1>2 DEF NotYetSeen, NowhereIn
<1>5. StagesFit'
  <2>1. ReadRels(sDb)' = ReadRels(sDb)
    BY <1>2 DEF ReadRels
  <2> QED
    BY <1>1, <1>1a, <1>2, <2>1 DEF StagesFit, Quiet
<1>6. EndsKept'
  BY <1>2 DEF EndsKept
<1>7. UpdatesSafe'
  BY <1>2 DEF UpdatesSafe, SUsed, UpdatesToWrite
<1>8. ASSUME NEW n \in SNames \ sCrossed' PROVE EntSafe(n)'
  <2>1. EntSafe(n)
    BY <1>2, <1>8 DEF RowsSafe, EntSafe
  <2> QED
    BY <1>1, <1>2, <2>1, EmptyFields DEF EntSafe, RowSafe, Clearing, Overtaken
<1>9. ASSUME NEW e \in SEdges, e \cap sCrossed' = {} PROVE EdgeSafe(e)'
  <2>1. EdgeSafe(e)
    BY <1>2, <1>9 DEF RowsSafe, EdgeSafe
  <2> QED
    BY <1>1, <1>2, <2>1, EmptyFields DEF EdgeSafe, RowSafe, Clearing, Overtaken
<1> QED
  BY <1>3, <1>4, <1>5, <1>6, <1>7, <1>8, <1>9 DEF SurrealInv, RowsSafe, EntSafe, EdgeSafe

\* A load installs and remembers what it read.
LEMMA LoadEndKeeps ==
    ASSUME SurrealInv, LoadEnd
    PROVE  SurrealInv'
<1> SurrealTypeOK /\ NotYetSeen /\ StagesFit /\ EndsKept /\ UpdatesSafe /\ RowsSafe
  BY DEF SurrealInv
<1>1. /\ sLoad.pc = "missRead" /\ ~sMem.here /\ Quiet /\ sLoad.ups = sDb.ups
      /\ sLoad.ents = sDb.ents /\ sLoad.rels = ReadRels(sDb) /\ sLoad' = NoLoad
  BY DEF LoadEnd, SurrealTypeOK, SLoads, StagesFit
<1>1a. /\ sMem' \in SSessions /\ sMem'.here /\ sMem'.ups = sDb.ups
       /\ sMem'.ents = sDb.ents /\ sMem'.rels = ReadRels(sDb)
  <2>1. sMem' = [here |-> TRUE, ups |-> sLoad.ups, ents |-> sLoad.ents, rels |-> sLoad.rels]
    BY <1>1 DEF LoadEnd
  <2> QED
    BY <1>1, <2>1, SurrealFields DEF SSessions
<1>1b. /\ sKnown' \in SBeliefs /\ sKnown'.some /\ sKnown'.ups = sDb.ups
       /\ sKnown'.ents = sDb.ents /\ sKnown'.rels = ReadRels(sDb)
  <2>1. sKnown' = [some |-> TRUE, ups |-> sLoad.ups, ents |-> sLoad.ents, rels |-> sLoad.rels]
    BY DEF LoadEnd
  <2> QED
    BY <1>1, <2>1, SurrealFields DEF SBeliefs
<1>1c. /\ sSave = NoSave /\ sGuest = NoGuest /\ sPending = NoWork
       /\ sSave.pc = "idle" /\ ~sSave.orphan /\ sGuest.op = "none" /\ sGuest.name = {} /\ sGuest.gone = 0
       /\ sPending.removed = {} /\ sSave.work.removed = {}
  BY <1>1, EmptyFields DEF Quiet, StagesFit
<1>1d. \A e \in SEdges : ReadRels(sDb)[e] = IF \A n \in e : sDb.ents[n] # {} THEN sDb.rels[e] ELSE 0
  BY ReadRelsFields DEF SurrealTypeOK
<1>2. sPending' = sPending /\ sDb' = sDb /\ sSave' = sSave /\ sGuest' = sGuest /\ sNext' = sNext /\ sBroken' = sBroken /\ sCrossed' = sCrossed
  BY DEF LoadEnd
<1>3. SurrealTypeOK'
  BY <1>1, <1>1a, <1>1b, <1>2, EmptyTypes DEF SurrealTypeOK
<1>4. NotYetSeen'
  <2> SUFFICES ASSUME NEW v \in SUpdates, v >= sNext PROVE NowhereIn(v, sMem') /\ NowhereIn(v, sKnown')
    BY <1>2 DEF NotYetSeen, NowhereIn
  <2>1. NowhereIn(v, sDb) /\ v # 0
    BY DEF NotYetSeen, SUpdates
  <2> QED
    BY <1>1a, <1>1b, <1>1d, <2>1 DEF NowhereIn
<1>5. StagesFit'
  BY <1>1, <1>1a, <1>1b, <1>1c, <1>2, EmptyFields DEF StagesFit, Quiet
<1>6. EndsKept'
  BY <1>1a, <1>1d DEF EndsKept
<1>7. UpdatesSafe'
  <2>1. SUsed' = sDb.ups
    BY <1>1a, <1>1c, <1>2 DEF SUsed
  <2>2. 0 \notin sDb.ups
    BY SurrealFields DEF SUpdates
  <2> QED
    BY <1>1a, <1>1b, <1>1c, <1>2, <2>1, <2>2 DEF UpdatesSafe
<1>8. ASSUME NEW n \in SNames \ sCrossed' PROVE EntSafe(n)'
  <2>1. sMem'.ents[n] = sDb.ents[n] /\ sKnown'.ents[n] = sDb.ents[n] /\ n \notin sGuest'.name
    BY <1>1a, <1>1b, <1>1c, <1>2
  <2> QED
    BY <1>1c, <1>2, <2>1 DEF EntSafe, RowSafe, Clearing, Overtaken
<1>9. ASSUME NEW e \in SEdges, e \cap sCrossed' = {} PROVE EdgeSafe(e)'
  <2>1. /\ sMem'.rels[e] = sKnown'.rels[e] /\ e \cap sGuest'.name = {}
        /\ sKnown'.rels[e] = sDb.rels[e] \/ sKnown'.rels[e] = 0
    BY <1>1a, <1>1b, <1>1c, <1>1d, <1>2
  <2> QED
    BY <1>1c, <1>2, <2>1 DEF EdgeSafe, RowSafe, Clearing, Overtaken
<1> QED
  BY <1>3, <1>4, <1>5, <1>6, <1>7, <1>8, <1>9 DEF SurrealInv, RowsSafe, EntSafe, EdgeSafe

\* The initial states satisfy the invariant.
LEMMA SurrealInitInv ==
    ASSUME SurrealInit
    PROVE  SurrealInv
<1>1. /\ sMem = NoMem /\ sPending = NoWork /\ sDb = EmptyDb /\ sKnown = NoKnown
      /\ sSave = NoSave /\ sGuest = NoGuest /\ sLoad = NoLoad
      /\ sNext = 1 /\ sBroken = FALSE /\ sCrossed = {}
  BY DEF SurrealInit
<1>2. SurrealTypeOK
  <2>1. sNext \in 1 .. MaxUpdate + 1
    BY <1>1, SurrealAssumption
  <2>2. sBroken \in BOOLEAN /\ sCrossed \in SUBSET SNames
    BY <1>1
  <2> QED
    BY <1>1, <2>1, <2>2, EmptyTypes DEF SurrealTypeOK
<1>3. NotYetSeen
  <2>1. \A u \in SUpdates : u # 0
    BY DEF SUpdates
  <2> QED
    BY <1>1, <2>1, NowhereInNothing, EmptyFields DEF NotYetSeen
<1>4. StagesFit
  BY <1>1, EmptyFields DEF StagesFit
<1>5. EndsKept
  BY <1>1, EmptyFields DEF EndsKept
<1>6. UpdatesSafe
  <2>1. SUsed = {}
    BY <1>1, EmptyFields DEF SUsed
  <2> QED
    BY <1>1, <2>1, EmptyFields DEF UpdatesSafe
<1>7. RowsSafe
  BY <1>1, EmptyFields DEF RowsSafe, RowSafe
<1> QED
  BY <1>2, <1>3, <1>4, <1>5, <1>6, <1>7 DEF SurrealInv

\* Every step preserves the invariant.
LEMMA SurrealStepInv ==
    ASSUME ~DryRuns, SurrealInv, [SurrealNext]_surrealVars
    PROVE  SurrealInv'
<1>1. CASE UNCHANGED surrealVars
  <2>1. /\ sMem' = sMem /\ sPending' = sPending /\ sDb' = sDb /\ sKnown' = sKnown /\ sSave' = sSave
        /\ sGuest' = sGuest /\ sLoad' = sLoad /\ sNext' = sNext /\ sBroken' = sBroken /\ sCrossed' = sCrossed
    BY <1>1 DEF surrealVars
  <2>2. SurrealTypeOK' /\ NotYetSeen' /\ EndsKept'
    BY <2>1 DEF SurrealInv, SurrealTypeOK, NotYetSeen, NowhereIn, EndsKept
  <2>3. StagesFit'
    BY <2>1 DEF SurrealInv, StagesFit, Quiet, ReadRels
  <2>4. UpdatesSafe'
    BY <2>1 DEF SurrealInv, UpdatesSafe, SUsed, UpdatesToWrite
  <2>5. RowsSafe'
    BY <2>1 DEF SurrealInv, RowsSafe, RowSafe, Clearing, Overtaken
  <2> QED
    BY <2>2, <2>3, <2>4, <2>5 DEF SurrealInv
<1>2. CASE SurrealNext
  <2>1. CASE AddUpdate \/ Evict
    BY <2>1, AddUpdateKeeps, EvictKeeps
  <2>2. CASE SaveBegin \/ SaveLock \/ SaveQuery
    BY <2>2, SaveBeginKeeps, SaveLockKeeps, SaveQueryKeeps
  <2>3. CASE SaveLost \/ SaveEnd \/ ForgetVictim
    BY <2>3, SaveLostKeeps, SaveEndKeeps, ForgetVictimKeeps
  <2>4. CASE \E u \in SUpdates : PurgeUpdate(u)
    BY <2>4, PurgeUpdateKeeps
  <2>5. CASE \E n \in SNames : DeleteEntity(n)
    BY <2>5, DeleteEntityKeeps
  <2>6. CASE DeleteSession \/ GuestLock \/ GuestErase
    BY <2>6, DeleteSessionKeeps, GuestLockKeeps, GuestEraseKeeps
  <2>7. CASE GuestFail \/ GuestEnd
    BY <2>7, GuestFailKeeps, GuestEndKeeps
  <2>8. CASE LoadUpdates \/ LoadGraph \/ LoadEnd
    BY <2>8, LoadUpdatesKeeps, LoadGraphKeeps, LoadEndKeeps
  <2> QED
    BY <1>2, <2>1, <2>2, <2>3, <2>4, <2>5, <2>6, <2>7, <2>8 DEF SurrealNext
<1> QED
  BY <1>1, <1>2

\* The belief about what is stored is never wrong where it matters: with any
\* number of updates and names, failing statements and queries, dropped slots
\* and erasing operations beside the saves, a session at rest whose last save
\* completed has every update, entity and edge stored (SurrealDBStorage::persist,
\* PersistedState, forget_graph_state), unless sessions are loaded while they
\* are in memory.
THEOREM MemoryStored ==
    ASSUME ~DryRuns
    PROVE  SurrealSpec => []MemoryIsStored
<1>1. SurrealInit => SurrealInv
  BY SurrealInitInv
<1>2. SurrealInv /\ [SurrealNext]_surrealVars => SurrealInv'
  BY SurrealStepInv
<1>3. SurrealInv => MemoryIsStored
  <2> SUFFICES ASSUME SurrealInv, sMem.here, Quiet, ~sBroken
               PROVE  /\ sMem.ups \subseteq sDb.ups
                      /\ \A n \in SNames \ sCrossed : sMem.ents[n] \in {{}, sDb.ents[n]}
                      /\ \A e \in SEdges : e \cap sCrossed = {} => sMem.rels[e] \in {0, ReadRels(sDb)[e]}
    BY DEF MemoryIsStored
  <2>1. sPending = NoWork /\ sGuest = NoGuest /\ sSave.pc = "idle" /\ ~sPending.some
    BY DEF SurrealInv, StagesFit, Quiet
  <2>2. sMem.ups \subseteq sDb.ups
    BY <2>1, EmptyFields DEF SurrealInv, UpdatesSafe
  <2>3. ~Clearing
    BY <2>1, EmptyFields DEF Clearing
  <2>4. \A n \in SNames \ sCrossed : sMem.ents[n] \in {{}, sDb.ents[n]}
    BY <2>1, <2>3 DEF SurrealInv, RowsSafe, RowSafe
  <2>5. ASSUME NEW e \in SEdges, e \cap sCrossed = {} PROVE sMem.rels[e] \in {0, ReadRels(sDb)[e]}
    <3>1. sMem.rels[e] \in {0, sDb.rels[e]}
      BY <2>1, <2>3, <2>5 DEF SurrealInv, RowsSafe, RowSafe
    <3>2. ASSUME sMem.rels[e] # 0, NEW n \in e PROVE sDb.ents[n] # {}
      <4>1. n \in SNames \ sCrossed
        BY <2>5 DEF SEdges
      <4>2. sMem.ents[n] # {}
        BY <3>2 DEF SurrealInv, EndsKept
      <4> QED
        BY <2>4, <4>1, <4>2
    <3>3. ReadRels(sDb)[e] = IF \A n \in e : sDb.ents[n] # {} THEN sDb.rels[e] ELSE 0
      BY ReadRelsFields DEF SurrealInv, SurrealTypeOK
    <3> QED
      BY <3>1, <3>2, <3>3
  <2> QED
    BY <2>2, <2>4, <2>5
<1> QED
  BY <1>1, <1>2, <1>3, PTL DEF SurrealSpec

=============================================================================
