----------------------------- MODULE SessionCache -----------------------------
(***************************************************************************)
(* Cache<K, V>, the lock-free map SessionManager keeps its sessions in: a  *)
(* concurrent map, a size counter beside it and a capacity.  Each call on  *)
(* the map and each load or store of the counter is a step, so a thread    *)
(* may be stopped between the two; the counter is a machine word.          *)
(*                                                                         *)
(* Which entry of its sample an eviction takes depends on counters that    *)
(* other threads move meanwhile: any entry but the excluded one.  Hit      *)
(* and miss counts and the eviction events are left out.                   *)
(***************************************************************************)
EXTENDS Integers, FiniteSets

CONSTANTS
    ScThreads, ScKeys,
    ScCapacities, \* capacities the cache is given, the first one ScCapacity
    ScCapacity,
    ScWord,       \* values of a machine word
    MaxCalls      \* bound: calls made

NoKey == "none" \* a resize excludes no key

ASSUME SessionCacheAssumption ==
    /\ NoKey \notin ScKeys /\ IsFiniteSet(ScKeys) /\ IsFiniteSet(ScThreads)
    /\ ScCapacities \subseteq Nat \ {0} /\ ScCapacity \in ScCapacities
    /\ ScWord \in Nat /\ ScWord > Cardinality(ScKeys) + Cardinality(ScThreads)

VARIABLES
    scData,     \* the keys in the map
    scSize,     \* current_size
    scCapacity, \* capacity
    scThread,   \* thread -> what it is doing
    scCalls,    \* calls made
    scTorn      \* history: a clear ran beside another call that changes the map

cacheVars == <<scData, scSize, scCapacity, scThread, scCalls, scTorn>>

AtRest == [pc |-> "rest"]

SessionCacheInit ==
    /\ scData = {} /\ scSize = 0 /\ scCapacity = ScCapacity
    /\ scThread = [t \in ScThreads |-> AtRest] /\ scCalls = 0 /\ scTorn = FALSE

Moves(t, state) == scThread' = [scThread EXCEPT ![t] = state]
At(t, pc) == scThread[t].pc = pc
Calls(t, state) ==
    /\ At(t, "rest") /\ scCalls < MaxCalls
    /\ scCalls' = scCalls + 1 /\ Moves(t, state)
    /\ UNCHANGED <<scData, scSize, scCapacity>>

\* put: the capacity and the size are read first; a key already there needs
\* no room.
PutCall(t, k) ==
    /\ Calls(t, [pc |-> IF scSize >= scCapacity /\ k \notin scData THEN "evict" ELSE "insert",
                 key |-> k, need |-> 1])
    /\ UNCHANGED scTorn

\* try_evict_excluding: gives up when there is room by now.
PickVictim(t) ==
    /\ At(t, "evict")
    /\ LET from == scData \ {scThread[t].key} IN
       IF scSize < scCapacity \/ from = {}
       THEN Moves(t, [scThread[t] EXCEPT !.pc = "evicted"])
       ELSE \E v \in from : Moves(t, [victim |-> v, pc |-> "remove", key |-> scThread[t].key,
                                     need |-> scThread[t].need])
    /\ UNCHANGED <<scData, scSize, scCapacity, scCalls, scTorn>>

\* The victim may be gone already.
RemoveVictim(t) ==
    /\ At(t, "remove")
    /\ scData' = scData \ {scThread[t].victim}
    /\ Moves(t, [pc |-> IF scThread[t].victim \in scData THEN "sub" ELSE "evicted",
                key |-> scThread[t].key, need |-> scThread[t].need])
    /\ UNCHANGED <<scSize, scCapacity, scCalls, scTorn>>

CountVictim(t) ==
    /\ At(t, "sub")
    /\ scSize' = (scSize + ScWord - 1) % ScWord
    /\ Moves(t, [scThread[t] EXCEPT !.pc = "evicted"])
    /\ UNCHANGED <<scData, scCapacity, scCalls, scTorn>>

\* One eviction for a put, then the insert; as many as needed for a resize,
\* which excludes no key.
Evicted(t) ==
    /\ At(t, "evicted")
    /\ LET me == scThread[t] IN
       Moves(t, IF me.key # NoKey THEN [me EXCEPT !.pc = "insert"]
               ELSE IF me.need > 1 THEN [me EXCEPT !.pc = "evict", !.need = @ - 1]
               ELSE AtRest)
    /\ UNCHANGED <<scData, scSize, scCapacity, scCalls, scTorn>>

\* Replacing an entry does not count.
InsertEntry_counts(t) ==
    /\ At(t, "insert")
    /\ scData' = scData \cup {scThread[t].key}
    /\ Moves(t, [pc |-> "add"])
    /\ UNCHANGED <<scSize, scCapacity, scCalls, scTorn>>
InsertEntry(t) ==
    /\ At(t, "insert")
    /\ scData' = scData \cup {scThread[t].key}
    /\ Moves(t, IF scThread[t].key \in scData THEN AtRest ELSE [pc |-> "add"])
    /\ UNCHANGED <<scSize, scCapacity, scCalls, scTorn>>

CountInsert(t) ==
    /\ At(t, "add")
    /\ scSize' = (scSize + 1) % ScWord
    /\ Moves(t, AtRest)
    /\ UNCHANGED <<scData, scCapacity, scCalls, scTorn>>

\* remove
RemoveCall(t, k) ==
    /\ At(t, "rest") /\ scCalls < MaxCalls /\ k \in scData
    /\ scCalls' = scCalls + 1
    /\ scData' = scData \ {k}
    /\ Moves(t, [pc |-> "removed"])
    /\ UNCHANGED <<scSize, scCapacity, scTorn>>

CountRemove(t) ==
    /\ At(t, "removed")
    /\ scSize' = (scSize + ScWord - 1) % ScWord
    /\ Moves(t, AtRest)
    /\ UNCHANGED <<scData, scCapacity, scCalls, scTorn>>

\* clear: the map, then the counter.
ClearCall(t) ==
    /\ At(t, "rest") /\ scCalls < MaxCalls
    /\ scCalls' = scCalls + 1
    /\ scData' = {} /\ Moves(t, [pc |-> "clear"])
    /\ scTorn' = (scTorn \/ \E o \in ScThreads : ~At(o, "rest"))
    /\ UNCHANGED <<scSize, scCapacity>>

ClearSize(t) ==
    /\ At(t, "clear")
    /\ scSize' = 0 /\ Moves(t, AtRest)
    /\ scTorn' = (scTorn \/ scData # {} \/ \E o \in ScThreads \ {t} : ~At(o, "rest"))
    /\ UNCHANGED <<scData, scCapacity, scCalls>>

\* resize: the capacity, then one eviction for each entry too many.
ResizeCall(t, n) ==
    /\ At(t, "rest") /\ scCalls < MaxCalls
    /\ scCalls' = scCalls + 1 /\ scCapacity' = n
    /\ Moves(t, IF n < scSize THEN [pc |-> "evict", key |-> NoKey, need |-> scSize - n] ELSE AtRest)
    /\ UNCHANGED <<scData, scSize, scTorn>>

SessionCacheNext ==
    \E t \in ScThreads :
        \/ \E k \in ScKeys : PutCall(t, k) \/ RemoveCall(t, k)
        \/ PickVictim(t) \/ RemoveVictim(t) \/ CountVictim(t) \/ Evicted(t)
        \/ InsertEntry(t) \/ CountInsert(t) \/ CountRemove(t)
        \/ ClearCall(t) \/ ClearSize(t)
        \/ \E n \in ScCapacities : ResizeCall(t, n)

SessionCacheSpec == SessionCacheInit /\ [][SessionCacheNext]_cacheVars

-----------------------------------------------------------------------------
(* Properties.                                                              *)

\* However puts, evictions, removals and resizes of several threads overlap,
\* once they are done the counter that decides over eviction is the number of
\* entries (unless a clear ran beside one of them).
SizeCounted ==
    (~scTorn /\ \A t \in ScThreads : At(t, "rest")) => scSize = Cardinality(scData)

(* The inductive invariant behind the theorem of StorageProofs. *)

\* What a thread may be doing.
ScStates ==
    [pc : {"rest", "add", "removed", "clear"}]
    \cup [pc : {"evict", "evicted", "sub"}, key : ScKeys \cup {NoKey}, need : Nat]
    \cup [pc : {"insert"}, key : ScKeys, need : Nat]
    \cup [pc : {"remove"}, key : ScKeys \cup {NoKey}, need : Nat, victim : ScKeys]

\* Threads that added an entry, or took one, and have not counted it yet.
Adding == {t \in ScThreads : At(t, "add")}
Owing == {t \in ScThreads : scThread[t].pc \in {"sub", "removed"}}

\* The counter is the number of entries but for what is still to be counted,
\* except while a clear has emptied the map and not the counter.
CacheInv ==
    /\ scThread \in [ScThreads -> ScStates]
    /\ scData \subseteq ScKeys /\ scSize \in 0 .. ScWord - 1
    /\ scCapacity \in ScCapacities /\ scTorn \in BOOLEAN
    /\ ~scTorn /\ (\A t \in ScThreads : ~At(t, "clear"))
         => scSize = (Cardinality(scData) + Cardinality(Owing) - Cardinality(Adding)) % ScWord
=============================================================================
