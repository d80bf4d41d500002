----------------------------- MODULE SurrealCards -----------------------------
(***************************************************************************)
(* put_card of the SurrealDB backend (surrealdb_storage/cards.rs), for the *)
(* card of one scope.  It holds no lock: it reads the latest version, and  *)
(* then creates the row of the next one, which fails when another writer   *)
(* created that row first (the table is unique on scope and version).      *)
(* Deleting a workspace's card is left out: the user's card is never       *)
(* deleted.                                                                *)
(***************************************************************************)
EXTENDS Integers

CONSTANTS CardWriters, NoText, MaxVersion

ASSUME SurrealCardAssumption == MaxVersion \in Nat /\ NoText \notin CardWriters

CardVersions == 1 .. MaxVersion

VARIABLES
    card,     \* the table: card[v] is the row of version v
    edited,   \* per writer: the version it edited, -1 when it is not writing
    step,     \* per writer: its next step
    reply     \* per writer: the last outcome

surrealCardVars == <<card, edited, step, reply>>

\* latest_cards(scope, 1): the highest version stored, or 0.
IsLatest(v) ==
    /\ v = 0 \/ card[v] # NoText
    /\ \A u \in CardVersions : u > v => card[u] = NoText

Latest == CHOOSE v \in 0 .. MaxVersion : IsLatest(v)

\* update_card: a client sends its edit of version v.
Ask(w, v) ==
    /\ step[w] = "idle"
    /\ edited' = [edited EXCEPT ![w] = v]
    /\ step' = [step EXCEPT ![w] = "read"]
    /\ UNCHANGED <<card, reply>>

Done(w, r) ==
    /\ reply' = [reply EXCEPT ![w] = r]
    /\ edited' = [edited EXCEPT ![w] = -1]
    /\ step' = [step EXCEPT ![w] = "idle"]

\* The latest version is read: a conflict, or the edit is up to date.
PutRead(w) ==
    /\ step[w] = "read"
    /\ \/ /\ Latest # edited[w]
          /\ Done(w, "conflict")
       \/ /\ Latest = edited[w]
          /\ step' = [step EXCEPT ![w] = "create"]
          /\ UNCHANGED <<edited, reply>>
    /\ UNCHANGED card

\* Mutant of PutCreate: UPSERT instead of CREATE.
PutCreate_upsert(w) ==
    /\ step[w] = "create"
    /\ card' = [card EXCEPT ![edited[w] + 1] = w]
    /\ Done(w, "written")

\* Mutant of PutCreate: "already" exists passes for success.
PutCreate_alreadyOk(w) ==
    /\ step[w] = "create"
    /\ card' = [card EXCEPT ![edited[w] + 1] = IF @ = NoText THEN w ELSE @]
    /\ Done(w, "written")

\* CREATE: the row of the next version, or "already" exists.
PutCreate(w) ==
    /\ step[w] = "create"
    /\ \/ /\ card[edited[w] + 1] = NoText
          /\ card' = [card EXCEPT ![edited[w] + 1] = w]
          /\ Done(w, "written")
       \/ /\ card[edited[w] + 1] # NoText
          /\ step' = [step EXCEPT ![w] = "reload"]
          /\ UNCHANGED <<card, edited, reply>>

\* The version that won is read for the caller.
PutReload(w) ==
    /\ step[w] = "reload"
    /\ Done(w, "conflict")
    /\ UNCHANGED card

\* A query fails, before or at the CREATE.
PutFailed(w) ==
    /\ step[w] # "idle"
    /\ Done(w, "error")
    /\ UNCHANGED card

CardInit ==
    /\ card = [v \in CardVersions |-> NoText]
    /\ edited = [w \in CardWriters |-> -1]
    /\ step = [w \in CardWriters |-> "idle"]
    /\ reply = [w \in CardWriters |-> "none"]

CardNext ==
    \E w \in CardWriters :
        \/ \E v \in 0 .. MaxVersion - 1 : Ask(w, v)
        \/ PutRead(w) \/ PutCreate(w) \/ PutReload(w) \/ PutFailed(w)

CardSpec == CardInit /\ [][CardNext]_surrealCardVars

-----------------------------------------------------------------------------
(* Properties. *)

\* Type invariant of the card table and its writers.
CardTypeOK ==
    /\ card \in [CardVersions -> CardWriters \cup {NoText}]
    /\ edited \in [CardWriters -> -1 .. MaxVersion - 1]
    /\ step \in [CardWriters -> {"idle", "read", "create", "reload"}]
    /\ reply \in [CardWriters -> {"none", "written", "conflict", "error"}]

\* "Every change is a new version; the history is kept" (core/card.rs): no
\* stored version is changed by a later or a concurrent write.
HistoryKept ==
    [][\A v \in CardVersions : card[v] # NoText => card'[v] = card[v]]_surrealCardVars

\* Versions have no gap, whatever version a client claims to have edited
\* (put_card, latest_cards).
NoGaps == \A u, v \in CardVersions : u < v /\ card[v] # NoText => card[u] # NoText

(* The inductive invariant behind the theorems of SurrealProofs. *)

\* The stored versions are 1 .. n for some n.
Dense == \E n \in 0 .. MaxVersion : \A v \in CardVersions : card[v] # NoText <=> v <= n

\* A writer at its CREATE edited a version that is still stored, one that lost
\* the race was overtaken.
WritersFollow ==
    \A w \in CardWriters :
        /\ step[w] = "idle" <=> edited[w] = -1
        /\ step[w] \in {"create", "reload"} /\ edited[w] > 0 => card[edited[w]] # NoText
        /\ step[w] = "reload" => card[edited[w] + 1] # NoText

CardInv == CardTypeOK /\ Dense /\ WritersFollow

Contract == INSTANCE Cards WITH head <- Latest, text <- card, expected <- edited

\* Two agents that edit at once "cannot overwrite each other" (core/card.rs):
\* without a lock, every write behaves as the atomic compare-and-put of Cards.
ImplementsCards == Contract!Spec

=============================================================================
