--------------------------------- MODULE Cards ---------------------------------
(***************************************************************************)
(* What CardStorage::put_card promises for the card of one scope, and what *)
(* the RocksDB backend does literally (rocksdb_storage/cards.rs): under    *)
(* the scope's lock, the text is stored as the next version if the latest  *)
(* version is the one the writer edited; otherwise nothing is written.     *)
(***************************************************************************)
EXTENDS Integers

CONSTANTS
    CardWriters,   \* clients; a version is named by the one that wrote it
    NoText,        \* no such version
    MaxVersion     \* bound: versions written

Versions == 1 .. MaxVersion

VARIABLES
    head,      \* card_head: the latest version, 0 when there is no card
    text,      \* text[v]: version v
    expected,  \* per writer: the version it edited, -1 when it is not writing
    reply      \* per writer: the last outcome

cardVars == <<head, text, expected, reply>>

\* A client sends its edit of version v, which may be stale or never existed.
Ask(w, v) ==
    /\ expected[w] = -1
    /\ expected' = [expected EXCEPT ![w] = v]
    /\ UNCHANGED <<head, text, reply>>

Answer(w, r) ==
    /\ reply' = [reply EXCEPT ![w] = r]
    /\ expected' = [expected EXCEPT ![w] = -1]

\* CardWrite::Written.
PutWritten(w) ==
    /\ expected[w] = head /\ head < MaxVersion
    /\ head' = head + 1
    /\ text' = [text EXCEPT ![head + 1] = w]
    /\ Answer(w, "written")

\* CardWrite::Conflict.
PutConflict(w) ==
    /\ expected[w] \notin {-1, head}
    /\ Answer(w, "conflict")
    /\ UNCHANGED <<head, text>>

\* The backend fails: nothing is written.
PutFailed(w) ==
    /\ expected[w] # -1
    /\ Answer(w, "error")
    /\ UNCHANGED <<head, text>>

Init ==
    /\ head = 0
    /\ text = [v \in Versions |-> NoText]
    /\ expected = [w \in CardWriters |-> -1]
    /\ reply = [w \in CardWriters |-> "none"]

Next ==
    \E w \in CardWriters :
        \/ \E v \in 0 .. MaxVersion - 1 : Ask(w, v)
        \/ PutWritten(w) \/ PutConflict(w) \/ PutFailed(w)

Spec == Init /\ [][Next]_cardVars

=============================================================================
