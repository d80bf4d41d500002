------------------------------- MODULE Messages -------------------------------
(***************************************************************************)
(* The message stream of one session as RocksDB stores it                  *)
(* (rocksdb_storage/messages.rs and delete_session of sessions.rs): rows   *)
(* by position, the turn index that makes appends idempotent, and the next *)
(* position, kept apart so that retention does not give positions back.    *)
(*                                                                         *)
(* An append and a session delete are one write batch each under the       *)
(* session's lock.  Retention reads an iterator's snapshot and writes its  *)
(* batch later, without the lock; one pass runs at a time                  *)
(* (spawn_message_retention).  A timestamp comes from the client and is    *)
(* abstracted to whether it lies before retention's cutoff.                *)
(***************************************************************************)
EXTENDS Integers, Sequences, FiniteSets

CONSTANTS
    Turns,      \* turn ids of the client
    Batches,    \* the appends: sequences of [turn, old] records
    MaxSeq      \* bound: positions handed out in an incarnation

ASSUME MessageAssumption ==
    /\ MaxSeq \in Nat
    /\ "none" \notin Turns
    /\ \A b \in Batches : b \in Seq([turn : Turns, old : BOOLEAN])

NoMessage == [turn |-> "none", old |-> FALSE]
NoSeq == -1
Positions == 0 .. MaxSeq - 1

VARIABLES
    message,    \* message[seq]: the row at a position
    turnSeq,    \* message_turn[turn]: its position
    nextSeq,    \* message_next
    scanned,    \* retention: the rows its scan found to be old
    sweeping,   \* retention is between its scan and its batch
    used,       \* history: positions handed out since the session was deleted
    crossed     \* history: the last session delete fell between scan and batch

streamVars == <<message, turnSeq, nextSeq>>
messageVars == <<streamVars, scanned, sweeping, used, crossed>>

Stored == {s \in Positions : message[s] # NoMessage}

-----------------------------------------------------------------------------
(* append_messages. *)

Stream == [rows |-> message, turns |-> turnSeq, next |-> nextSeq]

\* One message of the batch: skipped when its turn is stored or came earlier
\* in the batch.
AppendOne(st, m) ==
    IF st.turns[m.turn] # NoSeq THEN st
    ELSE [rows  |-> [st.rows EXCEPT ![st.next] = m],
          turns |-> [st.turns EXCEPT ![m.turn] = st.next],
          next  |-> st.next + 1]

\* Mutant of AppendTo: the next position is derived from the last row.
AppendTo_lastRow(st, b) ==
    LET last == {s \in Positions : st.rows[s] # NoMessage}
        next == IF last = {} THEN 0 ELSE 1 + CHOOSE s \in last : \A t \in last : t <= s
        after[n \in 0 .. Len(b)] == IF n = 0 THEN [st EXCEPT !.next = next]
                                    ELSE AppendOne(after[n - 1], b[n])
    IN  after[Len(b)]

AppendTo(st, b) ==
    LET after[n \in 0 .. Len(b)] == IF n = 0 THEN st ELSE AppendOne(after[n - 1], b[n])
    IN  after[Len(b)]

AppendMessages(b) ==
    /\ nextSeq + Len(b) <= MaxSeq
    /\ LET st == AppendTo(Stream, b) IN
         /\ message' = st.rows /\ turnSeq' = st.turns /\ nextSeq' = st.next
         /\ used' = used \cup {s \in Positions : message[s] = NoMessage
                                                  /\ st.rows[s] # NoMessage}
    /\ UNCHANGED <<scanned, sweeping, crossed>>

-----------------------------------------------------------------------------
(* delete_messages_before. *)

RetentionScan ==
    /\ ~sweeping
    /\ scanned' = {[seq |-> s, turn |-> message[s].turn] : s \in {x \in Stored : message[x].old}}
    /\ sweeping' = TRUE
    /\ UNCHANGED <<streamVars, used, crossed>>

\* Mutant of RetentionWrite: the turn index keeps the turns of deleted rows.
RetentionWrite_rowsOnly ==
    /\ sweeping
    /\ message' = [s \in Positions |->
                     IF \E m \in scanned : m.seq = s THEN NoMessage ELSE message[s]]
    /\ scanned' = {} /\ sweeping' = FALSE
    /\ UNCHANGED <<turnSeq, nextSeq, used, crossed>>

\* Rows and turns found by the scan go in one batch; the next position stays.
RetentionWrite ==
    /\ sweeping
    /\ message' = [s \in Positions |->
                     IF \E m \in scanned : m.seq = s THEN NoMessage ELSE message[s]]
    /\ turnSeq' = [t \in Turns |->
                     IF \E m \in scanned : m.turn = t THEN NoSeq ELSE turnSeq[t]]
    /\ scanned' = {} /\ sweeping' = FALSE
    /\ UNCHANGED <<nextSeq, used, crossed>>

\* delete_session, as far as the stream goes: rows, turns and next position.
DeleteStream ==
    /\ Stored # {} \/ nextSeq # 0
    /\ message' = [s \in Positions |-> NoMessage]
    /\ turnSeq' = [t \in Turns |-> NoSeq]
    /\ nextSeq' = 0
    /\ used' = {}
    /\ crossed' = sweeping
    /\ UNCHANGED <<scanned, sweeping>>

-----------------------------------------------------------------------------
MessageInit ==
    /\ message = [s \in Positions |-> NoMessage]
    /\ turnSeq = [t \in Turns |-> NoSeq]
    /\ nextSeq = 0
    /\ scanned = {} /\ sweeping = FALSE
    /\ used = {} /\ crossed = FALSE

MessageNext ==
    \/ \E b \in Batches : AppendMessages(b)
    \/ RetentionScan \/ RetentionWrite
    \/ DeleteStream

MessageSpec == MessageInit /\ [][MessageNext]_messageVars

-----------------------------------------------------------------------------
(* Properties. *)

\* The turn index and the rows agree in both directions, so a turn is stored
\* at most once however often it is sent again (AppendTo, retention): every
\* row is the one its turn points to, every turn points to a row of its own.
\* Only a session delete between retention's scan and its batch can break it,
\* and the next delete heals it.
TurnsAgree ==
    ~crossed =>
        /\ \A s \in Stored : turnSeq[message[s].turn] = s
        /\ \A t \in Turns : turnSeq[t] # NoSeq =>
             turnSeq[t] \in Stored /\ message[turnSeq[t]].turn = t

\* "Positions are never reused after retention empties a stream" (module doc):
\* within the life of a session no append fills a position handed out before,
\* even when a retention pass runs across session deletes.
PositionsNotReused ==
    [][\A s \in Positions : message[s] = NoMessage /\ message'[s] # NoMessage
         => s \notin used]_messageVars

-----------------------------------------------------------------------------
(* Why both hold: the invariant below is inductive.                         *)

MessageRows == [turn : Turns, old : BOOLEAN]

MessageTypeOK ==
    /\ message \in [Positions -> MessageRows \cup {NoMessage}]
    /\ turnSeq \in [Turns -> Positions \cup {NoSeq}]
    /\ nextSeq \in 0 .. MaxSeq
    /\ scanned \subseteq [seq : Positions, turn : Turns]
    /\ used \subseteq Positions
    /\ sweeping \in BOOLEAN /\ crossed \in BOOLEAN

\* Nothing is stored at, or was handed out of, the positions to come.
AheadIsFree ==
    \A s \in Positions : s >= nextSeq => message[s] = NoMessage /\ s \notin used

\* Until the session is deleted, the rows of retention's scan stay what they were.
ScanStands ==
    ~crossed => \A m \in scanned :
        message[m.seq] # NoMessage /\ message[m.seq].turn = m.turn

MessageInv ==
    /\ MessageTypeOK /\ AheadIsFree /\ ScanStands /\ TurnsAgree
    /\ ~sweeping => scanned = {}

=============================================================================
