---------------------------- MODULE SessionManager ----------------------------
(***************************************************************************)
(* The life of one session in memory: SessionManager (the session cache,   *)
(* the loading gate, load_or_create, install), the eviction and delete     *)
(* paths of ConversationMemorySystem, and the SessionPersister they share. *)
(*                                                                         *)
(* Every action is a step of Persister, restricted by where the task is in *)
(* get_session, evict_session or delete_session, or leaves Persister's     *)
(* variables alone.                                                        *)
(***************************************************************************)
EXTENDS Persister

CONSTANTS
    Sweepers,      \* the clients that also evict (cleanup_expired_sessions, ...)
    LruPressure,   \* the LRU cache evicts the handle when other sessions need room
    RequestsTimeOut, \* a storage request may outlive the caller that sent it
    WritesFail     \* the storage backend may fail a write

ASSUME SwitchAssumption ==
    /\ Loaders = Clients /\ Sweepers \subseteq Clients
    /\ LruPressure \in BOOLEAN /\ RequestsTimeOut \in BOOLEAN /\ WritesFail \in BOOLEAN

Free == "free"

ASSUME TaskAssumption == Clients \cap Deleters = {} /\ Free \notin Clients \cup Deleters

VARIABLES
    cached,     \* sessions[id]: the cached handle
    gate,       \* loading[id]: the task that holds the loading gate
    tpc, hold,  \* per client: where it is in its operation, the handle it holds
    buf,        \* per client: the updates of the session it loaded
    mpc,        \* per delete: where it is in delete_session
    born,       \* history: the handle an update was committed to
    dropped,    \* history: updates some client asked to remove
    acked       \* history: updates reported durable, and not deleted since

taskVars == <<gate, tpc, hold, buf, mpc>>
historyVars == <<born, dropped, acked>>
smVars == <<vars, cached, taskVars, historyVars>>

-----------------------------------------------------------------------------
(* References and history. *)

\* The handle leaves the cache (and is dropped when no client holds it), or is
\* not in it.
Uncache ==
    /\ cached' = NoHandle
    /\ IF cached # NoHandle /\ \A c \in Clients : hold[c] # cached
       THEN Drop(cached)
       ELSE UNCHANGED vars

\* Updates whose client is told Ok in this step.
ToldOk ==
    UNION {job[c].upd : c \in {k \in Clients :
             cpc[k] = "waiting" /\ cpc'[k] = "idle" /\ answer'[k] = "ok"}}

\* Updates of an incarnation that a storage delete erased.
Erased == {u \in Updates : born'[u] < erasedBelow'}

\* A delete that outlived its caller (late) also erases what a session created
\* under the id since then was told is durable: delete_session returned an
\* error, and its outcome is open until the storage actor gets to it.
Account(late) ==
    acked' = ((acked \cup ToldOk) \ Erased) \ (IF late THEN rows \ rows' ELSE {})

-----------------------------------------------------------------------------
(* get_or_create_session / get_session. *)

\* load_or_create: the session is cached.
Hit(c) ==
    /\ tpc[c] = "idle" /\ cached # NoHandle
    /\ hold' = [hold EXCEPT ![c] = cached]
    /\ tpc' = [tpc EXCEPT ![c] = "have"]
    /\ UNCHANGED <<vars, cached, gate, buf, mpc, historyVars>>

Miss(c) ==
    /\ tpc[c] = "idle" /\ cached = NoHandle
    /\ tpc' = [tpc EXCEPT ![c] = "gate"]
    /\ UNCHANGED <<vars, cached, gate, hold, buf, mpc, historyVars>>

\* The gate is acquired and the cache looked up again.
GateHit(c) ==
    /\ tpc[c] = "gate" /\ gate = Free /\ cached # NoHandle
    /\ hold' = [hold EXCEPT ![c] = cached]
    /\ tpc' = [tpc EXCEPT ![c] = "have"]
    /\ UNCHANGED <<vars, cached, gate, buf, mpc, historyVars>>

\* Mutant of GateMiss: loads are not single flight.
GateMiss_ungated(c) ==
    /\ tpc[c] = "gate" /\ cached = NoHandle
    /\ gate' = c
    /\ tpc' = [tpc EXCEPT ![c] = "load"]
    /\ WaitIdle(c)
    /\ UNCHANGED <<cached, hold, buf, mpc, historyVars>>

\* load_uncached: wait_persisted.
GateMiss(c) ==
    /\ tpc[c] = "gate" /\ gate = Free /\ cached = NoHandle
    /\ gate' = c
    /\ tpc' = [tpc EXCEPT ![c] = "load"]
    /\ WaitIdle(c)
    /\ UNCHANGED <<cached, hold, buf, mpc, historyVars>>

\* load_session: the updates come from the stored rows.
LoadStored(c) ==
    /\ tpc[c] = "load" /\ cpc[c] = "idle"
    /\ blob # NoHandle
    /\ buf' = [buf EXCEPT ![c] = rows]
    /\ tpc' = [tpc EXCEPT ![c] = "install"]
    /\ UNCHANGED <<vars, cached, gate, hold, mpc, historyVars>>

\* Mutant of LoadNew: a failed load is taken for a session that does not exist.
LoadNew_onError(c) ==
    /\ tpc[c] = "load" /\ cpc[c] = "idle"
    /\ next < MaxGen
    /\ blob' = next
    /\ UNCHANGED <<lineageVars, clientVars, slotVars, deleteVars, guestVars,
                   rows, erasedBelow>>
    /\ buf' = [buf EXCEPT ![c] = {}]
    /\ tpc' = [tpc EXCEPT ![c] = "install"]
    /\ UNCHANGED <<cached, gate, hold, mpc, historyVars>>

\* No such session: a new one is saved.
LoadNew(c) ==
    /\ tpc[c] = "load" /\ cpc[c] = "idle"
    /\ SaveNew
    /\ buf' = [buf EXCEPT ![c] = {}]
    /\ tpc' = [tpc EXCEPT ![c] = "install"]
    /\ UNCHANGED <<cached, gate, hold, mpc, historyVars>>

\* The load fails or times out, or get_session finds nothing stored.
LoadFail(c) ==
    /\ tpc[c] = "load" /\ cpc[c] = "idle"
    /\ gate' = Free
    /\ tpc' = [tpc EXCEPT ![c] = "idle"]
    /\ UNCHANGED <<vars, cached, hold, buf, mpc, historyVars>>

\* install: register the new handle, cache it, leave the gate.
Install(c) ==
    /\ tpc[c] = "install"
    /\ Register(buf[c])
    /\ cached' = next
    /\ hold' = [hold EXCEPT ![c] = next]
    /\ buf' = [buf EXCEPT ![c] = {}]
    /\ gate' = Free
    /\ tpc' = [tpc EXCEPT ![c] = "have"]
    /\ UNCHANGED <<mpc, historyVars>>

-----------------------------------------------------------------------------
(* An operation on the session: commit to the handle, persist. *)

\* add_incremental_update, delete_update, ...: added updates have fresh ids,
\* removed ones are in the session.
Operate(c, r) ==
    /\ tpc[c] = "have"
    /\ \A u \in r.upd : born[u] = NoHandle
    /\ r.rem \subseteq content[hold[c]]
    /\ Commit(c, hold[c], r)
    /\ born' = [u \in Updates |-> IF u \in r.upd THEN hold[c] ELSE born[u]]
    /\ dropped' = dropped \cup r.rem
    /\ tpc' = [tpc EXCEPT ![c] = "busy"]
    /\ UNCHANGED <<cached, gate, hold, buf, mpc, acked>>

\* The operation (or one that only reads the session) returns; its reference
\* is dropped.
Return(c) ==
    /\ tpc[c] \in {"have", "busy"} /\ cpc[c] = "idle"
    /\ hold' = [hold EXCEPT ![c] = NoHandle]
    /\ tpc' = [tpc EXCEPT ![c] = "idle"]
    /\ IF cached # hold[c] /\ \A k \in Clients \ {c} : hold[k] # hold[c]
       THEN Drop(hold[c])
       ELSE UNCHANGED vars
    /\ UNCHANGED <<cached, gate, buf, mpc, historyVars>>

-----------------------------------------------------------------------------
(* Eviction. *)

\* The LRU cache makes room without asking the persister.
EvictLru ==
    /\ LruPressure /\ cached # NoHandle
    /\ Uncache
    /\ UNCHANGED <<taskVars, historyVars>>

HasUnflushed == current # NoSlot \/ failed # NoHandle

\* evict_session: what is not flushed is persisted first, through the cached
\* handle, or waited for when the handle left the cache meanwhile.
EvictCheck(c) ==
    /\ tpc[c] = "idle"
    /\ UNCHANGED <<cached, gate, hold, buf, mpc, historyVars>>
    /\ \/ /\ ~HasUnflushed /\ cached # NoHandle
          /\ tpc' = [tpc EXCEPT ![c] = "evict"]
          /\ UNCHANGED vars
       \/ /\ HasUnflushed /\ cached # NoHandle
          /\ Commit(c, cached, BlobOnly)
          /\ tpc' = [tpc EXCEPT ![c] = "flush"]
       \/ /\ HasUnflushed /\ cached = NoHandle
          /\ WaitIdle(c)
          /\ tpc' = [tpc EXCEPT ![c] = "evict"]

\* The flush returned: evict when it succeeded, keep the session otherwise.
EvictFlushed(c) ==
    /\ tpc[c] = "flush" /\ cpc[c] = "idle"
    /\ tpc' = [tpc EXCEPT ![c] = IF answer[c] = "ok" THEN "evict" ELSE "idle"]
    /\ UNCHANGED <<vars, cached, gate, hold, buf, mpc, historyVars>>

EvictRemove(c) ==
    /\ tpc[c] = "evict" /\ cpc[c] = "idle"
    /\ Uncache
    /\ tpc' = [tpc EXCEPT ![c] = "idle"]
    /\ UNCHANGED <<gate, hold, buf, mpc, historyVars>>

-----------------------------------------------------------------------------
(* delete_session. *)

\* Under the gate: out of the cache, then to the storage actor.
DeleteTake(d) ==
    /\ mpc[d] = "idle" /\ gate = Free
    /\ gate' = d
    /\ Uncache
    /\ mpc' = [mpc EXCEPT ![d] = "sent"]
    /\ UNCHANGED <<tpc, hold, buf, historyVars>>

DeleteStart(d) ==
    /\ mpc[d] = "sent"
    /\ DeleteRetire(d)
    /\ mpc' = [mpc EXCEPT ![d] = "running"]
    /\ UNCHANGED <<cached, gate, tpc, hold, buf, historyVars>>

\* The request times out: the caller leaves the gate, the delete goes on.
DeleteTimeout(d) ==
    /\ RequestsTimeOut
    /\ mpc[d] \in {"sent", "running"} /\ gate = d
    /\ gate' = Free
    /\ UNCHANGED <<vars, cached, tpc, hold, buf, mpc, historyVars>>

DeleteDone(d, ok) ==
    /\ mpc[d] = "running"
    /\ DeleteEnd(d, ok)
    /\ mpc' = [mpc EXCEPT ![d] = "idle"]
    /\ gate' = IF gate = d THEN Free ELSE gate
    /\ UNCHANGED <<cached, tpc, hold, buf, born, dropped>>
    /\ Account(gate # d)

-----------------------------------------------------------------------------
(* Steps of the persister under which the tasks above wait. *)

PersisterStep ==
    /\ \/ \E c \in Clients : Judge(c) \/ Refuse(c) \/ Queue(c) \/ GiveUp(c) \/ Retry(c)
       \/ \E s \in Slots :
            \/ WriterBegin(s) \/ WriterSkip(s) \/ WriterOk(s) \/ WriterLoop(s)
            \/ WritesFail /\ WriterErr(s)
       \/ \E d \in Deleters : DeleteLock(d)
    /\ UNCHANGED <<cached, taskVars, born, dropped>>
    /\ Account(FALSE)

SMInit ==
    /\ Init
    /\ cached = NoHandle
    /\ gate = Free
    /\ tpc = [c \in Clients |-> "idle"]
    /\ hold = [c \in Clients |-> NoHandle]
    /\ buf = [c \in Clients |-> {}]
    /\ mpc = [d \in Deleters |-> "idle"]
    /\ born = [u \in Updates |-> NoHandle]
    /\ dropped = {} /\ acked = {}

SMNext ==
    \/ \E c \in Clients :
         \/ Hit(c) \/ Miss(c) \/ GateHit(c) \/ GateMiss(c)
         \/ LoadStored(c) \/ LoadNew(c) \/ LoadFail(c) \/ Install(c)
         \/ \E r \in Requests : Operate(c, r)
         \/ Return(c)
         \/ c \in Sweepers /\ EvictCheck(c)
         \/ EvictFlushed(c) \/ EvictRemove(c)
    \/ EvictLru
    \/ \E d \in Deleters :
         \/ DeleteTake(d) \/ DeleteStart(d) \/ DeleteTimeout(d)
         \/ \E ok \in BOOLEAN : DeleteDone(d, ok)
    \/ PersisterStep

SMSpec == SMInit /\ [][SMNext]_smVars

-----------------------------------------------------------------------------
(* Properties. *)

TaskSteps == {"idle", "have", "gate", "load", "install", "busy", "evict", "flush"}

\* Type invariant of the variables this module adds.
SMTypeOK ==
    /\ cached \in HandleOrNone
    /\ gate \in {Free} \cup Clients \cup Deleters
    /\ tpc \in [Clients -> TaskSteps]
    /\ hold \in [Clients -> HandleOrNone]
    /\ buf \in [Clients -> SUBSET Updates]
    /\ mpc \in [Deleters -> {"idle", "sent", "running"}]
    /\ born \in [Updates -> HandleOrNone]
    /\ dropped \subseteq Updates /\ acked \subseteq Updates

\* Single flight (comment in load_or_create): a load is under way only while no
\* handle is cached, so that it never replaces one another task was given, and
\* tasks that ask for a session at the same time share one handle.
SingleFlight ==
    \A c \in Clients : tpc[c] \in {"load", "install"} => cached = NoHandle

\* Why: the task that loads holds the gate (the inductive invariant behind
\* SingleFlight).
FlightInv ==
    /\ tpc \in [Clients -> TaskSteps]
    /\ \A c \in Clients : tpc[c] \in {"load", "install"} => gate = c /\ cached = NoHandle

\* What was reported durable stays stored through evictions, reloads, failed
\* writes and superseded handles, until it is removed or its session deleted.
AckedDurable == acked \ dropped \subseteq rows

\* Every removal under way was asked for.
RemovalsAsked(asked) ==
    /\ \A c \in Clients : job[c].rem \subseteq asked
    /\ \A s \in Slots : pending[s].rem \subseteq asked /\ batch[s].rem \subseteq asked

\* Handles in use, and those updates were committed to, are registered.
HandlesRegistered ==
    /\ \A h \in live : h < next
    /\ \A u \in Updates : born[u] < next

\* A delete whose caller still waits erases everything registered: nothing
\* registers while it holds the gate.
DeleteCovers ==
    \A d \in Deleters : mpc[d] = "running" /\ gate = d => dbound[d] = next

\* The inductive invariant behind AckedDurable.
DurableInv ==
    /\ born \in [Updates -> HandleOrNone] /\ acked \subseteq Updates
    /\ mpc \in [Deleters -> {"idle", "sent", "running"}]
    /\ RemovalsAsked(dropped)
    /\ HandlesRegistered
    /\ DeleteCovers
    /\ AckedDurable

\* A removal is carried out, at the latest by the retry of its write (comment in
\* write_batch): with nothing queued, running or failed, no row of a removed
\* update is stored.
RemovalsHold ==
    (current = NoSlot /\ failed = NoHandle /\ \A c \in Clients : cpc[c] = "idle")
        => rows \cap dropped = {}

\* The detailed life cycle implements the persister's specification, in which
\* handles come and go as they please.
ImplementsPersister == Spec

-----------------------------------------------------------------------------
(* What the repository says and the model refutes: these do not hold.     *)

\* A row of a deleted session never comes back, not even inside a session
\* re-created under the same id (delete_session, SessionPersister::delete).
DeletedRowsStayDeleted == \A u \in rows : born[u] >= erasedBelow

=============================================================================
