------------------------------ MODULE Persister ------------------------------
(***************************************************************************)
(* The SessionPersister of memory_system/persister.rs, for one session id  *)
(* (the maps of the persister are keyed by session id and no operation     *)
(* touches two ids, so sessions do not interact).                          *)
(*                                                                         *)
(* A session lives in memory behind handles (Arc<ArcSwap<ActiveSession>>). *)
(* The handle registered n-th has generation n and is modelled by n.  A    *)
(* client commits a change to a handle and asks the persister to write it; *)
(* requests merge into the pending work of the session's slot, and the     *)
(* slot's one writer task drains it.  Deletes retire every handle          *)
(* registered so far.  Weak references are modelled by Alive: a handle is  *)
(* alive while somebody holds it.                                          *)
(*                                                                         *)
(* A tokio mutex is FIFO, but a task may be preempted before it joins the  *)
(* queue, so any waiting task may be the next holder of a write lock.      *)
(***************************************************************************)
EXTENDS Integers, FiniteSets

CONSTANTS
    Clients,    \* tasks that persist the session
    Loaders,    \* the clients that also call wait_idle, before a load
    Deleters,   \* tasks running SessionPersister::delete
    Guests,     \* tasks running an operation inside SessionPersister::exclusive
    Updates,    \* ids of context updates (fresh UUIDs)
    Requests,   \* what a persist may ask for beside the blob: rows to write,
                \* rows to delete
    Slots,      \* slot objects; a slot nobody refers to any more is reused
    NoSlot,
    MaxGen      \* bound: handles registered in a behaviour

ASSUME SlotAssumption == NoSlot \notin Slots
ASSUME LoaderAssumption == Loaders \subseteq Clients
ASSUME GenAssumption == MaxGen \in Nat
ASSUME RequestAssumption ==
    Requests \subseteq [upd : SUBSET Updates, rem : SUBSET Updates]

NoHandle == -1
Handles == 0 .. MaxGen - 1

VARIABLES
    next,          \* Lineage.next: the generation of the next handle
    deletedBelow,  \* Lineage.deleted_below
    live,          \* handles referenced outside the persister (cache, workers)
    content,       \* content[h]: updates in the session version behind h
    cpc, job,      \* per client: where it is in enqueue / wait_idle, its request
    answer,        \* per client: the last outcome its waiter was told
    current,       \* slots[id]: the registered slot
    pending,       \* per slot: the queued work
    wpc, batch,    \* per slot: where its writer task is, the work it took
    lastResult,    \* per slot: Slot.last_result
    failed,        \* failed[id]: the handle whose last write failed
    dpc, dslot, dbound,  \* per delete: its step, slot found, deleted_below it set
    gpc, gslot,    \* per guest of exclusive: its step, slot found
    rows, blob,    \* storage: the update rows, the handle whose snapshot is stored
    erasedBelow    \* history: highest deleted_below of a delete that succeeded

lineageVars == <<next, deletedBelow, live, content>>
clientVars  == <<cpc, job, answer>>
slotVars    == <<current, pending, wpc, batch, lastResult, failed>>
deleteVars  == <<dpc, dslot, dbound>>
guestVars   == <<gpc, gslot>>
storeVars   == <<rows, blob, erasedBelow>>
vars == <<lineageVars, clientVars, slotVars, deleteVars, guestVars, storeVars>>

-----------------------------------------------------------------------------
(* Requests and their merging. *)

EmptyPending == [src |-> NoHandle, upd |-> {}, rem |-> {}, wait |-> {}]

NoBatch == [h |-> NoHandle, snap |-> {}, upd |-> {}, rem |-> {}, wait |-> {}]

NoJob == [h |-> NoHandle, src |-> NoHandle, upd |-> {}, rem |-> {}]

\* The request of a persist that names no row.
BlobOnly == [upd |-> {}, rem |-> {}]

IsEmpty(p) == p = EmptyPending

\* Mutant of Merge: rows queued earlier are forgotten.
Merge_newestOnly(p, w) ==
    [src  |-> IF w.src = NoHandle THEN p.src ELSE w.src,
     upd  |-> w.upd \ w.rem,
     rem  |-> p.rem \cup w.rem,
     wait |-> p.wait \cup w.wait]

\* merge: a removal cancels a queued row of the same update.
Merge(p, w) ==
    [src  |-> IF w.src = NoHandle THEN p.src ELSE w.src,
     upd  |-> (p.upd \cup w.upd) \ w.rem,
     rem  |-> p.rem \cup w.rem,
     wait |-> p.wait \cup w.wait]

-----------------------------------------------------------------------------
(* Lineage: how a persist through a handle is treated. *)

\* Handles somebody holds a strong reference to: outside the persister, a
\* client's request, queued work or the write in flight.
Alive ==
    {h \in Handles :
        \/ h \in live
        \/ \E c \in Clients : cpc[c] # "idle" /\ h \in {job[c].h, job[c].src}
        \/ \E s \in Slots : pending[s].src = h \/ batch[s].h = h}

Standing(h) ==
    IF h < deletedBelow THEN "deleted"
    ELSE IF h + 1 = next THEN "current"
    ELSE "superseded"

\* Registered handles that replaced h and are still alive.
Newer(h) == {g \in Alive : h < g /\ g < next}

\* t is the handle a persist through h is written from: h itself while it is
\* current, else the newest live handle that superseded it.
WritesFrom(h, t) ==
    \/ Standing(h) = "current" /\ t = h
    \/ /\ Standing(h) = "superseded"
       /\ t \in Newer(h)
       /\ \A g \in Newer(h) : g <= t

\* A persist through h is dropped: SESSION_DELETED or HANDLE_SUPERSEDED.
Refused(h) ==
    \/ Standing(h) = "deleted"
    \/ Standing(h) = "superseded" /\ Newer(h) = {}

\* register: h becomes the current handle of the session, holding updates us.
Register(us) ==
    /\ next < MaxGen
    /\ next' = next + 1
    /\ live' = live \cup {next}
    /\ content' = [content EXCEPT ![next] = us]
    /\ UNCHANGED <<deletedBelow, clientVars, slotVars, deleteVars, guestVars,
                   storeVars>>

\* The last reference outside the persister is dropped.
Drop(h) ==
    /\ h \in live
    /\ live' = live \ {h}
    /\ UNCHANGED <<next, deletedBelow, content, clientVars, slotVars,
                   deleteVars, guestVars, storeVars>>

\* SaveSession of a session just created, which registers as the next handle
\* once it is stored; it runs under exclusive, before any slot of its own.
SaveNew ==
    /\ blob = NoHandle /\ next < MaxGen
    /\ current = NoSlot
    /\ blob' = next
    /\ UNCHANGED <<lineageVars, clientVars, slotVars, deleteVars, guestVars,
                   rows, erasedBelow>>

-----------------------------------------------------------------------------
(* Waiters. *)

\* The clients ws are told outcome r.  A client of wait_idle goes on to retry
\* a failed write; the others are done.
Tell(ws, r) ==
    /\ cpc' = [c \in Clients |->
                 IF c \notin ws THEN cpc[c]
                 ELSE IF cpc[c] = "idling" THEN "retry" ELSE "idle"]
    /\ job' = [c \in Clients |-> IF c \in ws THEN NoJob ELSE job[c]]
    /\ answer' = [c \in Clients |-> IF c \in ws THEN r ELSE answer[c]]

Waiting == {c \in Clients : cpc[c] \in {"waiting", "idling"}}

-----------------------------------------------------------------------------
(* Clients: commit, enqueue, wait_idle. *)

\* A client that holds h publishes a new version of the session (r.upd added,
\* r.rem removed) and calls enqueue with the rows to write and to delete.
Commit(c, h, r) ==
    /\ cpc[c] = "idle"
    /\ h \in live
    /\ content' = [content EXCEPT ![h] = (@ \cup r.upd) \ r.rem]
    /\ cpc' = [cpc EXCEPT ![c] = "call"]
    /\ job' = [job EXCEPT ![c] =
                 [h |-> h, src |-> NoHandle, upd |-> r.upd, rem |-> r.rem]]
    /\ answer' = [answer EXCEPT ![c] = "none"]
    /\ UNCHANGED <<next, deletedBelow, live, slotVars, deleteVars,
                   guestVars, storeVars>>

\* enqueue, first half: the standing of the handle decides the source.
Judge(c) ==
    /\ cpc[c] = "call"
    /\ \E t \in Handles :
         /\ WritesFrom(job[c].h, t)
         /\ job' = [job EXCEPT ![c].src = t]
    /\ cpc' = [cpc EXCEPT ![c] = "judged"]
    /\ UNCHANGED <<lineageVars, answer, slotVars, deleteVars, guestVars,
                   storeVars>>

\* enqueue through a deleted handle, or one whose successors are gone.
Refuse(c) ==
    /\ cpc[c] = "call"
    /\ Refused(job[c].h)
    /\ Tell({c}, "err")
    /\ UNCHANGED <<lineageVars, slotVars, deleteVars, guestVars, storeVars>>

\* A slot object that nothing refers to.
Fresh(s) ==
    /\ wpc[s] = "none" /\ current # s
    /\ \A d \in Deleters : dslot[d] # s
    /\ \A g \in Guests : gslot[g] # s

\* queue: merge work into slot cur, or when none is registered start a new slot
\* with its writer task.  pend is the queued work of every slot at that point.
QueueWork(cur, pend, work) ==
    \/ /\ cur # NoSlot
       /\ current' = cur
       /\ pending' = [pend EXCEPT ![cur] = Merge(@, work)]
       /\ UNCHANGED wpc
    \/ /\ cur = NoSlot
       /\ \E s \in Slots :
            /\ Fresh(s)
            /\ current' = s
            /\ pending' = [pend EXCEPT ![s] = Merge(EmptyPending, work)]
            /\ wpc' = [wpc EXCEPT ![s] = "start"]

\* enqueue, second half.
Queue(c) ==
    /\ cpc[c] = "judged"
    /\ QueueWork(current, pending,
                 [src |-> job[c].src, upd |-> job[c].upd, rem |-> job[c].rem,
                  wait |-> {c}])
    /\ cpc' = [cpc EXCEPT ![c] = "waiting"]
    /\ UNCHANGED <<lineageVars, job, answer, batch, lastResult, failed, deleteVars,
                   guestVars, storeVars>>

\* persist_session_nowait drops its receiver at once, and
\* persist_session_and_wait after its timeout; the request stays queued.
GiveUp(c) ==
    /\ cpc[c] = "waiting"
    /\ cpc' = [cpc EXCEPT ![c] = "idle"]
    /\ pending' = [s \in Slots |-> [pending[s] EXCEPT !.wait = @ \ {c}]]
    /\ batch' = [s \in Slots |-> [batch[s] EXCEPT !.wait = @ \ {c}]]
    /\ answer' = [answer EXCEPT ![c] = "none"]
    /\ job' = [job EXCEPT ![c] = NoJob]
    /\ UNCHANGED <<lineageVars, current, wpc, lastResult, failed,
                   deleteVars, guestVars, storeVars>>

\* wait_idle, first half (wait_queued): wait for what is queued so far.
WaitIdle(c) ==
    /\ cpc[c] = "idle"
    /\ answer' = [answer EXCEPT ![c] = "none"]
    /\ \/ /\ current # NoSlot
          /\ pending' = [pending EXCEPT ![current].wait = @ \cup {c}]
          /\ cpc' = [cpc EXCEPT ![c] = "idling"]
       \/ /\ current = NoSlot
          /\ cpc' = [cpc EXCEPT ![c] = "retry"]
          /\ UNCHANGED pending
    /\ UNCHANGED <<lineageVars, job, current, wpc, batch, lastResult,
                   failed, deleteVars, guestVars, storeVars>>

\* wait_idle, second half: a failed last write is retried once, when the
\* handle it was made from is still alive.
Retry(c) ==
    /\ cpc[c] = "retry"
    /\ IF failed \in Alive
       THEN /\ job' = [job EXCEPT ![c] =
                         [h |-> failed, src |-> NoHandle, upd |-> {}, rem |-> {}]]
            /\ cpc' = [cpc EXCEPT ![c] = "call"]
       ELSE /\ cpc' = [cpc EXCEPT ![c] = "idle"]
            /\ UNCHANGED job
    /\ UNCHANGED <<lineageVars, answer, slotVars, deleteVars, guestVars,
                   storeVars>>

-----------------------------------------------------------------------------
(* The writer task of a slot: drain and write_batch. *)

\* Slot.write_lock is held by a running write, delete or guest.
LockFree(s) ==
    /\ wpc[s] # "writing"
    /\ \A d \in Deleters : ~(dpc[d] = "deleting" /\ dslot[d] = s)
    /\ \A g \in Guests : ~(gpc[g] = "running" /\ gslot[g] = s)

\* Mutant of WriterBegin: the source is not judged a second time.
WriterBegin_trusting(s) ==
    /\ wpc[s] = "start" /\ LockFree(s)
    /\ current = s
    /\ pending[s].src # NoHandle
    /\ batch' = [batch EXCEPT ![s] =
                   [h |-> pending[s].src, snap |-> content[pending[s].src],
                    upd |-> pending[s].upd, rem |-> pending[s].rem,
                    wait |-> pending[s].wait]]
    /\ pending' = [pending EXCEPT ![s] = EmptyPending]
    /\ wpc' = [wpc EXCEPT ![s] = "writing"]
    /\ UNCHANGED <<lineageVars, clientVars, current, lastResult, failed,
                   deleteVars, guestVars, storeVars>>

\* Take the queued work and start the storage write: the snapshot is loaded
\* here, and the standing of the source judged a second time.
WriterBegin(s) ==
    /\ wpc[s] = "start" /\ LockFree(s)
    /\ current = s
    /\ pending[s].src # NoHandle
    /\ \E t \in Handles :
         /\ WritesFrom(pending[s].src, t)
         /\ batch' = [batch EXCEPT ![s] =
                        [h |-> t, snap |-> content[t], upd |-> pending[s].upd,
                         rem |-> pending[s].rem, wait |-> pending[s].wait]]
    /\ pending' = [pending EXCEPT ![s] = EmptyPending]
    /\ wpc' = [wpc EXCEPT ![s] = "writing"]
    /\ UNCHANGED <<lineageVars, clientVars, current, lastResult, failed,
                   deleteVars, guestVars, storeVars>>

\* A batch that starts no write: the slot was retired by a delete, only
\* waiters were queued (they are told the last outcome), or the source may
\* not write.
WriterSkip(s) ==
    /\ wpc[s] = "start" /\ LockFree(s)
    /\ \/ /\ current = s /\ pending[s].src = NoHandle
          /\ Tell(pending[s].wait, lastResult[s])
       \/ /\ current # s \/ (pending[s].src # NoHandle /\ Refused(pending[s].src))
          /\ Tell(pending[s].wait, "err")
    /\ pending' = [pending EXCEPT ![s] = EmptyPending]
    /\ wpc' = [wpc EXCEPT ![s] = "recheck"]
    /\ UNCHANGED <<lineageVars, current, batch, lastResult, failed,
                   deleteVars, guestVars, storeVars>>

\* Mutant of SinkWrite: only the rows of the snapshot are written.
SinkWrite_snapshot(b) ==
    /\ rows' = (rows \cup b.snap) \ b.rem
    /\ blob' = b.h

\* PersistSink::write: rows of the snapshot that storage lacks and of the
\* request are added, the removed ones deleted; one atomic batch.
SinkWrite(b) ==
    /\ rows' = (rows \cup b.snap \cup b.upd) \ b.rem
    /\ blob' = b.h

\* The storage write lands.
WriterOk(s) ==
    /\ wpc[s] = "writing"
    /\ SinkWrite(batch[s])
    /\ failed' = NoHandle
    /\ lastResult' = [lastResult EXCEPT ![s] = "ok"]
    /\ Tell(batch[s].wait, "ok")
    /\ batch' = [batch EXCEPT ![s] = NoBatch]
    /\ wpc' = [wpc EXCEPT ![s] = "recheck"]
    /\ UNCHANGED <<lineageVars, current, pending, deleteVars, guestVars,
                   erasedBelow>>

\* Mutant of WriterErr: the waiters of the batch are not told.
WriterErr_silent(s) ==
    /\ wpc[s] = "writing"
    /\ failed' = batch[s].h
    /\ lastResult' = [lastResult EXCEPT ![s] = "err"]
    /\ batch' = [batch EXCEPT ![s] = NoBatch]
    /\ wpc' = [wpc EXCEPT ![s] = "recheck"]
    /\ UNCHANGED <<lineageVars, clientVars, current, pending, deleteVars,
                   guestVars, storeVars>>

\* The storage write fails: the handle is remembered, the request is not.
WriterErr(s) ==
    /\ wpc[s] = "writing"
    /\ failed' = batch[s].h
    /\ lastResult' = [lastResult EXCEPT ![s] = "err"]
    /\ Tell(batch[s].wait, "err")
    /\ batch' = [batch EXCEPT ![s] = NoBatch]
    /\ wpc' = [wpc EXCEPT ![s] = "recheck"]
    /\ UNCHANGED <<lineageVars, current, pending, deleteVars, guestVars,
                   storeVars>>

\* Mutant of WriterLoop: the writer stops without looking at the queue again.
WriterLoop_blind(s) ==
    /\ wpc[s] = "recheck"
    /\ current' = IF current = s THEN NoSlot ELSE current
    /\ wpc' = [wpc EXCEPT ![s] = "none"]
    /\ lastResult' = [lastResult EXCEPT ![s] = "ok"]
    /\ UNCHANGED <<lineageVars, clientVars, pending, batch, failed,
                   deleteVars, guestVars, storeVars>>

\* Unregister an empty slot and stop, stop when a delete retired the slot, or
\* go round again.
WriterLoop(s) ==
    /\ wpc[s] = "recheck"
    /\ \/ /\ IsEmpty(pending[s])
          /\ current' = IF current = s THEN NoSlot ELSE current
          /\ wpc' = [wpc EXCEPT ![s] = "none"]
          /\ lastResult' = [lastResult EXCEPT ![s] = "ok"]
       \/ /\ ~IsEmpty(pending[s])
          /\ wpc' = [wpc EXCEPT ![s] = "start"]
          /\ UNCHANGED <<current, lastResult>>
    /\ UNCHANGED <<lineageVars, clientVars, pending, batch, failed,
                   deleteVars, guestVars, storeVars>>

-----------------------------------------------------------------------------
(* delete. *)

\* Retire every handle registered so far, forget the failed write, look the
\* slot up.  Without a slot the storage delete starts with no lock.
DeleteRetire(d) ==
    /\ dpc[d] = "idle"
    /\ deletedBelow' = next
    /\ failed' = NoHandle
    /\ dbound' = [dbound EXCEPT ![d] = next]
    /\ dslot' = [dslot EXCEPT ![d] = current]
    /\ dpc' = [dpc EXCEPT ![d] = IF current = NoSlot THEN "deleting" ELSE "lock"]
    /\ UNCHANGED <<next, live, content, clientVars, current, pending, wpc,
                   batch, lastResult, guestVars, storeVars>>

\* Mutant of DeleteLock: the lock is not waited for.
DeleteLock_atOnce(d) ==
    /\ dpc[d] = "lock"
    /\ dpc' = [dpc EXCEPT ![d] = "deleting"]
    /\ UNCHANGED <<lineageVars, clientVars, slotVars, dslot, dbound, guestVars,
                   storeVars>>

\* Mutant of DeleteLock: the lock is taken only while its slot is registered.
DeleteLock_registered(d) ==
    /\ dpc[d] = "lock" /\ LockFree(dslot[d]) /\ current = dslot[d]
    /\ dpc' = [dpc EXCEPT ![d] = "deleting"]
    /\ UNCHANGED <<lineageVars, clientVars, slotVars, dslot, dbound, guestVars,
                   storeVars>>

\* The write lock is acquired: a running write has ended.
DeleteLock(d) ==
    /\ dpc[d] = "lock" /\ LockFree(dslot[d])
    /\ dpc' = [dpc EXCEPT ![d] = "deleting"]
    /\ UNCHANGED <<lineageVars, clientVars, slotVars, dslot, dbound, guestVars,
                   storeVars>>

\* PersistSink::delete: everything stored for the session goes, in one batch.
SinkDelete(d) ==
    /\ rows' = {} /\ blob' = NoHandle
    /\ erasedBelow' = IF dbound[d] > erasedBelow THEN dbound[d] ELSE erasedBelow

\* Mutant of RetireSlot: the waiters of dropped work are not told.
RetireSlot_silent(s) ==
    LET left == pending[s]
        emptied == [pending EXCEPT ![s] = EmptyPending]
        cur == IF current = s THEN NoSlot ELSE current
    IN
    \/ /\ left.src # NoHandle /\ Standing(left.src) # "deleted"
       /\ QueueWork(cur, emptied, left)
       /\ UNCHANGED clientVars
    \/ /\ left.src = NoHandle \/ Standing(left.src) = "deleted"
       /\ current' = cur
       /\ pending' = emptied
       /\ UNCHANGED <<wpc, clientVars>>

\* What a delete does with its slot s: s is unregistered and emptied, and the
\* work left in it goes to a new slot when its source is a handle registered
\* since, else it is failed.
RetireSlot(s) ==
    LET left == pending[s]
        emptied == [pending EXCEPT ![s] = EmptyPending]
        cur == IF current = s THEN NoSlot ELSE current
    IN
    \/ /\ left.src # NoHandle /\ Standing(left.src) # "deleted"
       /\ QueueWork(cur, emptied, left)
       /\ UNCHANGED clientVars
    \/ /\ left.src = NoHandle \/ Standing(left.src) = "deleted"
       /\ current' = cur
       /\ pending' = emptied
       /\ Tell(left.wait, "err")
       /\ UNCHANGED wpc

\* The storage delete ends, with success or not.
DeleteEnd(d, ok) ==
    /\ dpc[d] = "deleting"
    /\ IF ok THEN SinkDelete(d) ELSE UNCHANGED storeVars
    /\ dpc' = [dpc EXCEPT ![d] = "idle"]
    /\ dslot' = [dslot EXCEPT ![d] = NoSlot]
    /\ \/ /\ dslot[d] = NoSlot
          /\ UNCHANGED <<current, pending, wpc, clientVars>>
       \/ /\ dslot[d] # NoSlot
          /\ RetireSlot(dslot[d])
    /\ dbound' = [dbound EXCEPT ![d] = 0]
    /\ UNCHANGED <<lineageVars, batch, lastResult, failed, guestVars>>

-----------------------------------------------------------------------------
(* exclusive: SaveSession, AppendMessages, DeleteEntity, ... of the actor. *)

\* Look the slot up; without one the operation runs with no lock.
GuestEnter(g) ==
    /\ gpc[g] = "idle"
    /\ gslot' = [gslot EXCEPT ![g] = current]
    /\ gpc' = [gpc EXCEPT ![g] = IF current = NoSlot THEN "running" ELSE "lock"]
    /\ UNCHANGED <<lineageVars, clientVars, slotVars, deleteVars, storeVars>>

\* Mutant of GuestLock: the lock is taken only while its slot is registered.
GuestLock_registered(g) ==
    /\ gpc[g] = "lock" /\ LockFree(gslot[g]) /\ current = gslot[g]
    /\ gpc' = [gpc EXCEPT ![g] = "running"]
    /\ UNCHANGED <<lineageVars, clientVars, slotVars, deleteVars, gslot,
                   storeVars>>

GuestLock(g) ==
    /\ gpc[g] = "lock" /\ LockFree(gslot[g])
    /\ gpc' = [gpc EXCEPT ![g] = "running"]
    /\ UNCHANGED <<lineageVars, clientVars, slotVars, deleteVars, gslot,
                   storeVars>>

GuestLeave(g) ==
    /\ gpc[g] = "running"
    /\ gpc' = [gpc EXCEPT ![g] = "idle"]
    /\ gslot' = [gslot EXCEPT ![g] = NoSlot]
    /\ UNCHANGED <<lineageVars, clientVars, slotVars, deleteVars, storeVars>>

-----------------------------------------------------------------------------
Init ==
    /\ next = 0 /\ deletedBelow = 0 /\ live = {}
    /\ content = [h \in Handles |-> {}]
    /\ cpc = [c \in Clients |-> "idle"]
    /\ job = [c \in Clients |-> NoJob]
    /\ answer = [c \in Clients |-> "none"]
    /\ current = NoSlot
    /\ pending = [s \in Slots |-> EmptyPending]
    /\ wpc = [s \in Slots |-> "none"]
    /\ batch = [s \in Slots |-> NoBatch]
    /\ lastResult = [s \in Slots |-> "ok"]
    /\ failed = NoHandle
    /\ dpc = [d \in Deleters |-> "idle"]
    /\ dslot = [d \in Deleters |-> NoSlot]
    /\ dbound = [d \in Deleters |-> 0]
    /\ gpc = [g \in Guests |-> "idle"]
    /\ gslot = [g \in Guests |-> NoSlot]
    /\ rows = {} /\ blob = NoHandle /\ erasedBelow = 0

Next ==
    \/ \E us \in SUBSET Updates : Register(us)
    \/ \E h \in Handles : Drop(h)
    \/ SaveNew
    \/ \E c \in Clients :
         \/ \E h \in Handles, r \in Requests \cup {BlobOnly} : Commit(c, h, r)
         \/ Judge(c) \/ Refuse(c) \/ Queue(c) \/ GiveUp(c)
         \/ c \in Loaders /\ WaitIdle(c)
         \/ Retry(c)
    \/ \E s \in Slots :
         \/ WriterBegin(s) \/ WriterSkip(s)
         \/ WriterOk(s) \/ WriterErr(s) \/ WriterLoop(s)
    \/ \E d \in Deleters :
         \/ DeleteRetire(d) \/ DeleteLock(d)
         \/ \E ok \in BOOLEAN : DeleteEnd(d, ok)
    \/ \E g \in Guests : GuestEnter(g) \/ GuestLock(g) \/ GuestLeave(g)

Spec == Init /\ [][Next]_vars

\* A spawned task runs, a storage call returns, and a FIFO mutex is handed to
\* each task in its queue.  Nobody has to register, commit, give up or delete.
Fairness ==
    /\ \A c \in Clients : WF_vars(Judge(c) \/ Refuse(c) \/ Queue(c) \/ Retry(c))
    /\ \A s \in Slots :
         /\ SF_vars(WriterBegin(s) \/ WriterSkip(s))
         /\ WF_vars(WriterOk(s) \/ WriterErr(s) \/ WriterLoop(s))
    /\ \A d \in Deleters :
         /\ SF_vars(DeleteLock(d))
         /\ WF_vars(\E ok \in BOOLEAN : DeleteEnd(d, ok))
    /\ \A g \in Guests : SF_vars(GuestLock(g)) /\ WF_vars(GuestLeave(g))

FairSpec == Spec /\ Fairness

-----------------------------------------------------------------------------
(* Properties. *)

HandleOrNone == Handles \cup {NoHandle}
Outcomes == {"none", "ok", "err"}
JobType == [h : HandleOrNone, src : HandleOrNone,
            upd : SUBSET Updates, rem : SUBSET Updates]
PendingType == [src : HandleOrNone, upd : SUBSET Updates,
                rem : SUBSET Updates, wait : SUBSET Clients]
BatchType == [h : HandleOrNone, snap : SUBSET Updates, upd : SUBSET Updates,
              rem : SUBSET Updates, wait : SUBSET Clients]

\* Type invariant: every variable stays in its domain.
TypeOK ==
    /\ next \in 0 .. MaxGen /\ deletedBelow \in 0 .. MaxGen
    /\ live \subseteq Handles
    /\ content \in [Handles -> SUBSET Updates]
    /\ cpc \in [Clients -> {"idle", "call", "judged", "waiting", "idling", "retry"}]
    /\ job \in [Clients -> JobType]
    /\ answer \in [Clients -> Outcomes]
    /\ current \in Slots \cup {NoSlot}
    /\ pending \in [Slots -> PendingType]
    /\ wpc \in [Slots -> {"none", "start", "writing", "recheck"}]
    /\ batch \in [Slots -> BatchType]
    /\ lastResult \in [Slots -> Outcomes]
    /\ failed \in HandleOrNone
    /\ dpc \in [Deleters -> {"idle", "lock", "deleting"}]
    /\ dslot \in [Deleters -> Slots \cup {NoSlot}]
    /\ dbound \in [Deleters -> 0 .. MaxGen]
    /\ gpc \in [Guests -> {"idle", "lock", "running"}]
    /\ gslot \in [Guests -> Slots \cup {NoSlot}]
    /\ rows \subseteq Updates
    /\ blob \in HandleOrNone
    /\ erasedBelow \in 0 .. MaxGen

\* Two storage writes of one session never overlap, although a delete may
\* unregister a slot whose writer is still running and a second slot, with a
\* second writer, may replace it (Slot.write_lock, drain, delete).
WritesNeverOverlap ==
    \A s, t \in Slots : wpc[s] = "writing" /\ wpc[t] = "writing" => s = t

\* A request never lands in a slot nobody drains (comment in queue): queued
\* work is in the registered slot and that slot has a writer task.
NothingStranded ==
    \A s \in Slots : ~IsEmpty(pending[s]) => current = s /\ wpc[s] # "none"

\* No waiter is forgotten: a client that waits is in the queue, or in the
\* batch being written, of a slot that has a writer task.
WaitersKept ==
    \A c \in Waiting :
        \E s \in Slots :
            \/ c \in pending[s].wait /\ wpc[s] # "none"
            \/ c \in batch[s].wait /\ wpc[s] = "writing"

\* A deleted session is not written back: once a delete succeeded, the stored
\* snapshot is never one of a handle registered before that delete, and no row
\* is stored until a handle registers again, whatever persists of the retired
\* handles were queued, in flight or still to come (delete, standing,
\* write_batch).
DeletedStaysDeleted ==
    /\ blob # NoHandle => blob >= erasedBelow
    /\ next = erasedBelow => rows = {}

(* The inductive invariant behind the theorems of PersisterProofs. *)

\* Generations: what is erased was retired, what is retired was registered.
GenerationOrder == erasedBelow <= deletedBelow /\ deletedBelow <= next

\* The registered slot has a writer task.
RegisteredDrained == current # NoSlot => wpc[current] # "none"

\* A write is in flight only in the registered slot, from a handle that was
\* registered and that no finished delete retired.
InFlightCurrent ==
    \A s \in Slots : wpc[s] = "writing" =>
        /\ current = s
        /\ batch[s].h \in Handles
        /\ batch[s].h < next /\ erasedBelow <= batch[s].h

\* A running delete waits for, and then excludes, the writes of the handles it
\* retired.
DeletesOutrankWrites ==
    \A d \in Deleters : dpc[d] # "idle" =>
        /\ dbound[d] <= deletedBelow
        /\ dpc[d] = "lock" => dslot[d] # NoSlot
        /\ \A s \in Slots : wpc[s] = "writing" =>
             /\ dslot[d] = s => dpc[d] = "lock"
             /\ batch[s].h < dbound[d] => dslot[d] = s

\* The conjunction is inductive: a delete that finds no slot holds no lock, so
\* DeletedStaysDeleted needs to know that no write can be in flight then.
IInv ==
    /\ TypeOK
    /\ GenerationOrder
    /\ RegisteredDrained
    /\ NothingStranded
    /\ InFlightCurrent
    /\ DeletesOutrankWrites
    /\ DeletedStaysDeleted

\* A waiter told Ok finds the rows of its request in storage, unless the same
\* write was also asked to remove them (write_batch, merge, delete's requeue).
OkMeansStored ==
    [][\A c \in Clients :
         cpc[c] = "waiting" /\ cpc'[c] = "idle" /\ answer'[c] = "ok"
         => \A u \in job[c].upd :
              u \in rows' \/ \E s \in Slots : u \in batch[s].rem]_vars

\* Why: what carries a waiting client (the queued work with its source, or the
\* batch with its handle) has a handle to write from and every row of the
\* client's request, unless it removes it.
Carried(c, q, from) ==
    c \in q.wait =>
        /\ c \in Waiting
        /\ cpc[c] = "waiting" => from # NoHandle /\ job[c].upd \subseteq q.upd \cup q.rem

\* The inductive invariant behind OkMeansStored: also, nobody waits in a queue
\* and in a batch.
RequestsCarried ==
    /\ \A c \in Clients : cpc[c] = "judged" => job[c].src # NoHandle
    /\ \A s \in Slots :
         /\ batch[s].wait # {} => wpc[s] = "writing"
         /\ pending[s].wait \cap batch[s].wait = {}
         /\ \A c \in Clients : /\ Carried(c, pending[s], pending[s].src)
                               /\ Carried(c, batch[s], batch[s].h)

\* Every waiter is answered, whatever fails, is refused or is deleted meanwhile
\* (drain, write_batch, delete).
WaitersAnswered == \A c \in Clients : c \in Waiting ~> c \notin Waiting

\* Every delete ends, although the slot whose lock it waits for may be
\* unregistered by its writer meanwhile (delete, drain).
DeletesEnd == \A d \in Deleters : dpc[d] # "idle" ~> dpc[d] = "idle"

\* An operation under exclusive is never stuck on the lock of a slot that was
\* unregistered, emptied or replaced while it waited.
GuestsEnd == \A g \in Guests : gpc[g] # "idle" ~> gpc[g] = "idle"

\* Nobody waits for ever: not a client for its write, not a delete, not an
\* operation under exclusive.
CallersEnd == WaitersAnswered /\ DeletesEnd /\ GuestsEnd

=============================================================================
