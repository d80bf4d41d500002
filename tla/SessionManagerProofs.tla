------------------------- MODULE SessionManagerProofs -------------------------
(***************************************************************************)
(* The life cycle of a session implements the persister, for any number of *)
(* clients, sweepers, deletes, slots, updates and generations, so what     *)
(* PersisterProofs proves of the persister holds of the whole life cycle.  *)
(***************************************************************************)
EXTENDS SessionManager, PersisterProofs

\* What a step of the life cycle needs to be a step of the persister: handles
\* in use are handles, and a session is loaded with updates.
Loadable == TypeOK /\ buf \in [Clients -> SUBSET Updates]

\* A handle leaves the cache: a drop of the persister's, or nothing.
LEMMA UncacheImplements ==
    ASSUME TypeOK, Uncache PROVE [Next]_vars
<1>1. CASE UNCHANGED vars
  BY <1>1
<1>2. CASE Drop(cached)
  <2>1. cached \in Handles
    BY <1>2 DEF Drop, TypeOK
  <2> QED
    BY <1>2, <2>1 DEF Next
<1> QED
  BY <1>1, <1>2 DEF Uncache

\* A commit through a handle in use is a commit of the persister's.
LEMMA CommitImplements ==
    ASSUME TypeOK, NEW c \in Clients, NEW h, NEW r \in Requests \cup {BlobOnly},
           Commit(c, h, r)
    PROVE  Next
<1>1. h \in Handles
  BY DEF Commit, TypeOK
<1> QED
  BY <1>1 DEF Next

\* Every step of a client is a step of the persister's, or none.
LEMMA ClientImplements ==
    ASSUME Loadable, NEW c \in Clients,
           \/ Hit(c) \/ Miss(c) \/ GateHit(c) \/ GateMiss(c)
           \/ LoadStored(c) \/ LoadNew(c) \/ LoadFail(c) \/ Install(c)
           \/ \E r \in Requests : Operate(c, r)
           \/ Return(c)
           \/ EvictCheck(c) \/ EvictFlushed(c) \/ EvictRemove(c)
    PROVE  [Next]_vars
<1> USE DEF Loadable
<1>1. CASE Hit(c) \/ Miss(c) \/ GateHit(c) \/ LoadStored(c) \/ LoadFail(c) \/ EvictFlushed(c)
  BY <1>1 DEF Hit, Miss, GateHit, LoadStored, LoadFail, EvictFlushed
<1>2. CASE GateMiss(c)
  <2>1. WaitIdle(c) /\ c \in Loaders
    BY <1>2, SwitchAssumption DEF GateMiss
  <2> QED
    BY <2>1 DEF Next
<1>3. CASE LoadNew(c)
  BY <1>3 DEF LoadNew, Next
<1>4. CASE Install(c)
  <2>1. Register(buf[c]) /\ buf[c] \in SUBSET Updates
    BY <1>4 DEF Install
  <2> QED
    BY <2>1 DEF Next
<1>5. ASSUME NEW r \in Requests, Operate(c, r) PROVE Next
  <2>1. Commit(c, hold[c], r)
    BY <1>5 DEF Operate
  <2> QED
    BY <2>1, CommitImplements
<1>6. CASE Return(c)
  <2>1. CASE UNCHANGED vars
    BY <2>1
  <2>2. CASE Drop(hold[c])
    <3>1. hold[c] \in Handles
      BY <2>2 DEF Drop, TypeOK
    <3> QED
      BY <2>2, <3>1 DEF Next
  <2> QED
    BY <1>6, <2>1, <2>2 DEF Return
<1>7. CASE EvictCheck(c)
  <2>1. CASE UNCHANGED vars
    BY <2>1
  <2>2. CASE Commit(c, cached, BlobOnly)
    BY <2>2, CommitImplements
  <2>3. CASE WaitIdle(c)
    BY <2>3, SwitchAssumption DEF Next
  <2> QED
    BY <1>7, <2>1, <2>2, <2>3 DEF EvictCheck
<1>8. CASE EvictRemove(c)
  BY <1>8, UncacheImplements DEF EvictRemove
<1> QED
  BY <1>1, <1>2, <1>3, <1>4, <1>5, <1>6, <1>7, <1>8

\* Every step of the life cycle is a step of the persister's, or none.
LEMMA StepImplements == Loadable /\ [SMNext]_smVars => [Next]_vars
<1> SUFFICES ASSUME Loadable, [SMNext]_smVars PROVE [Next]_vars
  OBVIOUS
<1>1. ASSUME NEW d \in Deleters, DeleteTake(d) PROVE [Next]_vars
  BY <1>1, UncacheImplements DEF DeleteTake, Loadable
<1>2. ASSUME NEW d \in Deleters, DeleteStart(d) PROVE Next
  <2>1. DeleteRetire(d)
    BY <1>2 DEF DeleteStart
  <2> QED
    BY <2>1 DEF Next
<1>3. ASSUME NEW d \in Deleters, DeleteTimeout(d) PROVE UNCHANGED vars
  BY <1>3 DEF DeleteTimeout
<1>4. ASSUME NEW d \in Deleters, NEW ok \in BOOLEAN, DeleteDone(d, ok) PROVE Next
  <2>1. DeleteEnd(d, ok)
    BY <1>4 DEF DeleteDone
  <2> QED
    BY <2>1 DEF Next
<1>5. ASSUME EvictLru PROVE [Next]_vars
  BY <1>5, UncacheImplements DEF EvictLru, Loadable
<1>6. ASSUME PersisterStep PROVE Next
  BY <1>6 DEF PersisterStep, Next
<1>7. CASE UNCHANGED smVars
  BY <1>7 DEF smVars
<1>8. CASE SMNext
  BY <1>8, <1>1, <1>2, <1>3, <1>4, <1>5, <1>6, ClientImplements DEF SMNext
<1> QED
  BY <1>7, <1>8

\* What is loaded is what was stored.
LEMMA StepLoadable == Loadable /\ [SMNext]_smVars => Loadable'
<1> SUFFICES ASSUME Loadable, [SMNext]_smVars PROVE Loadable'
  OBVIOUS
<1>1. TypeOK'
  BY StepImplements, TypeStep DEF Loadable
<1>2. buf' \in [Clients -> SUBSET Updates]
  <2>1. \/ UNCHANGED buf
        \/ \E c \in Clients : LoadStored(c) \/ LoadNew(c) \/ Install(c)
    BY DEF SMNext, smVars, taskVars, Hit, Miss, GateHit, GateMiss, LoadFail, Operate, Return,
           EvictCheck, EvictFlushed, EvictRemove, EvictLru, DeleteTake, DeleteStart,
           DeleteTimeout, DeleteDone, PersisterStep
  <2>2. ASSUME NEW c \in Clients, LoadStored(c) \/ LoadNew(c) \/ Install(c)
        PROVE buf' \in [Clients -> SUBSET Updates]
    BY <2>2 DEF Loadable, TypeOK, LoadStored, LoadNew, Install
  <2> QED
    BY <2>1, <2>2 DEF Loadable
<1> QED
  BY <1>1, <1>2 DEF Loadable

\* Loads, evictions, sweeps, timeouts and deletes of a session drive the
\* persister only in ways its specification allows.
THEOREM LifeCycleImplementsPersister == SMSpec => ImplementsPersister
<1>1. SMInit => Init /\ Loadable
  <2> SUFFICES ASSUME SMInit PROVE Init /\ Loadable
    OBVIOUS
  <2>1. Init
    BY DEF SMInit
  <2>2. TypeOK
    BY <2>1, InitIInv DEF IInv
  <2>3. buf \in [Clients -> SUBSET Updates]
    BY DEF SMInit
  <2> QED
    BY <2>1, <2>2, <2>3 DEF Loadable
<1> QED
  BY <1>1, StepImplements, StepLoadable, PTL DEF SMSpec, ImplementsPersister, Spec

\* A deleted session is not written back, whoever loads, evicts or re-creates
\* it (delete_session, load_or_create).
THEOREM LifeCycleDeleteIsFinal == SMSpec => []DeletedStaysDeleted
  BY LifeCycleImplementsPersister, DeleteIsFinal, PTL DEF ImplementsPersister

\* The persister's other promises hold of the whole life cycle: writes do not
\* overlap, no request is stranded, no waiter forgotten.
THEOREM LifeCycleInherits == SMSpec => [](WritesNeverOverlap /\ NothingStranded /\ WaitersKept)
  BY LifeCycleImplementsPersister, WriteExclusion, RequestsDrained, WaitersNeverForgotten, PTL
  DEF ImplementsPersister

-----------------------------------------------------------------------------
(* Single flight. *)

\* Steps that leave gate and cache alone, and start or end no load.
LEMMA FlightKept ==
    ASSUME FlightInv, NEW c \in Clients, NEW l \in TaskSteps \ {"load", "install"},
           tpc' = [tpc EXCEPT ![c] = l],
           gate' = gate \/ gate = c, cached' = cached \/ cached' = NoHandle
    PROVE  FlightInv'
<1>1. tpc' \in [Clients -> TaskSteps]
  BY DEF FlightInv
<1>2. ASSUME NEW k \in Clients, tpc'[k] \in {"load", "install"}
      PROVE gate' = k /\ cached' = NoHandle
  <2>1. k # c /\ tpc[k] \in {"load", "install"}
    BY <1>2 DEF FlightInv
  <2>2. gate = k /\ cached = NoHandle
    BY <2>1 DEF FlightInv
  <2> QED
    BY <2>1, <2>2
<1> QED
  BY <1>1, <1>2 DEF FlightInv

\* Every step of a client keeps the gate with the task that loads.
LEMMA ClientFlight ==
    ASSUME FlightInv, NEW c \in Clients,
           \/ Hit(c) \/ Miss(c) \/ GateHit(c) \/ GateMiss(c)
           \/ LoadStored(c) \/ LoadNew(c) \/ LoadFail(c) \/ Install(c)
           \/ \E r \in Requests : Operate(c, r)
           \/ Return(c)
           \/ EvictCheck(c) \/ EvictFlushed(c) \/ EvictRemove(c)
    PROVE  FlightInv'
<1>1. CASE Hit(c) \/ Miss(c) \/ GateHit(c)
  BY <1>1, FlightKept, Zenon DEF Hit, Miss, GateHit, TaskSteps
<1>2. CASE GateMiss(c)
  <2>1. gate = Free /\ gate' = c /\ cached = NoHandle /\ cached' = cached
    BY <1>2 DEF GateMiss
  <2>2. \A k \in Clients : tpc[k] \notin {"load", "install"}
    BY <2>1, TaskAssumption DEF FlightInv
  <2>3. tpc' = [tpc EXCEPT ![c] = "load"]
    BY <1>2 DEF GateMiss
  <2> QED
    BY <2>1, <2>2, <2>3 DEF FlightInv, TaskSteps
<1>3. CASE LoadStored(c) \/ LoadNew(c)
  <2>1. tpc[c] = "load" /\ tpc' = [tpc EXCEPT ![c] = "install"]
        /\ gate' = gate /\ cached' = cached
    BY <1>3 DEF LoadStored, LoadNew
  <2> QED
    BY <2>1 DEF FlightInv, TaskSteps
<1>4. CASE LoadFail(c) \/ Install(c)
  <2>1. tpc[c] \in {"load", "install"}
    BY <1>4 DEF LoadFail, Install
  <2>2. gate = c
    BY <2>1 DEF FlightInv
  <2>3. \A k \in Clients \ {c} : tpc[k] \notin {"load", "install"}
    BY <2>2 DEF FlightInv
  <2>4. PICK l \in {"idle", "have"} : tpc' = [tpc EXCEPT ![c] = l]
    BY <1>4 DEF LoadFail, Install
  <2> QED
    BY <2>3, <2>4 DEF FlightInv, TaskSteps
<1>5. ASSUME NEW r \in Requests, Operate(c, r) PROVE FlightInv'
  BY <1>5, FlightKept, Zenon DEF Operate, TaskSteps
<1>6. CASE Return(c)
  BY <1>6, FlightKept, Zenon DEF Return, TaskSteps
<1>7. CASE EvictCheck(c)
  <2>1. gate' = gate /\ cached' = cached
    BY <1>7 DEF EvictCheck
  <2>2. \E l \in {"evict", "flush"} : tpc' = [tpc EXCEPT ![c] = l]
    BY <1>7, Zenon DEF EvictCheck
  <2> QED
    BY <2>1, <2>2, FlightKept DEF TaskSteps
<1>8. CASE EvictFlushed(c)
  <2>1. gate' = gate /\ cached' = cached
    BY <1>8 DEF EvictFlushed
  <2>2. \E l \in {"evict", "idle"} : tpc' = [tpc EXCEPT ![c] = l]
    BY <1>8 DEF EvictFlushed
  <2> QED
    BY <2>1, <2>2, FlightKept DEF TaskSteps
<1>9. CASE EvictRemove(c)
  BY <1>9, FlightKept, Zenon DEF EvictRemove, Uncache, TaskSteps
<1> QED
  BY <1>1, <1>2, <1>3, <1>4, <1>5, <1>6, <1>7, <1>8, <1>9

\* Every step keeps the gate with the task that loads, also when a delete times
\* out and leaves it.
LEMMA StepFlight == FlightInv /\ [SMNext]_smVars => FlightInv'
<1> SUFFICES ASSUME FlightInv, [SMNext]_smVars PROVE FlightInv'
  OBVIOUS
<1>1. ASSUME tpc' = tpc, cached' = cached \/ cached' = NoHandle,
             \/ gate' = gate
             \/ gate \notin Clients
      PROVE FlightInv'
  BY <1>1 DEF FlightInv
<1>2. ASSUME NEW d \in Deleters, DeleteTake(d) PROVE FlightInv'
  <2>1. gate \notin Clients
    BY <1>2, TaskAssumption DEF DeleteTake
  <2> QED
    BY <1>1, <1>2, <2>1 DEF DeleteTake, Uncache
<1>3. ASSUME NEW d \in Deleters, DeleteStart(d) \/ DeleteTimeout(d) PROVE FlightInv'
  <2>1. d \notin Clients
    BY TaskAssumption
  <2> QED
    BY <1>1, <1>3, <2>1 DEF DeleteStart, DeleteTimeout
<1>4. ASSUME NEW d \in Deleters, NEW ok \in BOOLEAN, DeleteDone(d, ok) PROVE FlightInv'
  <2>1. d \notin Clients
    BY TaskAssumption
  <2> QED
    BY <1>1, <1>4, <2>1 DEF DeleteDone
<1>5. ASSUME EvictLru PROVE FlightInv'
  BY <1>1, <1>5 DEF EvictLru, Uncache, taskVars
<1>6. ASSUME PersisterStep PROVE FlightInv'
  BY <1>1, <1>6 DEF PersisterStep, taskVars
<1>7. CASE UNCHANGED smVars
  BY <1>1, <1>7 DEF smVars, taskVars
<1>8. CASE SMNext
  BY <1>8, <1>2, <1>3, <1>4, <1>5, <1>6, ClientFlight DEF SMNext
<1> QED
  BY <1>7, <1>8

\* Loads of a session are single flight, with any number of clients, deletes
\* and requests that time out (load_or_create, with_load_gate).
THEOREM LoadsAreSingleFlight == SMSpec => []SingleFlight
<1>1. SMInit => FlightInv
  BY DEF SMInit, FlightInv, TaskSteps
<1>2. FlightInv => SingleFlight
  BY DEF FlightInv, SingleFlight
<1> QED
  BY <1>1, <1>2, StepFlight, PTL DEF SMSpec

-----------------------------------------------------------------------------
(* What was acknowledged is durable. *)

\* A waiter told Ok finds its rows stored, whoever loads, evicts, sweeps or
\* deletes the session meanwhile (persist_session_and_wait).
THEOREM LifeCycleOkIsDurable == SMSpec => OkMeansStored
  BY LifeCycleImplementsPersister, OkIsDurable, PTL DEF ImplementsPersister

\* The steps of the life cycle that register no handle, tell nobody Ok and
\* leave the stored rows alone.
LEMMA QuietSteps ==
    ASSUME Loadable, NEW c \in Clients,
           \/ Hit(c) \/ Miss(c) \/ GateHit(c) \/ GateMiss(c)
           \/ LoadStored(c) \/ LoadNew(c) \/ LoadFail(c) \/ Return(c)
           \/ EvictCheck(c) \/ EvictFlushed(c) \/ EvictRemove(c)
    PROVE  /\ UNCHANGED <<next, rows, dbound, mpc, born, dropped, acked>>
           /\ live' \subseteq live
           /\ gate' = gate \/ gate' \in {c, Free}
           /\ \A k \in Clients : job'[k] = job[k] \/ job'[k].rem = {}
<1> USE DEF Loadable, historyVars, lineageVars, clientVars, storeVars, deleteVars, taskVars
<1>1. CASE Hit(c) \/ Miss(c) \/ GateHit(c) \/ LoadStored(c) \/ LoadFail(c) \/ EvictFlushed(c)
  BY <1>1 DEF Hit, Miss, GateHit, LoadStored, LoadFail, EvictFlushed, vars
<1>2. CASE GateMiss(c)
  BY <1>2 DEF GateMiss, WaitIdle
<1>3. CASE LoadNew(c)
  BY <1>3 DEF LoadNew, SaveNew
<1>4. CASE Return(c)
  BY <1>4 DEF Return, Drop, vars
<1>5. CASE EvictCheck(c)
  <2>1. CASE UNCHANGED vars
    BY <1>5, <2>1 DEF EvictCheck, vars
  <2>2. CASE Commit(c, cached, BlobOnly)
    BY <1>5, <2>2 DEF EvictCheck, Commit, BlobOnly, TypeOK
  <2>3. CASE WaitIdle(c)
    BY <1>5, <2>3 DEF EvictCheck, WaitIdle
  <2> QED
    BY <1>5, <2>1, <2>2, <2>3 DEF EvictCheck
<1>6. CASE EvictRemove(c)
  BY <1>6 DEF EvictRemove, Uncache, Drop, vars
<1> QED
  BY <1>1, <1>2, <1>3, <1>4, <1>5, <1>6

\* The same for the steps of a delete before it ends, and of the LRU cache.
LEMMA QuietDeletes ==
    ASSUME NEW d \in Deleters, DeleteTake(d) \/ DeleteStart(d) \/ DeleteTimeout(d) \/ EvictLru
    PROVE  /\ UNCHANGED <<next, rows, job, born, dropped, acked>>
           /\ live' \subseteq live
<1> USE DEF historyVars, lineageVars, clientVars, storeVars, deleteVars, taskVars
<1>1. CASE DeleteTake(d) \/ EvictLru
  BY <1>1 DEF DeleteTake, EvictLru, Uncache, Drop, vars
<1>2. CASE DeleteStart(d)
  BY <1>2 DEF DeleteStart, DeleteRetire
<1>3. CASE DeleteTimeout(d)
  BY <1>3 DEF DeleteTimeout, vars
<1> QED
  BY <1>1, <1>2, <1>3

\* The steps of the persister under the life cycle register nothing, and a row
\* only leaves storage when its removal was asked for.
LEMMA PersisterStepRows ==
    ASSUME TypeOK, PersisterStep, NEW asked, RemovalsAsked(asked)
    PROVE  /\ UNCHANGED <<next, live, dbound, erasedBelow>>
           /\ rows \ rows' \subseteq asked
           /\ \A k \in Clients : job'[k].rem \subseteq asked
<1> USE DEF lineageVars, clientVars, storeVars, deleteVars, slotVars, RemovalsAsked
<1>1. ASSUME NEW c \in Clients, Judge(c) \/ Refuse(c) \/ Queue(c) \/ GiveUp(c) \/ Retry(c)
      PROVE  /\ UNCHANGED <<next, live, dbound, erasedBelow, rows>>
             /\ \A k \in Clients : job'[k].rem \subseteq asked
  <2>1. CASE Judge(c)
    <3>1. PICK t \in Handles : job' = [job EXCEPT ![c].src = t]
      BY <2>1 DEF Judge
    <3>2. \A k \in Clients : job[k] \in JobType
      BY DEF TypeOK
    <3>3. \A k \in Clients : job'[k].rem = job[k].rem
      BY <3>1, <3>2 DEF JobType, TypeOK
    <3> QED
      BY <2>1, <3>3 DEF Judge
  <2>2. CASE Refuse(c)
    BY <2>2 DEF Refuse, Tell, NoJob
  <2>3. CASE Queue(c)
    BY <2>3 DEF Queue
  <2>4. CASE GiveUp(c)
    BY <2>4 DEF GiveUp, NoJob, TypeOK
  <2>5. CASE Retry(c)
    BY <2>5 DEF Retry, TypeOK
  <2> QED
    BY <1>1, <2>1, <2>2, <2>3, <2>4, <2>5
<1>2. ASSUME NEW s \in Slots, WriterBegin(s) \/ WriterSkip(s) \/ WriterErr(s) \/ WriterLoop(s)
      PROVE  /\ UNCHANGED <<next, live, dbound, erasedBelow, rows>>
             /\ \A k \in Clients : job'[k].rem \subseteq asked
  <2>1. CASE WriterBegin(s) \/ WriterLoop(s)
    BY <2>1 DEF WriterBegin, WriterLoop
  <2>2. CASE WriterSkip(s) \/ WriterErr(s)
    BY <2>2 DEF WriterSkip, WriterErr, Tell, NoJob
  <2> QED
    BY <1>2, <2>1, <2>2
<1>3. ASSUME NEW s \in Slots, WriterOk(s)
      PROVE  /\ UNCHANGED <<next, live, dbound, erasedBelow>>
             /\ rows \ rows' \subseteq asked
             /\ \A k \in Clients : job'[k].rem \subseteq asked
  BY <1>3 DEF WriterOk, SinkWrite, Tell, NoJob
<1>4. ASSUME NEW d \in Deleters, DeleteLock(d)
      PROVE  UNCHANGED <<next, live, dbound, erasedBelow, rows, job>>
  BY <1>4 DEF DeleteLock
<1> QED
  BY <1>1, <1>2, <1>3, <1>4 DEF PersisterStep

\* Queued work and batches remove only what some client's request removes.
LEMMA RemovalsStep ==
    ASSUME TypeOK, [Next]_vars, NEW asked, RemovalsAsked(asked),
           \A c \in Clients : job'[c].rem \subseteq asked
    PROVE  RemovalsAsked(asked)'
<1> SUFFICES \A s \in Slots : pending'[s].rem \subseteq asked /\ batch'[s].rem \subseteq asked
  BY DEF RemovalsAsked
<1> USE DEF RemovalsAsked, lineageVars, clientVars, slotVars, deleteVars, guestVars, storeVars
<1>m. \A p, w : p.rem \subseteq asked /\ w.rem \subseteq asked => Merge(p, w).rem \subseteq asked
  BY DEF Merge
<1>e. EmptyPending.rem = {} /\ NoBatch.rem = {}
  BY DEF EmptyPending, NoBatch
<1>q. ASSUME NEW cur \in Slots \cup {NoSlot}, NEW w \in PendingType, NEW pend \in [Slots -> PendingType],
             QueueWork(cur, pend, w), w.rem \subseteq asked, \A s \in Slots : pend[s].rem \subseteq asked
      PROVE  \A s \in Slots : pending'[s].rem \subseteq asked
  BY <1>q, <1>m, <1>e DEF QueueWork
<1>1. ASSUME UNCHANGED <<pending, batch>>
      PROVE  \A s \in Slots : pending'[s].rem \subseteq asked /\ batch'[s].rem \subseteq asked
  BY <1>1
<1>2. ASSUME NEW c \in Clients, Queue(c)
      PROVE  \A s \in Slots : pending'[s].rem \subseteq asked /\ batch'[s].rem \subseteq asked
  <2>1. job[c] \in JobType /\ current \in Slots \cup {NoSlot} /\ pending \in [Slots -> PendingType]
    BY DEF TypeOK
  <2>2. PICK w : w = [src |-> job[c].src, upd |-> job[c].upd, rem |-> job[c].rem, wait |-> {c}]
    OBVIOUS
  <2>3. w \in PendingType /\ w.rem \subseteq asked
    BY <2>1, <2>2 DEF JobType, PendingType
  <2> QED
    BY <1>2, <2>1, <2>2, <2>3, <1>q DEF Queue
<1>3. ASSUME NEW c \in Clients, GiveUp(c) \/ WaitIdle(c)
      PROVE  \A s \in Slots : pending'[s].rem \subseteq asked /\ batch'[s].rem \subseteq asked
  <2>1. \A s \in Slots : pending[s] \in PendingType /\ batch[s] \in BatchType
    BY DEF TypeOK
  <2>2. CASE GiveUp(c)
    BY <2>1, <2>2 DEF GiveUp, PendingType, BatchType
  <2>3. CASE WaitIdle(c)
    <3>1. UNCHANGED batch
      BY <2>3 DEF WaitIdle
    <3>2. \A s \in Slots : pending'[s] = pending[s] \/ pending'[s] = [pending[s] EXCEPT !.wait = @ \cup {c}]
      <4>1. \/ UNCHANGED pending
            \/ current # NoSlot /\ pending' = [pending EXCEPT ![current].wait = @ \cup {c}]
        BY <2>3 DEF WaitIdle
      <4>2. pending \in [Slots -> PendingType]
        BY DEF TypeOK
      <4> QED
        BY <4>1, <4>2
    <3> QED
      BY <2>1, <3>1, <3>2 DEF PendingType
  <2> QED
    BY <1>3, <2>2, <2>3
<1>4. ASSUME NEW s \in Slots, WriterBegin(s)
      PROVE  \A k \in Slots : pending'[k].rem \subseteq asked /\ batch'[k].rem \subseteq asked
  BY <1>4, <1>e DEF WriterBegin, TypeOK
<1>5. ASSUME NEW s \in Slots, WriterSkip(s) \/ WriterOk(s) \/ WriterErr(s)
      PROVE  \A k \in Slots : pending'[k].rem \subseteq asked /\ batch'[k].rem \subseteq asked
  BY <1>5, <1>e DEF WriterSkip, WriterOk, WriterErr, TypeOK
<1>6. ASSUME NEW d \in Deleters, NEW ok \in BOOLEAN, DeleteEnd(d, ok)
      PROVE  \A k \in Slots : pending'[k].rem \subseteq asked /\ batch'[k].rem \subseteq asked
  <2>1. CASE dslot[d] = NoSlot
    BY <1>1, <1>6, <2>1 DEF DeleteEnd
  <2>2. CASE dslot[d] # NoSlot
    <3>1. PICK left, emptied, cur :
             /\ left = pending[dslot[d]]
             /\ emptied = [pending EXCEPT ![dslot[d]] = EmptyPending]
             /\ cur = IF current = dslot[d] THEN NoSlot ELSE current
      OBVIOUS
    <3>2. /\ left \in PendingType /\ emptied \in [Slots -> PendingType]
          /\ cur \in Slots \cup {NoSlot} /\ left.rem \subseteq asked
          /\ \A s \in Slots : emptied[s].rem \subseteq asked
      BY <2>2, <3>1, <1>e, ConstantTypes DEF TypeOK
    <3>3. pending' = emptied \/ QueueWork(cur, emptied, left)
      BY <1>6, <2>2, <3>1 DEF DeleteEnd, RetireSlot
    <3>4. UNCHANGED batch
      BY <1>6 DEF DeleteEnd
    <3> QED
      BY <3>2, <3>3, <3>4, <1>q
  <2> QED
    BY <2>1, <2>2
<1>7. ASSUME NEW c \in Clients, Judge(c) \/ Refuse(c) \/ Retry(c) PROVE UNCHANGED <<pending, batch>>
  BY <1>7 DEF Judge, Refuse, Retry
<1>8. ASSUME NEW c \in Clients, NEW h \in Handles, NEW r \in Requests \cup {BlobOnly}, Commit(c, h, r)
      PROVE  UNCHANGED <<pending, batch>>
  BY <1>8 DEF Commit
<1>9. ASSUME NEW us \in SUBSET Updates, Register(us) PROVE UNCHANGED <<pending, batch>>
  BY <1>9 DEF Register
<1>10. ASSUME NEW h \in Handles, Drop(h) PROVE UNCHANGED <<pending, batch>>
  BY <1>10 DEF Drop
<1>11. ASSUME NEW s \in Slots, WriterLoop(s) PROVE UNCHANGED <<pending, batch>>
  BY <1>11 DEF WriterLoop
<1>12. ASSUME NEW d \in Deleters, DeleteRetire(d) \/ DeleteLock(d) PROVE UNCHANGED <<pending, batch>>
  BY <1>12 DEF DeleteRetire, DeleteLock
<1>13. ASSUME NEW g \in Guests, GuestEnter(g) \/ GuestLock(g) \/ GuestLeave(g)
       PROVE  UNCHANGED <<pending, batch>>
  BY <1>13 DEF GuestEnter, GuestLock, GuestLeave
<1>14. ASSUME SaveNew \/ UNCHANGED vars PROVE UNCHANGED <<pending, batch>>
  BY <1>14 DEF SaveNew, vars
<1> QED
  BY <1>1, <1>2, <1>3, <1>4, <1>5, <1>6, <1>7, <1>8, <1>9, <1>10, <1>11, <1>12, <1>13, <1>14 DEF Next

\* A removal under way, and a row that leaves storage, was asked for.
LEMMA DurableRemovals ==
    ASSUME Loadable, DurableInv, [SMNext]_smVars PROVE RemovalsAsked(dropped)'
<1>1. PICK asked : asked = dropped'
  OBVIOUS
<1>2. dropped \subseteq asked /\ \A c \in Clients : job'[c].rem \subseteq asked
  <2> USE DEF DurableInv, RemovalsAsked
  <2>1. ASSUME NEW c \in Clients,
               \/ Hit(c) \/ Miss(c) \/ GateHit(c) \/ GateMiss(c)
               \/ LoadStored(c) \/ LoadNew(c) \/ LoadFail(c) \/ Return(c)
               \/ EvictCheck(c) \/ EvictFlushed(c) \/ EvictRemove(c)
        PROVE  dropped \subseteq dropped' /\ \A k \in Clients : job'[k].rem \subseteq dropped'
    BY <2>1, QuietSteps
  <2>2. ASSUME NEW c \in Clients, Install(c)
        PROVE  dropped \subseteq dropped' /\ \A k \in Clients : job'[k].rem \subseteq dropped'
    BY <2>2 DEF Install, Register, clientVars, historyVars
  <2>3. ASSUME NEW c \in Clients, NEW r \in Requests, Operate(c, r)
        PROVE  dropped \subseteq dropped' /\ \A k \in Clients : job'[k].rem \subseteq dropped'
    BY <2>3 DEF Operate, Commit, Loadable, TypeOK
  <2>4. ASSUME NEW d \in Deleters, DeleteTake(d) \/ DeleteStart(d) \/ DeleteTimeout(d)
        PROVE  dropped \subseteq dropped' /\ \A k \in Clients : job'[k].rem \subseteq dropped'
    BY <2>4, QuietDeletes
  <2>5. ASSUME EvictLru
        PROVE  dropped \subseteq dropped' /\ \A k \in Clients : job'[k].rem \subseteq dropped'
    BY <2>5 DEF EvictLru, Uncache, Drop, vars, clientVars, historyVars
  <2>6. ASSUME NEW d \in Deleters, NEW ok \in BOOLEAN, DeleteDone(d, ok)
        PROVE  dropped \subseteq dropped' /\ \A k \in Clients : job'[k].rem \subseteq dropped'
    <3>1. UNCHANGED clientVars \/ \E ws : Tell(ws, "err")
      BY <2>6 DEF DeleteDone, DeleteEnd, RetireSlot
    <3>2. \A k \in Clients : job'[k] = job[k] \/ job'[k].rem = {}
      BY <3>1 DEF Tell, clientVars, NoJob
    <3> QED
      BY <2>6, <3>2 DEF DeleteDone
  <2>7. ASSUME PersisterStep
        PROVE  dropped \subseteq dropped' /\ \A k \in Clients : job'[k].rem \subseteq dropped'
    BY <2>7, PersisterStepRows DEF PersisterStep, Loadable
  <2>8. CASE UNCHANGED smVars
    BY <1>1, <2>8 DEF smVars, vars, clientVars, historyVars
  <2> QED
    BY <1>1, <2>1, <2>2, <2>3, <2>4, <2>5, <2>6, <2>7, <2>8 DEF SMNext
<1>3. RemovalsAsked(asked)
  BY <1>2 DEF DurableInv, RemovalsAsked
<1>4. RemovalsAsked(asked)'
  BY <1>2, <1>3, RemovalsStep, StepImplements DEF Loadable
<1> QED
  BY <1>1, <1>4 DEF RemovalsAsked

\* Updates are committed to registered handles, and the delete whose caller
\* waits erases them all.
LEMMA DurableHandles ==
    ASSUME Loadable, FlightInv, DurableInv, [SMNext]_smVars
    PROVE  /\ born' \in [Updates -> HandleOrNone]
           /\ mpc' \in [Deleters -> {"idle", "sent", "running"}]
           /\ HandlesRegistered' /\ DeleteCovers'
<1> DEFINE Goal == /\ born' \in [Updates -> HandleOrNone]
                   /\ mpc' \in [Deleters -> {"idle", "sent", "running"}]
                   /\ HandlesRegistered' /\ DeleteCovers'
<1> USE TaskAssumption DEF DurableInv, HandlesRegistered, DeleteCovers
<1>1. ASSUME NEW c \in Clients,
             \/ Hit(c) \/ Miss(c) \/ GateHit(c) \/ GateMiss(c)
             \/ LoadStored(c) \/ LoadNew(c) \/ LoadFail(c) \/ Return(c)
             \/ EvictCheck(c) \/ EvictFlushed(c) \/ EvictRemove(c)
      PROVE  Goal
  <2>1. /\ UNCHANGED <<next, dbound, mpc, born>> /\ live' \subseteq live
        /\ gate' = gate \/ gate' \in {c, Free}
    BY <1>1, QuietSteps
  <2> QED
    BY <2>1
<1>2. ASSUME NEW c \in Clients, Install(c) PROVE Goal
  <2>1. /\ next' = next + 1 /\ live' = live \cup {next} /\ gate' = Free
        /\ UNCHANGED <<mpc, born>> /\ next \in Nat /\ live \subseteq Int
    BY <1>2 DEF Install, Register, historyVars, Loadable, TypeOK, Handles
  <2>2. \A u \in Updates : born[u] \in Int
    BY DEF HandleOrNone, Handles, NoHandle
  <2> QED
    BY <2>1, <2>2
<1>3. ASSUME NEW c \in Clients, NEW r \in Requests, Operate(c, r) PROVE Goal
  <2>1. hold[c] \in live /\ hold[c] < next /\ hold[c] \in Handles
    BY <1>3 DEF Operate, Commit, Loadable, TypeOK
  <2>2. /\ born' = [u \in Updates |-> IF u \in r.upd THEN hold[c] ELSE born[u]]
        /\ UNCHANGED <<next, live, mpc, gate, dbound>>
    BY <1>3 DEF Operate, Commit, deleteVars
  <2> QED
    BY <2>1, <2>2 DEF HandleOrNone
<1>4. ASSUME NEW d \in Deleters, DeleteTake(d) PROVE Goal
  <2>1. /\ UNCHANGED <<next, born>> /\ live' \subseteq live
    BY <1>4, QuietDeletes
  <2>2. mpc' = [mpc EXCEPT ![d] = "sent"] /\ gate' = d
    BY <1>4 DEF DeleteTake
  <2> QED
    BY <2>1, <2>2
<1>5. ASSUME NEW d \in Deleters, DeleteStart(d) PROVE Goal
  <2>1. /\ UNCHANGED <<next, born>> /\ live' \subseteq live
    BY <1>5, QuietDeletes
  <2>2. /\ mpc' = [mpc EXCEPT ![d] = "running"] /\ gate' = gate
        /\ dbound' = [dbound EXCEPT ![d] = next]
    BY <1>5 DEF DeleteStart, DeleteRetire
  <2> QED
    BY <2>1, <2>2 DEF Loadable, TypeOK
<1>6. ASSUME NEW d \in Deleters, DeleteTimeout(d) PROVE Goal
  <2>1. /\ UNCHANGED <<next, born>> /\ live' \subseteq live
    BY <1>6, QuietDeletes
  <2>2. UNCHANGED <<mpc, dbound>> /\ gate' = Free
    BY <1>6 DEF DeleteTimeout, vars, deleteVars
  <2> QED
    BY <2>1, <2>2
<1>7. ASSUME EvictLru PROVE Goal
  BY <1>7 DEF EvictLru, Uncache, Drop, vars, lineageVars, deleteVars, historyVars, taskVars
<1>8. ASSUME NEW d \in Deleters, NEW ok \in BOOLEAN, DeleteDone(d, ok) PROVE Goal
  <2>1. /\ UNCHANGED <<next, live, born>> /\ mpc' = [mpc EXCEPT ![d] = "idle"]
        /\ dbound' = [dbound EXCEPT ![d] = 0] /\ (gate' = gate \/ gate' = Free)
    BY <1>8 DEF DeleteDone, DeleteEnd, lineageVars
  <2> QED
    BY <2>1 DEF Loadable, TypeOK
<1>9. ASSUME PersisterStep PROVE Goal
  <2>1. UNCHANGED <<next, live, dbound>>
    BY <1>9, PersisterStepRows DEF Loadable
  <2> QED
    BY <1>9, <2>1 DEF PersisterStep, taskVars
<1>10. CASE UNCHANGED smVars
  BY <1>10 DEF smVars, vars, lineageVars, deleteVars, taskVars, historyVars
<1> QED
  BY <1>1, <1>2, <1>3, <1>4, <1>5, <1>6, <1>7, <1>8, <1>9, <1>10 DEF SMNext

\* What is acknowledged and not removed stays stored.
LEMMA DurableAcks ==
    ASSUME IInv, RequestsCarried, Loadable, DurableInv, [SMNext]_smVars
    PROVE  acked' \subseteq Updates /\ AckedDurable'
<1> DEFINE Goal == acked' \subseteq Updates /\ AckedDurable'
<1> USE DEF DurableInv, AckedDurable
<1>1. ASSUME UNCHANGED <<rows, acked>>, dropped \subseteq dropped' PROVE Goal
  BY <1>1
<1>2. ASSUME NEW c \in Clients,
             \/ Hit(c) \/ Miss(c) \/ GateHit(c) \/ GateMiss(c)
             \/ LoadStored(c) \/ LoadNew(c) \/ LoadFail(c) \/ Return(c)
             \/ EvictCheck(c) \/ EvictFlushed(c) \/ EvictRemove(c)
      PROVE  Goal
  BY <1>1, <1>2, QuietSteps
<1>3. ASSUME NEW c \in Clients, Install(c) PROVE Goal
  BY <1>1, <1>3 DEF Install, Register, storeVars, historyVars
<1>4. ASSUME NEW c \in Clients, NEW r \in Requests, Operate(c, r) PROVE Goal
  BY <1>1, <1>4 DEF Operate, Commit, storeVars
<1>5. ASSUME NEW d \in Deleters, DeleteTake(d) \/ DeleteStart(d) \/ DeleteTimeout(d) PROVE Goal
  BY <1>1, <1>5, QuietDeletes
<1>6. ASSUME EvictLru PROVE Goal
  BY <1>1, <1>6 DEF EvictLru, Uncache, Drop, vars, storeVars, historyVars
<1>7. ASSUME NEW d \in Deleters, NEW ok \in BOOLEAN, DeleteDone(d, ok) PROVE Goal
  <2>1. ToldOk = {}
    <3>1. UNCHANGED clientVars \/ \E ws : Tell(ws, "err")
      BY <1>7 DEF DeleteDone, DeleteEnd, RetireSlot
    <3>2. \A k \in Clients : ~(cpc[k] = "waiting" /\ cpc'[k] = "idle" /\ answer'[k] = "ok")
      BY <3>1 DEF Tell, clientVars
    <3> QED
      BY <3>2 DEF ToldOk
  <2>2. UNCHANGED <<born, dropped>>
    BY <1>7 DEF DeleteDone
  <2>3. acked' = (acked \ Erased) \ (IF gate # d THEN rows \ rows' ELSE {})
    BY <1>7, <2>1 DEF DeleteDone, Account
  <2>4. CASE rows' = rows
    BY <2>2, <2>3, <2>4
  <2>5. CASE rows' # rows /\ gate # d
    BY <2>2, <2>3, <2>5
  <2>6. CASE rows' # rows /\ gate = d
    <3>1. erasedBelow' >= dbound[d] /\ dbound[d] = next
      <4>1. ok
        BY <1>7, <2>6 DEF DeleteDone, DeleteEnd, storeVars
      <4>2. dbound[d] = next
        BY <1>7, <2>6 DEF DeleteDone, DeleteCovers
      <4> QED
        BY <1>7, <4>1, <4>2 DEF DeleteDone, DeleteEnd, SinkDelete, Loadable, TypeOK
    <3>2. \A u \in Updates : born'[u] < erasedBelow'
      <4>1. \A u \in Updates : born[u] < next /\ born[u] \in Int
        BY DEF HandlesRegistered, HandleOrNone, Handles, NoHandle
      <4>2. next \in Int /\ erasedBelow' \in Int
        BY StepLoadable DEF Loadable, TypeOK
      <4> QED
        BY <2>2, <3>1, <4>1, <4>2
    <3>3. acked' = {}
      BY <2>3, <3>2 DEF Erased
    <3> QED
      BY <3>3
  <2> QED
    BY <2>4, <2>5, <2>6
<1>8. ASSUME PersisterStep PROVE Goal
  <2>1. rows \ rows' \subseteq dropped /\ UNCHANGED dropped
    BY <1>8, PersisterStepRows DEF PersisterStep, Loadable
  <2>2. acked' \subseteq acked \cup ToldOk
    BY <1>8 DEF PersisterStep, Account
  <2>3. ToldOk \subseteq Updates
    BY DEF ToldOk, Loadable, TypeOK, JobType
  <2>4. ToldOk \subseteq rows' \cup dropped
    <3> SUFFICES ASSUME NEW c \in Clients, NEW u \in job[c].upd,
                        cpc[c] = "waiting", cpc'[c] = "idle", answer'[c] = "ok"
                 PROVE  u \in rows' \cup dropped
      BY DEF ToldOk
    <3>1. u \in rows' \/ \E s \in Slots : u \in batch[s].rem
      BY OkStored, StepImplements
    <3> QED
      BY <3>1 DEF RemovalsAsked
  <2> QED
    BY <2>1, <2>2, <2>3, <2>4
<1>9. CASE UNCHANGED smVars
  BY <1>1, <1>9 DEF smVars, vars, storeVars, historyVars
<1> QED
  BY <1>2, <1>3, <1>4, <1>5, <1>6, <1>7, <1>8, <1>9 DEF SMNext

\* What a client was told is durable stays stored, for any number of clients,
\* sweepers, deletes, timeouts and failed writes: evictions, reloads and
\* superseded handles lose no acknowledged update that nobody removed and whose
\* session was not deleted (evict_session, load_or_create, write_batch,
\* delete_session).
THEOREM AcknowledgedIsDurable == SMSpec => []AckedDurable
<1>1. SMInit => DurableInv
  BY DEF SMInit, Init, DurableInv, RemovalsAsked, HandlesRegistered, DeleteCovers, AckedDurable,
         NoJob, EmptyPending, NoBatch, HandleOrNone, Handles, NoHandle
<1>2. SMInit => Loadable /\ FlightInv
  <2>1. SMInit => FlightInv
    BY DEF SMInit, FlightInv, TaskSteps
  <2>2. SMInit => TypeOK
    BY InitIInv DEF IInv, SMInit
  <2> QED
    BY <2>1, <2>2 DEF SMInit, Loadable
<1>3. IInv /\ RequestsCarried /\ Loadable /\ FlightInv /\ DurableInv /\ [SMNext]_smVars => DurableInv'
  BY DurableRemovals, DurableHandles, DurableAcks DEF DurableInv
<1>4. SMSpec => [](IInv /\ RequestsCarried)
  BY LifeCycleImplementsPersister, Invariance, RequestsAreCarried, PTL DEF ImplementsPersister
<1>5. DurableInv => AckedDurable
  BY DEF DurableInv
<1> QED
  BY <1>1, <1>2, <1>3, <1>4, <1>5, StepLoadable, StepFlight, PTL DEF SMSpec

=============================================================================
