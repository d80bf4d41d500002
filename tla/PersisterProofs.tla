--------------------------- MODULE PersisterProofs ---------------------------
(***************************************************************************)
(* Theorems about Persister, for any number of clients, loaders, deletes,  *)
(* guests, slots, updates and generations.                                 *)
(***************************************************************************)
EXTENDS Persister, TLAPS

\* The handle a persist is written from is registered, and not retired.
LEMMA WritesFromStanding ==
    ASSUME NEW h \in HandleOrNone, NEW t \in Handles, WritesFrom(h, t),
           next \in Int, deletedBelow \in Int
    PROVE  t < next /\ deletedBelow <= t
  BY DEF WritesFrom, Standing, Newer, Handles, HandleOrNone, NoHandle

\* The inductive invariant holds initially.
LEMMA InitIInv == Init => IInv
  BY SlotAssumption, GenAssumption
  DEF Init, IInv, TypeOK, GenerationOrder, RegisteredDrained, NothingStranded,
      InFlightCurrent, DeletesOutrankWrites, DeletedStaysDeleted, IsEmpty,
      EmptyPending, NoBatch, NoJob, Handles, HandleOrNone, NoHandle, Outcomes,
      JobType, PendingType, BatchType

\* The constant records have their types.
LEMMA ConstantTypes ==
    /\ EmptyPending \in PendingType
    /\ NoBatch \in BatchType
    /\ NoJob \in JobType
    /\ BlobOnly \in [upd : SUBSET Updates, rem : SUBSET Updates]
  BY DEF EmptyPending, NoBatch, NoJob, BlobOnly, PendingType, BatchType, JobType,
         HandleOrNone

\* Merging requests gives a request.
LEMMA MergeType ==
    ASSUME NEW p \in PendingType, NEW w \in PendingType
    PROVE  Merge(p, w) \in PendingType
  BY DEF Merge, PendingType

\* queue keeps the types of the slots.
LEMMA QueueWorkType ==
    ASSUME TypeOK, NEW cur \in Slots \cup {NoSlot}, NEW w \in PendingType,
           NEW pend \in [Slots -> PendingType], QueueWork(cur, pend, w)
    PROVE  /\ current' \in Slots \cup {NoSlot}
           /\ pending' \in [Slots -> PendingType]
           /\ wpc' \in [Slots -> {"none", "start", "writing", "recheck"}]
<1>1. CASE cur # NoSlot
  <2>1. Merge(pend[cur], w) \in PendingType
    BY <1>1, MergeType
  <2> QED
    BY <1>1, <2>1 DEF QueueWork, TypeOK
<1>2. CASE cur = NoSlot
  <2>1. Merge(EmptyPending, w) \in PendingType
    BY ConstantTypes, MergeType
  <2> QED
    BY <1>2, <2>1 DEF QueueWork, TypeOK
<1> QED
  BY <1>1, <1>2

\* Telling waiters keeps the types of the clients.
LEMMA TellType ==
    ASSUME TypeOK, NEW ws, NEW r \in Outcomes, Tell(ws, r)
    PROVE  /\ cpc' \in [Clients -> {"idle", "call", "judged", "waiting", "idling", "retry"}]
           /\ job' \in [Clients -> JobType]
           /\ answer' \in [Clients -> Outcomes]
  BY ConstantTypes DEF Tell, TypeOK

\* Every step keeps the types.
LEMMA TypeStep == TypeOK /\ [Next]_vars => TypeOK'
<1> SUFFICES ASSUME TypeOK, [Next]_vars PROVE TypeOK'
  OBVIOUS
<1> USE GenAssumption, SlotAssumption, ConstantTypes
<1> USE DEF TypeOK, lineageVars, clientVars, slotVars, deleteVars, guestVars,
            storeVars
<1>1. ASSUME NEW us \in SUBSET Updates, Register(us) PROVE TypeOK'
  BY <1>1 DEF Register, Handles
<1>2. ASSUME NEW h \in Handles, Drop(h) PROVE TypeOK'
  BY <1>2 DEF Drop
<1>3. ASSUME SaveNew PROVE TypeOK'
  BY <1>3 DEF SaveNew, Handles, HandleOrNone
<1>4. ASSUME NEW c \in Clients, NEW h \in Handles, NEW r \in Requests \cup {BlobOnly}, Commit(c, h, r) PROVE TypeOK'
  <2>1. r \in [upd : SUBSET Updates, rem : SUBSET Updates]
    BY RequestAssumption
  <2>2. [h |-> h, src |-> NoHandle, upd |-> r.upd, rem |-> r.rem] \in JobType
    BY <2>1 DEF JobType, HandleOrNone
  <2>3. job' \in [Clients -> JobType]
    BY <1>4, <2>2 DEF Commit
  <2>4. content' \in [Handles -> SUBSET Updates]
    BY <1>4, <2>1 DEF Commit
  <2> QED
    BY <1>4, <2>3, <2>4 DEF Commit, Outcomes
<1>5. ASSUME NEW c \in Clients, Judge(c) PROVE TypeOK'
  <2> PICK t \in Handles : job' = [job EXCEPT ![c].src = t]
    BY <1>5 DEF Judge
  <2>1. [job[c] EXCEPT !.src = t] \in JobType
    BY <1>5, SMTT(30) DEF JobType, HandleOrNone
  <2>2. job' \in [Clients -> JobType]
    BY <2>1
  <2> QED
    BY <1>5, <2>2 DEF Judge
<1>6. ASSUME NEW c \in Clients, Refuse(c) PROVE TypeOK'
  BY <1>6, TellType DEF Refuse, Outcomes
<1>7. ASSUME NEW c \in Clients, Queue(c) PROVE TypeOK'
  <2> DEFINE work == [src |-> job[c].src, upd |-> job[c].upd,
                      rem |-> job[c].rem, wait |-> {c}]
  <2>1. job[c] \in JobType
    BY <1>7
  <2>2. work \in PendingType
    BY <2>1 DEF JobType, PendingType
  <2>3. QueueWork(current, pending, work)
    BY <1>7 DEF Queue
  <2> HIDE DEF work
  <2>4. /\ current' \in Slots \cup {NoSlot}
        /\ pending' \in [Slots -> PendingType]
        /\ wpc' \in [Slots -> {"none", "start", "writing", "recheck"}]
    BY <2>2, <2>3, QueueWorkType
  <2> QED
    BY <1>7, <2>4 DEF Queue
<1>8. ASSUME NEW c \in Clients, GiveUp(c) PROVE TypeOK'
  <2>1. \A s \in Slots : [pending[s] EXCEPT !.wait = @ \ {c}] \in PendingType
    BY SMTT(30) DEF PendingType
  <2>2. \A s \in Slots : [batch[s] EXCEPT !.wait = @ \ {c}] \in BatchType
    BY SMTT(30) DEF BatchType
  <2>3. pending' \in [Slots -> PendingType] /\ batch' \in [Slots -> BatchType]
    BY <1>8, <2>1, <2>2 DEF GiveUp
  <2> QED
    BY <1>8, <2>3 DEF GiveUp, Outcomes
<1>9. ASSUME NEW c \in Clients, WaitIdle(c) PROVE TypeOK'
  <2>1. \A s \in Slots : [pending[s] EXCEPT !.wait = @ \cup {c}] \in PendingType
    BY SMTT(30) DEF PendingType
  <2>2. pending' \in [Slots -> PendingType]
    BY <1>9, <2>1 DEF WaitIdle
  <2> QED
    BY <1>9, <2>2 DEF WaitIdle, Outcomes
<1>10. ASSUME NEW c \in Clients, Retry(c) PROVE TypeOK'
  <2>1. failed \in HandleOrNone
    OBVIOUS
  <2>2. [h |-> failed, src |-> NoHandle, upd |-> {}, rem |-> {}] \in JobType
    BY <2>1 DEF JobType, HandleOrNone
  <2>3. job' \in [Clients -> JobType]
    BY <1>10, <2>2 DEF Retry
  <2> QED
    BY <1>10, <2>3 DEF Retry
<1>11. ASSUME NEW s \in Slots, WriterBegin(s) PROVE TypeOK'
  <2> PICK t \in Handles :
         batch' = [batch EXCEPT ![s] =
                     [h |-> t, snap |-> content[t], upd |-> pending[s].upd,
                      rem |-> pending[s].rem, wait |-> pending[s].wait]]
    BY <1>11 DEF WriterBegin
  <2>1. pending[s] \in PendingType
    OBVIOUS
  <2>2. batch' \in [Slots -> BatchType]
    BY <2>1 DEF PendingType, BatchType, HandleOrNone
  <2> QED
    BY <1>11, <2>2 DEF WriterBegin
<1>12. ASSUME NEW s \in Slots, WriterSkip(s) PROVE TypeOK'
  <2>1. /\ cpc' \in [Clients -> {"idle", "call", "judged", "waiting", "idling", "retry"}]
        /\ job' \in [Clients -> JobType]
        /\ answer' \in [Clients -> Outcomes]
    BY <1>12, TellType DEF WriterSkip, Outcomes
  <2> QED
    BY <1>12, <2>1 DEF WriterSkip
<1>13. ASSUME NEW s \in Slots, WriterOk(s) PROVE TypeOK'
  BY <1>13, TellType DEF WriterOk, SinkWrite, BatchType, Outcomes, HandleOrNone
<1>14. ASSUME NEW s \in Slots, WriterErr(s) PROVE TypeOK'
  BY <1>14, TellType DEF WriterErr, BatchType, Outcomes
<1>15. ASSUME NEW s \in Slots, WriterLoop(s) PROVE TypeOK'
  BY <1>15 DEF WriterLoop, Outcomes
<1>16. ASSUME NEW d \in Deleters, DeleteRetire(d) PROVE TypeOK'
  BY <1>16 DEF DeleteRetire, HandleOrNone
<1>17. ASSUME NEW d \in Deleters, DeleteLock(d) PROVE TypeOK'
  BY <1>17 DEF DeleteLock
<1>18. ASSUME NEW d \in Deleters, NEW ok \in BOOLEAN, DeleteEnd(d, ok) PROVE TypeOK'
  <2>1. /\ rows' \subseteq Updates /\ blob' \in HandleOrNone
        /\ erasedBelow' \in 0 .. MaxGen
    BY <1>18 DEF DeleteEnd, SinkDelete, HandleOrNone
  <2>2. /\ current' \in Slots \cup {NoSlot}
        /\ pending' \in [Slots -> PendingType]
        /\ wpc' \in [Slots -> {"none", "start", "writing", "recheck"}]
        /\ cpc' \in [Clients -> {"idle", "call", "judged", "waiting", "idling", "retry"}]
        /\ job' \in [Clients -> JobType]
        /\ answer' \in [Clients -> Outcomes]
    <3>1. CASE dslot[d] = NoSlot
      BY <1>18, <3>1 DEF DeleteEnd
    <3>2. CASE dslot[d] # NoSlot
      <4> DEFINE left == pending[dslot[d]]
                 emptied == [pending EXCEPT ![dslot[d]] = EmptyPending]
                 cur == IF current = dslot[d] THEN NoSlot ELSE current
      <4>1. /\ left \in PendingType /\ emptied \in [Slots -> PendingType]
            /\ cur \in Slots \cup {NoSlot}
        BY <3>2
      <4>2. CASE QueueWork(cur, emptied, left) /\ UNCHANGED clientVars
        <5> HIDE DEF left, emptied, cur
        <5> QED
          BY <4>1, <4>2, QueueWorkType
      <4>3. CASE /\ current' = cur /\ pending' = emptied
                 /\ Tell(left.wait, "err") /\ UNCHANGED wpc
        <5> HIDE DEF left, emptied, cur
        <5> QED
          BY <4>1, <4>3, TellType DEF Outcomes
      <4> QED
        BY <1>18, <3>2, <4>2, <4>3 DEF DeleteEnd, RetireSlot
    <3> QED
      BY <3>1, <3>2
  <2> QED
    BY <1>18, <2>1, <2>2 DEF DeleteEnd
<1>19. ASSUME NEW g \in Guests, GuestEnter(g) PROVE TypeOK'
  BY <1>19 DEF GuestEnter
<1>20. ASSUME NEW g \in Guests, GuestLock(g) PROVE TypeOK'
  BY <1>20 DEF GuestLock
<1>21. ASSUME NEW g \in Guests, GuestLeave(g) PROVE TypeOK'
  BY <1>21 DEF GuestLeave
<1>22. CASE UNCHANGED vars
  BY <1>22 DEF vars
<1> QED
  BY <1>1, <1>2, <1>3, <1>4, <1>5, <1>6, <1>7, <1>8, <1>9, <1>10, <1>11, <1>12, <1>13, <1>14, <1>15, <1>16, <1>17, <1>18, <1>19, <1>20, <1>21, <1>22 DEF Next

\* Every step keeps the inductive invariant.
LEMMA InvStep == IInv /\ [Next]_vars => IInv'
<1> SUFFICES ASSUME IInv, [Next]_vars PROVE IInv'
  OBVIOUS
<1>t. TypeOK /\ TypeOK'
  BY TypeStep DEF IInv
<1> USE <1>t, SlotAssumption, GenAssumption
<1> USE DEF IInv, GenerationOrder, RegisteredDrained, NothingStranded,
            InFlightCurrent, DeletesOutrankWrites, DeletedStaysDeleted,
            lineageVars, clientVars, slotVars, deleteVars, guestVars, storeVars
<1>1. ASSUME NEW us \in SUBSET Updates, Register(us) PROVE IInv'
  BY <1>1 DEF Register, TypeOK, Handles
<1>2. ASSUME NEW h \in Handles, Drop(h) PROVE IInv'
  BY <1>2 DEF Drop
<1>3. ASSUME SaveNew PROVE IInv'
  BY <1>3 DEF SaveNew, TypeOK, NoHandle, Handles, HandleOrNone
<1>4. ASSUME NEW c \in Clients, NEW h \in Handles, NEW r \in Requests \cup {BlobOnly},
             Commit(c, h, r) PROVE IInv'
  BY <1>4 DEF Commit
<1>5. ASSUME NEW c \in Clients, Judge(c) PROVE IInv'
  BY <1>5 DEF Judge
<1>6. ASSUME NEW c \in Clients, Refuse(c) PROVE IInv'
  BY <1>6 DEF Refuse
<1>7. ASSUME NEW c \in Clients, Queue(c) PROVE IInv'
  BY <1>7 DEF Queue, QueueWork, Fresh, TypeOK
<1>8. ASSUME NEW c \in Clients, GiveUp(c) PROVE IInv'
  <2>1. \A s \in Slots : /\ pending[s] \in PendingType /\ batch[s] \in BatchType
                         /\ pending'[s] = [pending[s] EXCEPT !.wait = @ \ {c}]
                         /\ batch'[s] = [batch[s] EXCEPT !.wait = @ \ {c}]
    BY <1>8 DEF GiveUp, TypeOK
  <2>2. \A s \in Slots : batch'[s].h = batch[s].h
    BY <2>1 DEF BatchType
  <2>3. \A s \in Slots : IsEmpty(pending[s]) => IsEmpty(pending'[s])
    <3> SUFFICES ASSUME NEW s \in Slots, pending[s] = EmptyPending
                 PROVE  pending'[s] = EmptyPending
      BY DEF IsEmpty
    <3>1. [EmptyPending EXCEPT !.wait = @ \ {c}] = EmptyPending
      BY DEF EmptyPending
    <3> QED
      BY <2>1, <3>1
  <2>4. UNCHANGED <<next, deletedBelow, current, wpc, dpc, dslot, dbound, rows,
                    blob, erasedBelow>>
    BY <1>8 DEF GiveUp
  <2> QED
    BY <2>2, <2>3, <2>4
<1>9. ASSUME NEW c \in Clients, WaitIdle(c) PROVE IInv'
  BY <1>9 DEF WaitIdle, TypeOK
<1>10. ASSUME NEW c \in Clients, Retry(c) PROVE IInv'
  BY <1>10 DEF Retry
<1>11. ASSUME NEW s \in Slots, WriterBegin(s) PROVE IInv'
  <2> PICK t \in Handles :
         /\ WritesFrom(pending[s].src, t)
         /\ batch' = [batch EXCEPT ![s] =
                        [h |-> t, snap |-> content[t], upd |-> pending[s].upd,
                         rem |-> pending[s].rem, wait |-> pending[s].wait]]
    BY <1>11 DEF WriterBegin
  <2>1. t < next /\ deletedBelow <= t
    <3>1. pending[s].src \in HandleOrNone /\ next \in Int /\ deletedBelow \in Int
      BY DEF TypeOK, PendingType
    <3> QED
      BY <3>1, WritesFromStanding
  <2>2. batch'[s].h = t /\ \A k \in Slots \ {s} : batch'[k] = batch[k]
    BY DEF TypeOK
  <2>3. /\ wpc'[s] = "writing" /\ current' = current /\ current = s
        /\ \A k \in Slots \ {s} : wpc'[k] = wpc[k] /\ pending'[k] = pending[k]
        /\ pending'[s] = EmptyPending
        /\ \A d \in Deleters : ~(dpc[d] = "deleting" /\ dslot[d] = s)
        /\ UNCHANGED <<next, deletedBelow, dpc, dslot, dbound, rows, blob, erasedBelow>>
    BY <1>11 DEF WriterBegin, TypeOK, LockFree
  <2>4. /\ next \in Int /\ deletedBelow \in Int /\ erasedBelow \in Int /\ t \in Int
        /\ \A d \in Deleters : dbound[d] \in Int /\ dpc[d] \in {"idle", "lock", "deleting"}
    BY DEF TypeOK, Handles
  <2>5. InFlightCurrent'
    BY <2>1, <2>2, <2>3, <2>4
  <2>6. DeletesOutrankWrites'
    BY <2>1, <2>2, <2>3, <2>4
  <2> QED
    BY <2>3, <2>5, <2>6 DEF IsEmpty
<1>12. ASSUME NEW s \in Slots, WriterSkip(s) PROVE IInv'
  BY <1>12 DEF WriterSkip, TypeOK, IsEmpty
<1>13. ASSUME NEW s \in Slots, WriterOk(s) PROVE IInv'
  <2>1. /\ wpc[s] = "writing" /\ blob' = batch[s].h
        /\ \A k \in Slots \ {s} : wpc'[k] = wpc[k] /\ batch'[k] = batch[k]
        /\ wpc'[s] = "recheck"
        /\ UNCHANGED <<next, deletedBelow, current, pending, dpc, dslot, dbound,
                       erasedBelow>>
    BY <1>13 DEF WriterOk, SinkWrite, TypeOK
  <2>2. DeletedStaysDeleted'
    BY <2>1 DEF TypeOK, Handles
  <2> QED
    BY <2>1, <2>2
<1>14. ASSUME NEW s \in Slots, WriterErr(s) PROVE IInv'
  BY <1>14 DEF WriterErr, TypeOK
<1>15. ASSUME NEW s \in Slots, WriterLoop(s) PROVE IInv'
  BY <1>15 DEF WriterLoop, TypeOK
<1>16. ASSUME NEW d \in Deleters, DeleteRetire(d) PROVE IInv'
  BY <1>16 DEF DeleteRetire, TypeOK
<1>17. ASSUME NEW d \in Deleters, DeleteLock(d) PROVE IInv'
  BY <1>17 DEF DeleteLock, LockFree
<1>18. ASSUME NEW d \in Deleters, NEW ok \in BOOLEAN, DeleteEnd(d, ok) PROVE IInv'
  <2>1. /\ dpc[d] = "deleting" /\ dpc' = [dpc EXCEPT ![d] = "idle"]
        /\ UNCHANGED <<next, deletedBelow, batch>>
        /\ \A e \in Deleters \ {d} : /\ dpc'[e] = dpc[e] /\ dslot'[e] = dslot[e]
                                    /\ dbound'[e] = dbound[e]
    BY <1>18 DEF DeleteEnd, TypeOK
  <2>2. /\ erasedBelow' \in {erasedBelow, dbound[d]}
        /\ UNCHANGED <<rows, blob, erasedBelow>> \/ (rows' = {} /\ blob' = NoHandle)
    BY <1>18 DEF DeleteEnd, SinkDelete
  <2>3. GenerationOrder' /\ DeletedStaysDeleted'
    BY <2>1, <2>2 DEF TypeOK
  <2>4. /\ \A s \in Slots : wpc'[s] = "writing" => wpc[s] = "writing" /\ current' = s
        /\ RegisteredDrained' /\ NothingStranded'
    <3>1. CASE dslot[d] = NoSlot
      BY <1>18, <3>1 DEF DeleteEnd
    <3>2. CASE dslot[d] # NoSlot
      <4> DEFINE x == dslot[d]
                 emptied == [pending EXCEPT ![x] = EmptyPending]
                 cur == IF current = x THEN NoSlot ELSE current
      <4>1. /\ x \in Slots /\ wpc[x] # "writing" /\ emptied[x] = EmptyPending
            /\ \A k \in Slots \ {x} : emptied[k] = pending[k]
            /\ emptied \in [Slots -> PendingType]
        BY <2>1, <3>2, ConstantTypes DEF TypeOK
      <4>2. CASE QueueWork(cur, emptied, pending[x])
        <5>1. CASE cur # NoSlot
          BY <4>1, <4>2, <5>1 DEF QueueWork, TypeOK, IsEmpty
        <5>2. CASE cur = NoSlot
          <6>1. \A s \in Slots : wpc[s] # "writing" /\ IsEmpty(emptied[s])
            BY <4>1, <5>2 DEF IsEmpty
          <6> QED
            BY <4>1, <4>2, <5>2, <6>1 DEF QueueWork, TypeOK
        <5> QED
          BY <5>1, <5>2
      <4>3. CASE current' = cur /\ pending' = emptied /\ UNCHANGED wpc
        BY <4>1, <4>3 DEF IsEmpty
      <4> QED
        BY <1>18, <3>2, <4>2, <4>3 DEF DeleteEnd, RetireSlot
    <3> QED
      BY <3>1, <3>2
  <2>5. InFlightCurrent'
    <3> SUFFICES ASSUME NEW s \in Slots, wpc'[s] = "writing"
                 PROVE  /\ current' = s /\ batch'[s].h \in Handles
                        /\ batch'[s].h < next' /\ erasedBelow' <= batch'[s].h
      OBVIOUS
    <3>1. /\ wpc[s] = "writing" /\ current' = s /\ batch'[s].h = batch[s].h
          /\ batch[s].h \in Handles /\ batch[s].h < next
          /\ erasedBelow <= batch[s].h
      BY <2>1, <2>4
    <3>2. batch[s].h \in Int /\ dbound[d] \in Int
      BY <3>1 DEF Handles, TypeOK
    <3>3. ~(batch[s].h < dbound[d])
      BY <2>1, <3>1
    <3> QED
      BY <2>1, <2>2, <3>1, <3>2, <3>3
  <2>6. DeletesOutrankWrites'
    BY <2>1, <2>4 DEF TypeOK
  <2> QED
    BY <2>3, <2>4, <2>5, <2>6
<1>19. ASSUME NEW g \in Guests, GuestEnter(g) PROVE IInv'
  BY <1>19 DEF GuestEnter
<1>20. ASSUME NEW g \in Guests, GuestLock(g) PROVE IInv'
  BY <1>20 DEF GuestLock
<1>21. ASSUME NEW g \in Guests, GuestLeave(g) PROVE IInv'
  BY <1>21 DEF GuestLeave
<1>22. CASE UNCHANGED vars
  BY <1>22 DEF vars
<1> QED
  BY <1>1, <1>2, <1>3, <1>4, <1>5, <1>6, <1>7, <1>8, <1>9, <1>10, <1>11, <1>12, <1>13, <1>14, <1>15, <1>16, <1>17, <1>18, <1>19, <1>20, <1>21, <1>22 DEF Next

\* queue forgets no waiter: those of the new request and those queued before it
\* are in the queue of a slot with a writer.
LEMMA QueueWorkWaiters ==
    ASSUME TypeOK, NEW cur \in Slots \cup {NoSlot}, NEW w \in PendingType,
           NEW pend \in [Slots -> PendingType], QueueWork(cur, pend, w),
           cur # NoSlot => wpc[cur] # "none"
    PROVE  /\ \A c \in w.wait : \E s \in Slots : c \in pending'[s].wait /\ wpc'[s] # "none"
           /\ \A s \in Slots : \A c \in pend[s].wait :
                wpc[s] # "none" => c \in pending'[s].wait /\ wpc'[s] # "none"
           /\ \A s \in Slots : wpc[s] = "writing" => wpc'[s] = "writing"
<1>m. \A p \in PendingType : Merge(p, w).wait = p.wait \cup w.wait
  BY DEF Merge
<1>1. CASE cur # NoSlot
  <2>1. /\ cur \in Slots /\ pending' = [pend EXCEPT ![cur] = Merge(@, w)]
        /\ UNCHANGED wpc
    BY <1>1 DEF QueueWork
  <2>2. pending'[cur].wait = pend[cur].wait \cup w.wait
    BY <2>1, <1>m
  <2>3. \A s \in Slots \ {cur} : pending'[s] = pend[s]
    BY <2>1
  <2> QED
    BY <1>1, <2>1, <2>2, <2>3
<1>2. CASE cur = NoSlot
  <2>1. PICK n \in Slots : /\ wpc[n] = "none"
                           /\ pending' = [pend EXCEPT ![n] = Merge(EmptyPending, w)]
                           /\ wpc' = [wpc EXCEPT ![n] = "start"]
    BY <1>2 DEF QueueWork, Fresh
  <2>2. pending'[n].wait = w.wait /\ wpc'[n] = "start"
    BY <2>1, <1>m, ConstantTypes DEF EmptyPending, TypeOK
  <2>3. \A s \in Slots \ {n} : pending'[s] = pend[s] /\ wpc'[s] = wpc[s]
    BY <2>1 DEF TypeOK
  <2> QED
    BY <2>1, <2>2, <2>3
<1> QED
  BY <1>1, <1>2

\* Every step keeps the waiters.
LEMMA WaitersStep == IInv /\ WaitersKept /\ [Next]_vars => WaitersKept'
<1> SUFFICES ASSUME IInv, WaitersKept, [Next]_vars PROVE WaitersKept'
  OBVIOUS
<1>t. TypeOK /\ TypeOK'
  BY TypeStep DEF IInv
<1> USE <1>t, SlotAssumption
<1> USE DEF WaitersKept, Waiting, lineageVars, clientVars, slotVars, deleteVars,
            guestVars, storeVars
<1>1. ASSUME NEW us \in SUBSET Updates, Register(us) PROVE WaitersKept'
  BY <1>1 DEF Register
<1>2. ASSUME NEW h \in Handles, Drop(h) PROVE WaitersKept'
  BY <1>2 DEF Drop
<1>3. ASSUME SaveNew PROVE WaitersKept'
  BY <1>3 DEF SaveNew
<1>4. ASSUME NEW c \in Clients, NEW h \in Handles, NEW r \in Requests \cup {BlobOnly},
             Commit(c, h, r) PROVE WaitersKept'
  BY <1>4 DEF Commit, TypeOK
<1>5. ASSUME NEW c \in Clients, Judge(c) PROVE WaitersKept'
  BY <1>5 DEF Judge, TypeOK
<1>6. ASSUME NEW c \in Clients, Refuse(c) PROVE WaitersKept'
  BY <1>6 DEF Refuse, Tell, TypeOK
<1>7. ASSUME NEW c \in Clients, Queue(c) PROVE WaitersKept'
  <2> DEFINE work == [src |-> job[c].src, upd |-> job[c].upd,
                      rem |-> job[c].rem, wait |-> {c}]
  <2>1. work \in PendingType /\ work.wait = {c}
    <3>1. job[c] \in JobType
      BY DEF TypeOK
    <3> QED
      BY <3>1 DEF JobType, PendingType
  <2>2. QueueWork(current, pending, work) /\ cpc' = [cpc EXCEPT ![c] = "waiting"]
        /\ UNCHANGED batch
    BY <1>7 DEF Queue
  <2> HIDE DEF work
  <2>3. /\ \E s \in Slots : c \in pending'[s].wait /\ wpc'[s] # "none"
        /\ \A s \in Slots : \A k \in pending[s].wait :
             wpc[s] # "none" => k \in pending'[s].wait /\ wpc'[s] # "none"
        /\ \A s \in Slots : wpc[s] = "writing" => wpc'[s] = "writing"
    <3>1. /\ current \in Slots \cup {NoSlot} /\ pending \in [Slots -> PendingType]
          /\ current # NoSlot => wpc[current] # "none"
      BY DEF TypeOK, IInv, RegisteredDrained
    <3> QED
      BY <2>1, <2>2, <3>1, QueueWorkWaiters
  <2> QED
    BY <2>2, <2>3 DEF TypeOK
<1>8. ASSUME NEW c \in Clients, GiveUp(c) PROVE WaitersKept'
  <2>1. \A s \in Slots : \A k \in Clients \ {c} :
          /\ k \in pending[s].wait => k \in pending'[s].wait
          /\ k \in batch[s].wait => k \in batch'[s].wait
    <3> SUFFICES ASSUME NEW s \in Slots
                 PROVE  /\ pending'[s].wait = pending[s].wait \ {c}
                        /\ batch'[s].wait = batch[s].wait \ {c}
      OBVIOUS
    <3>1. /\ pending[s] \in PendingType /\ batch[s] \in BatchType
          /\ pending'[s] = [pending[s] EXCEPT !.wait = @ \ {c}]
          /\ batch'[s] = [batch[s] EXCEPT !.wait = @ \ {c}]
      BY <1>8 DEF GiveUp, TypeOK
    <3> QED
      BY <3>1 DEF PendingType, BatchType
  <2>2. cpc' = [cpc EXCEPT ![c] = "idle"] /\ UNCHANGED wpc
    BY <1>8 DEF GiveUp
  <2> QED
    BY <2>1, <2>2 DEF TypeOK
<1>9. ASSUME NEW c \in Clients, WaitIdle(c) PROVE WaitersKept'
  <2>1. CASE current # NoSlot
    <3>1. /\ current \in Slots /\ wpc[current] # "none"
          /\ pending' = [pending EXCEPT ![current].wait = @ \cup {c}]
          /\ cpc' = [cpc EXCEPT ![c] = "idling"] /\ UNCHANGED <<wpc, batch>>
      BY <1>9, <2>1 DEF WaitIdle, TypeOK, IInv, RegisteredDrained
    <3>2. pending'[current].wait = pending[current].wait \cup {c}
      <4>1. pending[current] \in PendingType
        BY <3>1 DEF TypeOK
      <4> QED
        BY <3>1, <4>1 DEF TypeOK, PendingType
    <3>3. \A s \in Slots \ {current} : pending'[s] = pending[s]
      BY <3>1 DEF TypeOK
    <3> QED
      BY <3>1, <3>2, <3>3 DEF TypeOK
  <2>2. CASE current = NoSlot
    BY <1>9, <2>2 DEF WaitIdle, TypeOK
  <2> QED
    BY <2>1, <2>2
<1>10. ASSUME NEW c \in Clients, Retry(c) PROVE WaitersKept'
  BY <1>10 DEF Retry, TypeOK
<1>11. ASSUME NEW s \in Slots, WriterBegin(s) PROVE WaitersKept'
  BY <1>11 DEF WriterBegin, TypeOK
<1>12. ASSUME NEW s \in Slots, WriterSkip(s) PROVE WaitersKept'
  BY <1>12 DEF WriterSkip, Tell, TypeOK
<1>13. ASSUME NEW s \in Slots, WriterOk(s) PROVE WaitersKept'
  BY <1>13 DEF WriterOk, Tell, TypeOK
<1>14. ASSUME NEW s \in Slots, WriterErr(s) PROVE WaitersKept'
  BY <1>14 DEF WriterErr, Tell, TypeOK
<1>15. ASSUME NEW s \in Slots, WriterLoop(s) PROVE WaitersKept'
  BY <1>15 DEF WriterLoop, IsEmpty, EmptyPending, TypeOK
<1>16. ASSUME NEW d \in Deleters, DeleteRetire(d) PROVE WaitersKept'
  BY <1>16 DEF DeleteRetire
<1>17. ASSUME NEW d \in Deleters, DeleteLock(d) PROVE WaitersKept'
  BY <1>17 DEF DeleteLock
<1>18. ASSUME NEW d \in Deleters, NEW ok \in BOOLEAN,
             DeleteEnd(d, ok) PROVE WaitersKept'
  <2>1. CASE dslot[d] = NoSlot
    BY <1>18, <2>1 DEF DeleteEnd
  <2>2. CASE dslot[d] # NoSlot
    <3> DEFINE x == dslot[d]
               left == pending[x]
               emptied == [pending EXCEPT ![x] = EmptyPending]
               cur == IF current = x THEN NoSlot ELSE current
    <3>1. /\ x \in Slots /\ left \in PendingType
          /\ emptied \in [Slots -> PendingType] /\ UNCHANGED batch
          /\ \A k \in Slots \ {x} : emptied[k] = pending[k]
          /\ cur \in Slots \cup {NoSlot}
          /\ cur # NoSlot => wpc[cur] # "none"
      BY <1>18, <2>2, ConstantTypes DEF DeleteEnd, TypeOK, IInv, RegisteredDrained
    <3>2. CASE QueueWork(cur, emptied, left) /\ UNCHANGED clientVars
      <4>1. /\ \A c \in left.wait : \E s \in Slots : c \in pending'[s].wait /\ wpc'[s] # "none"
            /\ \A s \in Slots : \A c \in emptied[s].wait :
                 wpc[s] # "none" => c \in pending'[s].wait /\ wpc'[s] # "none"
            /\ \A s \in Slots : wpc[s] = "writing" => wpc'[s] = "writing"
        <5> HIDE DEF left, emptied, cur
        <5> QED
          BY <3>1, <3>2, QueueWorkWaiters
      <4> QED
        BY <3>1, <3>2, <4>1
    <3>3. CASE /\ current' = cur /\ pending' = emptied
               /\ Tell(left.wait, "err") /\ UNCHANGED wpc
      <4>1. \A c \in Clients : c \in Waiting' => c \in Waiting /\ c \notin left.wait
        BY <3>3 DEF Tell
      <4> QED
        BY <3>1, <3>3, <4>1
    <3> QED
      BY <1>18, <2>2, <3>2, <3>3 DEF DeleteEnd, RetireSlot
  <2> QED
    BY <2>1, <2>2
<1>19. ASSUME NEW g \in Guests, GuestEnter(g) PROVE WaitersKept'
  BY <1>19 DEF GuestEnter
<1>20. ASSUME NEW g \in Guests, GuestLock(g) PROVE WaitersKept'
  BY <1>20 DEF GuestLock
<1>21. ASSUME NEW g \in Guests, GuestLeave(g) PROVE WaitersKept'
  BY <1>21 DEF GuestLeave
<1>22. CASE UNCHANGED vars
  BY <1>22 DEF vars
<1> QED
  BY <1>1, <1>2, <1>3, <1>4, <1>5, <1>6, <1>7, <1>8, <1>9, <1>10, <1>11, <1>12, <1>13, <1>14, <1>15, <1>16, <1>17, <1>18, <1>19, <1>20, <1>21, <1>22 DEF Next

-----------------------------------------------------------------------------
(* A waiter told Ok. *)

\* Merging keeps what a waiter of either request asked for.
LEMMA MergeCarries ==
    ASSUME NEW p \in PendingType, NEW w \in PendingType, NEW c \in Clients,
           Carried(c, p, p.src), Carried(c, w, w.src)
    PROVE  Carried(c, Merge(p, w), Merge(p, w).src)
<1> DEFINE m == Merge(p, w)
<1>1. /\ m.src = IF w.src = NoHandle THEN p.src ELSE w.src
      /\ m.upd = (p.upd \cup w.upd) \ w.rem
      /\ m.rem = p.rem \cup w.rem
      /\ m.wait = p.wait \cup w.wait
  BY DEF Merge
<1> HIDE DEF m
<1> QED
  BY <1>1 DEF Carried, m

\* queue carries the waiters of the new request and those queued before it.
LEMMA QueueWorkCarries ==
    ASSUME TypeOK, NEW cur \in Slots \cup {NoSlot}, NEW w \in PendingType,
           NEW pend \in [Slots -> PendingType], QueueWork(cur, pend, w), NEW c \in Clients,
           Carried(c, w, w.src), \A s \in Slots : Carried(c, pend[s], pend[s].src)
    PROVE  \A s \in Slots : /\ Carried(c, pending'[s], pending'[s].src)
                            /\ pending'[s].wait \subseteq pend[s].wait \cup w.wait
                            /\ wpc[s] # "none" => wpc'[s] = wpc[s]
                            /\ pending'[s] # pend[s] => (wpc[s] = "none" \/ s = cur)
<1>1. CASE cur # NoSlot
  <2>1. /\ cur \in Slots /\ pending' = [pend EXCEPT ![cur] = Merge(@, w)]
        /\ UNCHANGED wpc
    BY <1>1 DEF QueueWork
  <2>2. Carried(c, Merge(pend[cur], w), Merge(pend[cur], w).src)
    BY <2>1, MergeCarries
  <2>3. Merge(pend[cur], w).wait = pend[cur].wait \cup w.wait
    BY DEF Merge
  <2> QED
    BY <2>1, <2>2, <2>3
<1>2. CASE cur = NoSlot
  <2>1. PICK n \in Slots : /\ wpc[n] = "none"
                           /\ pending' = [pend EXCEPT ![n] = Merge(EmptyPending, w)]
                           /\ wpc' = [wpc EXCEPT ![n] = "start"]
    BY <1>2 DEF QueueWork, Fresh
  <2>2. Carried(c, EmptyPending, EmptyPending.src)
    BY DEF Carried, EmptyPending
  <2>3. Carried(c, Merge(EmptyPending, w), Merge(EmptyPending, w).src)
    BY <2>2, MergeCarries, ConstantTypes
  <2>4. Merge(EmptyPending, w).wait = w.wait
    BY DEF Merge, EmptyPending
  <2> QED
    BY <2>1, <2>3, <2>4 DEF TypeOK
<1> QED
  BY <1>1, <1>2

\* Only one slot, the registered one, has waiters, in its queue or in its batch.
LEMMA OneCarrier ==
    ASSUME IInv, RequestsCarried, NEW s \in Slots, NEW k \in Slots,
           pending[s].wait # {} \/ batch[s].wait # {}, pending[k].wait # {} \/ batch[k].wait # {}
    PROVE  s = k
<1>1. ASSUME NEW x \in Slots, pending[x].wait # {} \/ batch[x].wait # {} PROVE x = current
  <2>1. CASE pending[x].wait # {}
    BY <2>1 DEF IInv, NothingStranded, IsEmpty, EmptyPending
  <2>2. CASE batch[x].wait # {}
    BY <2>2 DEF IInv, InFlightCurrent, RequestsCarried
  <2> QED
    BY <1>1, <2>1, <2>2
<1> QED
  BY <1>1

\* Every step carries the requests of those who wait.
LEMMA CarriedStep == IInv /\ RequestsCarried /\ [Next]_vars => RequestsCarried'
<1> SUFFICES ASSUME IInv, RequestsCarried, [Next]_vars PROVE RequestsCarried'
  OBVIOUS
<1>t. TypeOK /\ TypeOK'
  BY TypeStep DEF IInv
<1> USE <1>t, SlotAssumption
<1> USE DEF RequestsCarried, Carried, Waiting, lineageVars, clientVars, slotVars, deleteVars,
            guestVars, storeVars
<1>1. ASSUME NEW us \in SUBSET Updates, Register(us) PROVE RequestsCarried'
  BY <1>1 DEF Register
<1>2. ASSUME NEW h \in Handles, Drop(h) PROVE RequestsCarried'
  BY <1>2 DEF Drop
<1>3. ASSUME SaveNew PROVE RequestsCarried'
  BY <1>3 DEF SaveNew
<1>4. ASSUME NEW c \in Clients, NEW h \in Handles, NEW r \in Requests \cup {BlobOnly},
             Commit(c, h, r) PROVE RequestsCarried'
  BY <1>4 DEF Commit, TypeOK
<1>5. ASSUME NEW c \in Clients, Judge(c) PROVE RequestsCarried'
  <2>1. PICK t \in Handles : job' = [job EXCEPT ![c].src = t]
    BY <1>5 DEF Judge
  <2>2. t # NoHandle
    BY GenAssumption DEF Handles, NoHandle
  <2>3. job'[c].src = t /\ \A k \in Clients \ {c} : job'[k] = job[k]
    <3>1. job[c] \in JobType
      BY DEF TypeOK
    <3> QED
      BY <2>1, <3>1 DEF TypeOK, JobType
  <2> QED
    BY <1>5, <2>2, <2>3 DEF Judge, TypeOK
<1>6. ASSUME NEW c \in Clients, Refuse(c) PROVE RequestsCarried'
  BY <1>6 DEF Refuse, Tell, TypeOK
<1>7. ASSUME NEW c \in Clients, Queue(c) PROVE RequestsCarried'
  <2> DEFINE work == [src |-> job[c].src, upd |-> job[c].upd,
                      rem |-> job[c].rem, wait |-> {c}]
  <2>1. work \in PendingType
    <3>1. job[c] \in JobType
      BY DEF TypeOK
    <3> QED
      BY <3>1 DEF JobType, PendingType
  <2>2. /\ QueueWork(current, pending, work) /\ cpc' = [cpc EXCEPT ![c] = "waiting"]
        /\ cpc[c] = "judged" /\ UNCHANGED <<batch, job>>
    BY <1>7 DEF Queue
  <2>3. /\ work.wait = {c} /\ work.src # NoHandle /\ work.upd = job[c].upd
        /\ \A s \in Slots : c \notin pending[s].wait /\ c \notin batch[s].wait
    BY <2>2
  <2>4. /\ current \in Slots \cup {NoSlot} /\ pending \in [Slots -> PendingType]
    BY DEF TypeOK
  <2> HIDE DEF work
  <2>5. \A s \in Slots :
          /\ pending'[s].wait \subseteq pending[s].wait \cup {c}
          /\ c \in pending'[s].wait => /\ pending'[s].src # NoHandle
                                       /\ job[c].upd \subseteq pending'[s].upd \cup pending'[s].rem
          /\ \A k \in Clients \ {c} : Carried(k, pending'[s], pending'[s].src)
          /\ wpc[s] = "writing" => wpc'[s] = "writing"
    <3>1. CASE current # NoSlot
      <4>1. /\ current \in Slots /\ UNCHANGED wpc
            /\ pending' = [pending EXCEPT ![current] = Merge(@, work)]
        BY <2>2, <3>1 DEF QueueWork, TypeOK
      <4>2. \A k \in Clients \ {c} :
              Carried(k, Merge(pending[current], work), Merge(pending[current], work).src)
        BY <2>1, <2>3, <2>4, <4>1, MergeCarries
      <4>3. /\ Merge(pending[current], work).wait = pending[current].wait \cup {c}
            /\ Merge(pending[current], work).src # NoHandle
            /\ job[c].upd \subseteq Merge(pending[current], work).upd \cup Merge(pending[current], work).rem
        BY <2>3 DEF Merge
      <4> QED
        BY <2>3, <2>4, <4>1, <4>2, <4>3
    <3>2. CASE current = NoSlot
      <4>1. PICK n \in Slots : /\ wpc[n] = "none"
                               /\ pending' = [pending EXCEPT ![n] = Merge(EmptyPending, work)]
                               /\ wpc' = [wpc EXCEPT ![n] = "start"]
        BY <2>2, <3>2 DEF QueueWork, Fresh
      <4>2. /\ Merge(EmptyPending, work).wait = {c}
            /\ Merge(EmptyPending, work).src # NoHandle
            /\ job[c].upd \subseteq Merge(EmptyPending, work).upd \cup Merge(EmptyPending, work).rem
        BY <2>3 DEF Merge, EmptyPending
      <4> QED
        BY <2>3, <2>4, <4>1, <4>2 DEF TypeOK
    <3> QED
      BY <3>1, <3>2
  <2> QED
    BY <2>2, <2>3, <2>5 DEF TypeOK
<1>8. ASSUME NEW c \in Clients, GiveUp(c) PROVE RequestsCarried'
  <2>1. \A s \in Slots :
          /\ pending'[s].wait = pending[s].wait \ {c} /\ batch'[s].wait = batch[s].wait \ {c}
          /\ pending'[s].src = pending[s].src /\ batch'[s].h = batch[s].h
          /\ pending'[s].upd = pending[s].upd /\ batch'[s].upd = batch[s].upd
          /\ pending'[s].rem = pending[s].rem /\ batch'[s].rem = batch[s].rem
    <3> SUFFICES ASSUME NEW s \in Slots
                 PROVE  /\ pending'[s].wait = pending[s].wait \ {c} /\ batch'[s].wait = batch[s].wait \ {c}
                        /\ pending'[s].src = pending[s].src /\ batch'[s].h = batch[s].h
                        /\ pending'[s].upd = pending[s].upd /\ batch'[s].upd = batch[s].upd
                        /\ pending'[s].rem = pending[s].rem /\ batch'[s].rem = batch[s].rem
      OBVIOUS
    <3>1. /\ pending[s] \in PendingType /\ batch[s] \in BatchType
          /\ pending'[s] = [pending[s] EXCEPT !.wait = @ \ {c}]
          /\ batch'[s] = [batch[s] EXCEPT !.wait = @ \ {c}]
      BY <1>8 DEF GiveUp, TypeOK
    <3> QED
      BY <3>1 DEF PendingType, BatchType
  <2>2. /\ cpc' = [cpc EXCEPT ![c] = "idle"] /\ job' = [job EXCEPT ![c] = NoJob]
        /\ UNCHANGED wpc
    BY <1>8 DEF GiveUp
  <2>3. /\ cpc'[c] = "idle" /\ \A s \in Slots : c \notin pending'[s].wait /\ c \notin batch'[s].wait
        /\ \A k \in Clients \ {c} : cpc'[k] = cpc[k] /\ job'[k] = job[k]
    BY <2>1, <2>2 DEF TypeOK
  <2>4. ASSUME NEW s \in Slots, NEW k \in Clients
        PROVE  Carried(k, pending[s], pending[s].src)' /\ Carried(k, batch[s], batch[s].h)'
    <3>1. CASE k = c
      BY <2>3, <3>1
    <3>2. CASE k # c
      BY <2>1, <2>3, <3>2
    <3> QED
      BY <3>1, <3>2
  <2>5. ASSUME NEW s \in Slots
        PROVE  /\ batch'[s].wait # {} => wpc'[s] = "writing"
               /\ pending'[s].wait \cap batch'[s].wait = {}
    BY <2>1, <2>2
  <2>6. \A k \in Clients : cpc'[k] = "judged" => job'[k].src # NoHandle
    BY <2>3
  <2> HIDE DEF Carried
  <2> QED
    BY <2>4, <2>5, <2>6
<1>9. ASSUME NEW c \in Clients, WaitIdle(c) PROVE RequestsCarried'
  <2>1. CASE current # NoSlot
    <3>1. /\ current \in Slots /\ cpc[c] = "idle"
          /\ pending' = [pending EXCEPT ![current].wait = @ \cup {c}]
          /\ cpc' = [cpc EXCEPT ![c] = "idling"] /\ UNCHANGED <<wpc, batch, job>>
      BY <1>9, <2>1 DEF WaitIdle, TypeOK
    <3>2. /\ pending'[current].wait = pending[current].wait \cup {c}
          /\ pending'[current].src = pending[current].src
          /\ pending'[current].upd = pending[current].upd
          /\ pending'[current].rem = pending[current].rem
      <4>1. pending[current] \in PendingType
        BY <3>1 DEF TypeOK
      <4> QED
        BY <3>1, <4>1 DEF TypeOK, PendingType
    <3>3. \A s \in Slots \ {current} : pending'[s] = pending[s]
      BY <3>1 DEF TypeOK
    <3>4. \A s \in Slots : c \notin batch[s].wait
      BY <3>1
    <3> QED
      BY <3>1, <3>2, <3>3, <3>4 DEF TypeOK
  <2>2. CASE current = NoSlot
    BY <1>9, <2>2 DEF WaitIdle, TypeOK
  <2> QED
    BY <2>1, <2>2
<1>10. ASSUME NEW c \in Clients, Retry(c) PROVE RequestsCarried'
  <2>1. /\ cpc[c] = "retry" /\ cpc'[c] \in {"call", "idle"} /\ UNCHANGED <<pending, batch, wpc>>
        /\ \A k \in Clients \ {c} : cpc'[k] = cpc[k] /\ job'[k] = job[k]
    BY <1>10 DEF Retry, TypeOK
  <2>2. \A s \in Slots : c \notin pending[s].wait /\ c \notin batch[s].wait
    BY <2>1
  <2> QED
    BY <2>1, <2>2
<1>11. ASSUME NEW s \in Slots, WriterBegin(s) PROVE RequestsCarried'
  <2> PICK t \in Handles :
         batch' = [batch EXCEPT ![s] =
                     [h |-> t, snap |-> content[t], upd |-> pending[s].upd,
                      rem |-> pending[s].rem, wait |-> pending[s].wait]]
    BY <1>11 DEF WriterBegin
  <2>1. t # NoHandle
    BY GenAssumption DEF Handles, NoHandle
  <2>2. /\ batch'[s].h = t /\ batch'[s].upd = pending[s].upd /\ batch'[s].rem = pending[s].rem
        /\ batch'[s].wait = pending[s].wait
        /\ \A k \in Slots \ {s} : batch'[k] = batch[k]
    BY DEF TypeOK
  <2>3. /\ pending'[s].wait = {} /\ \A k \in Slots \ {s} : pending'[k] = pending[k]
        /\ wpc'[s] = "writing" /\ \A k \in Slots \ {s} : wpc'[k] = wpc[k]
        /\ UNCHANGED <<cpc, job>>
    BY <1>11 DEF WriterBegin, TypeOK, EmptyPending
  <2> QED
    BY <2>1, <2>2, <2>3
<1>12. ASSUME NEW s \in Slots, WriterSkip(s) PROVE RequestsCarried'
  <2>1. PICK r \in Outcomes : Tell(pending[s].wait, r)
    BY <1>12, SMTT(30) DEF WriterSkip, TypeOK, Outcomes
  <2>2. /\ pending'[s].wait = {} /\ \A k \in Slots \ {s} : pending'[k] = pending[k]
        /\ wpc[s] = "start" /\ wpc'[s] = "recheck" /\ \A k \in Slots \ {s} : wpc'[k] = wpc[k]
        /\ UNCHANGED batch
    BY <1>12 DEF WriterSkip, TypeOK, EmptyPending
  <2>3. \A k \in Slots \ {s} : \A c \in pending[s].wait : c \notin pending[k].wait /\ c \notin batch[k].wait
    BY <2>2, OneCarrier
  <2>4. batch[s].wait = {}
    BY <2>2
  <2> QED
    BY <2>1, <2>2, <2>3, <2>4 DEF Tell
<1>13. ASSUME NEW s \in Slots, WriterOk(s) PROVE RequestsCarried'
  <2>1. Tell(batch[s].wait, "ok")
    BY <1>13 DEF WriterOk
  <2>2. /\ batch'[s].wait = {} /\ \A k \in Slots \ {s} : batch'[k] = batch[k]
        /\ wpc[s] = "writing" /\ wpc'[s] = "recheck" /\ \A k \in Slots \ {s} : wpc'[k] = wpc[k]
        /\ UNCHANGED pending
    BY <1>13 DEF WriterOk, TypeOK, NoBatch
  <2>3. \A k \in Slots \ {s} : \A c \in batch[s].wait : c \notin pending[k].wait /\ c \notin batch[k].wait
    BY <2>2, OneCarrier
  <2> QED
    BY <2>1, <2>2, <2>3 DEF Tell
<1>14. ASSUME NEW s \in Slots, WriterErr(s) PROVE RequestsCarried'
  <2>1. Tell(batch[s].wait, "err")
    BY <1>14 DEF WriterErr
  <2>2. /\ batch'[s].wait = {} /\ \A k \in Slots \ {s} : batch'[k] = batch[k]
        /\ wpc[s] = "writing" /\ wpc'[s] = "recheck" /\ \A k \in Slots \ {s} : wpc'[k] = wpc[k]
        /\ UNCHANGED pending
    BY <1>14 DEF WriterErr, TypeOK, NoBatch
  <2>3. \A k \in Slots \ {s} : \A c \in batch[s].wait : c \notin pending[k].wait /\ c \notin batch[k].wait
    BY <2>2, OneCarrier
  <2> QED
    BY <2>1, <2>2, <2>3 DEF Tell
<1>18. ASSUME NEW d \in Deleters, NEW ok \in BOOLEAN, DeleteEnd(d, ok) PROVE RequestsCarried'
  <2>1. CASE dslot[d] = NoSlot
    BY <1>18, <2>1 DEF DeleteEnd
  <2>2. CASE dslot[d] # NoSlot
    <3> DEFINE x == dslot[d]
               left == pending[x]
               emptied == [pending EXCEPT ![x] = EmptyPending]
               cur == IF current = x THEN NoSlot ELSE current
    <3>1. /\ x \in Slots /\ left \in PendingType
          /\ emptied \in [Slots -> PendingType] /\ UNCHANGED batch
          /\ emptied[x].wait = {} /\ \A k \in Slots \ {x} : emptied[k] = pending[k]
          /\ cur \in Slots \cup {NoSlot}
          /\ dpc[d] = "deleting" /\ wpc[x] # "writing"
      BY <1>18, <2>2, ConstantTypes, SMTT(30)
      DEF DeleteEnd, TypeOK, IInv, DeletesOutrankWrites, EmptyPending
    <3>3. CASE /\ current' = cur /\ pending' = emptied
               /\ Tell(left.wait, "err") /\ UNCHANGED wpc
      <4>1. \A k \in Slots \ {x} : \A c \in left.wait : c \notin pending[k].wait /\ c \notin batch[k].wait
        BY <3>1, OneCarrier
      <4>2. batch[x].wait = {}
        BY <3>1
      <4> QED
        BY <3>1, <3>3, <4>1, <4>2 DEF Tell
    <3>2. CASE QueueWork(cur, emptied, left) /\ UNCHANGED clientVars
      <4>1. \A c \in Clients : /\ Carried(c, left, left.src)
                               /\ \A s \in Slots : Carried(c, emptied[s], emptied[s].src)
        BY <3>1
      <4>2. \A c \in Clients : \A s \in Slots :
              /\ Carried(c, pending'[s], pending'[s].src)
              /\ pending'[s].wait \subseteq emptied[s].wait \cup left.wait
              /\ wpc[s] # "none" => wpc'[s] = wpc[s]
        <5> HIDE DEF left, emptied, cur, Carried
        <5> QED
          BY <3>1, <3>2, <4>1, QueueWorkCarries
      <4>3. \A s \in Slots : left.wait \cap batch[s].wait = {}
        BY <3>1, OneCarrier
      <4>4. \A s \in Slots : pending'[s].wait \in SUBSET Clients /\ pending'[s].wait \cap batch[s].wait = {}
        <5>1. \A s \in Slots : pending'[s] \in PendingType
          BY DEF TypeOK
        <5>2. \A s \in Slots : emptied[s].wait \cap batch[s].wait = {}
          BY <3>1
        <5>3. \A s \in Slots : pending'[s].wait \in SUBSET Clients
          BY <5>1 DEF PendingType
        <5>4. ASSUME NEW s \in Slots, NEW c \in Clients, c \in pending'[s].wait PROVE c \notin batch[s].wait
          <6> HIDE DEF left, emptied, cur, Carried
          <6> QED
            BY <4>2, <4>3, <5>2, <5>4
        <5> QED
          BY <5>3, <5>4
      <4>5. \A s \in Slots : batch'[s].wait # {} => wpc'[s] = "writing"
        <5> SUFFICES ASSUME NEW s \in Slots, batch[s].wait # {} PROVE wpc'[s] = "writing"
          BY <3>1
        <5>1. batch[s] \in BatchType /\ wpc[s] = "writing"
          BY DEF TypeOK
        <5>2. PICK c \in Clients : c \in batch[s].wait
          BY <5>1 DEF BatchType
        <5> QED
          BY <4>2, <5>1, <5>2
      <4>6. UNCHANGED <<cpc, job, batch>>
        BY <3>1, <3>2
      <4> HIDE DEF left, emptied, cur
      <4> QED
        BY <4>2, <4>4, <4>5, <4>6
    <3> QED
      BY <1>18, <2>2, <3>2, <3>3 DEF DeleteEnd, RetireSlot
  <2> QED
    BY <2>1, <2>2
<1>16. ASSUME NEW d \in Deleters, DeleteRetire(d) PROVE RequestsCarried'
  BY <1>16 DEF DeleteRetire
<1>17. ASSUME NEW d \in Deleters, DeleteLock(d) PROVE RequestsCarried'
  BY <1>17 DEF DeleteLock
<1>19. ASSUME NEW g \in Guests, GuestEnter(g) PROVE RequestsCarried'
  BY <1>19 DEF GuestEnter
<1>20. ASSUME NEW g \in Guests, GuestLock(g) PROVE RequestsCarried'
  BY <1>20 DEF GuestLock
<1>21. ASSUME NEW g \in Guests, GuestLeave(g) PROVE RequestsCarried'
  BY <1>21 DEF GuestLeave
<1>15. ASSUME NEW s \in Slots, WriterLoop(s) PROVE RequestsCarried'
  BY <1>15 DEF WriterLoop, TypeOK
<1>22. CASE UNCHANGED vars
  BY <1>22 DEF vars
<1> QED
  BY <1>1, <1>2, <1>3, <1>4, <1>5, <1>6, <1>7, <1>8, <1>9, <1>10, <1>11, <1>12, <1>13, <1>14, <1>15, <1>16, <1>17, <1>18, <1>19, <1>20, <1>21, <1>22 DEF Next

\* A step that tells a waiting client Ok is the write that stored its rows.
LEMMA OkStored ==
    ASSUME IInv, RequestsCarried, [Next]_vars, NEW c \in Clients,
           cpc[c] = "waiting", cpc'[c] = "idle", answer'[c] = "ok"
    PROVE  \A u \in job[c].upd : u \in rows' \/ \E s \in Slots : u \in batch[s].rem
<1>t. TypeOK
  BY DEF IInv
<1>1. ASSUME NEW s \in Slots, WriterOk(s)
      PROVE  \A u \in job[c].upd : u \in rows' \/ u \in batch[s].rem
  <2>1. c \in batch[s].wait
    BY <1>1 DEF WriterOk, Tell
  <2>2. job[c].upd \subseteq batch[s].upd \cup batch[s].rem
    BY <2>1 DEF RequestsCarried, Carried
  <2> QED
    BY <1>1, <2>2 DEF WriterOk, SinkWrite
<1>2. ASSUME NEW s \in Slots, WriterSkip(s) PROVE FALSE
  <2>1. c \in pending[s].wait
    BY <1>2 DEF WriterSkip, Tell
  <2>2. pending[s].src # NoHandle
    BY <2>1 DEF RequestsCarried, Carried
  <2> QED
    BY <1>2, <2>1, <2>2 DEF WriterSkip, Tell
<1>3. ASSUME NEW k \in Clients, Queue(k) \/ GiveUp(k) \/ Refuse(k) \/ Judge(k) \/ WaitIdle(k) \/ Retry(k)
      PROVE  FALSE
  BY <1>t, <1>3 DEF Queue, GiveUp, Refuse, Tell, Judge, WaitIdle, Retry, TypeOK
<1>4. ASSUME NEW k \in Clients, NEW h \in Handles, NEW r \in Requests \cup {BlobOnly}, Commit(k, h, r)
      PROVE  FALSE
  BY <1>t, <1>4 DEF Commit, TypeOK
<1>5. ASSUME NEW s \in Slots, WriterErr(s) PROVE FALSE
  BY <1>5 DEF WriterErr, Tell
<1>6. ASSUME NEW d \in Deleters, NEW ok \in BOOLEAN, DeleteEnd(d, ok) PROVE FALSE
  <2>1. UNCHANGED clientVars \/ \E ws : Tell(ws, "err")
    BY <1>6 DEF DeleteEnd, RetireSlot
  <2> QED
    BY <2>1 DEF Tell, clientVars
<1>7. ASSUME UNCHANGED clientVars PROVE FALSE
  BY <1>7 DEF clientVars
<1>8. ASSUME NEW us \in SUBSET Updates, Register(us) PROVE UNCHANGED clientVars
  BY <1>8 DEF Register
<1>9. ASSUME NEW h \in Handles, Drop(h) PROVE UNCHANGED clientVars
  BY <1>9 DEF Drop
<1>10. ASSUME NEW s \in Slots, WriterBegin(s) \/ WriterLoop(s) PROVE UNCHANGED clientVars
  BY <1>10 DEF WriterBegin, WriterLoop
<1>11. ASSUME NEW d \in Deleters, DeleteRetire(d) \/ DeleteLock(d) PROVE UNCHANGED clientVars
  BY <1>11 DEF DeleteRetire, DeleteLock
<1>12. ASSUME NEW g \in Guests, GuestEnter(g) \/ GuestLock(g) \/ GuestLeave(g)
       PROVE  UNCHANGED clientVars
  BY <1>12 DEF GuestEnter, GuestLock, GuestLeave
<1>13. ASSUME SaveNew \/ UNCHANGED vars PROVE UNCHANGED clientVars
  BY <1>13 DEF SaveNew, vars
<1> QED
  BY <1>1, <1>2, <1>3, <1>4, <1>5, <1>6, <1>7, <1>8, <1>9, <1>10, <1>11, <1>12, <1>13 DEF Next

-----------------------------------------------------------------------------
\* The conjunction IInv holds in every reachable state of the persister.
THEOREM Invariance == Spec => []IInv
<1>1. Init => IInv
  BY InitIInv
<1>2. IInv /\ [Next]_vars => IInv'
  BY InvStep
<1> QED
  BY <1>1, <1>2, PTL DEF Spec

\* Every variable of the persister stays in its domain.
THEOREM TypeCorrect == Spec => []TypeOK
<1>1. IInv => TypeOK
  BY DEF IInv
<1> QED
  BY <1>1, Invariance, PTL

\* Deleting a session is final: no persist of a handle that the delete retired
\* (queued, in flight, or judged before the delete and queued after it) brings
\* the stored snapshot back, with any number of concurrent deletes.
THEOREM DeleteIsFinal == Spec => []DeletedStaysDeleted
<1>1. IInv => DeletedStaysDeleted
  BY DEF IInv
<1> QED
  BY <1>1, Invariance, PTL

\* Storage writes of one session never overlap, however many slots and writer
\* tasks deletes leave behind.
THEOREM WriteExclusion == Spec => []WritesNeverOverlap
<1>1. IInv => WritesNeverOverlap
  BY DEF IInv, InFlightCurrent, WritesNeverOverlap
<1> QED
  BY <1>1, Invariance, PTL

\* No request lands in a slot that nobody drains.
THEOREM RequestsDrained == Spec => []NothingStranded
<1>1. IInv => NothingStranded
  BY DEF IInv
<1> QED
  BY <1>1, Invariance, PTL

\* No waiter is forgotten: whoever waits is queued, or in the batch of a running
\* writer, through merges, timeouts, deletes and re-queued work.
THEOREM WaitersNeverForgotten == Spec => []WaitersKept
<1>1. Init => WaitersKept
  BY DEF Init, WaitersKept, Waiting
<1>2. IInv /\ WaitersKept /\ [Next]_vars => WaitersKept'
  BY WaitersStep
<1> QED
  BY <1>1, <1>2, Invariance, PTL DEF Spec

\* Nobody starts waiting.
LEMMA InitCarried == Init => RequestsCarried
  BY DEF Init, RequestsCarried, Carried, EmptyPending, NoBatch

\* Whoever waits is carried with the rows it asked for.
THEOREM RequestsAreCarried == Spec => []RequestsCarried
  BY InitCarried, CarriedStep, Invariance, PTL DEF Spec

\* Ok is only said of what is stored: a client whose persist is answered Ok finds
\* the rows of its request stored by that very step, unless the same write was
\* asked to remove them, through merged requests, retries and work a delete
\* re-queued (queue, write_batch, delete).
THEOREM OkIsDurable == Spec => OkMeansStored
<1>1. IInv /\ RequestsCarried /\ [Next]_vars
      => [\A c \in Clients :
            cpc[c] = "waiting" /\ cpc'[c] = "idle" /\ answer'[c] = "ok"
            => \A u \in job[c].upd :
                 u \in rows' \/ \E s \in Slots : u \in batch[s].rem]_vars
  BY OkStored
<1> QED
  BY RequestsAreCarried, Invariance, <1>1, PTL DEF Spec, OkMeansStored

=============================================================================
