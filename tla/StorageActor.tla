---------------------------- MODULE StorageActor ----------------------------
(***************************************************************************)
(* The storage actor: a bounded channel of requests, one loop that takes   *)
(* them and starts a task for each, a semaphore that bounds the tasks, and *)
(* callers that wait for the answer with a timeout.  A timeout ends the    *)
(* wait, not the request.  Requests that write one session wait for its    *)
(* write lock, which the session's background writer takes too, and which  *)
(* exists only while that writer has work; a waiting request keeps its     *)
(* permit.                                                                 *)
(*                                                                         *)
(* A request is abstracted to whether it goes through the session's lock   *)
(* (SessionPersister::exclusive and delete); all sessions here are one.    *)
(***************************************************************************)
EXTENDS Naturals, Sequences, FiniteSets, TLC

CONSTANTS
    SaCallers,  \* tasks that use the handle
    SaPermits,  \* MAX_CONCURRENT_REQUESTS
    SaCapacity, \* REQUEST_QUEUE_CAPACITY
    MaxSlots    \* bound: slots registered for the session

ASSUME StorageActorAssumption ==
    SaPermits \in Nat \ {0} /\ SaCapacity \in Nat \ {0} /\ MaxSlots \in Nat

Nobody == "nobody"
Writer == "writer"

VARIABLES
    saCall,   \* each caller: "idle", "sending" or "waiting"
    saTask,   \* its request: "done" (or none yet), "sending", "queued",
              \* "taken", "started", "blocked", "running"
    saLocked, \* whether the request takes the session's lock
    saQueue,  \* the channel
    saFree,   \* free permits
    saSlots,  \* slots registered for the session so far, by number
    saSlot,   \* the registered slot, 0 when the writer has no work
    saLock,   \* who holds the write lock of each slot
    saOn      \* the slot whose lock a request waits for or holds, 0: none

actorVars == <<saCall, saTask, saLocked, saQueue, saFree, saSlots, saSlot,
               saLock, saOn>>

slotVars == <<saSlots, saSlot, saLock, saOn>>

ActorInit ==
    /\ saCall = [c \in SaCallers |-> "idle"]
    /\ saTask = [c \in SaCallers |-> "done"]
    /\ saLocked = [c \in SaCallers |-> FALSE]
    /\ saQueue = <<>>
    /\ saFree = SaPermits
    /\ saSlots = 0
    /\ saSlot = 0
    /\ saLock = [n \in 1..MaxSlots |-> Nobody]
    /\ saOn = [c \in SaCallers |-> 0]

-----------------------------------------------------------------------------
(* The requests, each with whether it takes the session's lock. *)

SessionRequests ==
    [LoadSession |-> FALSE, SaveSession |-> TRUE, DeleteSession |-> TRUE,
     ClearSessionEntities |-> TRUE, DeleteEntity |-> TRUE,
     ListSessions |-> FALSE, ListSessionSummaries |-> FALSE,
     BatchSaveUpdates |-> TRUE]

CheckpointRequests == [SaveCheckpoint |-> FALSE, LoadCheckpoint |-> FALSE]

WorkspaceRequests ==
    [SaveWorkspaceMetadata |-> FALSE, DeleteWorkspace |-> FALSE,
     AddSessionToWorkspace |-> FALSE, RemoveSessionFromWorkspace |-> FALSE,
     ListAllWorkspaces |-> FALSE]

MessageRequests ==
    [AppendMessages |-> TRUE, LoadMessages |-> FALSE,
     DeleteMessagesBefore |-> FALSE]

CardRequests == [GetCard |-> FALSE, PutCard |-> FALSE, CardHistory |-> FALSE]

FreshnessRequests ==
    [RegisterSource |-> FALSE, CheckFreshness |-> FALSE,
     CheckFreshnessBatch |-> FALSE, InvalidateSource |-> FALSE,
     RegisterSymbolDependencies |-> FALSE, CascadeInvalidate |-> FALSE,
     GetStaleEntriesBySource |-> FALSE]

Takes == SessionRequests @@ CheckpointRequests @@ WorkspaceRequests
         @@ MessageRequests @@ CardRequests @@ FreshnessRequests

(* send_request: the caller builds the message and waits for room. *)
SendRequest(c, request) ==
    /\ saCall[c] = "idle"
    /\ saTask[c] = "done"
    /\ saCall' = [saCall EXCEPT ![c] = "sending"]
    /\ saTask' = [saTask EXCEPT ![c] = "sending"]
    /\ saLocked' = [saLocked EXCEPT ![c] = Takes[request]]
    /\ UNCHANGED <<saQueue, saFree, slotVars>>

Enqueue(c) ==
    /\ saCall[c] = "sending"
    /\ Len(saQueue) < SaCapacity
    /\ saQueue' = Append(saQueue, c)
    /\ saCall' = [saCall EXCEPT ![c] = "waiting"]
    /\ saTask' = [saTask EXCEPT ![c] = "queued"]
    /\ UNCHANGED <<saLocked, saFree, slotVars>>

(* The caller's timeout: a message not yet sent is dropped with the        *)
(* future; a sent one runs on, and its answer finds no receiver.           *)
TimesOut(c) ==
    /\ saCall[c] \in {"sending", "waiting"}
    /\ saCall' = [saCall EXCEPT ![c] = "idle"]
    /\ saTask' = [saTask EXCEPT ![c] = IF @ = "sending" THEN "done" ELSE @]
    /\ saLocked' = [saLocked EXCEPT ![c] = @ /\ saTask[c] # "sending"]
    /\ UNCHANGED <<saQueue, saFree, slotVars>>

-----------------------------------------------------------------------------
(* run_async: take a message, wait for a permit, start its task. *)

Taken == {c \in SaCallers : saTask[c] = "taken"}

ActorReceive ==
    /\ saQueue # <<>> /\ Taken = {}
    /\ saTask' = [saTask EXCEPT ![Head(saQueue)] = "taken"]
    /\ saQueue' = Tail(saQueue)
    /\ UNCHANGED <<saCall, saLocked, saFree, slotVars>>

StartTask(c) ==
    /\ saTask[c] = "taken"
    /\ saFree > 0
    /\ saFree' = saFree - 1
    /\ saTask' = [saTask EXCEPT ![c] = "started"]
    /\ UNCHANGED <<saCall, saLocked, saQueue, slotVars>>

Waits(c) == saLocked[c] /\ saSlot # 0

(* handle_message_async: a request that writes a session looks its slot    *)
(* up, and waits for its lock when there is one; others run at once.       *)
LookUp(c) ==
    /\ saTask[c] = "started"
    /\ saTask' = [saTask EXCEPT ![c] = IF Waits(c) THEN "blocked" ELSE "running"]
    /\ saOn' = [saOn EXCEPT ![c] = IF Waits(c) THEN saSlot ELSE 0]
    /\ UNCHANGED <<saCall, saLocked, saQueue, saFree, saSlots, saSlot, saLock>>

MayLock_spare(c) == saLock[saOn[c]] = Nobody /\ saFree > 0

(* What a request waiting for the lock needs. *)
MayLock(c) == saLock[saOn[c]] = Nobody

TakeLock(c) ==
    /\ saTask[c] = "blocked"
    /\ MayLock(c)
    /\ saLock' = [saLock EXCEPT ![saOn[c]] = c]
    /\ saTask' = [saTask EXCEPT ![c] = "running"]
    /\ UNCHANGED <<saCall, saLocked, saQueue, saFree, saSlots, saSlot, saOn>>

(* The storage operation ended, or register_source reached its own limit;  *)
(* the answer is sent if somebody still waits, lock and permit go back.    *)
FinishTask(c) ==
    /\ saTask[c] = "running"
    /\ saTask' = [saTask EXCEPT ![c] = "done"]
    /\ saCall' = [saCall EXCEPT ![c] = IF @ = "waiting" THEN "idle" ELSE @]
    /\ saLock' = [n \in DOMAIN saLock |->
                     IF saLock[n] = c THEN Nobody ELSE saLock[n]]
    /\ saOn' = [saOn EXCEPT ![c] = 0]
    /\ saFree' = saFree + 1
    /\ saLocked' = [saLocked EXCEPT ![c] = FALSE]
    /\ UNCHANGED <<saQueue, saSlots, saSlot>>

-----------------------------------------------------------------------------
(* The session's background writer: its slot is registered while it has    *)
(* work, it holds the slot's lock while it writes, and it needs neither    *)
(* the channel nor a permit.  Requests that found a slot keep it.          *)

QueueWrite ==
    /\ saSlot = 0 /\ saSlots < MaxSlots
    /\ saSlots' = saSlots + 1
    /\ saSlot' = saSlots + 1
    /\ UNCHANGED <<saCall, saTask, saLocked, saQueue, saFree, saLock, saOn>>

WriterLocks ==
    /\ saSlot # 0 /\ saLock[saSlot] = Nobody
    /\ saLock' = [saLock EXCEPT ![saSlot] = Writer]
    /\ UNCHANGED <<saCall, saTask, saLocked, saQueue, saFree, saSlots, saSlot,
                   saOn>>

(* The write ended; more was queued meanwhile, or the slot goes away. *)
WriterEnds ==
    /\ saSlot # 0 /\ saLock[saSlot] = Writer
    /\ saLock' = [saLock EXCEPT ![saSlot] = Nobody]
    /\ saSlot' \in {0, saSlot}
    /\ UNCHANGED <<saCall, saTask, saLocked, saQueue, saFree, saSlots, saOn>>

ActorNext ==
    \/ \E c \in SaCallers, request \in DOMAIN Takes : SendRequest(c, request)
    \/ \E c \in SaCallers :
         \/ Enqueue(c) \/ TimesOut(c)
         \/ StartTask(c) \/ LookUp(c) \/ TakeLock(c) \/ FinishTask(c)
    \/ ActorReceive
    \/ QueueWrite \/ WriterLocks \/ WriterEnds

(* The loop and the tasks are scheduled, and storage operations end.  The  *)
(* channel and the lock serve their waiters in order (tokio's mpsc and     *)
(* Mutex are FIFO), hence strong fairness for a waiter.                    *)
ActorFairness ==
    /\ WF_actorVars(ActorReceive) /\ WF_actorVars(WriterLocks) /\ WF_actorVars(WriterEnds)
    /\ \A c \in SaCallers :
         /\ WF_actorVars(StartTask(c)) /\ WF_actorVars(LookUp(c))
         /\ WF_actorVars(FinishTask(c))
         /\ SF_actorVars(Enqueue(c)) /\ SF_actorVars(TakeLock(c))

ActorFairSpec == ActorInit /\ [][ActorNext]_actorVars /\ ActorFairness

-----------------------------------------------------------------------------
(* Every request handed to the actor ends, and gives its permit back,      *)
(* although waiting requests may hold every permit, the channel may be     *)
(* full and callers may have stopped waiting.                              *)
RequestsEnd ==
    \A c \in SaCallers : saTask[c] = "sending" ~> saTask[c] = "done"
=============================================================================
