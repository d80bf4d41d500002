------------------------------- MODULE Pipeline -------------------------------
(***************************************************************************)
(* The write pipeline (pipeline.rs, pipeline/{embedding,graph,summary}.rs) *)
(* and submit_derived_work of services.rs, which hands it the work derived *)
(* from a committed update: one bounded queue and one worker task for each *)
(* kind of work, one shared backlog gauge.  A rejected item is run on a    *)
(* task of its own, except a summary refresh, which is dropped.            *)
(*                                                                         *)
(* What an item does to the session is the subject of DerivedWork; here it *)
(* is run, by a step of its own.                                           *)
(***************************************************************************)
EXTENDS Integers, Sequences, FiniteSets

CONSTANTS
    Items,       \* committed updates
    Capacity,    \* Capacity[q]: the bound of queue q
    NoItem,
    Word         \* the gauge is an unsigned integer modulo Word (2^64)

Queues == <<"embedding", "graph", "summary">>
Kinds == {"embedding", "graph", "summary"}
HasFallback == {"embedding", "graph"}

ASSUME PipelineAssumption ==
    /\ NoItem \notin Items
    /\ Capacity \in [Kinds -> Nat \ {0}]
    /\ Word \in Nat /\ Word > 2

VARIABLES
    stage,    \* per item: the number of queues it was submitted to, -1 before
    sent,     \* items accepted by a queue and not yet counted in the gauge
    queue,    \* per kind: the channel
    running,  \* per kind: the item its worker runs
    ran,      \* per kind: the item its worker has run and not yet discounted
    alive,    \* per kind: the worker task exists
    plain,    \* <<kind, item>> pairs run on plain tasks
    runs,     \* history: how often an item of a kind was run
    backlog   \* the gauge

pipelineVars == <<stage, sent, queue, running, ran, alive, plain, runs, backlog>>

-----------------------------------------------------------------------------
(* submit_derived_work. *)

\* The update is committed: its derived work can be submitted.
Commit(i) ==
    /\ stage[i] = -1
    /\ stage' = [stage EXCEPT ![i] = 0]
    /\ UNCHANGED <<sent, queue, running, ran, alive, plain, runs, backlog>>

\* The submission item i is at.
Submitting(i) == stage[i] \in 0 .. 2 /\ i \notin sent
Target(i) == Queues[stage[i] + 1]

\* submit: try_send succeeds.
Accept(i) ==
    /\ Submitting(i)
    /\ alive[Target(i)] /\ Len(queue[Target(i)]) < Capacity[Target(i)]
    /\ queue' = [queue EXCEPT ![Target(i)] = Append(@, i)]
    /\ sent' = sent \cup {i}
    /\ UNCHANGED <<stage, running, ran, alive, plain, runs, backlog>>

\* submit: ... and then the gauge is incremented.
Count(i) ==
    /\ i \in sent
    /\ sent' = sent \ {i}
    /\ backlog' = (backlog + 1) % Word
    /\ stage' = [stage EXCEPT ![i] = @ + 1]
    /\ UNCHANGED <<queue, running, ran, alive, plain, runs>>

\* Mutant of Overflow: a rejected item is counted in the gauge.
Overflow_counted(i) ==
    /\ Submitting(i)
    /\ ~alive[Target(i)] \/ Len(queue[Target(i)]) = Capacity[Target(i)]
    /\ plain' = IF Target(i) \in HasFallback THEN plain \cup {<<Target(i), i>>} ELSE plain
    /\ stage' = [stage EXCEPT ![i] = @ + 1]
    /\ backlog' = (backlog + 1) % Word
    /\ UNCHANGED <<sent, queue, running, ran, alive, runs>>

\* Mutant of Overflow: a rejected item is submitted again, beside its fallback.
Overflow_retried(i) ==
    /\ Submitting(i)
    /\ ~alive[Target(i)] \/ Len(queue[Target(i)]) = Capacity[Target(i)]
    /\ plain' = IF Target(i) \in HasFallback THEN plain \cup {<<Target(i), i>>} ELSE plain
    /\ UNCHANGED <<stage, sent, queue, running, ran, alive, runs, backlog>>

\* Mutant of Overflow: a rejected item is dropped, whatever its kind.
Overflow_dropped(i) ==
    /\ Submitting(i)
    /\ ~alive[Target(i)] \/ Len(queue[Target(i)]) = Capacity[Target(i)]
    /\ stage' = [stage EXCEPT ![i] = @ + 1]
    /\ UNCHANGED <<sent, queue, running, ran, alive, plain, runs, backlog>>

\* Backpressure or WorkerShutdown: the work goes to a task of its own.
Overflow(i) ==
    /\ Submitting(i)
    /\ ~alive[Target(i)] \/ Len(queue[Target(i)]) = Capacity[Target(i)]
    /\ plain' = IF Target(i) \in HasFallback THEN plain \cup {<<Target(i), i>>} ELSE plain
    /\ stage' = [stage EXCEPT ![i] = @ + 1]
    /\ UNCHANGED <<sent, queue, running, ran, alive, runs, backlog>>

RunPlain(k, i) ==
    /\ <<k, i>> \in plain
    /\ plain' = plain \ {<<k, i>>}
    /\ runs' = [runs EXCEPT ![k][i] = @ + 1]
    /\ UNCHANGED <<stage, sent, queue, running, ran, alive, backlog>>

-----------------------------------------------------------------------------
(* The worker of a queue. *)

Receive(k) ==
    /\ alive[k] /\ running[k] = NoItem /\ ran[k] = NoItem
    /\ queue[k] # <<>>
    /\ running' = [running EXCEPT ![k] = Head(queue[k])]
    /\ queue' = [queue EXCEPT ![k] = Tail(@)]
    /\ UNCHANGED <<stage, sent, ran, alive, plain, runs, backlog>>

Work(k) ==
    /\ running[k] # NoItem
    /\ runs' = [runs EXCEPT ![k][running[k]] = @ + 1]
    /\ ran' = [ran EXCEPT ![k] = running[k]]
    /\ running' = [running EXCEPT ![k] = NoItem]
    /\ UNCHANGED <<stage, sent, queue, alive, plain, backlog>>

Discount(k) ==
    /\ ran[k] # NoItem
    /\ ran' = [ran EXCEPT ![k] = NoItem]
    /\ backlog' = (backlog + Word - 1) % Word
    /\ UNCHANGED <<stage, sent, queue, running, alive, plain, runs>>

\* The work panics: the task is gone, and the channel with what it holds.
Die(k) ==
    /\ running[k] # NoItem
    /\ alive' = [alive EXCEPT ![k] = FALSE]
    /\ running' = [running EXCEPT ![k] = NoItem]
    /\ queue' = [queue EXCEPT ![k] = <<>>]
    /\ UNCHANGED <<stage, sent, ran, plain, runs, backlog>>

-----------------------------------------------------------------------------
PipelineInit ==
    /\ stage = [i \in Items |-> -1] /\ sent = {}
    /\ queue = [k \in Kinds |-> <<>>]
    /\ running = [k \in Kinds |-> NoItem] /\ ran = [k \in Kinds |-> NoItem]
    /\ alive = [k \in Kinds |-> TRUE]
    /\ plain = {}
    /\ runs = [k \in Kinds |-> [i \in Items |-> 0]]
    /\ backlog = 0

PipelineNext ==
    \/ \E i \in Items : Commit(i) \/ Accept(i) \/ Count(i) \/ Overflow(i)
    \/ \E k \in Kinds, i \in Items : RunPlain(k, i)
    \/ \E k \in Kinds : Receive(k) \/ Work(k) \/ Discount(k) \/ Die(k)

PipelineSpec == PipelineInit /\ [][PipelineNext]_pipelineVars

\* Tasks are scheduled and the derived work of an item ends.
PipelineFairness ==
    /\ \A i \in Items : WF_pipelineVars(Accept(i) \/ Count(i) \/ Overflow(i))
    /\ \A k \in Kinds, i \in Items : WF_pipelineVars(RunPlain(k, i))
    /\ \A k \in Kinds : WF_pipelineVars(Receive(k) \/ Work(k) \/ Discount(k))

PipelineFairSpec == PipelineSpec /\ PipelineFairness

-----------------------------------------------------------------------------
(* Properties. *)

\* Type invariant.
PipelineTypeOK ==
    /\ stage \in [Items -> -1 .. 3] /\ sent \subseteq Items
    /\ queue \in [Kinds -> Seq(Items)]
    /\ running \in [Kinds -> Items \cup {NoItem}]
    /\ ran \in [Kinds -> Items \cup {NoItem}]
    /\ alive \in [Kinds -> BOOLEAN]
    /\ plain \subseteq Kinds \X Items
    /\ runs \in [Kinds -> [Items -> Nat]]
    /\ backlog \in 0 .. Word - 1

Occupied(x) == IF x = NoItem THEN 0 ELSE 1
Held(k) == Len(queue[k]) + Occupied(running[k]) + Occupied(ran[k])
InPipeline == Held("embedding") + Held("graph") + Held("summary")

\* The gauge never drifts while the workers live: up to submissions between
\* try_send and fetch_add it equals, modulo the word, what the queues and the
\* workers hold, so it returns to zero when they drain (backlog, submit, the
\* workers).  The items of a worker that panicked stay counted for good.
BacklogAccounts ==
    (\A k \in Kinds : alive[k])
        => (backlog + Cardinality(sent)) % Word = InPipeline % Word

\* "Graph merge and vectorization run on the pipeline only, so each happens
\* exactly once" (update_context): never twice, through a queue, a fallback
\* task or both.
RunsAtMostOnce == \A k \in Kinds, i \in Items : runs[k][i] <= 1

\* The derived work of a committed update is eventually run, also under
\* backpressure ("so nothing is lost", log_pipeline_submit), by its queue's
\* worker or on a task of its own; only a panic of that worker can lose it.
WorkDone ==
    \A k \in HasFallback, i \in Items : stage[i] = 0 ~> runs[k][i] = 1 \/ ~alive[k]

\* The gauge accounts for every item, and none runs twice.
PipelineSound == BacklogAccounts /\ RunsAtMostOnce

(* The inductive invariant behind the theorem of BackgroundProofs. *)

\* Item i was submitted to queue k: it is past it, or accepted and not counted.
Turn == [embedding |-> 0, graph |-> 1, summary |-> 2]
Submitted(k, i) == stage[i] > Turn[k] \/ (stage[i] = Turn[k] /\ i \in sent)

\* An item of a kind is at one place at most: to be submitted, in its queue,
\* with its worker, on a task of its own, or run.
Queued(k, i) == \E n \in 1 .. Len(queue[k]) : queue[k][n] = i
NoDuplicates(k) ==
    \A m, n \in 1 .. Len(queue[k]) : queue[k][m] = queue[k][n] => m = n

OnePlace ==
    \A k \in Kinds :
        /\ NoDuplicates(k)
        /\ \A i \in Items :
             /\ Queued(k, i) \/ running[k] = i \/ <<k, i>> \in plain
                  => Submitted(k, i) /\ runs[k][i] = 0
             /\ ~(Queued(k, i) /\ running[k] = i)
             /\ ~(Queued(k, i) /\ <<k, i>> \in plain)
             /\ ~(running[k] = i /\ <<k, i>> \in plain)
             /\ runs[k][i] > 0 => Submitted(k, i)

\* What is accepted and not counted is at a submission.
SentAtQueue == IsFiniteSet(sent) /\ \A i \in sent : stage[i] \in 0 .. 2

\* A worker discounts an item before it takes the next.
OneAtATime == \A k \in Kinds : running[k] = NoItem \/ ran[k] = NoItem

PipelineInv ==
    /\ PipelineTypeOK /\ SentAtQueue /\ OneAtATime
    /\ OnePlace /\ RunsAtMostOnce
    /\ BacklogAccounts

=============================================================================
