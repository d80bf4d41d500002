--------------------------- MODULE BackgroundProofs ---------------------------
(***************************************************************************)
(* What the background work promises, for any number of updates, sessions  *)
(* and any capacity of the queues: the write pipeline accounts for every   *)
(* item and runs none twice; what an erasure removes stays removed although *)
(* derived work of the record is still under way; and a run of the         *)
(* vectorizer that is skipped had nothing to do, whatever searches, purges *)
(* and restarts come between.  And what the session promises under all the *)
(* work: its tiers agree with its log, and a version that somebody holds   *)
(* never changes under him.                                                *)
(***************************************************************************)
EXTENDS Pipeline, DerivedWork, Vectorizer, ActiveSession, NumberFacts, FiniteSetTheorems,
        SequenceTheorems

(***************************************************************************)
(* The write pipeline.                                                     *)
(***************************************************************************)

\* The queues are submitted to in this order.
LEMMA TurnType == \A k \in Kinds : Turn[k] \in 0 .. 2
  BY DEF Kinds, Turn

\* The pipeline starts empty.
LEMMA PipelineInitInv == PipelineInit => PipelineInv
<1> SUFFICES ASSUME PipelineInit PROVE PipelineInv
  OBVIOUS
<1> USE PipelineAssumption DEF PipelineInit
<1>1. PipelineTypeOK
  BY DEF PipelineTypeOK
<1>2. SentAtQueue /\ OneAtATime /\ Cardinality(sent) = 0
  BY FS_EmptySet DEF SentAtQueue, OneAtATime
<1>3. OnePlace /\ RunsAtMostOnce
  BY DEF OnePlace, Queued, NoDuplicates, RunsAtMostOnce
<1>4. BacklogAccounts
  BY <1>2 DEF BacklogAccounts, InPipeline, Held, Occupied, Kinds
<1> QED
  BY <1>1, <1>2, <1>3, <1>4 DEF PipelineInv

\* A queue, a worker, and so the pipeline, hold a natural number of items.
LEMMA HeldType ==
    ASSUME PipelineTypeOK
    PROVE  /\ \A k \in Kinds : Held(k) \in Nat
           /\ InPipeline \in Nat
<1>1. \A k \in Kinds : Len(queue[k]) \in Nat
  BY DEF PipelineTypeOK
<1>2. ASSUME NEW k \in Kinds PROVE Held(k) \in Nat
  <2>1. Occupied(running[k]) \in Nat /\ Occupied(ran[k]) \in Nat
    BY DEF Occupied
  <2> QED
    BY <1>1, <2>1 DEF Held
<1> QED
  BY <1>2 DEF InPipeline, Kinds

\* An item at a submission has a queue to go to.
LEMMA TargetIs ==
    ASSUME PipelineTypeOK, NEW i \in Items, Submitting(i)
    PROVE  /\ Target(i) \in Kinds
           /\ stage[i] \in 0 .. 2 /\ i \notin sent
           /\ stage[i] = Turn[Target(i)]
<1>1. stage[i] \in 0 .. 2 /\ i \notin sent
  BY DEF Submitting
<1>2. stage[i] = 0 \/ stage[i] = 1 \/ stage[i] = 2
  BY <1>1
<1>3. Target(i) = <<"embedding", "graph", "summary">>[stage[i] + 1]
  BY DEF Target, Queues
<1>4. CASE stage[i] = 0
  BY <1>1, <1>3, <1>4 DEF Kinds, Turn
<1>5. CASE stage[i] = 1
  BY <1>1, <1>3, <1>5 DEF Kinds, Turn
<1>6. CASE stage[i] = 2
  BY <1>1, <1>3, <1>6 DEF Kinds, Turn
<1> QED
  BY <1>2, <1>4, <1>5, <1>6

\* One queue or worker changes what it holds by n: so does the pipeline.
LEMMA HeldOne ==
    ASSUME PipelineTypeOK, PipelineTypeOK', NEW k \in Kinds, NEW n \in Int,
           Held(k)' = Held(k) + n, \A j \in Kinds \ {k} : Held(j)' = Held(j)
    PROVE  InPipeline' = InPipeline + n
<1>1. \A j \in Kinds : Held(j) \in Nat
  BY HeldType
<1> QED
  BY <1>1 DEF InPipeline, Kinds

\* Every step keeps the variables in their domains.
LEMMA PipelineTypeStep ==
    ASSUME PipelineTypeOK, SentAtQueue, PipelineNext PROVE PipelineTypeOK'
<1> USE PipelineAssumption DEF PipelineTypeOK
<1>1. ASSUME NEW i \in Items, Commit(i) \/ Accept(i) \/ Count(i) \/ Overflow(i)
      PROVE  PipelineTypeOK'
  <2>1. CASE Commit(i)
    BY <2>1 DEF Commit
  <2>2. CASE Accept(i)
    <3>1. Target(i) \in Kinds
      BY <2>2, TargetIs DEF Accept
    <3>2. Append(queue[Target(i)], i) \in Seq(Items)
      BY <3>1
    <3>3. queue' \in [Kinds -> Seq(Items)]
      BY <2>2, <3>2 DEF Accept
    <3> QED
      BY <2>2, <3>3 DEF Accept
  <2>3. CASE Count(i)
    <3>1. (backlog + 1) % Word \in 0 .. Word - 1
      OBVIOUS
    <3>2. stage[i] \in 0 .. 2
      BY <2>3 DEF Count, SentAtQueue
    <3>3. stage[i] + 1 \in -1 .. 3
      BY <3>2
    <3> QED
      BY <2>3, <3>1, <3>3 DEF Count
  <2>4. CASE Overflow(i)
    <3>1. stage[i] \in 0 .. 2 /\ Target(i) \in Kinds
      BY <2>4, TargetIs DEF Overflow
    <3>2. stage[i] + 1 \in -1 .. 3
      BY <3>1
    <3> QED
      BY <2>4, <3>1, <3>2 DEF Overflow
  <2> QED
    BY <1>1, <2>1, <2>2, <2>3, <2>4
<1>2. ASSUME NEW k \in Kinds, NEW i \in Items, RunPlain(k, i) PROVE PipelineTypeOK'
  BY <1>2 DEF RunPlain
<1>3. ASSUME NEW k \in Kinds, Receive(k) \/ Work(k) \/ Discount(k) \/ Die(k)
      PROVE  PipelineTypeOK'
  <2>1. CASE Receive(k)
    BY <2>1 DEF Receive
  <2>2. CASE Work(k)
    BY <2>2 DEF Work
  <2>3. CASE Discount(k)
    <3>1. (backlog + Word - 1) % Word \in 0 .. Word - 1
      OBVIOUS
    <3> QED
      BY <2>3, <3>1 DEF Discount
  <2>4. CASE Die(k)
    BY <2>4 DEF Die
  <2> QED
    BY <1>3, <2>1, <2>2, <2>3, <2>4
<1> QED
  BY <1>1, <1>2, <1>3 DEF PipelineNext

\* What is accepted and not counted stays finite and at a submission.
LEMMA SentStep ==
    ASSUME PipelineTypeOK, SentAtQueue, PipelineNext PROVE SentAtQueue'
<1> USE DEF PipelineTypeOK, SentAtQueue
<1>1. ASSUME NEW i \in Items, Commit(i) \/ Accept(i) \/ Count(i) \/ Overflow(i)
      PROVE  SentAtQueue'
  <2>1. IsFiniteSet(sent \cup {i}) /\ IsFiniteSet(sent \ {i})
    BY FS_AddElement, FS_RemoveElement
  <2>2. CASE Commit(i)
    BY <2>2 DEF Commit
  <2>3. CASE Accept(i)
    BY <2>1, <2>3 DEF Accept, Submitting
  <2>4. CASE Count(i)
    BY <2>1, <2>4 DEF Count
  <2>5. CASE Overflow(i)
    BY <2>5 DEF Overflow, Submitting
  <2> QED
    BY <1>1, <2>2, <2>3, <2>4, <2>5
<1>2. ASSUME UNCHANGED <<sent, stage>> PROVE SentAtQueue'
  BY <1>2
<1> QED
  BY <1>1, <1>2 DEF PipelineNext, RunPlain, Receive, Work, Discount, Die

\* An accepted item is in its queue, once, and nowhere else.
LEMMA AcceptPlace ==
    ASSUME PipelineInv, NEW i \in Items, Accept(i)
    PROVE  OnePlace' /\ RunsAtMostOnce'
<1> USE DEF PipelineInv
<1>1. PICK t \in Kinds : t = Target(i) /\ i \notin sent /\ stage[i] = Turn[t]
  BY TargetIs DEF Accept
<1>2. /\ queue' = [queue EXCEPT ![t] = Append(@, i)] /\ sent' = sent \cup {i}
      /\ UNCHANGED <<stage, running, ran, alive, plain, runs, backlog>>
  BY <1>1 DEF Accept
<1>3. ~Submitted(t, i) /\ Submitted(t, i)'
  <2>1. Turn[t] \in 0 .. 2 /\ ~(stage[i] > Turn[t])
    BY <1>1, TurnType
  <2> QED
    BY <1>1, <1>2, <2>1 DEF Submitted
<1>4. \A k \in Kinds, j \in Items : Submitted(k, j) => Submitted(k, j)'
  BY <1>2 DEF Submitted
<1>5. \A k \in Kinds \ {t} : queue'[k] = queue[k]
  BY <1>2 DEF PipelineTypeOK
<1>6. queue[t] \in Seq(Items) /\ queue'[t] = Append(queue[t], i)
  BY <1>1, <1>2 DEF PipelineTypeOK
<1>7. /\ Len(queue'[t]) = Len(queue[t]) + 1 /\ Len(queue[t]) \in Nat
      /\ queue'[t][Len(queue[t]) + 1] = i
      /\ \A n \in 1 .. Len(queue[t]) : queue'[t][n] = queue[t][n]
  BY <1>6
<1>8. ~Queued(t, i)
  BY <1>1, <1>3 DEF OnePlace
<1>9. ASSUME NEW k \in Kinds PROVE NoDuplicates(k)'
  <2>1. NoDuplicates(k)
    BY DEF OnePlace
  <2>2. CASE k = t
    <3> SUFFICES ASSUME NEW m \in 1 .. Len(queue'[t]), NEW n \in 1 .. Len(queue'[t]),
                        queue'[t][m] = queue'[t][n]
                 PROVE  m = n
      BY <2>2 DEF NoDuplicates
    <3>1. \A l \in 1 .. Len(queue[t]) : queue[t][l] # i
      BY <1>8 DEF Queued
    <3>2. m \in 1 .. Len(queue[t]) <=> n \in 1 .. Len(queue[t])
      BY <3>1, <1>7, SMTT(30)
    <3>3. CASE m \in 1 .. Len(queue[t])
      BY <2>1, <2>2, <3>2, <3>3, <1>7 DEF NoDuplicates
    <3>4. CASE m \notin 1 .. Len(queue[t])
      BY <3>2, <3>4, <1>7
    <3> QED
      BY <3>3, <3>4
  <2>3. CASE k # t
    BY <2>1, <2>3, <1>5 DEF NoDuplicates
  <2> QED
    BY <2>2, <2>3
<1>10. \A k \in Kinds, j \in Items : Queued(k, j)' => Queued(k, j) \/ (k = t /\ j = i)
  BY <1>5, <1>7 DEF Queued
<1>11. runs[t][i] = 0 /\ running[t] # i /\ <<t, i>> \notin plain
  BY <1>1, <1>3 DEF OnePlace, PipelineTypeOK
<1>12. OnePlace'
  BY <1>2, <1>3, <1>4, <1>9, <1>10, <1>11 DEF OnePlace
<1> QED
  BY <1>2, <1>12 DEF RunsAtMostOnce

\* Counting an item, or handing it to a task of its own, moves it past its queue.
LEMMA SubmitPlace ==
    ASSUME PipelineInv, NEW i \in Items, Count(i) \/ Overflow(i)
    PROVE  OnePlace' /\ RunsAtMostOnce'
<1> USE DEF PipelineInv
<1>1. /\ stage[i] \in 0 .. 2 /\ stage' = [stage EXCEPT ![i] = @ + 1]
      /\ sent' = sent \ {i}
      /\ UNCHANGED <<queue, running, ran, alive, runs>>
  BY TargetIs DEF Count, Overflow, SentAtQueue
<1>2. ASSUME NEW k \in Kinds, NEW j \in Items, Submitted(k, j) PROVE Submitted(k, j)'
  <2>1. Turn[k] \in 0 .. 2
    BY TurnType
  <2>2. CASE j = i
    <3>1. stage'[j] = stage[j] + 1 /\ stage[j] \in 0 .. 2
      BY <1>1, <2>2 DEF PipelineTypeOK
    <3>2. stage[j] >= Turn[k]
      BY <1>2, <2>1, <3>1 DEF Submitted
    <3> QED
      BY <2>1, <3>1, <3>2 DEF Submitted
  <2>3. CASE j # i
    <3>1. stage'[j] = stage[j]
      BY <1>1, <2>3 DEF PipelineTypeOK
    <3> QED
      BY <1>1, <1>2, <2>3, <3>1 DEF Submitted
  <2> QED
    BY <2>2, <2>3
<1>3. \A k \in Kinds : NoDuplicates(k)' = NoDuplicates(k)
  BY <1>1 DEF NoDuplicates
<1>4. \A k \in Kinds, j \in Items : Queued(k, j)' = Queued(k, j)
  BY <1>1 DEF Queued
<1>5. CASE plain' = plain
  BY <1>1, <1>2, <1>3, <1>4, <1>5 DEF OnePlace, RunsAtMostOnce
<1>6. CASE plain' # plain
  <2>1. PICK t \in Kinds : /\ t = Target(i) /\ i \notin sent /\ stage[i] = Turn[t]
                            /\ plain' = plain \cup {<<t, i>>}
    BY <1>6, TargetIs DEF Count, Overflow
  <2>2. Turn[t] \in 0 .. 2
    BY TurnType
  <2>3. ~Submitted(t, i) /\ Submitted(t, i)'
    BY <1>1, <2>1, <2>2 DEF Submitted, PipelineTypeOK
  <2>4. runs[t][i] = 0 /\ running[t] # i /\ ~Queued(t, i)
    <3>1. runs[t][i] \in Nat
      BY <2>1 DEF PipelineTypeOK
    <3>2. ~(runs[t][i] > 0) /\ running[t] # i /\ ~Queued(t, i)
      BY <2>1, <2>3, Zenon DEF OnePlace
    <3> QED
      BY <3>1, <3>2
  <2>5. \A k \in Kinds, j \in Items :
          <<k, j>> \in plain' => <<k, j>> \in plain \/ (k = t /\ j = i)
    BY <2>1
  <2> QED
    BY <1>1, <1>2, <1>3, <1>4, <2>3, <2>4, <2>5 DEF OnePlace, RunsAtMostOnce
<1> QED
  BY <1>5, <1>6

\* Running an item ends its life: from its queue's worker or its own task.
LEMMA RunPlace ==
    ASSUME PipelineInv, NEW k \in Kinds, NEW i \in Items,
           RunPlain(k, i) \/ (Work(k) /\ running[k] = i)
    PROVE  OnePlace' /\ RunsAtMostOnce'
<1> USE DEF PipelineInv
<1>1. /\ runs' = [runs EXCEPT ![k][i] = @ + 1]
      /\ UNCHANGED <<stage, sent, queue, alive, backlog>>
      /\ \/ UNCHANGED running /\ plain' = plain \ {<<k, i>>} /\ <<k, i>> \in plain
         \/ running' = [running EXCEPT ![k] = NoItem] /\ plain' = plain /\ running[k] = i
  BY DEF RunPlain, Work
<1>2. Submitted(k, i) /\ runs[k][i] = 0
  BY <1>1 DEF OnePlace
<1>3. /\ runs'[k][i] = 1
      /\ \A j \in Kinds, l \in Items : j # k \/ l # i => runs'[j][l] = runs[j][l]
  BY <1>1, <1>2 DEF PipelineTypeOK
<1>4. \A j \in Kinds, l \in Items : Submitted(j, l)' = Submitted(j, l)
  BY <1>1 DEF Submitted
<1>5. \A j \in Kinds : NoDuplicates(j)' = NoDuplicates(j)
  BY <1>1 DEF NoDuplicates
<1>6. \A j \in Kinds, l \in Items : Queued(j, l)' = Queued(j, l)
  BY <1>1 DEF Queued
<1>7. \A j \in Kinds, l \in Items :
        /\ running'[j] = l => running[j] = l
        /\ <<j, l>> \in plain' => <<j, l>> \in plain
  BY <1>1, PipelineAssumption DEF PipelineTypeOK
<1>8. ~Queued(k, i) /\ running'[k] # i /\ <<k, i>> \notin plain'
  BY <1>1, PipelineAssumption DEF OnePlace, PipelineTypeOK
<1> QED
  BY <1>2, <1>3, <1>4, <1>5, <1>6, <1>7, <1>8 DEF OnePlace, RunsAtMostOnce

\* A worker takes the head of its queue.
LEMMA ReceivePlace ==
    ASSUME PipelineInv, NEW k \in Kinds, Receive(k)
    PROVE  OnePlace' /\ RunsAtMostOnce'
<1> USE DEF PipelineInv
<1>1. /\ queue[k] \in Seq(Items) /\ queue[k] # <<>>
      /\ running' = [running EXCEPT ![k] = Head(queue[k])]
      /\ queue' = [queue EXCEPT ![k] = Tail(@)]
      /\ UNCHANGED <<stage, sent, ran, alive, plain, runs, backlog>>
  BY DEF Receive, PipelineTypeOK
<1>2. PICK i \in Items : i = queue[k][1] /\ running'[k] = i
  BY <1>1 DEF PipelineTypeOK
<1>3. /\ Len(queue[k]) \in Nat \ {0} /\ Len(queue'[k]) = Len(queue[k]) - 1
      /\ \A n \in 1 .. Len(queue'[k]) : queue'[k][n] = queue[k][n + 1]
  BY <1>1 DEF PipelineTypeOK
<1>4. \A j \in Kinds \ {k} : queue'[j] = queue[j] /\ running'[j] = running[j]
  BY <1>1 DEF PipelineTypeOK
<1>5. \A j \in Kinds, l \in Items : Queued(j, l)' => Queued(j, l)
  BY <1>3, <1>4, SMTT(30) DEF Queued
<1>6. Queued(k, i) /\ ~Queued(k, i)'
  <2>1. Queued(k, i)
    BY <1>2, <1>3 DEF Queued
  <2>2. \A n \in 1 .. Len(queue'[k]) : queue'[k][n] # i
    BY <1>2, <1>3 DEF OnePlace, NoDuplicates
  <2> QED
    BY <2>1, <2>2 DEF Queued
<1>7. ASSUME NEW j \in Kinds PROVE NoDuplicates(j)'
  <2>1. CASE j = k
    <3> SUFFICES ASSUME NEW m \in 1 .. Len(queue'[k]), NEW n \in 1 .. Len(queue'[k]),
                        queue'[k][m] = queue'[k][n]
                 PROVE  m = n
      BY <2>1 DEF NoDuplicates
    <3>1. m + 1 \in 1 .. Len(queue[k]) /\ n + 1 \in 1 .. Len(queue[k])
      BY <1>3
    <3>2. queue[k][m + 1] = queue[k][n + 1]
      BY <1>3
    <3>3. m + 1 = n + 1
      BY <3>1, <3>2 DEF OnePlace, NoDuplicates
    <3> QED
      BY <3>3
  <2>2. CASE j # k
    BY <2>2, <1>4 DEF OnePlace, NoDuplicates
  <2> QED
    BY <2>1, <2>2
<1>8. \A j \in Kinds, l \in Items : Submitted(j, l)' = Submitted(j, l)
  BY <1>1 DEF Submitted
<1> QED
  BY <1>1, <1>2, <1>4, <1>5, <1>6, <1>7, <1>8 DEF OnePlace, RunsAtMostOnce

\* Whatever happens, an item of a kind is at one place, and not run twice.
LEMMA PlaceStep ==
    ASSUME PipelineInv, PipelineNext PROVE OnePlace' /\ RunsAtMostOnce'
<1> USE DEF PipelineInv
<1>1. ASSUME NEW i \in Items, Commit(i) PROVE OnePlace' /\ RunsAtMostOnce'
  <2>1. /\ stage[i] = -1 /\ stage' = [stage EXCEPT ![i] = 0]
        /\ UNCHANGED <<sent, queue, running, plain, runs>>
    BY <1>1 DEF Commit
  <2>2. ASSUME NEW k \in Kinds, NEW j \in Items, Submitted(k, j) PROVE Submitted(k, j)'
    <3>1. Turn[k] \in 0 .. 2
      BY TurnType
    <3>2. j # i
      BY <2>1, <2>2, <3>1 DEF Submitted
    <3> QED
      BY <2>1, <2>2, <3>2 DEF Submitted, PipelineTypeOK
  <2>3. \A k \in Kinds : NoDuplicates(k)' = NoDuplicates(k)
    BY <2>1 DEF NoDuplicates
  <2>4. \A k \in Kinds, j \in Items : Queued(k, j)' = Queued(k, j)
    BY <2>1 DEF Queued
  <2> QED
    BY <2>1, <2>2, <2>3, <2>4 DEF OnePlace, RunsAtMostOnce
<1>2. ASSUME NEW k \in Kinds, Work(k) PROVE OnePlace' /\ RunsAtMostOnce'
  <2>1. PICK i \in Items : running[k] = i
    BY <1>2 DEF Work, PipelineTypeOK
  <2> QED
    BY <1>2, <2>1, RunPlace
<1>3. ASSUME NEW k \in Kinds, Discount(k) PROVE OnePlace' /\ RunsAtMostOnce'
  BY <1>3 DEF Discount, OnePlace, RunsAtMostOnce, NoDuplicates, Queued, Submitted
<1>4. ASSUME NEW k \in Kinds, Die(k) PROVE OnePlace' /\ RunsAtMostOnce'
  <2>1. /\ running' = [running EXCEPT ![k] = NoItem] /\ queue' = [queue EXCEPT ![k] = <<>>]
        /\ UNCHANGED <<stage, sent, plain, runs>>
    BY <1>4 DEF Die
  <2>2. \A j \in Kinds : NoDuplicates(j) => NoDuplicates(j)'
    BY <2>1 DEF NoDuplicates, PipelineTypeOK
  <2>3. \A j \in Kinds, l \in Items : /\ Queued(j, l)' => Queued(j, l)
                                      /\ running'[j] = l => running[j] = l
    BY <2>1, PipelineAssumption DEF Queued, PipelineTypeOK
  <2>4. \A j \in Kinds, l \in Items : Submitted(j, l)' = Submitted(j, l)
    BY <2>1 DEF Submitted
  <2> QED
    BY <2>1, <2>2, <2>3, <2>4 DEF OnePlace, RunsAtMostOnce
<1> QED
  BY <1>1, <1>2, <1>3, <1>4, AcceptPlace, SubmitPlace, RunPlace, ReceivePlace
     DEF PipelineNext

\* The gauge follows the queues and the workers, modulo the word.
LEMMA GaugeStep ==
    ASSUME PipelineInv, PipelineTypeOK', PipelineNext PROVE BacklogAccounts'
<1> USE DEF PipelineInv
<1> SUFFICES ASSUME \A k \in Kinds : alive'[k]
             PROVE  (backlog' + Cardinality(sent')) % Word = InPipeline' % Word
  BY DEF BacklogAccounts
<1> DEFINE n == Cardinality(sent)
<1>1. /\ n \in Nat /\ InPipeline \in Nat /\ backlog \in Int /\ IsFiniteSet(sent)
      /\ Word \in Nat /\ Word > 0
  BY FS_CardinalityType, HeldType, PipelineAssumption DEF PipelineTypeOK, SentAtQueue
<1>2. ASSUME \A k \in Kinds : alive[k] PROVE (backlog + n) % Word = InPipeline % Word
  BY <1>2 DEF BacklogAccounts
<1>3. ASSUME \A k \in Kinds : Held(k)' = Held(k) PROVE InPipeline' = InPipeline
  BY <1>3 DEF InPipeline, Kinds
<1>4. ASSUME alive' = alive, backlog' = backlog, sent' = sent,
             \A k \in Kinds : Held(k)' = Held(k)
      PROVE  (backlog' + Cardinality(sent')) % Word = InPipeline' % Word
  BY <1>2, <1>3, <1>4
<1>5. ASSUME NEW i \in Items, Commit(i) \/ Overflow(i)
      PROVE  (backlog' + Cardinality(sent')) % Word = InPipeline' % Word
  BY <1>4, <1>5 DEF Commit, Overflow, Held
<1>6. ASSUME NEW i \in Items, Accept(i)
      PROVE  (backlog' + Cardinality(sent')) % Word = InPipeline' % Word
  <2>1. PICK t \in Kinds : t = Target(i) /\ i \notin sent
    BY <1>6, TargetIs DEF Accept
  <2>2. /\ queue' = [queue EXCEPT ![t] = Append(@, i)] /\ sent' = sent \cup {i}
        /\ UNCHANGED <<running, ran, alive, backlog>>
    BY <1>6, <2>1 DEF Accept
  <2>3. Cardinality(sent') = n + 1
    BY <1>1, <2>1, <2>2, FS_AddElement
  <2>4. Len(queue'[t]) = Len(queue[t]) + 1 /\ Len(queue[t]) \in Nat
    BY <2>2 DEF PipelineTypeOK
  <2>5. Held(t)' = Held(t) + 1
    <3>1. Occupied(running[t]) \in Nat /\ Occupied(ran[t]) \in Nat
      BY DEF Occupied
    <3> QED
      BY <2>2, <2>4, <3>1 DEF Held
  <2>6. \A k \in Kinds \ {t} : Held(k)' = Held(k)
    BY <2>2 DEF Held, PipelineTypeOK
  <2>7. InPipeline' = InPipeline + 1
    BY <2>5, <2>6, HeldOne
  <2>8. ((backlog + n) + 1) % Word = (InPipeline + 1) % Word
    <3>1. backlog + n \in Int /\ (backlog + n) % Word = InPipeline % Word
      BY <1>1, <1>2, <2>2
    <3> HIDE DEF n
    <3>2. 1 \in Int /\ InPipeline \in Int
      BY <1>1
    <3> QED
      BY <1>1, <3>1, <3>2, ModAdd, ZenonT(40)
  <2> QED
    BY <1>1, <2>2, <2>3, <2>7, <2>8
<1>7. ASSUME NEW i \in Items, Count(i)
      PROVE  (backlog' + Cardinality(sent')) % Word = InPipeline' % Word
  <2>1. /\ i \in sent /\ sent' = sent \ {i} /\ backlog' = (backlog + 1) % Word
        /\ UNCHANGED <<queue, running, ran, alive>>
    BY <1>7 DEF Count
  <2>2. Cardinality(sent') = n - 1
    BY <1>1, <2>1, FS_RemoveElement
  <2>3. InPipeline' = InPipeline
    BY <1>3, <2>1 DEF Held
  <2>4. (((backlog + 1) % Word) + (n - 1)) % Word = ((backlog + 1) + (n - 1)) % Word
    <3> HIDE DEF n
    <3>1. backlog + 1 \in Int /\ n - 1 \in Int
      BY <1>1
    <3> QED
      BY <1>1, <3>1, ModAbsorb
  <2>5. (backlog + 1) + (n - 1) = backlog + n
    BY <1>1
  <2> QED
    BY <1>2, <2>1, <2>2, <2>3, <2>4, <2>5
<1>8. ASSUME NEW k \in Kinds, NEW i \in Items, RunPlain(k, i)
      PROVE  (backlog' + Cardinality(sent')) % Word = InPipeline' % Word
  BY <1>4, <1>8 DEF RunPlain, Held
<1>9. ASSUME NEW k \in Kinds, Receive(k) \/ Work(k)
      PROVE  (backlog' + Cardinality(sent')) % Word = InPipeline' % Word
  <2>1. \A j \in Kinds \ {k} : Held(j)' = Held(j)
    BY <1>9 DEF Receive, Work, Held, PipelineTypeOK
  <2>2. Held(k) \in Nat /\ Len(queue[k]) \in Nat
    BY HeldType DEF PipelineTypeOK
  <2>3. CASE Receive(k)
    <3>1. Len(queue'[k]) = Len(queue[k]) - 1
      BY <2>3 DEF Receive, PipelineTypeOK
    <3>2. /\ Occupied(running[k]) = 0 /\ Occupied(running'[k]) = 1
          /\ Occupied(ran[k]) = 0 /\ Occupied(ran'[k]) = 0
      BY <2>3, PipelineAssumption DEF Receive, Occupied, PipelineTypeOK
    <3>3. Held(k)' = Held(k)
      BY <2>2, <3>1, <3>2 DEF Held
    <3> QED
      BY <1>4, <2>1, <2>3, <3>3 DEF Receive
  <2>4. CASE Work(k)
    <3>1. /\ Occupied(running[k]) = 1 /\ Occupied(running'[k]) = 0
          /\ Occupied(ran[k]) = 0 /\ Occupied(ran'[k]) = 1 /\ queue' = queue
      BY <2>4 DEF Work, Occupied, PipelineTypeOK, OneAtATime
    <3>2. Held(k)' = Held(k)
      BY <2>2, <3>1 DEF Held
    <3> QED
      BY <1>4, <2>1, <2>4, <3>2 DEF Work
  <2> QED
    BY <1>9, <2>3, <2>4
<1>10. ASSUME NEW k \in Kinds, Discount(k)
       PROVE  (backlog' + Cardinality(sent')) % Word = InPipeline' % Word
  <2>1. /\ ran[k] # NoItem /\ ran' = [ran EXCEPT ![k] = NoItem]
        /\ backlog' = (backlog + Word - 1) % Word
        /\ UNCHANGED <<sent, queue, running, alive>>
    BY <1>10 DEF Discount
  <2>2. Occupied(ran[k]) = 1 /\ Occupied(ran'[k]) = 0 /\ Occupied(running[k]) \in Nat
    BY <2>1 DEF Occupied, PipelineTypeOK
  <2>3. Held(k)' = Held(k) + (-1)
    BY <2>1, <2>2 DEF Held, PipelineTypeOK
  <2>4. \A j \in Kinds \ {k} : Held(j)' = Held(j)
    BY <2>1 DEF Held, PipelineTypeOK
  <2>5. InPipeline' = InPipeline + (-1)
    BY <2>3, <2>4, HeldOne
  <2> HIDE DEF n
  <2>6. (backlog + n) % Word = InPipeline % Word
    BY <1>2, <2>1 DEF n
  <2>7. ((backlog + n) + (-1)) % Word = (InPipeline + (-1)) % Word
    <3>1. backlog + n \in Int
      BY <1>1
    <3>2. -1 \in Int /\ InPipeline \in Int
      BY <1>1
    <3> QED
      BY <1>1, <2>6, <3>1, <3>2, ModAdd, ZenonT(40)
  <2>8. (((backlog + n) + (-1)) + Word) % Word = ((backlog + n) + (-1)) % Word
    <3>1. (backlog + n) + (-1) \in Int
      BY <1>1
    <3> QED
      BY <1>1, <3>1, ModShift
  <2>9. (((backlog + Word - 1) % Word) + n) % Word = ((backlog + Word - 1) + n) % Word
    <3>1. backlog + Word - 1 \in Int /\ n \in Int
      BY <1>1
    <3> QED
      BY <1>1, <3>1, ModAbsorb, Zenon
  <2>10. (backlog + Word - 1) + n = ((backlog + n) + (-1)) + Word
    BY <1>1
  <2> QED
    BY <2>1, <2>5, <2>7, <2>8, <2>9, <2>10 DEF n
<1>11. ASSUME NEW k \in Kinds, Die(k) PROVE FALSE
  BY <1>11 DEF Die, PipelineTypeOK
<1> QED
  BY <1>5, <1>6, <1>7, <1>8, <1>9, <1>10, <1>11 DEF PipelineNext

\* A worker that takes an item has discounted the one before.
LEMMA OneAtATimeStep ==
    ASSUME PipelineTypeOK, OneAtATime, PipelineNext PROVE OneAtATime'
<1> USE DEF PipelineTypeOK, OneAtATime
<1>1. ASSUME UNCHANGED <<running, ran>> PROVE OneAtATime'
  BY <1>1
<1>2. ASSUME NEW k \in Kinds, Receive(k) \/ Work(k) \/ Discount(k) \/ Die(k)
      PROVE  OneAtATime'
  BY <1>2 DEF Receive, Work, Discount, Die
<1> QED
  BY <1>1, <1>2 DEF PipelineNext, Commit, Accept, Count, Overflow, RunPlain

\* The invariant of the pipeline is inductive.
LEMMA PipelineStep == PipelineInv /\ [PipelineNext]_pipelineVars => PipelineInv'
<1> SUFFICES ASSUME PipelineInv, [PipelineNext]_pipelineVars PROVE PipelineInv'
  OBVIOUS
<1>1. CASE PipelineNext
  <2>1. PipelineTypeOK' /\ SentAtQueue' /\ OneAtATime'
    BY <1>1, PipelineTypeStep, SentStep, OneAtATimeStep DEF PipelineInv
  <2> QED
    BY <1>1, <2>1, PlaceStep, GaugeStep DEF PipelineInv
<1>2. CASE UNCHANGED pipelineVars
  BY <1>2 DEF pipelineVars, PipelineInv, PipelineTypeOK, SentAtQueue, OneAtATime, OnePlace,
     NoDuplicates, Queued, Submitted, RunsAtMostOnce, BacklogAccounts, InPipeline, Held
<1> QED
  BY <1>1, <1>2

\* Of any number of updates, submitted to queues of any capacity whose workers
\* may panic: none of a kind is run twice, through its queue, its fallback task
\* or both, and while the workers live the backlog gauge is, modulo the word,
\* what the queues and the workers hold, less the submissions between try_send
\* and fetch_add (submit, submit_derived_work, the workers).
THEOREM PipelineIsSound == PipelineSpec => []PipelineSound
<1>1. PipelineInv => PipelineSound
  BY DEF PipelineInv, PipelineSound
<1> QED
  BY <1>1, PipelineInitInv, PipelineStep, PTL DEF PipelineSpec

(***************************************************************************)
(* Derived work.                                                           *)
(***************************************************************************)

\* Nothing is derived before the first update.
LEMMA DerivedInitInv == Init => DerivedInv
<1> SUFFICES ASSUME Init PROVE DerivedInv
  OBVIOUS
<1> USE DerivedAssumption DEF Init
<1>1. TypeOK
  <2>1. NoHandle \in Handles \cup {NoHandle} /\ 0 \in 0 .. SessionDeletes + 1
        /\ 0 \in 0 .. SessionDeletes /\ 0 \in 0 .. 1
    OBVIOUS
  <2> QED
    BY <2>1 DEF TypeOK
<1>2. LastHandle /\ OwnSession
  BY DEF LastHandle, OwnSession, Handles, NoHandle
<1>3. ErasedFromSession /\ VectorsOwed
  BY DEF ErasedFromSession, VectorsOwed, Cleared
<1> QED
  BY <1>1, <1>2, <1>3 DEF DerivedInv

\* An update has at most one copy of its vectors: its job runs once.
LEMMA DerivedType == ASSUME DerivedInv, [Next]_vars PROVE TypeOK'
<1> USE DerivedAssumption DEF DerivedInv, TypeOK, Handles, NoHandle
<1>1. ASSUME NEW u \in Updates, UpdateGet(u) PROVE TypeOK'
  <2>1. UNCHANGED <<content, graph, marked, epc, eh, gpc, gh, rpc, rh, kind, locked, dpc,
                    mem, stored, dirty, wsnap, writing, entities>>
    BY <1>1 DEF UpdateGet, memoryVars, vectorVars, storeVars
  <2>2. upc' \in [Updates -> {"new", "have", "committed", "done"}]
    BY <1>1 DEF UpdateGet
  <2>3. CASE handle # NoHandle
    <3>1. uh' \in [Updates -> Handles \cup {NoHandle}] /\ UNCHANGED <<handle, next, retiredBelow>>
      BY <1>1, <2>3, SMTT(30) DEF UpdateGet, sessionVars
    <3> QED
      BY <2>1, <2>2, <3>1
  <2>4. CASE handle = NoHandle
    <3>1. /\ uh' = [uh EXCEPT ![u] = next] /\ next \in Handles
          /\ handle' = next /\ next' = next + 1 /\ UNCHANGED retiredBelow
      BY <1>1, <2>4, Zenon DEF UpdateGet
    <3>2. uh' \in [Updates -> Handles \cup {NoHandle}]
      BY <3>1
    <3>3. next' \in 0 .. SessionDeletes + 1
      BY <3>1
    <3> QED
      BY <2>1, <2>2, <3>1, <3>2, <3>3
  <2> QED
    BY <2>3, <2>4
<1>2. ASSUME NEW u \in Updates, UpdateCommit(u) PROVE TypeOK'
  BY <1>2 DEF UpdateCommit, Persist, IsDeleted, OwnSession, sessionVars, vectorVars
<1>3. ASSUME NEW u \in Updates, UpdateSubmit(u) PROVE TypeOK'
  BY <1>3 DEF UpdateSubmit, sessionVars, memoryVars, vectorVars, storeVars
<1>4. ASSUME NEW u \in Updates, GraphStart(u) \/ EmbedStart(u) \/ EmbedCheck(u) PROVE TypeOK'
  <2>1. CASE GraphStart(u)
    BY <2>1 DEF GraphStart, sessionVars, memoryVars, vectorVars, storeVars
  <2>2. CASE EmbedStart(u)
    BY <2>2 DEF EmbedStart, sessionVars, memoryVars, vectorVars, storeVars
  <2>3. CASE EmbedCheck(u)
    BY <2>3 DEF EmbedCheck, sessionVars, memoryVars, vectorVars, storeVars
  <2> QED
    BY <1>4, <2>1, <2>2, <2>3
<1>5. ASSUME NEW u \in Updates, GraphMerge(u) PROVE TypeOK'
  <2>1. gh[u] \in Handles
    BY <1>5 DEF GraphMerge, OwnSession
  <2> QED
    <3>1. dirty' \in BOOLEAN
      BY <1>5 DEF GraphMerge, Persist
    <3>2. graph' \in [Handles -> SUBSET Updates]
      <4>1. graph' = graph \/ graph' = [graph EXCEPT ![gh[u]] = @ \cup {u}]
        BY <1>5 DEF GraphMerge
      <4>2. CASE graph' = [graph EXCEPT ![gh[u]] = @ \cup {u}]
        BY <4>2
      <4> QED
        BY <4>1, <4>2
    <3> QED
      BY <1>5, <3>1, <3>2 DEF GraphMerge, sessionVars, vectorVars
<1>6. ASSUME NEW u \in Updates, EmbedAdd(u) PROVE TypeOK'
  BY <1>6 DEF EmbedAdd, VectorsOwed, sessionVars, memoryVars, storeVars
<1>7. ASSUME NEW u \in Updates, NEW ok \in BOOLEAN, EmbedPersist(u, ok) PROVE TypeOK'
  <2>1. mem[u] \in 0 .. 1
    BY <1>7
  <2> QED
    <3>1. mem' \in [Updates -> 0 .. 1]
      <4>1. mem' = mem \/ mem' = [mem EXCEPT ![u] = IF @ = 0 THEN 0 ELSE @ - 1]
        BY <1>7 DEF EmbedPersist
      <4>2. CASE mem' = [mem EXCEPT ![u] = IF @ = 0 THEN 0 ELSE @ - 1]
        BY <4>2, <2>1
      <4> QED
        BY <4>1, <4>2
    <3>2. stored' \subseteq Updates /\ marked' \in [Handles -> SUBSET Updates]
      <4>1. \/ UNCHANGED <<stored, marked>>
            \/ /\ stored' = stored \cup {u}
               /\ marked' = [marked EXCEPT ![eh[u]] = @ \cup {u}]
        BY <1>7 DEF EmbedPersist
      <4>2. CASE marked' = [marked EXCEPT ![eh[u]] = @ \cup {u}]
        BY <4>1, <4>2
      <4> QED
        BY <4>1, <4>2
    <3>3. epc' \in [Updates -> {"none", "queued", "have", "encode", "added", "check", "undo",
                               "undoSession", "done"}]
      BY <1>7 DEF EmbedPersist
    <3> QED
      BY <1>7, <3>1, <3>2, <3>3 DEF EmbedPersist, sessionVars, storeVars
<1>8. ASSUME NEW u \in Updates, EmbedFinish(u) PROVE TypeOK'
  BY <1>8 DEF EmbedFinish, Persist, IsDeleted, sessionVars, memoryVars, vectorVars
<1>9. ASSUME NEW u \in Updates, UndoContent(u) \/ UndoSession(u) PROVE TypeOK'
  <2>1. CASE UndoContent(u)
    BY <2>1 DEF UndoContent, sessionVars, memoryVars, storeVars
  <2>2. CASE UndoSession(u)
    BY <2>2 DEF UndoSession, sessionVars, memoryVars, storeVars
  <2> QED
    BY <1>9, <2>1, <2>2
<1>10. ASSUME NEW u \in Updates, NEW k \in Erasures, EraseGet(u, k) PROVE TypeOK'
  BY <1>10 DEF EraseGet, sessionVars, memoryVars, vectorVars, storeVars
<1>11. ASSUME NEW u \in Updates, EraseCommit(u) PROVE TypeOK'
  BY <1>11 DEF EraseCommit, sessionVars, vectorVars, storeVars
<1>12. ASSUME NEW u \in Updates, EraseUnmark(u) PROVE TypeOK'
  BY <1>12 DEF EraseUnmark, Cleared, sessionVars, vectorVars, storeVars
<1>13. ASSUME NEW u \in Updates, PurgeLock(u) \/ PurgeClear(u) PROVE TypeOK'
  <2>1. CASE PurgeLock(u)
    BY <2>1 DEF PurgeLock, sessionVars, memoryVars, vectorVars, storeVars
  <2>2. CASE PurgeClear(u)
    BY <2>2 DEF PurgeClear, Cleared, sessionVars, memoryVars, vectorVars
  <2> QED
    BY <1>13, <2>1, <2>2
<1>14. ASSUME NEW u \in Updates, ErasePersist(u) PROVE TypeOK'
  BY <1>14 DEF ErasePersist, Persist, IsDeleted, Cleared, sessionVars, memoryVars, vectorVars
<1>15. ASSUME NEW u \in Updates, EraseDropMemory(u) \/ EraseDropStored(u) PROVE TypeOK'
  <2>1. CASE EraseDropMemory(u)
    BY <2>1 DEF EraseDropMemory, Cleared, sessionVars, memoryVars, storeVars
  <2>2. CASE EraseDropStored(u)
    BY <2>2 DEF EraseDropStored, Cleared, sessionVars, memoryVars, storeVars
  <2> QED
    BY <1>15, <2>1, <2>2
<1>16. ASSUME next <= SessionDeletes, DeleteRetire PROVE TypeOK'
  BY <1>16 DEF DeleteRetire, memoryVars, vectorVars, storeVars
<1>17. ASSUME DeleteStorage \/ DeleteVectors PROVE TypeOK'
  <2>1. CASE DeleteStorage
    BY <2>1 DEF DeleteStorage, sessionVars, memoryVars
  <2>2. CASE DeleteVectors
    BY <2>2 DEF DeleteVectors, sessionVars, memoryVars, storeVars
  <2> QED
    BY <1>17, <2>1, <2>2
<1>18. ASSUME WriteBegin \/ WriteEnd PROVE TypeOK'
  BY <1>18 DEF WriteBegin, WriteEnd, sessionVars, memoryVars, vectorVars, jobVars
<1>19. ASSUME UNCHANGED vars PROVE TypeOK'
  BY <1>19 DEF vars, sessionVars, memoryVars, vectorVars, jobVars, storeVars
<1> QED
  BY SMTT(30), <1>1, <1>2, <1>3, <1>4, <1>5, <1>6, <1>7, <1>8, <1>9, <1>10, <1>11, <1>12, <1>13, <1>14,
     <1>15, <1>16, <1>17, <1>18, <1>19 DEF Next

\* The cached handle stays the last one: only update_context registers, only
\* delete_session retires.
LEMMA DerivedHandles == ASSUME DerivedInv, [Next]_vars PROVE LastHandle'
<1> USE DerivedAssumption DEF DerivedInv, TypeOK, Handles, NoHandle, LastHandle
<1>1. ASSUME NEW u \in Updates, UpdateGet(u) PROVE LastHandle'
  BY <1>1 DEF UpdateGet, sessionVars
<1>2. ASSUME DeleteRetire PROVE LastHandle'
  BY <1>2 DEF DeleteRetire
<1>3. ASSUME UNCHANGED sessionVars PROVE LastHandle'
  BY <1>3 DEF sessionVars
<1>4. (\E u \in Updates : UpdateGet(u)) \/ DeleteRetire \/ UNCHANGED sessionVars
  BY ZenonT(40) DEF Next, vars, UpdateCommit, UpdateSubmit, GraphStart, GraphMerge, EmbedStart, EmbedCheck,
         EmbedAdd, EmbedPersist, EmbedFinish, UndoContent, UndoSession, EraseGet, EraseCommit,
         EraseUnmark, PurgeLock, PurgeClear, ErasePersist, EraseDropMemory, EraseDropStored,
         DeleteStorage, DeleteVectors, WriteBegin, WriteEnd
<1> QED
  BY <1>1, <1>2, <1>3, <1>4

\* An update is only ever in the session it was written to.
LEMMA DerivedOwn == ASSUME DerivedInv, [Next]_vars PROVE OwnSession'
<1> USE DEF DerivedInv, OwnSession
<1> TypeOK
  OBVIOUS
<1>1. ASSUME NEW u \in Updates, UpdateGet(u) PROVE OwnSession'
  BY <1>1 DEF UpdateGet, TypeOK, sessionVars, memoryVars, Handles, NoHandle
<1>2. ASSUME NEW u \in Updates, UpdateCommit(u) PROVE OwnSession'
  BY <1>2 DEF UpdateCommit, TypeOK
<1>3. ASSUME NEW u \in Updates, UpdateSubmit(u) PROVE OwnSession'
  BY <1>3 DEF UpdateSubmit, TypeOK, memoryVars
<1>4. ASSUME NEW u \in Updates, GraphStart(u) PROVE OwnSession'
  BY <1>4 DEF GraphStart, TypeOK, memoryVars, Handles, NoHandle
<1>5. ASSUME NEW u \in Updates, GraphMerge(u) PROVE OwnSession'
  BY <1>5 DEF GraphMerge, TypeOK
<1>6. ASSUME NEW u \in Updates, EmbedStart(u) PROVE OwnSession'
  BY <1>6 DEF EmbedStart, TypeOK, memoryVars, Handles, NoHandle
<1>7. ASSUME NEW u \in Updates, EmbedCheck(u) PROVE OwnSession'
  BY <1>7 DEF EmbedCheck, TypeOK, memoryVars
<1>8. ASSUME NEW u \in Updates, EmbedAdd(u) PROVE OwnSession'
  BY <1>8 DEF EmbedAdd, TypeOK, memoryVars
<1>9. ASSUME NEW u \in Updates, NEW ok \in BOOLEAN, EmbedPersist(u, ok) PROVE OwnSession'
  BY <1>9 DEF EmbedPersist, TypeOK
<1>10. ASSUME NEW u \in Updates, EmbedFinish(u) PROVE OwnSession'
  BY <1>10 DEF EmbedFinish, TypeOK, memoryVars
<1>11. ASSUME NEW u \in Updates, UndoContent(u) PROVE OwnSession'
  BY <1>11 DEF UndoContent, TypeOK, memoryVars
<1>12. ASSUME NEW u \in Updates, UndoSession(u) PROVE OwnSession'
  BY <1>12 DEF UndoSession, TypeOK, memoryVars
<1>13. ASSUME NEW u \in Updates, NEW k \in Erasures, EraseGet(u, k) PROVE OwnSession'
  BY <1>13 DEF EraseGet, TypeOK, memoryVars, Handles, NoHandle
<1>14. ASSUME NEW u \in Updates, EraseCommit(u) PROVE OwnSession'
  BY <1>14 DEF EraseCommit, TypeOK
<1>15. ASSUME NEW u \in Updates, EraseUnmark(u) PROVE OwnSession'
  BY <1>15 DEF EraseUnmark, TypeOK
<1>16. ASSUME NEW u \in Updates, PurgeLock(u) \/ PurgeClear(u) PROVE OwnSession'
  BY <1>16 DEF PurgeLock, PurgeClear, TypeOK, memoryVars
<1>17. ASSUME NEW u \in Updates, ErasePersist(u) PROVE OwnSession'
  BY <1>17 DEF ErasePersist, TypeOK, memoryVars
<1>18. ASSUME NEW u \in Updates, EraseDropMemory(u) \/ EraseDropStored(u) PROVE OwnSession'
  BY <1>18 DEF EraseDropMemory, EraseDropStored, TypeOK, memoryVars
<1>19. ASSUME DeleteRetire \/ DeleteStorage \/ DeleteVectors \/ WriteBegin \/ WriteEnd \/ UNCHANGED vars
       PROVE  OwnSession'
  BY <1>19 DEF DeleteRetire, DeleteStorage, DeleteVectors, WriteBegin, WriteEnd, vars, jobVars,
               memoryVars
<1> QED
  BY <1>1, <1>2, <1>3, <1>4, <1>5, <1>6, <1>7, <1>8, <1>9, <1>10, <1>11, <1>12, <1>13, <1>14,
     <1>15, <1>16, <1>17, <1>18, <1>19 DEF Next

\* What is erased does not come back: a late merge finds the update gone, a
\* rebuild takes only what remains, a write under way is waited for.
LEMMA DerivedErased == ASSUME DerivedInv, [Next]_vars PROVE ErasedFromSession'
<1> USE DEF DerivedInv, ErasedFromSession, Cleared
<1> TypeOK /\ OwnSession
  OBVIOUS
<1>1. ASSUME NEW u \in Updates, UpdateGet(u) PROVE ErasedFromSession'
  BY <1>1 DEF UpdateGet, OwnSession, TypeOK, memoryVars, storeVars
<1>2. ASSUME NEW u \in Updates, UpdateCommit(u) PROVE ErasedFromSession'
  BY <1>2 DEF UpdateCommit, OwnSession, TypeOK
<1>3. ASSUME NEW u \in Updates, UpdateSubmit(u) \/ GraphStart(u) \/ EmbedStart(u) \/ EmbedCheck(u)
      PROVE  ErasedFromSession'
  BY <1>3 DEF UpdateSubmit, GraphStart, EmbedStart, EmbedCheck, memoryVars, storeVars
<1>4. ASSUME NEW u \in Updates, GraphMerge(u) PROVE ErasedFromSession'
  BY <1>4 DEF GraphMerge, OwnSession, TypeOK
<1>5. ASSUME NEW u \in Updates, EmbedAdd(u) \/ UndoContent(u) \/ UndoSession(u)
      PROVE  ErasedFromSession'
  BY <1>5 DEF EmbedAdd, UndoContent, UndoSession, memoryVars, storeVars
<1>6. ASSUME NEW u \in Updates, NEW ok \in BOOLEAN, EmbedPersist(u, ok) PROVE ErasedFromSession'
  BY <1>6 DEF EmbedPersist, storeVars
<1>7. ASSUME NEW u \in Updates, EmbedFinish(u) PROVE ErasedFromSession'
  BY <1>7 DEF EmbedFinish, memoryVars
<1>8. ASSUME NEW u \in Updates, NEW k \in Erasures, EraseGet(u, k) PROVE ErasedFromSession'
  BY <1>8 DEF EraseGet, TypeOK, memoryVars, storeVars
<1>9. ASSUME NEW u \in Updates, EraseCommit(u) PROVE ErasedFromSession'
  BY <1>9 DEF EraseCommit, OwnSession, TypeOK, storeVars
<1>10. ASSUME NEW u \in Updates, EraseUnmark(u) PROVE ErasedFromSession'
  BY <1>10 DEF EraseUnmark, TypeOK, storeVars
<1>11. ASSUME NEW u \in Updates, PurgeLock(u) PROVE ErasedFromSession'
  BY <1>11 DEF PurgeLock, TypeOK, memoryVars, storeVars
<1>12. ASSUME NEW u \in Updates, PurgeClear(u) PROVE ErasedFromSession'
  BY <1>12 DEF PurgeClear, TypeOK, memoryVars
<1>13. ASSUME NEW u \in Updates, ErasePersist(u) PROVE ErasedFromSession'
  BY <1>13 DEF ErasePersist, TypeOK, memoryVars
<1>14. ASSUME NEW u \in Updates, EraseDropMemory(u) PROVE ErasedFromSession'
  BY <1>14 DEF EraseDropMemory, TypeOK, memoryVars, storeVars
<1>15. ASSUME NEW u \in Updates, EraseDropStored(u) PROVE ErasedFromSession'
  BY <1>15 DEF EraseDropStored, TypeOK, memoryVars, storeVars
<1>16. ASSUME DeleteRetire \/ DeleteVectors \/ UNCHANGED vars PROVE ErasedFromSession'
  BY <1>16 DEF DeleteRetire, DeleteVectors, vars, jobVars, memoryVars, storeVars
<1>17. ASSUME DeleteStorage PROVE ErasedFromSession'
  BY <1>17 DEF DeleteStorage, memoryVars
<1>18. ASSUME WriteBegin PROVE ErasedFromSession'
  BY <1>18 DEF WriteBegin, OwnSession, TypeOK, jobVars, memoryVars
<1>19. ASSUME WriteEnd PROVE ErasedFromSession'
  BY <1>19 DEF WriteEnd, jobVars, memoryVars
<1> QED
  BY <1>1, <1>2, <1>3, <1>4, <1>5, <1>6, <1>7, <1>8, <1>9, <1>10, <1>11, <1>12, <1>13, <1>14,
     <1>15, <1>16, <1>17, <1>18, <1>19 DEF Next

\* Vectors stored for a session that was deleted meanwhile are still owed a
\* removal.
LEMMA DerivedOwed == ASSUME DerivedInv, [Next]_vars PROVE VectorsOwed'
<1> USE DEF DerivedInv, VectorsOwed, IsDeleted
<1> TypeOK /\ OwnSession
  OBVIOUS
<1>1. ASSUME NEW u \in Updates, UpdateGet(u) PROVE VectorsOwed'
  BY <1>1, SMTT(30) DEF UpdateGet, OwnSession, TypeOK, sessionVars, vectorVars
<1>2. ASSUME NEW u \in Updates, UpdateSubmit(u) PROVE VectorsOwed'
  BY <1>2 DEF UpdateSubmit, OwnSession, TypeOK, sessionVars, vectorVars
<1>3. ASSUME NEW u \in Updates, EmbedStart(u) \/ EmbedCheck(u) PROVE VectorsOwed'
  BY <1>3 DEF EmbedStart, EmbedCheck, TypeOK, sessionVars, vectorVars
<1>4. ASSUME NEW u \in Updates, EmbedAdd(u) PROVE VectorsOwed'
  BY <1>4 DEF EmbedAdd, TypeOK, sessionVars
<1>5. ASSUME NEW u \in Updates, NEW ok \in BOOLEAN, EmbedPersist(u, ok) PROVE VectorsOwed'
  BY <1>5 DEF EmbedPersist, TypeOK, sessionVars
<1>6. ASSUME NEW u \in Updates, EmbedFinish(u) PROVE VectorsOwed'
  BY <1>6 DEF EmbedFinish, OwnSession, TypeOK, sessionVars, vectorVars
<1>7. ASSUME NEW u \in Updates, UndoContent(u) PROVE VectorsOwed'
  BY <1>7 DEF UndoContent, TypeOK, sessionVars
<1>8. ASSUME NEW u \in Updates, UndoSession(u) PROVE VectorsOwed'
  BY <1>8 DEF UndoSession, TypeOK, sessionVars
<1>9. ASSUME NEW u \in Updates, EraseDropMemory(u) \/ EraseDropStored(u) PROVE VectorsOwed'
  BY <1>9 DEF EraseDropMemory, EraseDropStored, TypeOK, sessionVars
<1>10. ASSUME DeleteRetire PROVE VectorsOwed'
  BY <1>10 DEF DeleteRetire, TypeOK, vectorVars
<1>11. ASSUME DeleteStorage \/ DeleteVectors PROVE VectorsOwed'
  BY <1>11 DEF DeleteStorage, DeleteVectors, TypeOK, sessionVars
<1>12. ASSUME UNCHANGED <<retiredBelow, mem, stored, epc, uh, dpc>> PROVE VectorsOwed'
  BY <1>12
<1>13. ASSUME NEW u \in Updates,
              \/ UpdateCommit(u) \/ GraphStart(u) \/ GraphMerge(u)
              \/ \E k \in Erasures : EraseGet(u, k)
              \/ EraseCommit(u) \/ EraseUnmark(u) \/ PurgeLock(u) \/ PurgeClear(u) \/ ErasePersist(u)
       PROVE  UNCHANGED <<retiredBelow, mem, stored, epc, uh, dpc>>
  BY <1>13 DEF sessionVars, vectorVars, UpdateCommit, GraphStart, GraphMerge, EraseGet, EraseCommit,
               EraseUnmark, PurgeLock, PurgeClear, ErasePersist
<1>14. ASSUME WriteBegin \/ WriteEnd \/ UNCHANGED vars
       PROVE  UNCHANGED <<retiredBelow, mem, stored, epc, uh, dpc>>
  BY <1>14 DEF sessionVars, vectorVars, jobVars, vars, WriteBegin, WriteEnd
<1> QED
  BY <1>1, <1>2, <1>3, <1>4, <1>5, <1>6, <1>7, <1>8, <1>9, <1>10, <1>11, <1>12, <1>13, <1>14
     DEF Next

\* What is erased stays erased, however many updates are written, erased and
\* derived from, and however often the session is deleted and created again:
\* of a purged record nothing is left in the graph, the stored entities or a
\* write under way, and the vectors of a deleted session go with it
\* (purge_update, apply_entity_graph_update_now, vectorize_update_now).
THEOREM ErasedForGood == Spec => []ErasedStaysErased
<1>1. DerivedInv /\ [Next]_vars => DerivedInv'
  BY DerivedType, DerivedHandles, DerivedOwn, DerivedErased, DerivedOwed DEF DerivedInv
<1>2. DerivedInv => ErasedStaysErased
  <2> SUFFICES ASSUME DerivedInv PROVE ErasedStaysErased
    OBVIOUS
  <2>1. PurgedStaysErased
    BY DEF DerivedInv, PurgedStaysErased, ErasedFromSession, OwnSession, Cleared
  <2>2. VectorsDieWithSession
    BY DEF DerivedInv, VectorsDieWithSession, VectorsOwed, TypeOK, Quiet
  <2> QED
    BY <2>1, <2>2 DEF ErasedStaysErased
<1> QED
  BY DerivedInitInv, <1>1, <1>2, PTL DEF Spec

(***************************************************************************)
(* The vectors of a session.  Of each wanted update the invariant follows  *)
(* the copies by the thread that added them: a thread adds all chunks or   *)
(* none, and a copy is safe once its thread can no longer roll it back.    *)
(***************************************************************************)

\* The kinds of threads do not overlap.
LEMMA VzThreadFacts ==
  /\ VzUpdates \subseteq VzThreads /\ VzSearchers \subseteq VzThreads
  /\ VzUpdates \cap VzSearchers = {}
  /\ VzEntity \in VzThreads \ (VzUpdates \cup VzSearchers)
  /\ VzPurger \in VzThreads \ (VzUpdates \cup VzSearchers)
  /\ VzEntity # VzPurger /\ VzLoad \notin VzThreads
  /\ VzAdders = VzThreads \cup {VzLoad} /\ Wanted \subseteq VzUpdates
  BY VectorizerAssumption DEF VzThreads, VzEntity, VzPurger, VzLoad, VzAdders, Wanted

\* A vector is a chunk of one update, or of the entity.
LEMMA VectorFacts ==
  /\ \A u \in VzUpdates : UpdateVectors(u) \subseteq VzVectors
  /\ \A u \in VzUpdates : Vec(u, 1, 1) \in UpdateVectors(u)
  /\ \A u \in VzUpdates : \A x \in UpdateVectors(u) : x.content = u
  /\ \A u \in VzUpdates : \A x \in VzVectors : x.content = u => x \in UpdateVectors(u)
  /\ \A u \in VzUpdates : \A x, y \in UpdateVectors(u) : SameId(x, y) => x = y
  /\ \A x \in VzVectors : x.content \in VzUpdates \cup {VzEntity}
<1> USE VectorizerAssumption DEF Vec
<1>1. \A u \in VzUpdates : UpdateVectors(u) \subseteq VzVectors
  BY DEF VzVectors
<1>2. \A u \in VzUpdates : Vec(u, 1, 1) \in UpdateVectors(u)
  BY DEF UpdateVectors
<1>3. \A u \in VzUpdates : \A x \in UpdateVectors(u) : x.content = u
  BY DEF UpdateVectors
<1>4. ASSUME NEW x \in VzVectors
      PROVE  (\E u \in VzUpdates : x \in UpdateVectors(u)) \/ x.content = VzEntity
  <2>1. CASE \E v \in 1 .. MaxVersion : x = Vec(VzEntity, 1, v)
    BY <2>1
  <2>2. CASE \E u \in VzUpdates : x \in UpdateVectors(u)
    BY <2>2
  <2>3. x \in UNION {UpdateVectors(u) : u \in VzUpdates}
        \/ x \in {Vec(VzEntity, 1, v) : v \in 1 .. MaxVersion}
    BY DEF VzVectors
  <2> HIDE DEF Vec
  <2> QED BY <2>1, <2>2, <2>3
<1>5. \A u \in VzUpdates : \A x \in VzVectors : x.content = u => x \in UpdateVectors(u)
  BY <1>3, <1>4, VzThreadFacts
<1>6. \A u \in VzUpdates : \A x, y \in UpdateVectors(u) : SameId(x, y) => x = y
  BY DEF UpdateVectors, SameId
<1> QED BY <1>1, <1>2, <1>3, <1>4, <1>5, <1>6

\* What is planned of the entity is a vector of it.
LEMMA EntityPlan ==
  ASSUME NEW live \in VzSessions
  PROVE  /\ FreshEntities(live) \subseteq VzVectors
         /\ \A x \in FreshEntities(live) : x.content = VzEntity
<1>1. live.version \in 0 .. MaxVersion /\ MaxVersion \in Nat
  BY VectorizerAssumption DEF VzSessions
<1>2. CASE live.version = 0
  BY <1>2 DEF FreshEntities, EntityVectors
<1>3. CASE live.version # 0
  <2>1. live.version \in 1 .. MaxVersion
    BY <1>1, <1>3
  <2>2. FreshEntities(live) \subseteq {Vec(VzEntity, 1, live.version)}
    BY <1>3 DEF FreshEntities, EntityVectors
  <2>3. Vec(VzEntity, 1, live.version) \in VzVectors
    <3>1. Vec(VzEntity, 1, live.version) \in {Vec(VzEntity, 1, v) : v \in 1 .. MaxVersion}
      BY <2>1
    <3> QED BY <3>1 DEF VzVectors
  <2> QED BY <2>2, <2>3 DEF Vec
<1> QED BY <1>2, <1>3

\* The vectorizer starts with nothing.
LEMMA VectorizerInitInv == VectorizerInit => VectorizerInv
<1> SUFFICES ASSUME VectorizerInit PROVE VectorizerInv
  OBVIOUS
<1> USE VzThreadFacts, VectorizerAssumption DEF VectorizerInit
<1>0. 0 \in 0 .. MaxVersion /\ 0 \in Nat
  OBVIOUS
<1>1. VectorizerTypeOK
  <2>1. vzLive \in VzSessions
    BY <1>0 DEF VzSessions
  <2>2. VzIdle \in VzRecords
    BY <1>0 DEF VzIdle, VzRecords, VzSessions, VzStages
  <2>3. vzState \in VzStates
    BY <1>0 DEF VzStates, VzOff
  <2> QED BY <2>1, <2>2, <2>3 DEF VectorizerTypeOK
<1>2. VzStagesFit
  BY DEF VzStagesFit, VzIdle
<1>3. \A t \in VzAdders : CopiesOf(t) = {}
  BY DEF CopiesOf
<1>4. VectorsWhole
  BY <1>3 DEF VectorsWhole, Whole, VzAdding, VzIdle, VzOff
<1>5. CopiesAccounted /\ DoneIndexed
  BY <1>3 DEF CopiesAccounted, DoneIndexed, VzIdle
<1>6. SearchesCover /\ DurableOrPending
  BY <1>3 DEF SearchesCover, DurableOrPending, VzAdding, VzIdle, NoMark, VzOff
<1> QED BY <1>1, <1>2, <1>4, <1>5, <1>6 DEF VectorizerInv

\* A thread that steps leaves the others alone.
LEMMA VzStepFacts ==
  ASSUME VectorizerTypeOK, NEW t \in VzThreads, NEW r \in VzRecords, VzStep(t, r)
  PROVE  /\ vzThread' \in [VzThreads -> VzRecords]
         /\ vzThread'[t] = r
         /\ \A q \in VzThreads \ {t} : vzThread'[q] = vzThread[q]
  BY DEF VectorizerTypeOK, VzStep

\* A record of a thread, from its parts.
LEMMA RecordParts ==
  ASSUME NEW p \in VzStages, NEW n \in Nat, NEW o \in VzSessions, NEW pl \in SUBSET VzVectors,
         NEW od \in SUBSET VzCopies, NEW w \in VzUpdates \cup {""}, NEW r,
         r = [pc |-> p, runs |-> n, of |-> o, plan |-> pl, old |-> od, target |-> w]
  PROVE  /\ r \in VzRecords
         /\ r.pc = p /\ r.runs = n /\ r.of = o /\ r.plan = pl /\ r.old = od /\ r.target = w
  BY DEF VzRecords

\* What an idle thread knows is nobody's.
LEMMA NoSession ==
  /\ [updates |-> {}, version |-> 0] \in VzSessions
  /\ {} \in SUBSET VzVectors /\ {} \in SUBSET VzCopies /\ "" \in VzUpdates \cup {""}
  BY VectorizerAssumption DEF VzSessions

\* A thread that ends forgets its plan, not how often it ran.
LEMMA VzEndFacts ==
  ASSUME VectorizerTypeOK, NEW t \in VzThreads
  PROVE  /\ VzEnd(t) \in VzRecords
         /\ VzEnd(t).pc = "idle" /\ VzEnd(t).runs = vzThread[t].runs
<1>1. PICK n \in Nat : n = vzThread[t].runs
  BY DEF VectorizerTypeOK, VzRecords
<1>2. PICK o \in VzSessions : o = [updates |-> {}, version |-> 0]
  BY NoSession
<1>3. PICK r : r = VzEnd(t)
  OBVIOUS
<1>4. r = [pc |-> "idle", runs |-> n, of |-> o, plan |-> {}, old |-> {}, target |-> ""]
  BY <1>1, <1>2, <1>3 DEF VzEnd, VzIdle
<1>5. "idle" \in VzStages
  BY DEF VzStages
<1>6. r \in VzRecords /\ r.pc = "idle" /\ r.runs = n
  BY <1>4, <1>5, NoSession DEF VzRecords
<1> QED BY <1>1, <1>3, <1>6

\* The part of the invariant that stages do not matter for.
VzRest == VectorsWhole /\ CopiesAccounted /\ DoneIndexed /\ SearchesCover /\ DurableOrPending

\* A thread that adds nothing moves on, and storage keeps what is wanted.
LEMMA QuietStep ==
  ASSUME VectorizerInv, NEW t \in VzThreads,
         \A q \in VzThreads \ {t} : vzThread'[q] = vzThread[q],
         vzThread[t].pc \notin {"persist", "settle"},
         vzThread'[t].pc \in {"idle", "queued", "collect", "failed", "drop", "unstore"},
         vzThread'[t].pc = "queued" => vzThread'[t].old = {},
         vzMemory' \subseteq vzMemory, vzState' = vzState, Wanted' \subseteq Wanted,
         \A q \in VzAdders : \A x \in CopiesOf(q) :
             x.content \in Wanted' \cup {VzEntity} => x \in CopiesOf(q)',
         \A u \in Wanted' : u \in vzDone' <=> u \in vzDone,
         vzStored' \subseteq vzStored,
         \A x \in vzStored : x.content \in Wanted' \cup {VzEntity} => x \in vzStored',
         vzMark'.taken => \A u \in Wanted \cap vzMark'.of.updates : VzIndexed(u)
  PROVE  VzRest'
<1> USE VzThreadFacts, VectorFacts
<1>1. \A q \in VzAdders : CopiesOf(q)' \subseteq CopiesOf(q)
  BY DEF CopiesOf
<1>2. \A u \in Wanted' : VzIndexed(u) => VzIndexed(u)'
  BY <1>1 DEF VzIndexed, Safe
<1>3. \A q \in VzThreads : VzAdding(q)' => q # t /\ VzAdding(q)
  BY DEF VzAdding
<1>4. VectorsWhole'
  <2>1. Whole(vzStored)'
    BY DEF VectorizerInv, VectorizerTypeOK, VectorsWhole, Whole
  <2>2. Whole(vzState.read)' /\ \A q \in VzAdders : Whole(CopiesOf(q))'
    BY <1>1 DEF VectorizerInv, VectorsWhole, Whole
  <2>3. \A q \in VzThreads : VzAdding(q)' =>
          Whole(vzThread[q].plan)' /\ \A m \in vzThread'[q].old : m.vector.content = VzEntity
    BY <1>3 DEF VectorizerInv, VectorsWhole, Whole
  <2>4. \A q \in VzThreads : vzThread'[q].pc = "queued" => vzThread'[q].old = {}
    BY DEF VectorizerInv, VectorsWhole
  <2> QED BY <2>1, <2>2, <2>3, <2>4 DEF VectorsWhole
<1>5. CopiesAccounted'
  BY <1>1 DEF VectorizerInv, CopiesAccounted
<1>6. DoneIndexed'
  <2>1. \A u \in VzUpdates : Untouched(u) => Untouched(u)'
    BY <1>1, <1>3 DEF Untouched
  <2> QED BY <1>2, <2>1 DEF VectorizerInv, DoneIndexed
<1>7. SearchesCover'
  BY <1>2, <1>3 DEF VectorizerInv, SearchesCover
<1>8. DurableOrPending'
  <2>1. \A x \in VzVectors : x.content \in Wanted' \cup {VzEntity} /\ StoredId(x) => StoredId(x)'
    BY DEF StoredId, SameId
  <2>2. vzState.read \subseteq VzVectors
    BY DEF VectorizerInv, VectorizerTypeOK, VzStates
  <2>3. \A q \in VzAdders : CopiesOf(q) \subseteq VzVectors
    BY DEF CopiesOf
  <2>4. \A x \in vzState'.read : x.content \in Wanted' \cup {VzEntity} => StoredId(x)'
    BY <2>1, <2>2 DEF VectorizerInv, DurableOrPending
  <2>5. ASSUME NEW q \in VzAdders, NEW x \in CopiesOf(q)', x.content \in Wanted' \cup {VzEntity}
        PROVE  StoredId(x)' \/ (q \in VzThreads /\ vzThread'[q].pc = "persist" /\ x \in vzThread'[q].plan)
    BY <1>1, <2>1, <2>3, <2>5 DEF VectorizerInv, DurableOrPending
  <2> QED BY <2>4, <2>5 DEF DurableOrPending
<1> QED BY <1>4, <1>5, <1>6, <1>7, <1>8 DEF VzRest

\* A step of a thread other than the purger leaves every thread where its kind
\* goes.
LEMMA StagesStep ==
  ASSUME VectorizerInv, NEW t \in VzThreads \ {VzPurger},
         \A q \in VzThreads \ {t} : vzThread'[q] = vzThread[q],
         vzThread'[t].pc \notin {"drop", "unstore"},
         vzThread'[t].pc \in {"collect", "mark", "failed"} => t \in VzSearchers,
         Wanted' \subseteq Wanted,
         \A u \in vzLive'.updates : vzThread'[u].runs # 0
  PROVE  VzStagesFit'
<1> USE VzThreadFacts DEF VectorizerInv, VzStagesFit
<1>1. vzThread'[VzPurger] = vzThread[VzPurger]
  OBVIOUS
<1>2. \A q \in VzThreads :
        /\ vzThread'[q].pc \in {"drop", "unstore"} => q = VzPurger
        /\ vzThread'[q].pc \in {"collect", "mark", "failed"} => q \in VzSearchers
  OBVIOUS
<1> QED BY <1>1, <1>2

\* The updates in the session.
LEMMA LiveUpdates ==
  ASSUME VectorizerTypeOK
  PROVE  /\ vzLive.updates \in SUBSET VzUpdates /\ vzLive.version \in 0 .. MaxVersion
         /\ vzLive = [updates |-> vzLive.updates, version |-> vzLive.version]
         /\ \A t \in VzThreads : vzThread[t] \in VzRecords
  BY DEF VectorizerTypeOK, VzSessions

\* Memory that stays holds the same copies.
LEMMA SameMemory ==
  ASSUME vzMemory' = vzMemory
  PROVE  /\ vzMemory' \subseteq vzMemory
         /\ \A q \in VzAdders : \A x \in CopiesOf(q) :
              x.content \in Wanted' \cup {VzEntity} => x \in CopiesOf(q)'
  BY DEF CopiesOf

\* A commit: what was to come is in the session.
LEMMA CommitInv ==
  ASSUME VectorizerInv, NEW u \in VzUpdates, CommitUpdate(u)
  PROVE  VectorizerInv'
<1> USE VzThreadFacts DEF VectorizerInv
<1>1. PICK r : r = [VzIdle EXCEPT !.pc = "queued", !.runs = 1]
  OBVIOUS
<1>2. PICK o \in VzSessions : o = [updates |-> {}, version |-> 0]
  BY NoSession
<1>3. r = [pc |-> "queued", runs |-> 1, of |-> o, plan |-> {}, old |-> {}, target |-> ""]
  BY <1>1, <1>2 DEF VzIdle
<1>4. "queued" \in VzStages
  BY DEF VzStages
<1>5. r \in VzRecords /\ r.pc = "queued" /\ r.runs = 1 /\ r.old = {}
  BY <1>3, <1>4, NoSession DEF VzRecords
<1>6. /\ vzThread' \in [VzThreads -> VzRecords] /\ vzThread'[u] = r
      /\ \A q \in VzThreads \ {u} : vzThread'[q] = vzThread[q]
  BY <1>1, <1>5, VzStepFacts DEF CommitUpdate
<1>7. /\ vzLive'.updates = vzLive.updates \cup {u} /\ vzLive' \in VzSessions
      /\ vzThread[u].runs = 0 /\ vzThread[u].pc = "idle"
  BY LiveUpdates DEF CommitUpdate, VzSessions
<1>8. VectorizerTypeOK'
  BY <1>6, <1>7 DEF CommitUpdate, VectorizerTypeOK
<1>9. Wanted' \subseteq Wanted
  BY <1>6, <1>7 DEF Wanted
<1>10. \A w \in vzLive'.updates : vzThread'[w].runs # 0
  BY <1>5, <1>6, <1>7, LiveUpdates DEF VzStagesFit
<1>11. VzStagesFit'
  BY <1>5, <1>6, <1>9, <1>10, StagesStep
<1>12. /\ vzMemory' = vzMemory /\ vzState' = vzState /\ vzDone' = vzDone
       /\ vzStored' = vzStored /\ vzMark' = vzMark
  BY DEF CommitUpdate
<1>13. VzRest'
  BY <1>5, <1>6, <1>7, <1>9, <1>12, QuietStep, SameMemory DEF SearchesCover
<1> QED BY <1>8, <1>11, <1>13 DEF VzRest

\* A new description is a version of the entity.
LEMMA DescribeInv ==
  ASSUME VectorizerInv, DescribeEntity
  PROVE  VectorizerInv'
<1> USE VzThreadFacts DEF VectorizerInv
<1>1. /\ vzLive'.updates = vzLive.updates /\ vzLive' \in VzSessions
  <2>1. vzLive.version + 1 \in 0 .. MaxVersion
    BY LiveUpdates, VectorizerAssumption DEF DescribeEntity
  <2> QED BY <2>1, LiveUpdates DEF DescribeEntity, VzSessions
<1>2. PICK r : r = [VzIdle EXCEPT !.pc = "queued", !.of = vzLive']
  OBVIOUS
<1>3. PICK o \in VzSessions : o = vzLive'
  BY <1>1
<1>4. r = [pc |-> "queued", runs |-> 0, of |-> o, plan |-> {}, old |-> {}, target |-> ""]
  BY <1>2, <1>3 DEF VzIdle
<1>5. "queued" \in VzStages
  BY DEF VzStages
<1>6. r \in VzRecords /\ r.pc = "queued" /\ r.old = {}
  BY <1>4, <1>5, NoSession DEF VzRecords
<1>7. /\ vzThread' \in [VzThreads -> VzRecords] /\ vzThread'[VzEntity] = r
      /\ \A q \in VzThreads \ {VzEntity} : vzThread'[q] = vzThread[q]
  BY <1>2, <1>6, VzStepFacts DEF DescribeEntity
<1>8. VectorizerTypeOK'
  BY <1>1, <1>7 DEF DescribeEntity, VectorizerTypeOK
<1>9. Wanted' \subseteq Wanted
  BY <1>1, <1>7 DEF Wanted
<1>10. \A w \in vzLive'.updates : vzThread'[w].runs # 0
  BY <1>1, <1>7, LiveUpdates DEF VzStagesFit
<1>11. VzStagesFit'
  BY <1>6, <1>7, <1>9, <1>10, StagesStep
<1>12. /\ vzMemory' = vzMemory /\ vzState' = vzState /\ vzDone' = vzDone
       /\ vzStored' = vzStored /\ vzMark' = vzMark /\ vzThread[VzEntity].pc = "idle"
  BY DEF DescribeEntity
<1>13. VzRest'
  BY <1>6, <1>7, <1>9, <1>12, QuietStep, SameMemory DEF SearchesCover
<1> QED BY <1>8, <1>11, <1>13 DEF VzRest

\* A search takes its snapshot.
LEMMA SearchInv ==
  ASSUME VectorizerInv, NEW s \in VzSearchers, SearchSession(s)
  PROVE  VectorizerInv'
<1> USE VzThreadFacts DEF VectorizerInv
<1>1. PICK r : r = [VzIdle EXCEPT !.pc = "collect", !.runs = vzThread[s].runs + 1, !.of = vzLive]
  OBVIOUS
<1>2. PICK n \in Nat : n = vzThread[s].runs + 1
  <2>1. vzThread[s].runs \in Nat
    BY LiveUpdates DEF VzRecords
  <2> QED BY <2>1
<1>3. PICK o \in VzSessions : o = vzLive
  BY DEF VectorizerTypeOK
<1>4. r = [pc |-> "collect", runs |-> n, of |-> o, plan |-> {}, old |-> {}, target |-> ""]
  BY <1>1, <1>2, <1>3 DEF VzIdle
<1>5. "collect" \in VzStages
  BY DEF VzStages
<1>6. r \in VzRecords /\ r.pc = "collect"
  BY <1>4, <1>5, NoSession DEF VzRecords
<1>7. /\ vzThread' \in [VzThreads -> VzRecords] /\ vzThread'[s] = r
      /\ \A q \in VzThreads \ {s} : vzThread'[q] = vzThread[q]
  BY <1>1, <1>6, VzStepFacts DEF SearchSession
<1>8. /\ vzMemory' = vzMemory /\ vzState' = vzState /\ vzDone' = vzDone /\ vzLive' = vzLive
      /\ vzStored' = vzStored /\ vzMark' = vzMark /\ vzThread[s].pc = "idle"
  BY DEF SearchSession
<1>9. VectorizerTypeOK'
  BY <1>7, <1>8 DEF VectorizerTypeOK
<1>10. Wanted' \subseteq Wanted
  BY <1>7, <1>8 DEF Wanted
<1>11. \A w \in vzLive'.updates : vzThread'[w].runs # 0
  BY <1>7, <1>8, LiveUpdates DEF VzStagesFit
<1>12. VzStagesFit'
  BY <1>6, <1>7, <1>10, <1>11, StagesStep
<1>13. VzRest'
  BY <1>6, <1>7, <1>8, <1>10, QuietStep, SameMemory DEF SearchesCover
<1> QED BY <1>9, <1>12, <1>13 DEF VzRest

\* A thread ends with nothing in memory that is not accounted for.
LEMMA EndStep ==
  ASSUME VectorizerInv, NEW t \in VzThreads, t # VzPurger, VzStep(t, VzEnd(t)),
         vzThread[t].pc \notin {"persist", "settle"},
         vzMemory' = vzMemory, vzState' = vzState, vzDone' = vzDone, vzLive' = vzLive,
         vzStored' = vzStored,
         vzMark'.taken => \A u \in Wanted \cap vzMark'.of.updates : VzIndexed(u)
  PROVE  VectorizerInv'
<1> USE VzThreadFacts DEF VectorizerInv
<1>1. PICK r \in VzRecords : r = VzEnd(t) /\ r.pc = "idle" /\ r.runs = vzThread[t].runs
  BY VzEndFacts
<1>2. /\ vzThread' \in [VzThreads -> VzRecords] /\ vzThread'[t] = r
      /\ \A q \in VzThreads \ {t} : vzThread'[q] = vzThread[q]
  BY <1>1, VzStepFacts
<1>3. VectorizerTypeOK'
  BY <1>2 DEF VectorizerTypeOK
<1>4. Wanted' \subseteq Wanted
  BY <1>1, <1>2 DEF Wanted
<1>5. \A w \in vzLive'.updates : vzThread'[w].runs # 0
  BY <1>1, <1>2, LiveUpdates DEF VzStagesFit
<1>6. VzStagesFit'
  BY <1>1, <1>2, <1>4, <1>5, StagesStep
<1>7. VzRest'
  BY <1>1, <1>2, <1>4, QuietStep, SameMemory
<1> QED BY <1>3, <1>6, <1>7 DEF VzRest

\* The mark of a complete run speaks for what the run made safe.
LEMMA MarkInv ==
  ASSUME VectorizerInv, NEW s \in VzSearchers, MarkVectorized(s)
  PROVE  VectorizerInv'
<1> USE VzThreadFacts
<1>1. /\ VzStep(s, VzEnd(s)) /\ vzThread[s].pc \in {"mark", "failed"}
      /\ vzMemory' = vzMemory /\ vzState' = vzState /\ vzDone' = vzDone /\ vzLive' = vzLive
      /\ vzStored' = vzStored
  BY DEF MarkVectorized
<1>2. vzMark'.taken => \A u \in Wanted \cap vzMark'.of.updates : VzIndexed(u)
  BY DEF MarkVectorized, RunComplete, VectorizerInv, SearchesCover
<1> QED BY <1>1, <1>2, EndStep

\* The vectorizer starts: it has read what is stored, or nothing.
LEMMA StartInv == VectorizerInv /\ StartVectorizer => VectorizerInv'
<1> SUFFICES ASSUME VectorizerInv, StartVectorizer PROVE VectorizerInv'
  OBVIOUS
<1> USE VzThreadFacts DEF VectorizerInv
<1>1. /\ vzMemory' = vzMemory /\ vzDone' = vzDone /\ vzLive' = vzLive /\ vzThread' = vzThread
      /\ vzStored' = vzStored /\ vzMark' = vzMark
  BY DEF StartVectorizer
<1>2. vzState' \in VzStates /\ vzState'.read \in {vzStored, vzState.read}
  <2>1. PICK s \in VzStates : s = vzState
    BY DEF VectorizerTypeOK
  <2>2. PICK d \in SUBSET VzVectors : d = vzStored
    BY DEF VectorizerTypeOK
  <2>3. PICK s2 : s2 = vzState'
    OBVIOUS
  <2>4. \/ s2 = [s EXCEPT !.pc = "loading", !.read = d]
        \/ s2 = [s EXCEPT !.pc = "loading"]
        \/ s2 = [s EXCEPT !.failures = @ + 1]
    BY <2>1, <2>2, <2>3 DEF StartVectorizer
  <2>5. s.failures + 1 \in Nat
    BY DEF VzStates
  <2>6. s2 \in VzStates /\ s2.read \in {d, s.read}
    BY <2>4, <2>5 DEF VzStates
  <2> QED BY <2>1, <2>2, <2>3, <2>6
<1>3. Wanted' = Wanted /\ \A q \in VzAdders : CopiesOf(q)' = CopiesOf(q)
  BY <1>1 DEF Wanted, CopiesOf
<1>4. VectorizerTypeOK' /\ VzStagesFit'
  BY <1>1, <1>2, <1>3 DEF VectorizerTypeOK, VzStagesFit
<1>5. VectorsWhole'
  BY <1>1, <1>2, <1>3 DEF VectorsWhole, Whole, VzAdding
<1>6. CopiesAccounted'
  BY <1>1, <1>3 DEF CopiesAccounted
<1>7. \A u : (VzIndexed(u)' <=> VzIndexed(u)) /\ (Untouched(u)' <=> Untouched(u))
  BY <1>1, <1>3 DEF VzIndexed, Safe, Untouched, VzAdding
<1>8. DoneIndexed' /\ SearchesCover'
  BY <1>1, <1>3, <1>7 DEF DoneIndexed, SearchesCover, VzAdding
<1>9. DurableOrPending'
  <2>1. \A x : StoredId(x)' <=> StoredId(x)
    BY <1>1 DEF StoredId
  <2>2. \A x \in vzStored : StoredId(x)
    BY DEF StoredId, SameId
  <2>3. \A x \in vzState'.read : x.content \in Wanted' \cup {VzEntity} => StoredId(x)'
    BY <1>2, <1>3, <2>1, <2>2 DEF DurableOrPending
  <2> QED BY <1>1, <1>3, <2>1, <2>3 DEF DurableOrPending
<1> QED BY <1>4, <1>5, <1>6, <1>8, <1>9

\* What was read is loaded.
LEMMA LoadInv == VectorizerInv /\ LoadStored => VectorizerInv'
<1> SUFFICES ASSUME VectorizerInv, LoadStored PROVE VectorizerInv'
  OBVIOUS
<1> USE VzThreadFacts DEF VectorizerInv
<1>1. /\ vzMemory' = vzMemory \cup {Copy(x, VzLoad) : x \in vzState.read}
      /\ vzDone' = vzDone /\ vzLive' = vzLive /\ vzThread' = vzThread
      /\ vzStored' = vzStored /\ vzMark' = vzMark
  BY DEF LoadStored
<1>2. vzState' \in VzStates /\ vzState'.read = {} /\ vzState.read \subseteq VzVectors
  BY DEF LoadStored, VectorizerTypeOK, VzStates
<1>3. Wanted' = Wanted
  BY <1>1 DEF Wanted
<1>4. /\ \A q \in VzThreads : CopiesOf(q)' = CopiesOf(q)
      /\ CopiesOf(VzLoad)' = CopiesOf(VzLoad) \cup vzState.read
  BY <1>1, <1>2 DEF CopiesOf, Copy
<1>5. VectorizerTypeOK' /\ VzStagesFit'
  <2>1. \A x \in vzState.read : Copy(x, VzLoad) \in VzCopies
    BY <1>2 DEF Copy, VzCopies
  <2>2. vzMemory' \in SUBSET VzCopies
    BY <1>1, <2>1 DEF VectorizerTypeOK
  <2> QED BY <1>1, <1>2, <1>3, <2>2 DEF VectorizerTypeOK, VzStagesFit
<1>6. VectorsWhole'
  BY <1>1, <1>2, <1>3, <1>4 DEF VectorsWhole, Whole, VzAdding
<1>7. CopiesAccounted'
  BY <1>1, <1>3, <1>4 DEF CopiesAccounted
<1>8. \A u : VzIndexed(u) => VzIndexed(u)'
  BY <1>1, <1>4 DEF VzIndexed, Safe
<1>9. DoneIndexed'
  <2> SUFFICES ASSUME NEW u \in Wanted, u \in vzDone, Untouched(u) PROVE VzIndexed(u)' \/ Untouched(u)'
    BY <1>1, <1>3, <1>8 DEF DoneIndexed
  <2>1. CASE \E x \in vzState.read : x.content = u
    <3>1. UpdateVectors(u) \subseteq vzState.read
      BY <2>1 DEF VectorsWhole, Whole
    <3> QED BY <1>4, <3>1 DEF VzIndexed, Safe
  <2>2. CASE \A x \in vzState.read : x.content # u
    BY <1>1, <1>4, <2>2 DEF Untouched, VzAdding
  <2> QED BY <2>1, <2>2
<1>10. SearchesCover'
  BY <1>1, <1>3, <1>8 DEF SearchesCover, VzAdding
<1>11. DurableOrPending'
  <2>1. \A x : StoredId(x)' <=> StoredId(x)
    BY <1>1 DEF StoredId
  <2> QED BY <1>1, <1>2, <1>3, <1>4, <2>1 DEF DurableOrPending
<1> QED BY <1>5, <1>6, <1>7, <1>9, <1>10, <1>11

\* A purge: the update is wanted no more.
LEMMA PurgeInv ==
  ASSUME VectorizerInv, NEW u \in VzUpdates, VzPurge(u)
  PROVE  VectorizerInv'
<1> USE VzThreadFacts DEF VectorizerInv
<1>1. PICK r : r = [VzIdle EXCEPT !.pc = "drop", !.target = u]
  OBVIOUS
<1>2. PICK o \in VzSessions : o = [updates |-> {}, version |-> 0]
  BY NoSession
<1>3. r = [pc |-> "drop", runs |-> 0, of |-> o, plan |-> {}, old |-> {}, target |-> u]
  BY <1>1, <1>2 DEF VzIdle
<1>4. "drop" \in VzStages
  BY DEF VzStages
<1>5. r \in VzRecords /\ r.pc = "drop" /\ r.target = u
  BY <1>3, <1>4, NoSession DEF VzRecords
<1>6. /\ vzThread' \in [VzThreads -> VzRecords] /\ vzThread'[VzPurger] = r
      /\ \A q \in VzThreads \ {VzPurger} : vzThread'[q] = vzThread[q]
  BY <1>1, <1>5, VzStepFacts DEF VzPurge
<1>7. /\ vzLive'.updates = vzLive.updates \ {u} /\ vzLive' \in VzSessions /\ u \in vzLive.updates
      /\ vzThread[VzPurger].pc = "idle" /\ vzDone' = vzDone \ {u}
      /\ vzMemory' = vzMemory /\ vzState' = vzState /\ vzStored' = vzStored /\ vzMark' = vzMark
  BY LiveUpdates DEF VzPurge, VzSessions
<1>8. Wanted' \subseteq Wanted \ {u}
  BY <1>6, <1>7, LiveUpdates DEF Wanted, VzStagesFit
<1>9. VectorizerTypeOK'
  BY <1>6, <1>7 DEF VectorizerTypeOK
<1>10. VzStagesFit'
  BY <1>5, <1>6, <1>7, <1>8, LiveUpdates DEF VzStagesFit
<1>11. VzRest'
  BY <1>5, <1>6, <1>7, <1>8, QuietStep, SameMemory DEF SearchesCover
<1> QED BY <1>9, <1>10, <1>11 DEF VzRest

\* The purged update's vectors go from memory.
LEMMA DropInv ==
  ASSUME VectorizerInv, NEW u \in VzUpdates, DropContent(u)
  PROVE  VectorizerInv'
<1> USE VzThreadFacts DEF VectorizerInv
<1> DEFINE gone == {Vec(u, n, 1) : n \in ContentIds(u)}
<1>1. gone \in SUBSET VzVectors /\ \A x \in gone : x.content = u
  <2>1. \A n \in ContentIds(u) : Vec(u, n, 1) \in UpdateVectors(u)
    BY DEF ContentIds, UpdateVectors
  <2> QED BY <2>1, VectorFacts
<1>2. PICK g \in SUBSET VzVectors : g = gone /\ \A x \in g : x.content = u
  BY <1>1
<1> HIDE DEF gone
<1>3. PICK q \in VzRecords : q = vzThread[VzPurger]
  BY LiveUpdates
<1>4. PICK r : r = [q EXCEPT !.pc = "unstore", !.plan = g]
  OBVIOUS
<1>5. "unstore" \in VzStages
  BY DEF VzStages
<1>6. r \in VzRecords /\ r.pc = "unstore" /\ r.plan = g /\ r.target = q.target
  BY <1>4, <1>5 DEF VzRecords
<1>7. VzStep(VzPurger, r)
  BY <1>2, <1>3, <1>4 DEF DropContent, gone
<1>8. /\ vzThread' \in [VzThreads -> VzRecords] /\ vzThread'[VzPurger] = r
      /\ \A p \in VzThreads \ {VzPurger} : vzThread'[p] = vzThread[p]
  BY <1>6, <1>7, VzStepFacts
<1>9. /\ vzLive' = vzLive /\ vzDone' = vzDone /\ vzState' = vzState /\ vzStored' = vzStored
      /\ vzMark' = vzMark /\ vzThread[VzPurger].pc = "drop" /\ vzThread[VzPurger].target = u
      /\ vzMemory' \subseteq vzMemory /\ \A m \in vzMemory : m.vector.content # u => m \in vzMemory'
  BY DEF DropContent
<1>10. u \notin Wanted /\ Wanted' \subseteq Wanted
  BY <1>8, <1>9 DEF Wanted, VzStagesFit
<1>11. VectorizerTypeOK'
  BY <1>8, <1>9 DEF VectorizerTypeOK
<1>12. VzStagesFit'
  BY <1>2, <1>3, <1>6, <1>8, <1>9, <1>10, LiveUpdates DEF VzStagesFit
<1>13. \A p \in VzAdders : \A x \in CopiesOf(p) :
         x.content \in Wanted' \cup {VzEntity} => x \in CopiesOf(p)'
  BY <1>9, <1>10 DEF CopiesOf, Copy
<1>14. VzRest'
  BY <1>6, <1>8, <1>9, <1>10, <1>13, QuietStep DEF SearchesCover
<1> QED BY <1>11, <1>12, <1>14 DEF VzRest

\* The purged update's vectors go from storage.
LEMMA UnstoreInv == VectorizerInv /\ Unstore => VectorizerInv'
<1> SUFFICES ASSUME VectorizerInv, Unstore PROVE VectorizerInv'
  OBVIOUS
<1> USE VzThreadFacts DEF VectorizerInv
<1>1. PICK o \in VzSessions : o = [updates |-> {}, version |-> 0]
  BY NoSession
<1>2. PICK r : r = VzIdle
  OBVIOUS
<1>3. r = [pc |-> "idle", runs |-> 0, of |-> o, plan |-> {}, old |-> {}, target |-> ""]
  BY <1>1, <1>2 DEF VzIdle
<1>4. "idle" \in VzStages
  BY DEF VzStages
<1>5. r \in VzRecords /\ r.pc = "idle"
  BY <1>3, <1>4, NoSession DEF VzRecords
<1>6. /\ vzThread' \in [VzThreads -> VzRecords] /\ vzThread'[VzPurger] = r
      /\ \A q \in VzThreads \ {VzPurger} : vzThread'[q] = vzThread[q]
  BY <1>2, <1>5, VzStepFacts DEF Unstore
<1>7. /\ vzLive' = vzLive /\ vzDone' = vzDone /\ vzState' = vzState /\ vzMemory' = vzMemory
      /\ vzMark' = vzMark /\ vzThread[VzPurger].pc = "unstore"
      /\ vzStored' \subseteq vzStored
      /\ \A x \in vzStored : x \notin vzThread[VzPurger].plan => x \in vzStored'
  BY DEF Unstore
<1>8. Wanted' \subseteq Wanted
  BY <1>6, <1>7 DEF Wanted
<1>9. \A x \in vzThread[VzPurger].plan : x.content \notin Wanted \cup {VzEntity}
  BY <1>7 DEF VzStagesFit
<1>10. VectorizerTypeOK'
  BY <1>6, <1>7 DEF VectorizerTypeOK
<1>11. VzStagesFit'
  BY <1>5, <1>6, <1>7, <1>8, LiveUpdates DEF VzStagesFit
<1>12. VzRest'
  BY <1>5, <1>6, <1>7, <1>8, <1>9, QuietStep, SameMemory DEF SearchesCover
<1> QED BY <1>10, <1>11, <1>12 DEF VzRest

\* After a crash nothing is in memory and nobody runs.
LEMMA CrashInv == VectorizerInv /\ VzCrash => VectorizerInv'
<1> SUFFICES ASSUME VectorizerInv, VzCrash PROVE VectorizerInv'
  OBVIOUS
<1> USE VzThreadFacts DEF VectorizerInv
<1>1. /\ vzLive' = vzLive /\ vzStored' = vzStored /\ vzMemory' = {} /\ vzMark' = NoMark
      /\ vzState' = VzOff /\ vzDone' \subseteq vzDone
      /\ \A t \in VzThreads : vzThread'[t] = VzEnd(t)
      /\ vzThread' = [t \in VzThreads |-> VzEnd(t)]
  BY DEF VzCrash
<1>2. /\ vzThread' \in [VzThreads -> VzRecords]
      /\ \A t \in VzThreads : vzThread'[t].pc = "idle" /\ vzThread'[t].runs = vzThread[t].runs
  BY <1>1, VzEndFacts
<1>3. Wanted' \subseteq Wanted
  BY <1>1, <1>2 DEF Wanted
<1>4. \A q \in VzAdders : CopiesOf(q)' = {}
  BY <1>1 DEF CopiesOf
<1>5. vzState' \in VzStates /\ vzState'.read = {}
  BY <1>1 DEF VzOff, VzStates
<1>6. VectorizerTypeOK'
  BY <1>1, <1>2, <1>5 DEF VectorizerTypeOK
<1>7. VzStagesFit'
  BY <1>1, <1>2, LiveUpdates DEF VzStagesFit
<1>8. VectorsWhole'
  BY <1>1, <1>2, <1>3, <1>4, <1>5 DEF VectorsWhole, Whole, VzAdding
<1>9. CopiesAccounted' /\ DoneIndexed'
  BY <1>2, <1>4 DEF CopiesAccounted, DoneIndexed, Untouched, VzAdding
<1>10. SearchesCover' /\ DurableOrPending'
  BY <1>1, <1>2, <1>4, <1>5 DEF SearchesCover, DurableOrPending, VzAdding, NoMark
<1> QED BY <1>6, <1>7, <1>8, <1>9, <1>10

\* A thread plans what is not done and goes on to embed it.
LEMMA PlanStep ==
  ASSUME VectorizerInv, NEW t \in VzThreads,
         \A q \in VzThreads \ {t} : vzThread'[q] = vzThread[q],
         vzThread[t].pc \in {"queued", "collect"},
         \/ vzThread'[t].pc = "embed"
         \/ vzThread'[t].pc = "mark" /\ vzThread'[t].plan = {},
         vzMemory' = vzMemory, vzState' = vzState, Wanted' \subseteq Wanted,
         vzStored' = vzStored, vzMark' = vzMark, vzDone' \subseteq vzDone,
         \A u \in vzDone \ vzDone' : ~HasId(Vec(u, 1, 1)),
         \A u \in VzUpdates : (\E x \in vzThread'[t].plan : x.content = u) =>
             u \notin vzDone' /\ UpdateVectors(u) \subseteq vzThread'[t].plan,
         \A m \in vzThread'[t].old : m.vector.content = VzEntity,
         t \in VzSearchers => \A u \in Wanted \cap vzThread'[t].of.updates :
             \/ u \in vzDone' /\ HasId(Vec(u, 1, 1))
             \/ UpdateVectors(u) \subseteq vzThread'[t].plan /\ UpdateVectors(u) # {}
  PROVE  VzRest'
<1> USE VzThreadFacts, VectorFacts
<1>1. \A q \in VzAdders : CopiesOf(q)' = CopiesOf(q) /\ CopiesOf(q) \subseteq VzVectors
  BY DEF CopiesOf
<1>2. \A u \in Wanted, q \in VzAdders : \A x \in CopiesOf(q) :
        x.content = u => HasId(Vec(u, 1, 1))
  <2> SUFFICES ASSUME NEW u \in Wanted, NEW q \in VzAdders, NEW x \in CopiesOf(q), x.content = u
               PROVE  HasId(Vec(u, 1, 1))
    OBVIOUS
  <2>1. Vec(u, 1, 1) \in CopiesOf(q)
    BY DEF VectorizerInv, VectorsWhole, Whole
  <2>2. Copy(Vec(u, 1, 1), q) \in vzMemory
    BY <2>1 DEF CopiesOf
  <2> QED BY <2>2 DEF HasId, SameId, Copy
<1>3. \A u \in Wanted, x \in CopiesOf(t) : x.content = u => u \in vzDone'
  BY <1>2 DEF VectorizerInv, CopiesAccounted
<1>4. \A u \in Wanted : VzIndexed(u) => VzIndexed(u)'
  <2> SUFFICES ASSUME NEW u \in Wanted, NEW x \in UpdateVectors(u), Safe(x) PROVE Safe(x)'
    BY DEF VzIndexed
  <2>1. PICK q \in VzAdders :
          /\ x \in CopiesOf(q)
          /\ q \in VzThreads => ~(vzThread[q].pc \in {"embed", "persist"} /\ x \in vzThread[q].plan)
    BY DEF Safe
  <2>2. x.content = u /\ (q = t => u \in vzDone')
    BY <1>3, <2>1
  <2>3. q = t => x \notin vzThread'[t].plan
    BY <2>2
  <2> QED BY <1>1, <2>1, <2>3 DEF Safe
<1>5. VectorsWhole'
  <2>1. Whole(vzStored)' /\ Whole(vzState.read)' /\ \A q \in VzAdders : Whole(CopiesOf(q))'
    BY <1>1 DEF VectorizerInv, VectorsWhole, Whole
  <2>2. Whole(vzThread[t].plan)'
    BY DEF Whole
  <2>3. \A q \in VzThreads \ {t} : VzAdding(q)' =>
          Whole(vzThread[q].plan)' /\ \A m \in vzThread'[q].old : m.vector.content = VzEntity
    BY DEF VectorizerInv, VectorsWhole, Whole, VzAdding
  <2>4. \A q \in VzThreads : vzThread'[q].pc = "queued" => vzThread'[q].old = {}
    BY DEF VectorizerInv, VectorsWhole
  <2> QED BY <2>1, <2>2, <2>3, <2>4 DEF VectorsWhole
<1>6. CopiesAccounted'
  <2>1. ASSUME NEW q \in VzThreads, NEW u \in Wanted', NEW x \in CopiesOf(q)', x.content = u
        PROVE  u \in vzDone' \/ (vzThread'[q].pc \in {"persist", "settle"}
                                 /\ UpdateVectors(u) \subseteq vzThread'[q].plan)
    <3>1. CASE q = t
      BY <1>1, <1>3, <2>1, <3>1
    <3>2. CASE q # t
      BY <1>1, <1>2, <2>1, <3>2 DEF VectorizerInv, CopiesAccounted
    <3> QED BY <3>1, <3>2
  <2>2. ASSUME NEW q \in VzThreads, NEW u \in Wanted', vzThread'[q].pc \in {"persist", "settle"},
               \E x \in vzThread'[q].plan : x.content = u
        PROVE  UpdateVectors(u) \subseteq CopiesOf(q)'
    BY <1>1, <2>2 DEF VectorizerInv, CopiesAccounted
  <2> QED BY <2>1, <2>2 DEF CopiesAccounted
<1>7. DoneIndexed'
  <2> SUFFICES ASSUME NEW u \in Wanted', u \in vzDone', Untouched(u)
               PROVE  Untouched(u)'
    BY <1>4 DEF VectorizerInv, DoneIndexed
  <2> QED BY <1>1 DEF Untouched, VzAdding
<1>8. ASSUME NEW u \in Wanted, u \in vzDone, HasId(Vec(u, 1, 1)) PROVE VzIndexed(u)
  <2>1. PICK m \in vzMemory : m.vector.content = u
    BY <1>8 DEF HasId, SameId, Vec
  <2>2. m.by \in VzAdders /\ m.vector \in CopiesOf(m.by)
    BY DEF VectorizerInv, VectorizerTypeOK, VzCopies, CopiesOf, Copy
  <2>3. ~Untouched(u)
    BY <2>1, <2>2 DEF Untouched
  <2> QED BY <1>8, <2>3 DEF VectorizerInv, DoneIndexed
<1>9. SearchesCover'
  <2>1. ASSUME NEW s \in VzSearchers, NEW u \in Wanted' \cap vzThread'[s].of.updates
        PROVE  /\ vzThread'[s].pc = "mark" => VzIndexed(u)'
               /\ VzAdding(s)' => VzIndexed(u)' \/ UpdateVectors(u) \subseteq vzThread'[s].plan
    <3>1. CASE s = t
      BY <1>4, <1>8, <3>1
    <3>2. CASE s # t
      BY <1>4, <3>2 DEF VectorizerInv, SearchesCover, VzAdding
    <3> QED BY <3>1, <3>2
  <2>2. vzMark'.taken => \A u \in Wanted' \cap vzMark'.of.updates : VzIndexed(u)'
    BY <1>4 DEF VectorizerInv, SearchesCover
  <2> QED BY <2>1, <2>2 DEF SearchesCover
<1>10. DurableOrPending'
  <2>1. \A x : StoredId(x)' <=> StoredId(x)
    BY DEF StoredId
  <2>2. \A x \in vzState'.read : x.content \in Wanted' \cup {VzEntity} => StoredId(x)'
    BY <2>1 DEF VectorizerInv, DurableOrPending
  <2>3. ASSUME NEW q \in VzAdders, NEW x \in CopiesOf(q)', x.content \in Wanted' \cup {VzEntity}
        PROVE  StoredId(x)' \/ (q \in VzThreads /\ vzThread'[q].pc = "persist" /\ x \in vzThread'[q].plan)
    BY <1>1, <2>1, <2>3 DEF VectorizerInv, DurableOrPending
  <2> QED BY <2>2, <2>3 DEF DurableOrPending
<1> QED BY <1>5, <1>6, <1>7, <1>9, <1>10 DEF VzRest

\* Stages alone change.
LEMMA StageRecord ==
  ASSUME VectorizerTypeOK, NEW t \in VzThreads, NEW p \in VzStages
  PROVE  \E r \in VzRecords :
           /\ r = [vzThread[t] EXCEPT !.pc = p]
           /\ r.pc = p /\ r.plan = vzThread[t].plan /\ r.old = vzThread[t].old
           /\ r.runs = vzThread[t].runs /\ r.of = vzThread[t].of
<1>1. PICK q \in VzRecords : q = vzThread[t]
  BY LiveUpdates
<1>2. PICK r : r = [q EXCEPT !.pc = p]
  OBVIOUS
<1>3. /\ r \in VzRecords /\ r.pc = p /\ r.plan = q.plan /\ r.old = q.old
      /\ r.runs = q.runs /\ r.of = q.of
  BY <1>2 DEF VzRecords
<1> QED BY <1>1, <1>2, <1>3

\* What a thread other than the purger needs besides its share of VzRest.
LEMMA ThreadStep ==
  ASSUME VectorizerInv, NEW t \in VzThreads \ {VzPurger}, NEW r \in VzRecords, VzStep(t, r),
         r.pc \notin {"drop", "unstore"},
         r.pc \in {"collect", "mark", "failed"} => t \in VzSearchers,
         r.runs = vzThread[t].runs, vzLive' = vzLive
  PROVE  /\ vzThread' \in [VzThreads -> VzRecords] /\ vzThread'[t] = r
         /\ \A q \in VzThreads \ {t} : vzThread'[q] = vzThread[q]
         /\ Wanted' = Wanted /\ VzStagesFit'
<1> USE VzThreadFacts DEF VectorizerInv
<1>1. /\ vzThread' \in [VzThreads -> VzRecords] /\ vzThread'[t] = r
      /\ \A q \in VzThreads \ {t} : vzThread'[q] = vzThread[q]
  BY VzStepFacts
<1>2. Wanted' = Wanted
  BY <1>1 DEF Wanted
<1>3. \A w \in vzLive'.updates : vzThread'[w].runs # 0
  BY <1>1, LiveUpdates DEF VzStagesFit
<1>4. VzStagesFit'
  BY <1>1, <1>2, <1>3, StagesStep
<1> QED BY <1>1, <1>2, <1>4

\* The job of an update plans its chunks, unless it is done or gone.
LEMMA JobInv ==
  ASSUME VectorizerInv, NEW u \in VzUpdates, RunJob(u)
  PROVE  VectorizerInv'
<1> USE VzThreadFacts
<1>1. /\ vzMemory' = vzMemory /\ vzState' = vzState /\ vzDone' = vzDone /\ vzLive' = vzLive
      /\ vzStored' = vzStored /\ vzMark' = vzMark /\ vzThread[u].pc = "queued"
  BY DEF RunJob
<1>2. CASE VzStep(u, VzEnd(u))
  <2>1. vzMark'.taken => \A w \in Wanted \cap vzMark'.of.updates : VzIndexed(w)
    BY <1>1 DEF VectorizerInv, SearchesCover
  <2> QED BY <1>1, <1>2, <2>1, EndStep
<1>3. CASE u \notin vzDone
           /\ VzStep(u, [vzThread[u] EXCEPT !.pc = "embed", !.plan = UpdateVectors(u)])
  <2>1. PICK q \in VzRecords : q = vzThread[u] /\ q.old = {}
    BY <1>1, LiveUpdates DEF VectorizerInv, VectorsWhole
  <2>2. PICK pl \in SUBSET VzVectors : pl = UpdateVectors(u)
    BY VectorFacts
  <2>3. PICK r : r = [q EXCEPT !.pc = "embed", !.plan = pl]
    OBVIOUS
  <2>4. "embed" \in VzStages
    BY DEF VzStages
  <2>5. /\ r \in VzRecords /\ r.pc = "embed" /\ r.plan = pl /\ r.old = {}
        /\ r.runs = q.runs
    BY <2>1, <2>3, <2>4 DEF VzRecords
  <2>6. VzStep(u, r)
    BY <1>3, <2>1, <2>2, <2>3
  <2>7. /\ vzThread' \in [VzThreads -> VzRecords] /\ vzThread'[u] = r
        /\ \A t \in VzThreads \ {u} : vzThread'[t] = vzThread[t]
        /\ Wanted' = Wanted /\ VzStagesFit'
    BY <1>1, <2>1, <2>5, <2>6, ThreadStep
  <2>8. VectorizerTypeOK'
    BY <1>1, <2>7 DEF VectorizerInv, VectorizerTypeOK
  <2>9. \A w \in VzUpdates : (\E x \in vzThread'[u].plan : x.content = w) =>
          w \notin vzDone' /\ UpdateVectors(w) \subseteq vzThread'[u].plan
    BY <1>1, <1>3, <2>2, <2>5, <2>7, VectorFacts
  <2>10. VzRest'
    BY <1>1, <2>5, <2>7, <2>9, PlanStep
  <2> QED BY <2>7, <2>8, <2>10 DEF VectorizerInv, VzRest
<1> QED BY <1>2, <1>3 DEF RunJob

\* Copies of the entity are superseded, never an update's.
LEMMA SupersededFacts ==
  ASSUME VectorizerTypeOK, NEW plan
  PROVE  /\ Superseded(plan) \in SUBSET VzCopies
         /\ \A m \in Superseded(plan) : m.vector.content = VzEntity
  BY DEF Superseded, SameId, VectorizerTypeOK

\* The entity's job plans its vector, unless memory has it.
LEMMA EntityJobInv == VectorizerInv /\ RunEntityJob => VectorizerInv'
<1> SUFFICES ASSUME VectorizerInv, RunEntityJob PROVE VectorizerInv'
  OBVIOUS
<1> USE VzThreadFacts
<1>1. /\ vzMemory' = vzMemory /\ vzState' = vzState /\ vzDone' = vzDone /\ vzLive' = vzLive
      /\ vzStored' = vzStored /\ vzMark' = vzMark /\ vzThread[VzEntity].pc = "queued"
  BY DEF RunEntityJob
<1>2. CASE VzStep(VzEntity, VzEnd(VzEntity))
  <2>1. vzMark'.taken => \A w \in Wanted \cap vzMark'.of.updates : VzIndexed(w)
    BY <1>1 DEF VectorizerInv, SearchesCover
  <2> QED BY <1>1, <1>2, <2>1, EndStep
<1> DEFINE fresh == FreshEntities(vzThread[VzEntity].of)
<1>3. CASE VzStep(VzEntity, [vzThread[VzEntity] EXCEPT !.pc = "embed", !.plan = fresh,
                                                       !.old = Superseded(fresh)])
  <2>1. PICK q \in VzRecords : q = vzThread[VzEntity]
    BY LiveUpdates DEF VectorizerInv
  <2>2. vzThread[VzEntity].of \in VzSessions
    BY <2>1 DEF VzRecords
  <2>3. PICK pl \in SUBSET VzVectors : pl = fresh /\ \A x \in pl : x.content = VzEntity
    BY <2>2, EntityPlan
  <2>4. PICK od \in SUBSET VzCopies :
          od = Superseded(fresh) /\ \A m \in od : m.vector.content = VzEntity
    BY SupersededFacts DEF VectorizerInv
  <2>5. PICK r : r = [q EXCEPT !.pc = "embed", !.plan = pl, !.old = od]
    OBVIOUS
  <2>6. "embed" \in VzStages
    BY DEF VzStages
  <2>7. /\ r \in VzRecords /\ r.pc = "embed" /\ r.plan = pl /\ r.old = od /\ r.runs = q.runs
    BY <2>5, <2>6 DEF VzRecords
  <2>8. VzStep(VzEntity, r)
    BY <1>3, <2>1, <2>3, <2>4, <2>5
  <2>9. /\ vzThread' \in [VzThreads -> VzRecords] /\ vzThread'[VzEntity] = r
        /\ \A t \in VzThreads \ {VzEntity} : vzThread'[t] = vzThread[t]
        /\ Wanted' = Wanted /\ VzStagesFit'
    BY <1>1, <2>1, <2>7, <2>8, ThreadStep
  <2>10. VectorizerTypeOK'
    BY <1>1, <2>9 DEF VectorizerInv, VectorizerTypeOK
  <2>11. \A w \in VzUpdates : ~\E x \in vzThread'[VzEntity].plan : x.content = w
    BY <2>3, <2>7, <2>9
  <2>12. VzRest'
    BY <1>1, <2>4, <2>7, <2>9, <2>11, PlanStep
  <2> QED BY <2>9, <2>10, <2>12 DEF VectorizerInv, VzRest
<1> QED BY <1>2, <1>3 DEF RunEntityJob

\* A search plans the updates that are not done, and the entity.
LEMMA CollectInv ==
  ASSUME VectorizerInv, NEW s \in VzSearchers, Collect(s)
  PROVE  VectorizerInv'
<1> USE VzThreadFacts
<1>1. /\ vzMemory' = vzMemory /\ vzState' = vzState /\ vzDone' = vzDone \ StaleIds
      /\ vzLive' = vzLive /\ vzStored' = vzStored /\ vzMark' = vzMark
      /\ vzThread[s].pc = "collect"
  BY DEF Collect
<1>2. PICK q \in VzRecords : q = vzThread[s]
  BY LiveUpdates DEF VectorizerInv
<1>3. q.of \in VzSessions /\ q.of.updates \in SUBSET VzUpdates
  BY DEF VzRecords, VzSessions
<1> DEFINE todo == q.of.updates \ vzDone'
           updates == UNION {UpdateVectors(u) : u \in todo}
           plan == updates \cup FreshEntities(q.of)
<1>4. /\ \A u \in todo : UpdateVectors(u) \subseteq plan
      /\ \A x \in plan : x \in VzVectors
      /\ \A x \in plan : x.content \in todo \cup {VzEntity}
  BY <1>3, VectorFacts, EntityPlan
<1>5. PICK pl \in SUBSET VzVectors : pl = plan
  BY <1>4
<1>6. PICK od \in SUBSET VzCopies :
        od = Superseded(plan) /\ \A m \in od : m.vector.content = VzEntity
  BY SupersededFacts DEF VectorizerInv
<1>7. PICK p \in {"mark", "embed"} : p = IF plan = {} THEN "mark" ELSE "embed"
  OBVIOUS
<1>8. PICK r : r = [q EXCEPT !.plan = pl, !.old = od, !.pc = p]
  OBVIOUS
<1>9. p \in VzStages
  BY DEF VzStages
<1>10. /\ r \in VzRecords /\ r.pc = p /\ r.plan = pl /\ r.old = od /\ r.runs = q.runs
       /\ r.of = q.of
  BY <1>8, <1>9 DEF VzRecords
<1>11. VzStep(s, r)
  <2>1. VzStep(s, [q EXCEPT !.plan = plan, !.old = Superseded(plan),
                            !.pc = IF plan = {} THEN "mark" ELSE "embed"])
    BY <1>2, Zenon DEF Collect
  <2> QED BY <1>5, <1>6, <1>7, <1>8, <2>1
<1>12. /\ vzThread' \in [VzThreads -> VzRecords] /\ vzThread'[s] = r
       /\ \A t \in VzThreads \ {s} : vzThread'[t] = vzThread[t]
       /\ Wanted' = Wanted /\ VzStagesFit'
  BY <1>1, <1>2, <1>7, <1>10, <1>11, ThreadStep
<1>13. VectorizerTypeOK'
  BY <1>1, <1>12 DEF VectorizerInv, VectorizerTypeOK
<1>14. \A u \in VzUpdates : (\E x \in vzThread'[s].plan : x.content = u) =>
         u \notin vzDone' /\ UpdateVectors(u) \subseteq vzThread'[s].plan
  BY <1>4, <1>5, <1>10, <1>12
<1>15. /\ \A u \in vzDone \ vzDone' : ~HasId(Vec(u, 1, 1))
       /\ \A u \in vzDone' : HasId(Vec(u, 1, 1))
  BY <1>1 DEF StaleIds
<1>16. \A u \in Wanted \cap vzThread'[s].of.updates :
         \/ u \in vzDone' /\ HasId(Vec(u, 1, 1))
         \/ UpdateVectors(u) \subseteq vzThread'[s].plan /\ UpdateVectors(u) # {}
  BY <1>4, <1>5, <1>10, <1>12, <1>15, VectorFacts
<1>17. \/ vzThread'[s].pc = "embed"
       \/ vzThread'[s].pc = "mark" /\ vzThread'[s].plan = {}
  BY <1>5, <1>7, <1>10, <1>12
<1>18. VzRest'
  BY <1>1, <1>6, <1>10, <1>12, <1>14, <1>15, <1>16, <1>17, PlanStep
<1> QED BY <1>12, <1>13, <1>18 DEF VectorizerInv, VzRest

\* A thread adds what it planned.
LEMMA AddInv ==
  ASSUME VectorizerInv, NEW t \in VzThreads, AddToMemory(t)
  PROVE  VectorizerInv'
<1> USE VzThreadFacts
<1>1. /\ vzState' = vzState /\ vzDone' = vzDone /\ vzLive' = vzLive
      /\ vzStored' = vzStored /\ vzMark' = vzMark /\ vzThread[t].pc = "embed"
  BY DEF AddToMemory
<1>2. t # VzPurger
  BY <1>1 DEF VectorizerInv, VzStagesFit
<1>3. CASE VzStep(t, VzEnd(t)) /\ vzMemory' = vzMemory
  <2>1. vzMark'.taken => \A w \in Wanted \cap vzMark'.of.updates : VzIndexed(w)
    BY <1>1 DEF VectorizerInv, SearchesCover
  <2> QED BY <1>1, <1>2, <1>3, <2>1, EndStep
<1>4. CASE /\ vzMemory' = vzMemory \cup {Copy(x, t) : x \in vzThread[t].plan}
           /\ VzStep(t, [vzThread[t] EXCEPT !.pc = "persist"])
  <2>1. PICK r \in VzRecords :
          /\ r = [vzThread[t] EXCEPT !.pc = "persist"]
          /\ r.pc = "persist" /\ r.plan = vzThread[t].plan /\ r.old = vzThread[t].old
          /\ r.runs = vzThread[t].runs /\ r.of = vzThread[t].of
    <3>1. "persist" \in VzStages
      BY DEF VzStages
    <3> QED BY <3>1, StageRecord DEF VectorizerInv
  <2>2. /\ vzThread' \in [VzThreads -> VzRecords] /\ vzThread'[t] = r
        /\ \A q \in VzThreads \ {t} : vzThread'[q] = vzThread[q]
        /\ Wanted' = Wanted /\ VzStagesFit'
    BY <1>1, <1>2, <1>4, <2>1, ThreadStep
  <2>3. vzThread[t].plan \subseteq VzVectors
    BY LiveUpdates DEF VectorizerInv, VzRecords
  <2>4. VectorizerTypeOK'
    <3>1. \A x \in vzThread[t].plan : Copy(x, t) \in VzCopies
      BY <2>3 DEF Copy, VzCopies
    <3>2. vzMemory' \in SUBSET VzCopies
      BY <1>4, <3>1 DEF VectorizerInv, VectorizerTypeOK
    <3> QED BY <1>1, <2>2, <3>2 DEF VectorizerInv, VectorizerTypeOK
  <2>5. /\ \A q \in VzAdders \ {t} : CopiesOf(q)' = CopiesOf(q)
        /\ CopiesOf(t)' = CopiesOf(t) \cup vzThread[t].plan
    BY <1>4, <2>3 DEF CopiesOf, Copy
  <2>6. \A q \in VzThreads : VzAdding(q)' <=> VzAdding(q)
    BY <1>1, <2>1, <2>2 DEF VzAdding
  <2>7. Whole(vzThread[t].plan)
    BY <1>1 DEF VectorizerInv, VectorsWhole, VzAdding
  <2>8. VectorsWhole'
    <3>1. Whole(vzStored)' /\ Whole(vzState.read)'
      BY <1>1, <2>2 DEF VectorizerInv, VectorsWhole, Whole
    <3>2. \A q \in VzAdders : Whole(CopiesOf(q))'
      BY <2>2, <2>5, <2>7 DEF VectorizerInv, VectorsWhole, Whole
    <3>3. \A q \in VzThreads :
            /\ vzThread'[q].plan = vzThread[q].plan /\ vzThread'[q].old = vzThread[q].old
            /\ vzThread'[q].pc = "queued" => vzThread[q].pc = "queued"
      BY <2>1, <2>2
    <3>4. \A q \in VzThreads : VzAdding(q)' =>
            Whole(vzThread[q].plan)' /\ \A m \in vzThread'[q].old : m.vector.content = VzEntity
      BY <2>2, <2>6, <3>3 DEF VectorizerInv, VectorsWhole, Whole
    <3> QED BY <3>1, <3>2, <3>3, <3>4 DEF VectorizerInv, VectorsWhole
  <2>9. CopiesAccounted'
    <3>1. ASSUME NEW q \in VzThreads, NEW u \in Wanted', NEW x \in CopiesOf(q)', x.content = u
          PROVE  u \in vzDone' \/ (vzThread'[q].pc \in {"persist", "settle"}
                                   /\ UpdateVectors(u) \subseteq vzThread'[q].plan)
      <4>1. CASE q = t
        BY <1>1, <2>1, <2>2, <2>5, <2>7, <3>1, <4>1 DEF VectorizerInv, CopiesAccounted, Whole
      <4>2. CASE q # t
        BY <1>1, <2>2, <2>5, <3>1, <4>2 DEF VectorizerInv, CopiesAccounted
      <4> QED BY <4>1, <4>2
    <3>2. ASSUME NEW q \in VzThreads, NEW u \in Wanted', vzThread'[q].pc \in {"persist", "settle"},
                 \E x \in vzThread'[q].plan : x.content = u
          PROVE  UpdateVectors(u) \subseteq CopiesOf(q)'
      <4>1. CASE q = t
        BY <2>1, <2>2, <2>5, <2>7, <3>2, <4>1 DEF Whole
      <4>2. CASE q # t
        BY <2>2, <2>5, <3>2, <4>2 DEF VectorizerInv, CopiesAccounted
      <4> QED BY <4>1, <4>2
    <3> QED BY <3>1, <3>2 DEF CopiesAccounted
  <2>10. \A u : VzIndexed(u) => VzIndexed(u)'
    <3>1. \A q \in VzThreads :
            /\ vzThread'[q].pc \in {"embed", "persist"} => vzThread[q].pc \in {"embed", "persist"}
            /\ vzThread'[q].plan = vzThread[q].plan
      BY <1>1, <2>1, <2>2
    <3>2. \A q \in VzAdders : CopiesOf(q) \subseteq CopiesOf(q)'
      BY <2>5
    <3>3. ASSUME NEW x, Safe(x) PROVE Safe(x)'
      BY <3>1, <3>2, <3>3 DEF Safe
    <3> QED BY <3>3 DEF VzIndexed, UpdateVectors
  <2>11. DoneIndexed'
    <3>1. \A u : Untouched(u) => Untouched(u)'
      <4>1. \A q \in VzThreads : vzThread'[q].plan = vzThread[q].plan
        BY <2>1, <2>2
      <4>2. VzAdding(t)
        BY <1>1 DEF VzAdding
      <4> QED BY <2>5, <2>6, <4>1, <4>2 DEF Untouched
    <3> QED BY <1>1, <2>2, <2>10, <3>1 DEF VectorizerInv, DoneIndexed
  <2>12. SearchesCover'
    <3>1. \A s \in VzSearchers :
            /\ vzThread'[s].pc = "mark" => vzThread[s].pc = "mark"
            /\ vzThread'[s].plan = vzThread[s].plan /\ vzThread'[s].of = vzThread[s].of
      BY <2>1, <2>2
    <3> QED BY <1>1, <2>2, <2>6, <2>10, <3>1 DEF VectorizerInv, SearchesCover
  <2>13. DurableOrPending'
    <3>1. \A x : StoredId(x)' <=> StoredId(x)
      BY <1>1 DEF StoredId
    <3>2. \A x \in vzState'.read : x.content \in Wanted' \cup {VzEntity} => StoredId(x)'
      BY <1>1, <2>2, <3>1 DEF VectorizerInv, DurableOrPending
    <3>3. ASSUME NEW q \in VzAdders, NEW x \in CopiesOf(q)', x.content \in Wanted' \cup {VzEntity}
          PROVE  StoredId(x)' \/ (q \in VzThreads /\ vzThread'[q].pc = "persist" /\ x \in vzThread'[q].plan)
      <4>1. CASE q = t
        BY <1>1, <2>1, <2>2, <2>5, <3>1, <3>3, <4>1 DEF VectorizerInv, DurableOrPending
      <4>2. CASE q # t
        BY <2>2, <2>5, <3>1, <3>3, <4>2 DEF VectorizerInv, DurableOrPending
      <4> QED BY <4>1, <4>2
    <3> QED BY <3>2, <3>3 DEF DurableOrPending
  <2> QED BY <2>2, <2>4, <2>8, <2>9, <2>11, <2>12, <2>13 DEF VectorizerInv
<1> QED BY <1>3, <1>4 DEF AddToMemory

\* What a thread added and planned is stored.
LEMMA PersistOkInv ==
  ASSUME VectorizerInv, NEW t \in VzThreads, vzThread[t].pc = "persist",
         vzStored' = StoredAfter(vzThread[t].plan), vzMemory' = vzMemory,
         VzStep(t, [vzThread[t] EXCEPT !.pc = "settle"]),
         vzState' = vzState, vzDone' = vzDone, vzLive' = vzLive, vzMark' = vzMark
  PROVE  VectorizerInv'
<1> USE VzThreadFacts, VectorFacts
<1>1. t # VzPurger
  BY DEF VectorizerInv, VzStagesFit
<1>2. PICK r \in VzRecords :
        /\ r = [vzThread[t] EXCEPT !.pc = "settle"]
        /\ r.pc = "settle" /\ r.plan = vzThread[t].plan /\ r.old = vzThread[t].old
        /\ r.runs = vzThread[t].runs /\ r.of = vzThread[t].of
  <2>1. "settle" \in VzStages
    BY DEF VzStages
  <2> QED BY <2>1, StageRecord DEF VectorizerInv
<1>3. /\ vzThread' \in [VzThreads -> VzRecords] /\ vzThread'[t] = r
      /\ \A q \in VzThreads \ {t} : vzThread'[q] = vzThread[q]
      /\ Wanted' = Wanted /\ VzStagesFit'
  <2>1. VzStep(t, r)
    BY <1>2
  <2>2. r.pc = "settle" /\ r.runs = vzThread[t].runs
    BY <1>2
  <2> QED BY <1>1, <2>1, <2>2, ThreadStep
<1>4. PICK plan \in SUBSET VzVectors : plan = vzThread[t].plan
  BY LiveUpdates DEF VectorizerInv, VzRecords
<1>5. /\ \A x : x \in vzStored' <=> x \in plan \/ (x \in vzStored /\ ~\E y \in plan : SameId(x, y))
      /\ vzStored \in SUBSET VzVectors
  BY <1>4 DEF StoredAfter, VectorizerInv, VectorizerTypeOK
<1>6. VectorizerTypeOK'
  BY <1>3, <1>5 DEF VectorizerInv, VectorizerTypeOK
<1>7. /\ \A q \in VzAdders : CopiesOf(q)' = CopiesOf(q)
      /\ \A q \in VzThreads : /\ vzThread'[q].plan = vzThread[q].plan
                              /\ vzThread'[q].old = vzThread[q].old
                              /\ vzThread'[q].of = vzThread[q].of
                              /\ VzAdding(q)' <=> VzAdding(q)
  BY <1>2, <1>3 DEF CopiesOf, VzAdding
<1>8. Whole(plan)
  BY <1>4 DEF VectorizerInv, VectorsWhole, VzAdding
<1>9. VectorsWhole'
  <2>1. Whole(vzStored)'
    <3> SUFFICES ASSUME NEW u \in Wanted, NEW x \in vzStored', x.content = u,
                        NEW y \in UpdateVectors(u)
                 PROVE  y \in vzStored'
      BY <1>3 DEF Whole
    <3>1. x \in UpdateVectors(u)
      BY <1>5
    <3>2. CASE x \in plan
      BY <1>5, <1>8, <3>2 DEF Whole
    <3>3. CASE x \notin plan
      <4>1. x \in vzStored /\ ~\E z \in plan : SameId(x, z)
        BY <1>5, <3>3
      <4>2. y \in vzStored
        BY <4>1 DEF VectorizerInv, VectorsWhole, Whole
      <4>3. ASSUME NEW z \in plan, SameId(y, z) PROVE FALSE
        <5>1. z.content = u
          BY <4>3 DEF SameId
        <5>2. x \in plan
          BY <1>8, <3>1, <5>1 DEF Whole
        <5> QED BY <3>3, <5>2
      <4> QED BY <1>5, <4>2, <4>3
    <3> QED BY <3>2, <3>3
  <2>2. Whole(vzState.read)' /\ \A q \in VzAdders : Whole(CopiesOf(q))'
    BY <1>3, <1>7 DEF VectorizerInv, VectorsWhole, Whole
  <2>3. \A q \in VzThreads : VzAdding(q)' =>
          Whole(vzThread[q].plan)' /\ \A m \in vzThread'[q].old : m.vector.content = VzEntity
    BY <1>3, <1>7 DEF VectorizerInv, VectorsWhole, Whole
  <2>4. \A q \in VzThreads : vzThread'[q].pc = "queued" => vzThread'[q].old = {}
    BY <1>2, <1>3 DEF VectorizerInv, VectorsWhole
  <2> QED BY <2>1, <2>2, <2>3, <2>4 DEF VectorsWhole
<1>10. CopiesAccounted'
  <2>1. \A q \in VzThreads :
          vzThread'[q].pc \in {"persist", "settle"} <=> vzThread[q].pc \in {"persist", "settle"}
    BY <1>2, <1>3
  <2> QED BY <1>3, <1>7, <2>1 DEF VectorizerInv, CopiesAccounted
<1>11. \A u : (VzIndexed(u) => VzIndexed(u)') /\ (Untouched(u) => Untouched(u)')
  <2>1. \A q \in VzThreads :
          vzThread'[q].pc \in {"embed", "persist"} => vzThread[q].pc \in {"embed", "persist"}
    BY <1>2, <1>3
  <2>2. ASSUME NEW x, Safe(x) PROVE Safe(x)'
    BY <1>7, <2>1, <2>2 DEF Safe
  <2> QED BY <1>7, <2>2 DEF VzIndexed, Untouched, UpdateVectors
<1>12. DoneIndexed'
  BY <1>3, <1>11 DEF VectorizerInv, DoneIndexed
<1>13. SearchesCover'
  <2>1. \A s \in VzSearchers : vzThread'[s].pc = "mark" => vzThread[s].pc = "mark"
    BY <1>2, <1>3
  <2> QED BY <1>3, <1>7, <1>11, <2>1 DEF VectorizerInv, SearchesCover
<1>14. DurableOrPending'
  <2>1. \A x : StoredId(x) => StoredId(x)'
    <3> SUFFICES ASSUME NEW x, NEW y \in vzStored, SameId(y, x) PROVE \E z \in vzStored' : SameId(z, x)
      BY DEF StoredId
    <3>1. CASE \E z \in plan : SameId(y, z)
      BY <1>5, <3>1 DEF SameId
    <3>2. CASE ~\E z \in plan : SameId(y, z)
      BY <1>5, <3>2
    <3> QED BY <3>1, <3>2
  <2>2. \A x \in plan : StoredId(x)'
    BY <1>5 DEF StoredId, SameId
  <2>3. \A x \in vzState'.read : x.content \in Wanted' \cup {VzEntity} => StoredId(x)'
    BY <1>3, <2>1 DEF VectorizerInv, DurableOrPending
  <2>4. ASSUME NEW q \in VzAdders, NEW x \in CopiesOf(q)', x.content \in Wanted' \cup {VzEntity}
        PROVE  StoredId(x)' \/ (q \in VzThreads /\ vzThread'[q].pc = "persist" /\ x \in vzThread'[q].plan)
    <3>1. CASE StoredId(x)
      BY <2>1, <3>1
    <3>2. CASE q \in VzThreads /\ vzThread[q].pc = "persist" /\ x \in vzThread[q].plan
      BY <1>3, <1>4, <2>2, <3>2
    <3> QED BY <1>3, <1>7, <2>4, <3>1, <3>2 DEF VectorizerInv, DurableOrPending
  <2> QED BY <2>3, <2>4 DEF DurableOrPending
<1> QED BY <1>3, <1>6, <1>9, <1>10, <1>12, <1>13, <1>14 DEF VectorizerInv

\* A failed write takes back what the thread added, and only that.
LEMMA PersistFailInv ==
  ASSUME VectorizerInv, NEW t \in VzThreads, vzThread[t].pc = "persist",
         vzMemory' = RolledBack(t), vzStored' = vzStored,
         VzStep(t, [vzThread[t] EXCEPT !.pc = IF t \in VzSearchers THEN "failed" ELSE "idle",
                                       !.plan = {}, !.old = {}]),
         vzState' = vzState, vzDone' = vzDone, vzLive' = vzLive, vzMark' = vzMark
  PROVE  VectorizerInv'
<1> USE VzThreadFacts, VectorFacts
<1>1. t # VzPurger
  BY DEF VectorizerInv, VzStagesFit
<1>2. PICK p \in {"failed", "idle"} : p = IF t \in VzSearchers THEN "failed" ELSE "idle"
  OBVIOUS
<1>3. PICK q \in VzRecords : q = vzThread[t]
  BY LiveUpdates DEF VectorizerInv
<1>4. PICK r : r = [q EXCEPT !.pc = p, !.plan = {}, !.old = {}]
  OBVIOUS
<1>5. p \in VzStages
  BY DEF VzStages
<1>6. r \in VzRecords /\ r.pc = p /\ r.plan = {} /\ r.old = {} /\ r.runs = q.runs
  BY <1>4, <1>5 DEF VzRecords
<1>7. /\ vzThread' \in [VzThreads -> VzRecords] /\ vzThread'[t] = r
      /\ \A s \in VzThreads \ {t} : vzThread'[s] = vzThread[s]
      /\ Wanted' = Wanted /\ VzStagesFit'
  <2>1. VzStep(t, r)
    BY <1>2, <1>3, <1>4
  <2> QED BY <1>1, <1>2, <1>3, <1>6, <2>1, ThreadStep
<1>8. PICK plan \in SUBSET VzVectors : plan = vzThread[t].plan
  BY <1>3 DEF VzRecords
<1>9. VectorizerTypeOK'
  BY <1>7 DEF VectorizerInv, VectorizerTypeOK, RolledBack
<1>10. /\ \A s \in VzAdders \ {t} : CopiesOf(s)' = CopiesOf(s)
       /\ CopiesOf(t)' = CopiesOf(t) \ plan
  <2>1. \A s \in VzAdders, x \in VzVectors :
          Copy(x, s) \in vzMemory' <=> Copy(x, s) \in vzMemory /\ ~(s = t /\ x \in plan)
    <3>1. vzMemory' = vzMemory \ {Copy(y, t) : y \in plan}
      BY <1>8 DEF RolledBack
    <3>2. \A s \in VzAdders, x \in VzVectors :
            Copy(x, s) \in {Copy(y, t) : y \in plan} <=> s = t /\ x \in plan
      <4>1. \A x, y, s : Copy(x, s) = Copy(y, t) => x = y /\ s = t
        BY DEF Copy
      <4> QED BY <4>1
    <3> QED BY <3>1, <3>2
  <2> QED BY <2>1 DEF CopiesOf
<1>11. \A s \in VzThreads : VzAdding(s)' => s # t /\ VzAdding(s)
  BY <1>2, <1>6, <1>7 DEF VzAdding
<1>12. Whole(plan) /\ Whole(CopiesOf(t))
  BY <1>8 DEF VectorizerInv, VectorsWhole, VzAdding
<1>13. \A u \in Wanted : (\E x \in CopiesOf(t)' : x.content = u) =>
         /\ UpdateVectors(u) \subseteq CopiesOf(t)'
         /\ ~\E x \in plan : x.content = u
  <2> SUFFICES ASSUME NEW u \in Wanted, NEW x \in CopiesOf(t)', x.content = u
               PROVE  UpdateVectors(u) \subseteq CopiesOf(t)' /\ ~\E y \in plan : y.content = u
    OBVIOUS
  <2>1. x \in UpdateVectors(u) /\ x \notin plan /\ x \in CopiesOf(t)
    BY <1>10 DEF CopiesOf
  <2>2. ~\E y \in plan : y.content = u
    BY <1>12, <2>1 DEF Whole
  <2>3. UpdateVectors(u) \subseteq CopiesOf(t)
    BY <1>12, <2>1 DEF Whole
  <2> QED BY <1>10, <2>2, <2>3
<1>14. VectorsWhole'
  <2>1. Whole(vzStored)' /\ Whole(vzState.read)'
    BY <1>7 DEF VectorizerInv, VectorsWhole, Whole
  <2>2. \A s \in VzAdders : Whole(CopiesOf(s))'
    BY <1>7, <1>10, <1>13 DEF VectorizerInv, VectorsWhole, Whole
  <2>3. \A s \in VzThreads : VzAdding(s)' =>
          Whole(vzThread[s].plan)' /\ \A m \in vzThread'[s].old : m.vector.content = VzEntity
    BY <1>7, <1>11 DEF VectorizerInv, VectorsWhole, Whole
  <2>4. \A s \in VzThreads : vzThread'[s].pc = "queued" => vzThread'[s].old = {}
    BY <1>2, <1>6, <1>7 DEF VectorizerInv, VectorsWhole
  <2> QED BY <2>1, <2>2, <2>3, <2>4 DEF VectorsWhole
<1>15. CopiesAccounted'
  <2>1. ASSUME NEW s \in VzThreads, NEW u \in Wanted', NEW x \in CopiesOf(s)', x.content = u
        PROVE  u \in vzDone' \/ (vzThread'[s].pc \in {"persist", "settle"}
                                 /\ UpdateVectors(u) \subseteq vzThread'[s].plan)
    <3>1. CASE s = t
      <4>1. x \in CopiesOf(t) /\ ~\E y \in plan : y.content = u
        BY <1>7, <1>10, <1>13, <2>1, <3>1
      <4>2. Vec(u, 1, 1) \notin plan
        BY <1>7, <4>1
      <4> QED BY <1>7, <1>8, <2>1, <3>1, <4>1, <4>2 DEF VectorizerInv, CopiesAccounted
    <3>2. CASE s # t
      BY <1>7, <1>10, <2>1, <3>2 DEF VectorizerInv, CopiesAccounted
    <3> QED BY <3>1, <3>2
  <2>2. ASSUME NEW s \in VzThreads, NEW u \in Wanted', vzThread'[s].pc \in {"persist", "settle"},
               \E x \in vzThread'[s].plan : x.content = u
        PROVE  UpdateVectors(u) \subseteq CopiesOf(s)'
    <3>1. s # t
      BY <1>2, <1>6, <1>7, <2>2
    <3> QED BY <1>7, <1>10, <2>2, <3>1 DEF VectorizerInv, CopiesAccounted
  <2> QED BY <2>1, <2>2 DEF CopiesAccounted
<1>16. \A u : VzIndexed(u) => VzIndexed(u)'
  <2>1. ASSUME NEW x, Safe(x) PROVE Safe(x)'
    BY <1>6, <1>7, <1>8, <1>10, <2>1 DEF Safe
  <2> QED BY <2>1 DEF VzIndexed, UpdateVectors
<1>17. \A u : Untouched(u) => Untouched(u)'
  BY <1>7, <1>10, <1>11 DEF Untouched
<1>18. DoneIndexed'
  BY <1>7, <1>16, <1>17 DEF VectorizerInv, DoneIndexed
<1>19. SearchesCover'
  <2>1. \A s \in VzSearchers : vzThread'[s].pc = "mark" => s # t
    BY <1>2, <1>6, <1>7
  <2> QED BY <1>7, <1>11, <1>16, <2>1 DEF VectorizerInv, SearchesCover
<1>20. DurableOrPending'
  <2>1. \A x : StoredId(x)' <=> StoredId(x)
    BY DEF StoredId
  <2>2. \A x \in vzState'.read : x.content \in Wanted' \cup {VzEntity} => StoredId(x)'
    BY <1>7, <2>1 DEF VectorizerInv, DurableOrPending
  <2>3. ASSUME NEW s \in VzAdders, NEW x \in CopiesOf(s)', x.content \in Wanted' \cup {VzEntity}
        PROVE  StoredId(x)' \/ (s \in VzThreads /\ vzThread'[s].pc = "persist" /\ x \in vzThread'[s].plan)
    BY <1>7, <1>8, <1>10, <2>1, <2>3 DEF VectorizerInv, DurableOrPending
  <2> QED BY <2>2, <2>3 DEF DurableOrPending
<1> QED BY <1>7, <1>9, <1>14, <1>15, <1>18, <1>19, <1>20 DEF VectorizerInv

\* The write of what was added works or fails.
LEMMA PersistInv ==
  ASSUME VectorizerInv, NEW t \in VzThreads, PersistAdded(t)
  PROVE  VectorizerInv'
  BY PersistOkInv, PersistFailInv DEF PersistAdded

\* What a thread added is done, and what it superseded goes.
LEMMA SettleInv ==
  ASSUME VectorizerInv, NEW t \in VzThreads, Settle(t)
  PROVE  VectorizerInv'
<1> USE VzThreadFacts, VectorFacts
<1>1. /\ vzState' = vzState /\ vzLive' = vzLive /\ vzStored' = vzStored /\ vzMark' = vzMark
      /\ vzThread[t].pc = "settle" /\ vzMemory' = vzMemory \ vzThread[t].old
  BY DEF Settle
<1>2. t # VzPurger
  BY <1>1 DEF VectorizerInv, VzStagesFit
<1>3. PICK q \in VzRecords : q = vzThread[t]
  BY LiveUpdates DEF VectorizerInv
<1>4. PICK r \in VzRecords :
        /\ VzStep(t, r) /\ r.runs = q.runs
        /\ \/ t \in VzSearchers /\ r.pc = "mark" /\ r.of = q.of
           \/ t \notin VzSearchers /\ r.pc = "idle"
  <2>1. CASE t \in VzSearchers
    <3>1. PICK r : r = [q EXCEPT !.pc = "mark", !.plan = {}, !.old = {}]
      OBVIOUS
    <3>2. "mark" \in VzStages
      BY DEF VzStages
    <3>3. r \in VzRecords /\ r.pc = "mark" /\ r.runs = q.runs /\ r.of = q.of
      BY <3>1, <3>2 DEF VzRecords
    <3>4. VzStep(t, r)
      BY <1>3, <2>1, <3>1 DEF Settle
    <3> QED BY <2>1, <3>3, <3>4
  <2>2. CASE t \notin VzSearchers
    BY <1>3, <2>2, VzEndFacts DEF Settle, VectorizerInv
  <2> QED BY <2>1, <2>2
<1>5. /\ vzThread' \in [VzThreads -> VzRecords] /\ vzThread'[t] = r
      /\ \A s \in VzThreads \ {t} : vzThread'[s] = vzThread[s]
      /\ Wanted' = Wanted /\ VzStagesFit'
  BY <1>1, <1>2, <1>3, <1>4, ThreadStep
<1>6. PICK plan \in SUBSET VzVectors : plan = vzThread[t].plan
  BY <1>3 DEF VzRecords
<1>7. /\ vzDone \subseteq vzDone' /\ vzDone' \in SUBSET VzUpdates
      /\ \A u \in vzDone' : u \in vzDone \/ \E x \in plan : x.content = u
      /\ \A x \in plan : x.content # VzEntity => x.content \in vzDone'
  BY <1>6 DEF Settle, VectorizerInv, VectorizerTypeOK
<1>8. VectorizerTypeOK'
  BY <1>1, <1>5, <1>7 DEF VectorizerInv, VectorizerTypeOK
<1>9. /\ \A s \in VzAdders : CopiesOf(s)' \subseteq CopiesOf(s)
      /\ \A s \in VzAdders, x \in VzVectors :
           x.content \in Wanted /\ x \in CopiesOf(s) => x \in CopiesOf(s)'
  <2>1. \A m \in vzThread[t].old : m.vector.content = VzEntity
    BY <1>1 DEF VectorizerInv, VectorsWhole, VzAdding
  <2>2. \A s \in VzAdders, x \in VzVectors :
           x.content \in Wanted /\ Copy(x, s) \in vzMemory => Copy(x, s) \in vzMemory'
    BY <1>1, <2>1 DEF Copy
  <2> QED BY <1>1, <2>2 DEF CopiesOf
<1>10. \A s \in VzThreads : VzAdding(s)' => s # t /\ VzAdding(s)
  BY <1>4, <1>5 DEF VzAdding
<1>11. Whole(plan)
  BY <1>1, <1>6 DEF VectorizerInv, VectorsWhole, VzAdding
<1>12. \A s \in VzAdders : Whole(CopiesOf(s))'
  <2> SUFFICES ASSUME NEW s \in VzAdders, NEW u \in Wanted, NEW x \in CopiesOf(s)', x.content = u
               PROVE  UpdateVectors(u) \subseteq CopiesOf(s)'
    BY <1>5 DEF Whole
  <2>1. UpdateVectors(u) \subseteq CopiesOf(s)
    BY <1>9 DEF VectorizerInv, VectorsWhole, Whole
  <2> QED BY <1>9, <2>1
<1>13. VectorsWhole'
  <2>1. Whole(vzStored)' /\ Whole(vzState.read)'
    BY <1>1, <1>5 DEF VectorizerInv, VectorsWhole, Whole
  <2>2. \A s \in VzThreads : VzAdding(s)' =>
          Whole(vzThread[s].plan)' /\ \A m \in vzThread'[s].old : m.vector.content = VzEntity
    BY <1>5, <1>10 DEF VectorizerInv, VectorsWhole, Whole
  <2>3. \A s \in VzThreads : vzThread'[s].pc = "queued" => vzThread'[s].old = {}
    BY <1>4, <1>5 DEF VectorizerInv, VectorsWhole
  <2> QED BY <1>12, <2>1, <2>2, <2>3 DEF VectorsWhole
<1>14. CopiesAccounted'
  <2>1. ASSUME NEW s \in VzThreads, NEW u \in Wanted', NEW x \in CopiesOf(s)', x.content = u
        PROVE  u \in vzDone' \/ (vzThread'[s].pc \in {"persist", "settle"}
                                 /\ UpdateVectors(u) \subseteq vzThread'[s].plan)
    <3>1. x \in CopiesOf(s)
      BY <1>9, <2>1
    <3>2. \/ u \in vzDone
          \/ vzThread[s].pc \in {"persist", "settle"} /\ UpdateVectors(u) \subseteq vzThread[s].plan
      BY <1>5, <2>1, <3>1 DEF VectorizerInv, CopiesAccounted
    <3>3. CASE s = t /\ UpdateVectors(u) \subseteq plan
      BY <1>5, <1>7, <3>3
    <3> QED BY <1>5, <1>6, <1>7, <3>2, <3>3
  <2>2. ASSUME NEW s \in VzThreads, NEW u \in Wanted', vzThread'[s].pc \in {"persist", "settle"},
               \E x \in vzThread'[s].plan : x.content = u
        PROVE  UpdateVectors(u) \subseteq CopiesOf(s)'
    <3>1. s # t
      BY <1>4, <1>5, <2>2
    <3>2. UpdateVectors(u) \subseteq CopiesOf(s)
      BY <1>5, <2>2, <3>1 DEF VectorizerInv, CopiesAccounted
    <3> QED BY <1>5, <1>9, <3>2
  <2> QED BY <2>1, <2>2 DEF CopiesAccounted
<1>15. \A u \in Wanted : VzIndexed(u) => VzIndexed(u)'
  <2> SUFFICES ASSUME NEW u \in Wanted, NEW x \in UpdateVectors(u), Safe(x) PROVE Safe(x)'
    BY DEF VzIndexed
  <2> QED BY <1>4, <1>5, <1>9 DEF Safe
<1>16. \A u \in Wanted : (\E x \in plan : x.content = u) => VzIndexed(u)'
  <2> SUFFICES ASSUME NEW u \in Wanted, \E x \in plan : x.content = u, NEW x \in UpdateVectors(u)
               PROVE  Safe(x)'
    BY DEF VzIndexed
  <2>1. x \in CopiesOf(t)
    BY <1>1, <1>6 DEF VectorizerInv, CopiesAccounted
  <2>2. x \in CopiesOf(t)'
    BY <1>9, <2>1
  <2> QED BY <1>4, <1>5, <2>2 DEF Safe
<1>17. \A u : Untouched(u) => Untouched(u)'
  BY <1>5, <1>9, <1>10 DEF Untouched
<1>18. DoneIndexed'
  BY <1>5, <1>7, <1>15, <1>16, <1>17 DEF VectorizerInv, DoneIndexed
<1>19. SearchesCover'
  <2>1. ASSUME NEW s \in VzSearchers, NEW u \in Wanted' \cap vzThread'[s].of.updates
        PROVE  /\ vzThread'[s].pc = "mark" => VzIndexed(u)'
               /\ VzAdding(s)' => VzIndexed(u)' \/ UpdateVectors(u) \subseteq vzThread'[s].plan
    <3>1. CASE s = t
      <4>1. VzIndexed(u) \/ UpdateVectors(u) \subseteq plan
        BY <1>1, <1>3, <1>4, <1>5, <1>6, <2>1, <3>1 DEF VectorizerInv, SearchesCover, VzAdding
      <4>2. UpdateVectors(u) \subseteq plan => \E x \in plan : x.content = u
        BY <1>5, <2>1
      <4> QED BY <1>5, <1>10, <1>15, <1>16, <3>1, <4>1, <4>2
    <3>2. CASE s # t
      BY <1>5, <1>10, <1>15, <2>1, <3>2 DEF VectorizerInv, SearchesCover
    <3> QED BY <3>1, <3>2
  <2>2. vzMark'.taken => \A u \in Wanted' \cap vzMark'.of.updates : VzIndexed(u)'
    BY <1>1, <1>5, <1>15 DEF VectorizerInv, SearchesCover
  <2> QED BY <2>1, <2>2 DEF SearchesCover
<1>20. DurableOrPending'
  <2>1. \A x : StoredId(x)' <=> StoredId(x)
    BY <1>1 DEF StoredId
  <2>2. \A x \in vzState'.read : x.content \in Wanted' \cup {VzEntity} => StoredId(x)'
    BY <1>1, <1>5, <2>1 DEF VectorizerInv, DurableOrPending
  <2>3. ASSUME NEW s \in VzAdders, NEW x \in CopiesOf(s)', x.content \in Wanted' \cup {VzEntity}
        PROVE  StoredId(x)' \/ (s \in VzThreads /\ vzThread'[s].pc = "persist" /\ x \in vzThread'[s].plan)
    BY <1>1, <1>5, <1>9, <2>1, <2>3 DEF VectorizerInv, DurableOrPending
  <2> QED BY <2>2, <2>3 DEF DurableOrPending
<1> QED BY <1>5, <1>8, <1>13, <1>14, <1>18, <1>19, <1>20 DEF VectorizerInv

\* Every step keeps the invariant.
LEMMA VectorizerStep == VectorizerInv /\ [VectorizerNext]_vectorizerVars => VectorizerInv'
<1> SUFFICES ASSUME VectorizerInv, [VectorizerNext]_vectorizerVars PROVE VectorizerInv'
  OBVIOUS
<1>1. CASE \E u \in VzUpdates : CommitUpdate(u) \/ RunJob(u) \/ VzPurge(u) \/ DropContent(u)
  BY <1>1, CommitInv, JobInv, PurgeInv, DropInv
<1>2. CASE \E s \in VzSearchers : SearchSession(s) \/ Collect(s) \/ MarkVectorized(s)
  BY <1>2, SearchInv, CollectInv, MarkInv
<1>3. CASE \E t \in VzThreads : AddToMemory(t) \/ PersistAdded(t) \/ Settle(t)
  BY <1>3, AddInv, PersistInv, SettleInv
<1>4. CASE DescribeEntity \/ RunEntityJob \/ StartVectorizer \/ LoadStored \/ Unstore \/ VzCrash
  BY <1>4, DescribeInv, EntityJobInv, StartInv, LoadInv, UnstoreInv, CrashInv
<1>5. CASE UNCHANGED vectorizerVars
  <2>1. /\ vzLive' = vzLive /\ vzDone' = vzDone /\ vzMemory' = vzMemory /\ vzStored' = vzStored
        /\ vzMark' = vzMark /\ vzState' = vzState /\ vzThread' = vzThread
    BY <1>5 DEF vectorizerVars
  <2>2. Wanted' = Wanted /\ \A q : CopiesOf(q)' = CopiesOf(q)
    BY <2>1 DEF Wanted, CopiesOf
  <2>3. \A u : (VzIndexed(u)' <=> VzIndexed(u)) /\ (Untouched(u)' <=> Untouched(u))
    BY <2>1, <2>2 DEF VzIndexed, Safe, Untouched, VzAdding
  <2>4. VectorizerTypeOK' /\ VzStagesFit'
    BY <2>1, <2>2 DEF VectorizerInv, VectorizerTypeOK, VzStagesFit
  <2>5. VectorsWhole' /\ CopiesAccounted'
    BY <2>1, <2>2 DEF VectorizerInv, VectorsWhole, CopiesAccounted, Whole, VzAdding
  <2>6. DoneIndexed' /\ SearchesCover'
    BY <2>1, <2>2, <2>3 DEF VectorizerInv, DoneIndexed, SearchesCover, VzAdding
  <2>7. DurableOrPending'
    BY <2>1, <2>2 DEF VectorizerInv, DurableOrPending, StoredId
  <2> QED BY <2>4, <2>5, <2>6, <2>7 DEF VectorizerInv
<1> QED BY <1>1, <1>2, <1>3, <1>4, <1>5 DEF VectorizerNext

\* While nobody works, what is safe is in memory and nothing is pending.
LEMMA VectorizerInvSuffices == VectorizerInv => VectorsSound
<1> SUFFICES ASSUME VectorizerInv PROVE VectorsSound
  OBVIOUS
<1> USE VzThreadFacts, VectorFacts
<1>1. vzLive.updates \subseteq Wanted
  BY LiveUpdates DEF VectorizerInv, Wanted
<1>2. SkippedIsIndexed
  <2> SUFFICES ASSUME vzMark.taken, vzMark.of.updates = vzLive.updates,
                      NEW u \in vzLive.updates, NEW x \in UpdateVectors(u)
               PROVE  InMemory(x)
    BY DEF SkippedIsIndexed, NeedsVectorization
  <2>1. Safe(x)
    BY <1>1 DEF VectorizerInv, SearchesCover, VzIndexed
  <2> QED BY <2>1 DEF Safe, CopiesOf, InMemory, Copy
<1>3. LiveVectorsDurable
  <2> SUFFICES ASSUME VzQuiet, NEW m \in vzMemory,
                      m.vector.content \in vzLive.updates \cup {VzEntity}
               PROVE  StoredId(m.vector)
    BY DEF LiveVectorsDurable, StoredId
  <2>1. m.by \in VzAdders /\ m.vector \in CopiesOf(m.by)
    BY DEF VectorizerInv, VectorizerTypeOK, VzCopies, CopiesOf, Copy
  <2>2. \A t \in VzThreads : vzThread[t].pc = "idle"
    BY DEF VzQuiet, VzBusy
  <2> QED BY <1>1, <2>1, <2>2 DEF VectorizerInv, DurableOrPending
<1> QED BY <1>2, <1>3 DEF VectorsSound

\* VectorsSound of the vectorizer, for any updates, chunks and searchers: a
\* search that skips the session finds every chunk of every update indexed,
\* and what memory holds of the session's content a restart finds again.
THEOREM VectorsAreSound == VectorizerSpec => []VectorsSound
<1>1. VectorizerInit => VectorizerInv
  BY VectorizerInitInv
<1>2. VectorizerInv /\ [VectorizerNext]_vectorizerVars => VectorizerInv'
  BY VectorizerStep
<1>3. VectorizerInv => VectorsSound
  BY VectorizerInvSuffices
<1> QED BY <1>1, <1>2, <1>3, PTL DEF VectorizerSpec

(***************************************************************************)
(* ActiveSession: hot contexts by reference.                               *)
(***************************************************************************)

\* There is always a reference that no version holds.
LEMMA FreeRefIsFree ==
    ASSUME HeapInUse
    PROVE  FreeRef \in Refs \ Referenced
<1> DEFINE D == AsWriters \X {1, 2}
           Some(S) == (CHOOSE s \in S : TRUE).hot
           f == [p \in D |-> IF p[2] = 1 THEN Some(asWork[p[1]].base) ELSE Some(asWork[p[1]].new)]
           A == {f[p] : p \in D}
           r == Some(asReader)
           B == ({asCur.hot} \cup {r}) \cup A
<1>1. PICK n \in Nat : n = Cardinality(AsWriters) /\ IsFiniteSet(AsWriters)
  BY ActiveSessionAssumption, FS_CardinalityType
<1>2. IsFiniteSet({1, 2}) /\ Cardinality({1, 2}) = 2
  <2>1. PICK X : X = {1}
    OBVIOUS
  <2>2. IsFiniteSet(X) /\ Cardinality(X) = 1
    BY <2>1, FS_Singleton
  <2>3. {1, 2} = X \cup {2} /\ 2 \notin X
    BY <2>1
  <2> QED
    BY <2>2, <2>3, FS_AddElement
<1>3. IsFiniteSet(D) /\ Cardinality(D) = n * 2
  BY <1>1, <1>2, FS_Product
<1>4. IsFiniteSet(A) /\ Cardinality(A) <= n * 2
  <2>1. f \in Surjection(D, A)
    <3>1. f \in [D -> A]
      BY DEF A
    <3>2. \A a \in A : \E p \in D : f[p] = a
      BY DEF A
    <3> QED
      BY <3>1, <3>2 DEF Surjection
  <2> QED
    BY <1>3, <2>1, FS_Surjection
<1>5. IsFiniteSet({asCur.hot} \cup {r}) /\ Cardinality({asCur.hot} \cup {r}) <= 2
  <2>1. PICK X, y : X = {asCur.hot} /\ y = r
    OBVIOUS
  <2>2. IsFiniteSet(X) /\ Cardinality(X) = 1
    BY <2>1, FS_Singleton
  <2>3. IsFiniteSet(X \cup {y}) /\ Cardinality(X \cup {y}) <= 2
    BY <2>2, FS_AddElement
  <2> QED
    BY <2>1, <2>3
<1>6. IsFiniteSet(B) /\ Cardinality(B) <= 2 + n * 2
  <2>1. PICK X, Y : X = {asCur.hot} \cup {r} /\ Y = A
    OBVIOUS
  <2>2. IsFiniteSet(X \cup Y) /\ Cardinality(X \cup Y) = Cardinality(X) + Cardinality(Y) - Cardinality(X \cap Y)
    <3>1. IsFiniteSet(X) /\ IsFiniteSet(Y)
      BY <1>4, <1>5, <2>1
    <3> QED
      BY <3>1, FS_Union
  <2>3. IsFiniteSet(X \cap Y)
    BY <1>4, <2>1, FS_Subset, X \cap Y \in SUBSET Y
  <2>4. Cardinality(X \cap Y) \in Nat /\ Cardinality(X) \in Nat /\ Cardinality(Y) \in Nat
    BY <1>4, <1>5, <2>1, <2>3, FS_CardinalityType
  <2>5. PICK m : m = n * 2 /\ m \in Nat
    OBVIOUS
  <2>6. Cardinality(X) <= 2 /\ Cardinality(Y) <= m
    BY <1>4, <1>5, <2>1, <2>5
  <2>7. Cardinality(X \cup Y) <= 2 + m
    BY <2>2, <2>4, <2>5, <2>6
  <2> QED
    BY <2>1, <2>2, <2>5, <2>7
<1>7. Referenced \subseteq B
  <2> SUFFICES ASSUME NEW s \in Versions PROVE s.hot \in B
    BY DEF Referenced
  <2>1. CASE s = asCur
    BY <2>1
  <2>2. CASE s \in asReader
    <3>1. s = CHOOSE x \in asReader : TRUE
      BY <2>2 DEF HeapInUse, AtMostOne
    <3> QED
      BY <3>1
  <2>3. ASSUME NEW w \in AsWriters, s \in asWork[w].base PROVE s.hot \in B
    <3>1. s = CHOOSE x \in asWork[w].base : TRUE
      BY <2>3 DEF HeapInUse, AtMostOne
    <3>2. <<w, 1>> \in D /\ f[<<w, 1>>] = s.hot
      BY <3>1
    <3> QED
      BY <3>2
  <2>4. ASSUME NEW w \in AsWriters, s \in asWork[w].new PROVE s.hot \in B
    <3>1. s = CHOOSE x \in asWork[w].new : TRUE
      BY <2>4 DEF HeapInUse, AtMostOne
    <3>2. <<w, 2>> \in D /\ <<w, 2>>[1] = w /\ <<w, 2>>[2] # 1
      OBVIOUS
    <3>3. f[<<w, 2>>] = s.hot
      BY <3>1, <3>2
    <3> QED
      BY <3>2, <3>3
  <2> QED
    BY <2>1, <2>2, <2>3, <2>4 DEF Versions
<1> HIDE DEF B
<1>8. ~(Refs \subseteq Referenced)
  <2> SUFFICES ASSUME Refs \subseteq B PROVE FALSE
    BY <1>7
  <2>1. Cardinality(Refs) = 3 + 2 * n
    BY <1>1, FS_Interval DEF Refs
  <2>2. Cardinality(Refs) <= Cardinality(B)
    BY <1>6, FS_Subset
  <2>3. Cardinality(B) \in Nat
    BY <1>6, FS_CardinalityType
  <2> QED
    BY <1>6, <2>1, <2>2, <2>3
<1> QED
  BY <1>8 DEF FreeRef

\* The hot contexts of the versions in use are those of before, but for one at
\* a free reference; none is dropped while a version has it.
HeapMoves ==
    /\ DOMAIN asHeap' = Referenced'
    /\ \A s \in Versions : s \in Versions' => asHeap'[s.hot] = asHeap[s.hot]

LEMMA CollectedMoves ==
    ASSUME HeapInUse, NEW heap, Collected(heap), \A o \in Referenced : heap[o] = asHeap[o]
    PROVE  HeapMoves
<1>1. asHeap' = [o \in Referenced' |-> heap[o]]
  BY DEF Collected
<1>2. ASSUME NEW s \in Versions, s \in Versions' PROVE asHeap'[s.hot] = asHeap[s.hot]
  <2>1. s.hot \in Referenced /\ s.hot \in Referenced'
    BY <1>2 DEF Referenced
  <2> QED
    BY <1>1, <2>1
<1> QED
  BY <1>1, <1>2 DEF HeapMoves

LEMMA HeapSteps ==
    ASSUME HeapInUse, ActiveNext
    PROVE  HeapMoves
<1>0. FreeRef \notin Referenced /\ DOMAIN asHeap = Referenced
  BY FreeRefIsFree DEF HeapInUse
<1> DEFINE With(h) == [o \in DOMAIN asHeap \cup {FreeRef} |-> IF o = FreeRef THEN h ELSE asHeap[o]]
<1>1. ASSUME NEW h PROVE \A o \in Referenced : With(h)[o] = asHeap[o]
  BY <1>0
<1>2. ASSUME NEW w \in AsWriters, NEW op, Ask(w, op) PROVE HeapMoves
  BY <1>2, CollectedMoves DEF Ask
<1>3. ASSUME NEW w \in AsWriters, Build(w) PROVE HeapMoves
  <2>1. PICK s, done :
           IF done = {} THEN Collected(asHeap) ELSE \E c \in done : Collected(HotContextMut(s.hot, c.hot).heap)
    BY <1>3, Zenon DEF Build
  <2>2. CASE done = {}
    BY <2>1, <2>2, CollectedMoves
  <2>3. CASE done # {}
    <3>1. PICK c \in done : Collected(HotContextMut(s.hot, c.hot).heap)
      BY <2>1, <2>3
    <3>2. PICK heap : heap = HotContextMut(s.hot, c.hot).heap
      OBVIOUS
    <3>3. heap = asHeap \/ heap = With(c.hot)
      BY <3>2 DEF HotContextMut
    <3> QED
      BY <1>1, <3>1, <3>2, <3>3, CollectedMoves
  <2> QED
    BY <2>2, <2>3
<1>4. ASSUME NEW w \in AsWriters, Swap(w) \/ SwapLost(w) PROVE HeapMoves
  BY <1>4, CollectedMoves DEF Swap, SwapLost
<1>5. CASE ReaderLoads
  BY <1>5, CollectedMoves DEF ReaderLoads
<1>6. CASE Reload
  <2>1. \E h : Collected(With(h))
    BY <1>6 DEF Reload
  <2> QED
    BY <1>1, <2>1, CollectedMoves
<1> QED
  BY <1>2, <1>3, <1>4, <1>5, <1>6 DEF ActiveNext

(***************************************************************************)
(* ActiveSession: lists.                                                   *)
(***************************************************************************)

\* order lists the numbers of a set, ascending.
Lists(order, at) ==
    \E n \in Nat : /\ order \in [1..n -> at]
                   /\ \A j, k \in 1..n : j < k => order[j] < order[k]
                   /\ \A i \in at : \E k \in 1..n : order[k] = i

LEMMA AscendingLists ==
    ASSUME NEW at \in SUBSET Nat, IsFiniteSet(at)
    PROVE  Lists(Ascending(at), at)
<1>1. PICK n \in Nat : n = Cardinality(at)
  BY FS_CardinalityType
<1>2. PICK q : q = Ascending(at)
  OBVIOUS
<1>3. q \in [1..n -> at] /\ \A j, k \in 1..n : j < k => q[j] < q[k]
  BY <1>1, <1>2, AscendingExists DEF Ascending
<1>4. q \in Injection(1..n, at)
  <2>1. ASSUME NEW j \in 1..n, NEW k \in 1..n, q[j] = q[k] PROVE j = k
    <3>1. q[j] \in Nat /\ q[k] \in Nat
      BY <1>3
    <3>2. ~(j < k) /\ ~(k < j)
      BY <1>3, <2>1, <3>1
    <3> QED
      BY <3>2
  <2>2. DOMAIN q = 1..n
    BY <1>3
  <2> QED
    BY <1>3, <2>1, <2>2 DEF Injection, IsInjective
<1>5. Cardinality(1..n) = n /\ IsFiniteSet(1..n)
  BY FS_Interval
<1>6. q \in Surjection(1..n, at)
  BY <1>1, <1>4, <1>5, FS_Injection
<1> QED
  BY <1>2, <1>3, <1>6 DEF Lists, Surjection

\* What is kept of a list, in the terms of the list.
LEMMA OnlyLists ==
    ASSUME NEW us, NEW at \in SUBSET Nat, IsFiniteSet(at)
    PROVE  \E order : Lists(order, at) /\ Only(us, at) = [k \in DOMAIN order |-> us[order[k]]]
BY AscendingLists DEF Only

Selects(v, us, at) ==
    /\ \A k \in DOMAIN v : \E i \in at : v[k] = us[i]
    /\ \A i \in at : \E k \in DOMAIN v : v[k] = us[i]

LEMMA OnlyTypes ==
    ASSUME NEW T, NEW us, us \in [DOMAIN us -> T], NEW at \in SUBSET Nat, IsFiniteSet(at), at \subseteq DOMAIN us,
           NEW v, v = Only(us, at)
    PROVE  v \in Seq(T) /\ Selects(v, us, at)
<1>1. PICK order : Lists(order, at) /\ v = [k \in DOMAIN order |-> us[order[k]]]
  BY OnlyLists
<1>2. PICK n \in Nat : /\ order \in [1..n -> at]
                       /\ \A i \in at : \E k \in 1..n : order[k] = i
  BY <1>1 DEF Lists
<1>3. v = [k \in 1..n |-> us[order[k]]] /\ DOMAIN v = 1..n
  BY <1>1, <1>2
<1>4. \A k \in 1..n : us[order[k]] \in T
  BY <1>2
<1>5. v \in Seq(T)
  BY <1>3, <1>4, IsASeq
<1>6. ASSUME NEW k \in DOMAIN v PROVE \E i \in at : v[k] = us[i]
  <2>1. order[k] \in at /\ v[k] = us[order[k]]
    BY <1>2, <1>3, <1>6
  <2> QED
    BY <2>1
<1>7. ASSUME NEW i \in at PROVE \E k \in DOMAIN v : v[k] = us[i]
  <2>1. PICK k \in 1..n : order[k] = i
    BY <1>2
  <2> QED
    BY <1>3, <2>1
<1> QED
  BY <1>5, <1>6, <1>7 DEF Selects

\* What is kept of a list that follows the log follows it.
LEMMA OnlyFollows ==
    ASSUME NEW us, NEW at \in SUBSET Nat, IsFiniteSet(at), at \subseteq DOMAIN us,
           NEW log, NEW gone, Follows(us, log, gone), NEW v, v = Only(us, at)
    PROVE  Follows(v, log, gone)
<1>1. PICK order : Lists(order, at) /\ v = [k \in DOMAIN order |-> us[order[k]]]
  BY OnlyLists
<1>2. PICK n \in Nat : /\ order \in [1..n -> at]
                       /\ \A j, k \in 1..n : j < k => order[j] < order[k]
  BY <1>1 DEF Lists
<1>3. DOMAIN v = 1..n /\ \A k \in 1..n : v[k] = us[order[k]] /\ order[k] \in DOMAIN us
  BY <1>1, <1>2
<1> QED
  BY <1>2, <1>3 DEF Follows

\* The log loses updates that the list has not, or that are gone.
Spared(f, log, at, gone, left) ==
    \A i \in DOMAIN f : f[i].id \notin left =>
        f[i].id \notin gone /\ \A k \in DOMAIN log : log[k].id = f[i].id => k \in at

LEMMA LogFiltered ==
    ASSUME NEW n \in Nat, NEW log, DOMAIN log = 1..n, DistinctIds(log),
           NEW at \in SUBSET (1..n), NEW kept, kept = Only(log, at),
           NEW f, NEW gone, NEW left, Follows(f, log, gone), Spared(f, log, at, gone, left)
    PROVE  Follows(f, kept, left) /\ DistinctIds(kept)
<1>0. at \in SUBSET Nat /\ IsFiniteSet(at)
  <2>1. IsFiniteSet(1..n)
    BY FS_Interval
  <2>2. IsFiniteSet(at)
    BY <2>1, FS_Subset
  <2> QED
    BY <2>2
<1>1. PICK order : Lists(order, at) /\ kept = [k \in DOMAIN order |-> log[order[k]]]
  BY <1>0, OnlyLists
<1>2. PICK m \in Nat : /\ order \in [1..m -> at]
                       /\ \A j, k \in 1..m : j < k => order[j] < order[k]
                       /\ \A i \in at : \E k \in 1..m : order[k] = i
  BY <1>1 DEF Lists
<1>3. DOMAIN kept = 1..m /\ \A k \in 1..m : kept[k] = log[order[k]] /\ order[k] \in 1..n
  BY <1>1, <1>2
<1>4. ASSUME NEW i \in 1..m, NEW j \in 1..m, order[j] < order[i] PROVE j < i
  <2>1. ~(i < j) /\ i # j
    <3>1. order[i] \in Nat /\ order[j] \in Nat
      BY <1>3
    <3> QED
      BY <1>2, <1>4, <3>1
  <2> QED
    BY <2>1
<1>5. ASSUME NEW i \in DOMAIN f, f[i].id \notin left PROVE \E k \in DOMAIN kept : kept[k] = f[i]
  <2>1. PICK k \in 1..n : log[k] = f[i]
    BY <1>5 DEF Follows, Spared
  <2>2. k \in at
    BY <1>5, <2>1 DEF Spared
  <2>3. PICK l \in 1..m : order[l] = k
    BY <1>2, <2>2
  <2>4. kept[l] = f[i]
    BY <1>3, <2>1, <2>3
  <2> QED
    BY <1>3, <2>4
<1>6. ASSUME NEW i \in DOMAIN f, f[i].id \notin left,
             NEW j \in DOMAIN f, j < i, f[j].id \notin left,
             NEW k \in DOMAIN kept, NEW l \in DOMAIN kept, kept[k].id = f[i].id, kept[l].id = f[j].id
      PROVE  l < k
  <2>1. order[l] < order[k]
    BY <1>3, <1>6 DEF Follows, Spared
  <2> QED
    BY <1>3, <1>4, <1>6, <2>1
<1>7. \A i, j \in DOMAIN kept : kept[i].id = kept[j].id => i = j
  <2> SUFFICES ASSUME NEW i \in 1..m, NEW j \in 1..m, kept[i].id = kept[j].id PROVE i = j
    BY <1>3
  <2>1. order[i] = order[j]
    BY <1>3 DEF DistinctIds
  <2>2. order[i] \in Nat
    BY <1>3
  <2>3. ~(i < j) /\ ~(j < i)
    BY <1>2, <2>1, <2>2
  <2> QED
    BY <2>3
<1> QED
  BY <1>5, <1>6, <1>7 DEF Follows, DistinctIds

(***************************************************************************)
(* ActiveSession: what each change keeps.                                  *)
(***************************************************************************)

LEMMA LastOfTypes ==
    ASSUME NEW T, NEW us \in Seq(T), NEW n \in Nat, NEW v, v = LastOf(us, n)
    PROVE  /\ v \in Seq(T) /\ Len(v) <= n
           /\ \E d \in Nat : \A k \in DOMAIN v : k + d \in DOMAIN us /\ v[k] = us[k + d]
<1>1. PICK l \in Nat : l = Len(us) /\ us \in [1..l -> T] /\ DOMAIN us = 1..l
  BY LenProperties
<1>2. CASE l > n
  <2>1. v = SubSeq(us, l - n + 1, l)
    BY <1>1, <1>2 DEF LastOf
  <2>2. \A i \in (l - n + 1)..l : us[i] \in T
    BY <1>1, <1>2
  <2>3. /\ v \in Seq(T)
        /\ Len(v) = IF l - n + 1 <= l THEN l - (l - n + 1) + 1 ELSE 0
        /\ \A i \in 1..(l - (l - n + 1) + 1) : v[i] = us[(l - n + 1) + i - 1]
    BY <2>1, <2>2, SubSeqProperties
  <2>4. Len(v) = n /\ \A i \in 1..n : v[i] = us[i + (l - n)] /\ i + (l - n) \in 1..l
    BY <2>3, <1>2
  <2>5. DOMAIN v = 1..n
    BY <2>3, <2>4, LenProperties
  <2>6. PICK d \in Nat : d = l - n
    BY <1>2
  <2>7. \A k \in DOMAIN v : k + d \in DOMAIN us /\ v[k] = us[k + d]
    BY <1>1, <2>4, <2>5, <2>6
  <2>8. Len(v) <= n
    BY <2>4
  <2> QED
    BY <2>3, <2>7, <2>8
<1>3. CASE ~(l > n)
  <2>1. v = us /\ l <= n
    BY <1>1, <1>3 DEF LastOf
  <2>2. \A k \in DOMAIN v : k + 0 \in DOMAIN us /\ v[k] = us[k + 0]
    BY <1>1, <2>1
  <2> QED
    BY <1>1, <2>1, <2>2
<1> QED
  BY <1>2, <1>3

\* The reference a version has is no part of what makes it sound.
LEMMA AnyReference ==
    ASSUME NEW s, NEW h, NEW gone, VersionSound(s, h, gone), NEW o
    PROVE  /\ VersionSound([s EXCEPT !.hot = o], h, gone)
           /\ LogIds([s EXCEPT !.hot = o]) = LogIds(s) /\ [s EXCEPT !.hot = o].hot = o
<1>1. PICK r : r = [s EXCEPT !.hot = o]
  OBVIOUS
<1>2. /\ DOMAIN r = SessionFields /\ r.log = s.log /\ r.items = s.items /\ r.flow = s.flow /\ r.hot = o
      /\ r.changes = s.changes /\ r.code = s.code /\ r.cold = s.cold
  BY <1>1 DEF VersionSound, SessionTypes, SessionFields
<1>3. LogIds(r) = LogIds(s)
  BY <1>2 DEF LogIds
<1>4. Traced(r, gone)
  BY <1>2, <1>3 DEF VersionSound, Traced
<1>5. SessionTypes(r)
  BY <1>2 DEF VersionSound, SessionTypes
<1>6. VersionSound(r, h, gone)
  BY <1>2, <1>4, <1>5 DEF VersionSound
<1> QED
  BY <1>1, <1>2, <1>3, <1>6

\* A summary names updates of the log, and the list of them stays short.
LEMMA MaintainedTypes ==
    ASSUME NEW s, SessionTypes(s), Len(s.cold) <= AsMaxCold, NEW v, v = Maintained(s)
    PROVE  v \in Seq(SUBSET AsIds) /\ Len(v) <= AsMaxCold
<1>1. PICK n \in Nat : n = Len(s.log) /\ s.log \in [1..n -> Records]
  BY LenProperties DEF SessionTypes
<1>2. CASE ~(AsThreshold > 0 /\ n > 0 /\ n % AsThreshold = 0)
  BY <1>1, <1>2 DEF Maintained, SessionTypes
<1>3. CASE AsThreshold > 0 /\ n > 0 /\ n % AsThreshold = 0
  <2>1. PICK first : first = IF n > AsThreshold THEN n - AsThreshold + 1 ELSE 1
    OBVIOUS
  <2>2. AsThreshold \in Nat /\ AsMaxCold \in Nat
    BY ActiveSessionAssumption
  <2>3. first \in 1..n /\ n \in 1..n
    BY <1>3, <2>1, <2>2
  <2>4. s.log[first].id \in AsIds /\ s.log[n].id \in AsIds
    BY <1>1, <2>3 DEF Records
  <2>5. PICK x \in SUBSET AsIds : x = {s.log[first].id, s.log[n].id}
    BY <2>4
  <2>6. v = LastOf(Append(s.cold, x), AsMaxCold)
    BY <1>1, <1>3, <2>1, <2>5, Zenon DEF Maintained
  <2>7. Append(s.cold, x) \in Seq(SUBSET AsIds)
    BY AppendProperties DEF SessionTypes
  <2> QED
    BY <2>2, <2>6, <2>7, LastOfTypes
<1> QED
  BY <1>2, <1>3

\* The newest update becomes the last of the log and the last of the hot ones.
LEMMA PushTypes ==
    ASSUME NEW h, HotTypes(h), NEW u \in Records, NEW log \in Seq(Records), NEW gone,
           Follows(h.slots, log, gone), \A k \in DOMAIN log : log[k].id # u.id, u.id \notin gone
    PROVE  HotTypes(Push(h, u)) /\ Follows(Push(h, u).slots, Append(log, u), gone)
<1>1. PICK n \in Nat : n = Len(log) /\ DOMAIN log = 1..n /\ log \in [1..n -> Records]
  BY LenProperties
<1>2. PICK g : g = Push(h, u)
  OBVIOUS
<1>3. PICK new : new = Append(log, u)
  OBVIOUS
<1>4. DOMAIN new = 1..(n + 1) /\ new[n + 1] = u /\ \A k \in 1..n : new[k] = log[k]
  BY <1>1, <1>3, AppendProperties
<1>5. AsMaxHot \in Nat
  BY ActiveSessionAssumption
<1>6. /\ DOMAIN g = {"slots", "next"} /\ g.next = h.next + 1 /\ h.next \in Nat
      /\ DOMAIN g.slots \subseteq DOMAIN h.slots \cup {h.next}
      /\ \A i \in DOMAIN g.slots : g.slots[i] = IF i = h.next THEN u ELSE h.slots[i]
      /\ g.slots = [i \in DOMAIN g.slots |-> g.slots[i]]
  BY <1>2 DEF Push, HotTypes
<1>7. \A i \in DOMAIN h.slots : i \in Nat /\ i < h.next /\ h.slots[i] \in Records
  BY DEF HotTypes
<1>8. HotTypes(g)
  <2>1. \A i \in DOMAIN g.slots : i \in 0..(g.next - 1) /\ g.slots[i] \in Records
    BY <1>6, <1>7
  <2> QED
    BY <1>6, <2>1 DEF HotTypes
<1>9. \A i \in DOMAIN h.slots : h.slots[i].id \notin gone => h.slots[i].id # u.id
  BY DEF Follows
<1>10. ASSUME NEW i \in DOMAIN g.slots, g.slots[i].id \notin gone
       PROVE  \E k \in DOMAIN new : new[k] = g.slots[i]
  <2>1. CASE i = h.next
    BY <1>4, <1>6, <2>1
  <2>2. CASE i # h.next
    <3>1. i \in DOMAIN h.slots /\ g.slots[i] = h.slots[i]
      BY <1>6, <2>2
    <3>2. PICK k \in 1..n : log[k] = h.slots[i]
      BY <1>1, <1>10, <3>1 DEF Follows
    <3> QED
      BY <1>4, <3>1, <3>2
  <2> QED
    BY <2>1, <2>2
<1>11. ASSUME NEW i \in DOMAIN g.slots, g.slots[i].id \notin gone,
              NEW j \in DOMAIN g.slots, j < i, g.slots[j].id \notin gone,
              NEW k \in DOMAIN new, NEW m \in DOMAIN new, new[k].id = g.slots[i].id, new[m].id = g.slots[j].id
       PROVE  m < k
  <2>1. j # h.next /\ j \in DOMAIN h.slots
    BY <1>6, <1>7, <1>11
  <2>2. g.slots[j] = h.slots[j] /\ m \in 1..n /\ new[m] = log[m]
    BY <1>4, <1>6, <1>9, <1>11, <2>1
  <2>3. CASE i = h.next
    <3>1. k \notin 1..n
      BY <1>1, <1>4, <1>6, <1>11, <2>3
    <3> QED
      BY <1>4, <1>11, <2>2, <3>1
  <2>4. CASE i # h.next
    <3>1. i \in DOMAIN h.slots /\ g.slots[i] = h.slots[i]
      BY <1>6, <2>4
    <3>2. k \in 1..n /\ new[k] = log[k]
      BY <1>4, <1>9, <1>11, <3>1
    <3> QED
      BY <1>1, <1>11, <2>1, <2>2, <3>1, <3>2 DEF Follows
  <2> QED
    BY <2>3, <2>4
<1>12. Follows(g.slots, new, gone)
  BY <1>10, <1>11 DEF Follows
<1> QED
  BY <1>2, <1>3, <1>8, <1>12

\* Adding an update: it is in every tier afterwards.
LEMMA AddKeeps ==
    ASSUME NEW s, NEW h, NEW gone, VersionSound(s, h, gone), NEW id \in AsIds,
           id \notin LogIds(s) \cup gone, NEW c \in AddIncrementalUpdate(s, h, id)
    PROVE  VersionSound(c.ses, c.hot, gone) /\ LogIds(c.ses) = LogIds(s) \cup {id} /\ c.ses.hot = s.hot
<1>1. PICK u \in Records : u = [id |-> id, retired |-> FALSE]
  BY DEF Records
<1>2. PICK r : /\ r = [s EXCEPT !.items = @ \cup ItemsOf(id), !.flow = @ \cup {id},
                                !.code = @ \cup CodeOf(id), !.changes = @ \cup {[of |-> id, rel |-> id]},
                                !.cold = Maintained(s), !.log = Append(@, u)]
  OBVIOUS
<1>3. c = [ses |-> r, hot |-> Push(h, u)]
  BY <1>1, <1>2, Zenon DEF AddIncrementalUpdate, Change
<1>4. c.ses = r /\ c.hot = Push(h, u)
  BY <1>3
<1>5. /\ DOMAIN r = SessionFields /\ r.items = s.items \cup ItemsOf(id) /\ r.flow = s.flow \cup {id}
      /\ r.code = s.code \cup CodeOf(id) /\ r.changes = s.changes \cup {[of |-> id, rel |-> id]}
      /\ r.cold = Maintained(s) /\ r.log = Append(s.log, u) /\ r.hot = s.hot
  BY <1>2 DEF VersionSound, SessionTypes, SessionFields
<1>6. PICK n \in Nat : n = Len(s.log) /\ DOMAIN s.log = 1..n
  BY LenProperties DEF VersionSound, SessionTypes
<1>7. /\ r.log \in Seq(Records) /\ DOMAIN r.log = 1..(n + 1) /\ r.log[n + 1] = u
      /\ \A k \in 1..n : r.log[k] = s.log[k]
  BY <1>5, <1>6, AppendProperties DEF VersionSound, SessionTypes
<1>8. LogIds(r) = LogIds(s) \cup {id}
  <2>1. \A x \in LogIds(r) : x \in LogIds(s) \cup {id}
    BY <1>1, <1>6, <1>7 DEF LogIds
  <2>2. \A k \in 1..n : k \in 1..(n + 1)
    OBVIOUS
  <2>3. \A x \in LogIds(s) : x \in LogIds(r)
    BY <1>6, <1>7, <2>2 DEF LogIds
  <2>4. n + 1 \in 1..(n + 1) /\ u.id = id
    BY <1>1
  <2>5. id \in LogIds(r)
    BY <1>7, <2>4 DEF LogIds
  <2> QED
    BY <2>1, <2>3, <2>5
<1>9. \A k \in DOMAIN s.log : s.log[k].id # u.id
  BY <1>1 DEF LogIds
<1>10. HotTypes(c.hot) /\ Follows(c.hot.slots, r.log, gone)
  BY <1>1, <1>4, <1>5, <1>9, PushTypes DEF VersionSound, SessionTypes
<1>11. r.cold \in Seq(SUBSET AsIds) /\ Len(r.cold) <= AsMaxCold
  BY <1>5, MaintainedTypes DEF VersionSound, Traced
<1>12. DistinctIds(r.log)
  <2> SUFFICES ASSUME NEW i \in 1..(n + 1), NEW j \in 1..(n + 1), r.log[i].id = r.log[j].id PROVE i = j
    BY <1>7 DEF DistinctIds
  <2>1. CASE i \in 1..n /\ j \in 1..n
    BY <1>6, <1>7, <2>1 DEF VersionSound, SessionTypes, DistinctIds
  <2>2. CASE i = n + 1 /\ j \in 1..n
    BY <1>6, <1>7, <1>9, <2>2
  <2>3. CASE i \in 1..n /\ j = n + 1
    BY <1>6, <1>7, <1>9, <2>3
  <2> QED
    BY <2>1, <2>2, <2>3
<1>13. \A x \in ItemsOf(id) : x[2] = id
  BY DEF ItemsOf
<1>14. Traced(r, gone)
  <2>1. \A x \in r.items : x[1] # "entity" => x[2] \in LogIds(r) \cup gone
    BY <1>5, <1>8, <1>13 DEF VersionSound, Traced
  <2>2. r.flow \subseteq LogIds(r) \cup gone
    BY <1>5, <1>8 DEF VersionSound, Traced
  <2>3. \A x \in r.changes : x.rel = x.of => x.of \in LogIds(r) \cup gone
    BY <1>5, <1>8 DEF VersionSound, Traced
  <2>4. r.code = UNION {CodeOf(x) : x \in LogIds(r)}
    BY <1>5, <1>8 DEF VersionSound, Traced
  <2> QED
    BY <1>11, <2>1, <2>2, <2>3, <2>4 DEF Traced
<1>15. \A x \in r.items : x[1] # "entity" => x \in ItemsOf(x[2])
  BY <1>5, <1>13 DEF VersionSound
<1>16. SessionTypes(r)
  BY <1>5, <1>7, <1>11, <1>12 DEF SessionTypes
<1> QED
  BY <1>4, <1>5, <1>8, <1>10, <1>14, <1>15, <1>16 DEF VersionSound

\* What is left of a log: its ids are those of the updates kept.
LEMMA LogKept ==
    ASSUME NEW s, SessionTypes(s), NEW at \in SUBSET DOMAIN s.log, NEW kept, kept = Only(s.log, at),
           NEW r, r.log = kept
    PROVE  kept \in Seq(Records) /\ LogIds(r) = {s.log[i].id : i \in at}
<1>1. PICK n \in Nat : n = Len(s.log) /\ DOMAIN s.log = 1..n /\ s.log \in [1..n -> Records]
  BY LenProperties DEF SessionTypes
<1>2. at \in SUBSET Nat /\ IsFiniteSet(at) /\ \A i \in at : s.log[i] \in Records
  <2>1. IsFiniteSet(1..n)
    BY FS_Interval
  <2>2. IsFiniteSet(at)
    BY <1>1, <2>1, FS_Subset
  <2> QED
    BY <1>1, <2>2
<1>3. /\ kept \in Seq(Records)
      /\ \A k \in DOMAIN kept : \E i \in at : kept[k] = s.log[i]
      /\ \A i \in at : \E k \in DOMAIN kept : kept[k] = s.log[i]
  <2>1. PICK us, T : us = s.log /\ T = Records
    OBVIOUS
  <2>2. /\ at \in SUBSET Nat /\ IsFiniteSet(at) /\ at \subseteq DOMAIN us
        /\ us \in [DOMAIN us -> T] /\ kept = Only(us, at)
    BY <1>1, <1>2, <2>1
  <2>3. kept \in Seq(T) /\ Selects(kept, us, at)
    BY <2>2, OnlyTypes
  <2> QED
    BY <2>1, <2>3 DEF Selects
<1>4. \A x \in LogIds(r) : x \in {s.log[i].id : i \in at}
  BY <1>3 DEF LogIds
<1>5. ASSUME NEW i \in at PROVE s.log[i].id \in LogIds(r)
  BY <1>3 DEF LogIds
<1> QED
  BY <1>3, <1>4, <1>5

\* Removing an update: no tier has it afterwards.
LEMMA RemoveKeeps ==
    ASSUME NEW s, NEW h, NEW gone, VersionSound(s, h, gone), NEW id, NEW c \in RemoveUpdateById(s, h, id)
    PROVE  VersionSound(c.ses, c.hot, gone \ {id}) /\ LogIds(c.ses) \subseteq LogIds(s) /\ c.ses.hot = s.hot
<1>0. PICK at \in SUBSET DOMAIN s.log : at = {i \in DOMAIN s.log : s.log[i].id # id}
  OBVIOUS
<1> DEFINE sub == {j \in DOMAIN h.slots : h.slots[j].id # id}
<1>1. PICK r : r = [RemoveDerivedState(s, id) EXCEPT !.log = Only(@, {i \in DOMAIN @ : @[i].id # id}),
                                                     !.changes = {x \in @ : x.rel # id}]
  OBVIOUS
<1>2. c = [ses |-> r, hot |-> RemoveById(h, id)]
  BY <1>1 DEF RemoveUpdateById, Change
<1>3. c.ses = r /\ c.hot = RemoveById(h, id)
  BY <1>2
<1>4. /\ DOMAIN r = SessionFields /\ r.items = s.items \ ItemsOf(id) /\ r.flow = s.flow \ {id}
      /\ r.code = s.code \ {id} /\ r.changes = {x \in s.changes : x.rel # id}
      /\ r.cold = s.cold /\ r.log = Only(s.log, at) /\ r.hot = s.hot
  BY <1>0, <1>1 DEF VersionSound, SessionTypes, SessionFields, RemoveDerivedState
<1>5. PICK kept : kept = Only(s.log, at)
  OBVIOUS
<1>6. kept \in Seq(Records) /\ LogIds(r) = {s.log[i].id : i \in at}
  BY <1>4, <1>5, LogKept DEF VersionSound
<1>7. LogIds(r) = LogIds(s) \ {id}
  BY <1>0, <1>6 DEF LogIds
<1>8. PICK n \in Nat : DOMAIN s.log = 1..n
  BY LenProperties DEF VersionSound, SessionTypes
<1>9. /\ DOMAIN c.hot = {"slots", "next"} /\ c.hot.next = h.next
      /\ c.hot.slots = [i \in sub |-> h.slots[i]]
  BY <1>3 DEF RemoveById, VersionSound, HotTypes
<1>10. HotTypes(c.hot)
  BY <1>9 DEF VersionSound, HotTypes
<1>11. /\ Follows(c.hot.slots, s.log, gone)
       /\ \A i \in DOMAIN c.hot.slots : c.hot.slots[i].id # id
  BY <1>9 DEF VersionSound, Follows
<1>12. /\ Follows(c.hot.slots, kept, gone \ {id})
       /\ DistinctIds(kept)
  <2>1. PICK f, log, left : f = c.hot.slots /\ log = s.log /\ left = gone \ {id}
    OBVIOUS
  <2>2. DOMAIN log = 1..n /\ DistinctIds(log) /\ Follows(f, log, gone)
    BY <1>8, <1>11, <2>1 DEF VersionSound, SessionTypes
  <2>3. Spared(f, log, at, gone, left)
    BY <1>0, <1>8, <1>11, <2>1 DEF Spared
  <2>4. at \in SUBSET (1..n) /\ kept = Only(log, at)
    BY <1>5, <1>8, <2>1
  <2>5. /\ Follows(f, kept, left)
        /\ DistinctIds(kept)
    BY <2>2, <2>3, <2>4, LogFiltered
  <2> QED
    BY <2>1, <2>5
<1>13. Traced(r, gone \ {id})
  <2>1. \A x \in r.items : x[1] # "entity" => x[2] \in LogIds(r) \cup (gone \ {id})
    BY <1>4, <1>7 DEF VersionSound, Traced
  <2>2. r.flow \subseteq LogIds(r) \cup (gone \ {id})
    BY <1>4, <1>7 DEF VersionSound, Traced
  <2>3. \A x \in r.changes : x.rel = x.of => x.of \in LogIds(r) \cup (gone \ {id})
    BY <1>4, <1>7 DEF VersionSound, Traced
  <2>4. r.code = UNION {CodeOf(x) : x \in LogIds(r)}
    BY <1>4, <1>7 DEF VersionSound, Traced, CodeOf
  <2> QED
    BY <1>4, <2>1, <2>2, <2>3, <2>4 DEF VersionSound, Traced
<1>14. SessionTypes(r)
  BY <1>4, <1>5, <1>6, <1>12 DEF SessionTypes, VersionSound
<1> QED
  BY <1>3, <1>4, <1>5, <1>7, <1>10, <1>12, <1>13, <1>14 DEF VersionSound

\* Removing the updates of a file: they are gone from the log.
LEMMA InvalidateKeeps ==
    ASSUME NEW s, NEW h, NEW gone, VersionSound(s, h, gone), NEW file, NEW c \in RemoveUpdatesForFile(s, h, file),
           NEW left, left = gone \cup (LogIds(s) \ LogIds(c.ses))
    PROVE  /\ VersionSound(c.ses, c.hot, left)
           /\ LogIds(c.ses) \subseteq LogIds(s) /\ c.ses.hot = s.hot
<1>0. PICK at \in SUBSET DOMAIN s.log : at = {i \in DOMAIN s.log : AsUpdates[s.log[i].id].file # file}
  OBVIOUS
<1>1. PICK kept : kept = Only(s.log, at)
  OBVIOUS
<1>2. PICK r : r = [s EXCEPT !.log = kept, !.code = {x \in @ : AsUpdates[x].file # file}]
  OBVIOUS
<1>3. c = [ses |-> r, hot |-> h]
  BY <1>0, <1>1, <1>2, Zenon DEF RemoveUpdatesForFile, Change
<1>4. /\ c.ses = r /\ c.hot = h
      /\ DOMAIN r = SessionFields /\ r.items = s.items /\ r.flow = s.flow
      /\ r.code = {x \in s.code : AsUpdates[x].file # file} /\ r.changes = s.changes
      /\ r.cold = s.cold /\ r.log = kept /\ r.hot = s.hot
  BY <1>2, <1>3 DEF VersionSound, SessionTypes, SessionFields
<1>5. kept \in Seq(Records) /\ LogIds(r) = {s.log[i].id : i \in at}
  BY <1>1, <1>4, LogKept DEF VersionSound
<1>6. LogIds(r) = {x \in LogIds(s) : AsUpdates[x].file # file}
  BY <1>0, <1>5 DEF LogIds
<1>7. PICK n \in Nat : DOMAIN s.log = 1..n
  BY LenProperties DEF VersionSound, SessionTypes
<1>8. ASSUME NEW i \in DOMAIN h.slots, h.slots[i].id \notin left
      PROVE  h.slots[i].id \notin gone /\ \A k \in DOMAIN s.log : s.log[k].id = h.slots[i].id => k \in at
  BY <1>0, <1>4, <1>6, <1>8 DEF LogIds
<1>9. at \in SUBSET (1..n)
  BY <1>7
<1>10. /\ Follows(h.slots, kept, left)
       /\ DistinctIds(kept)
  <2>1. PICK f, log : f = h.slots /\ log = s.log
    OBVIOUS
  <2>2. DOMAIN log = 1..n /\ DistinctIds(log) /\ Follows(f, log, gone)
    BY <1>7, <2>1 DEF VersionSound, SessionTypes
  <2>3. Spared(f, log, at, gone, left)
    BY <1>7, <1>8, <2>1 DEF Spared
  <2>4. /\ Follows(f, kept, left)
        /\ DistinctIds(kept)
    BY <1>1, <1>9, <2>1, <2>2, <2>3, LogFiltered
  <2> QED
    BY <2>1, <2>4
<1>11. Traced(r, left)
  <2>1. \A x \in r.items : x[1] # "entity" => x[2] \in LogIds(r) \cup left
    BY <1>4 DEF VersionSound, Traced
  <2>2. r.flow \subseteq LogIds(r) \cup left
    BY <1>4 DEF VersionSound, Traced
  <2>3. \A x \in r.changes : x.rel = x.of => x.of \in LogIds(r) \cup left
    BY <1>4 DEF VersionSound, Traced
  <2>4. r.code = UNION {CodeOf(x) : x \in LogIds(r)}
    BY <1>4, <1>6 DEF VersionSound, Traced, CodeOf
  <2> QED
    BY <1>4, <2>1, <2>2, <2>3, <2>4 DEF VersionSound, Traced
<1>12. SessionTypes(r)
  BY <1>4, <1>5, <1>10 DEF SessionTypes, VersionSound
<1>13. VersionSound(r, h, left)
  BY <1>4, <1>10, <1>11, <1>12 DEF VersionSound
<1> QED
  BY <1>4, <1>6, <1>13

\* Retiring an update retires its copies, and leaves the order as it is.
LEMMA ReplacedFollows ==
    ASSUME NEW f, NEW log, NEW id, NEW gone, Follows(f, log, gone),
           f \in [DOMAIN f -> Records], log \in [DOMAIN log -> Records]
    PROVE  Follows(Replaced(f, id), Replaced(log, id), gone)
<1>1. PICK g, m : g = Replaced(f, id) /\ m = Replaced(log, id)
  OBVIOUS
<1>2. /\ DOMAIN g = DOMAIN f /\ DOMAIN m = DOMAIN log
      /\ \A i \in DOMAIN f : g[i] = (IF f[i].id = id THEN [f[i] EXCEPT !.retired = TRUE] ELSE f[i])
      /\ \A k \in DOMAIN log : m[k] = (IF log[k].id = id THEN [log[k] EXCEPT !.retired = TRUE] ELSE log[k])
  BY <1>1 DEF Replaced
<1>3. \A u \in Records : [u EXCEPT !.retired = TRUE].id = u.id
  BY DEF Records
<1>4. (\A i \in DOMAIN f : g[i].id = f[i].id) /\ (\A k \in DOMAIN log : m[k].id = log[k].id)
  BY <1>2, <1>3
<1>5. \A i \in DOMAIN f, k \in DOMAIN log : log[k] = f[i] => m[k] = g[i]
  BY <1>2
<1>6. ASSUME NEW i \in DOMAIN g, g[i].id \notin gone PROVE \E k \in DOMAIN m : m[k] = g[i]
  <2>1. PICK k \in DOMAIN log : log[k] = f[i]
    BY <1>2, <1>4, <1>6 DEF Follows
  <2> QED
    BY <1>2, <1>5, <1>6, <2>1
<1>7. ASSUME NEW i \in DOMAIN g, g[i].id \notin gone, NEW j \in DOMAIN g, j < i, g[j].id \notin gone,
             NEW k \in DOMAIN m, NEW l \in DOMAIN m, m[k].id = g[i].id, m[l].id = g[j].id
      PROVE  l < k
  <2>1. f[i].id \notin gone /\ f[j].id \notin gone /\ log[k].id = f[i].id /\ log[l].id = f[j].id
    BY <1>2, <1>4, <1>7
  <2> QED
    BY <1>2, <1>7, <2>1 DEF Follows
<1>8. Follows(g, m, gone)
  BY <1>6, <1>7 DEF Follows
<1> QED
  BY <1>1, <1>8

\* A list nobody of which is the update follows the log in which it is retired.
LEMMA ReplacedAside ==
    ASSUME NEW f, NEW log, NEW id, NEW gone, Follows(f, log, gone), log \in [DOMAIN log -> Records],
           \A i \in DOMAIN f : f[i].id # id
    PROVE  Follows(f, Replaced(log, id), gone)
<1>1. PICK m : m = Replaced(log, id)
  OBVIOUS
<1>2. /\ DOMAIN m = DOMAIN log
      /\ \A k \in DOMAIN log : m[k] = (IF log[k].id = id THEN [log[k] EXCEPT !.retired = TRUE] ELSE log[k])
  BY <1>1 DEF Replaced
<1>3. \A u \in Records : [u EXCEPT !.retired = TRUE].id = u.id
  BY DEF Records
<1>4. \A k \in DOMAIN log : m[k].id = log[k].id
  BY <1>2, <1>3
<1>5. \A i \in DOMAIN f, k \in DOMAIN log : log[k] = f[i] => m[k] = f[i]
  BY <1>2
<1>6. Follows(f, m, gone)
  BY <1>2, <1>4, <1>5 DEF Follows
<1> QED
  BY <1>1, <1>6

\* A hot context rebuilt from a list.
LEMMA FromUpdatesTypes ==
    ASSUME NEW us \in Seq(Records), NEW log, NEW gone, Follows(us, log, gone),
           NEW h, h = FromUpdates(us)
    PROVE  HotTypes(h) /\ Follows(h.slots, log, gone)
<1>1. PICK n \in Nat : n = Len(us) /\ DOMAIN us = 1..n /\ us \in [1..n -> Records]
  BY LenProperties
<1>2. PICK D : D = {j \in 0..(n - 1) : j + AsMaxHot >= n}
  OBVIOUS
<1>3. h = [slots |-> [i \in D |-> us[i + 1]], next |-> n]
  BY <1>1, <1>2 DEF FromUpdates
<1>4. /\ DOMAIN h = {"slots", "next"} /\ h.next = n /\ DOMAIN h.slots = D
      /\ h.slots = [i \in D |-> us[i + 1]]
  BY <1>3
<1>5. \A i \in D : i \in 0..(n - 1) /\ i \in Nat /\ i + 1 \in 1..n /\ h.slots[i] = us[i + 1]
  BY <1>2, <1>4
<1>6. \A i \in D : h.slots[i] \in Records
  BY <1>1, <1>5
<1>7. HotTypes(h)
  BY <1>4, <1>5, <1>6 DEF HotTypes
<1>8. \A i, j \in D : j < i => j + 1 < i + 1
  BY <1>5
<1>9. Follows(h.slots, log, gone)
  BY <1>1, <1>4, <1>5, <1>8 DEF Follows
<1> QED
  BY <1>7, <1>9

\* Pushing updates one by one leaves what FromUpdates says.
LEMMA PushedOneByOne ==
    /\ FromUpdates(<<>>) = EmptyHot
    /\ \A us \in Seq(Records), u \in Records : Push(FromUpdates(us), u) = FromUpdates(Append(us, u))
<1>1. FromUpdates(<<>>) = EmptyHot
  <2>1. Len(<<>>) = 0 /\ {j \in 0..(0 - 1) : j + AsMaxHot >= 0} = {}
    OBVIOUS
  <2> QED
    BY <2>1 DEF FromUpdates, EmptyHot
<1>2. ASSUME NEW us \in Seq(Records), NEW u \in Records
      PROVE  Push(FromUpdates(us), u) = FromUpdates(Append(us, u))
  <2>1. PICK n \in Nat : n = Len(us) /\ DOMAIN us = 1..n
    BY LenProperties
  <2>2. PICK w : w = Append(us, u)
    OBVIOUS
  <2>3. Len(w) = n + 1 /\ w[n + 1] = u /\ \A k \in 1..n : w[k] = us[k]
    BY <2>1, <2>2, AppendProperties
  <2>4. PICK h : h = FromUpdates(us)
    OBVIOUS
  <2>5. PICK D : D = {j \in 0..(n - 1) : j + AsMaxHot >= n}
    OBVIOUS
  <2>6. h = [slots |-> [i \in D |-> us[i + 1]], next |-> n]
    BY <2>1, <2>4, <2>5 DEF FromUpdates
  <2>7. PICK E : E = {j \in 0..n : j + AsMaxHot >= n + 1}
    OBVIOUS
  <2>8. FromUpdates(w) = [slots |-> [i \in E |-> w[i + 1]], next |-> n + 1]
    <3>1. (n + 1) - 1 = n
      OBVIOUS
    <3> QED
      BY <2>3, <2>7, <3>1 DEF FromUpdates
  <2>9. PICK out : out = IF n >= AsMaxHot THEN {n - AsMaxHot} ELSE {}
    OBVIOUS
  <2>10. Push(h, u) = [slots |-> [i \in (D \cup {n}) \ out |-> IF i = n THEN u ELSE us[i + 1]], next |-> n + 1]
    BY <2>6, <2>9 DEF Push
  <2>11. (D \cup {n}) \ out = E
    BY <2>5, <2>7, <2>9, ActiveSessionAssumption
  <2>12. \A i \in E : w[i + 1] = IF i = n THEN u ELSE us[i + 1]
    BY <2>3, <2>7
  <2> QED
    BY <2>2, <2>4, <2>8, <2>10, <2>11, <2>12
<1> QED
  BY <1>1, <1>2

\* What a hot context is asked for.
LEMMA SnapshotTypes ==
    ASSUME NEW h, HotTypes(h), NEW log, NEW gone, Follows(h.slots, log, gone),
           NEW us, us = SnapshotArcs(h)
    PROVE  us \in Seq(Records) /\ Follows(us, log, gone)
<1>1. PICK at : at = DOMAIN h.slots \cap IdRange(h, AsMaxHot)
  OBVIOUS
<1>2. PICK n \in Nat : n = h.next /\ DOMAIN h.slots \subseteq 0..(n - 1)
  BY DEF HotTypes
<1>3. at \in SUBSET Nat /\ IsFiniteSet(at) /\ at \subseteq DOMAIN h.slots
  <2>1. IsFiniteSet(0..(n - 1))
    BY FS_Interval
  <2>2. at \in SUBSET (0..(n - 1))
    BY <1>1, <1>2
  <2>3. IsFiniteSet(at)
    BY <2>1, <2>2, FS_Subset
  <2> QED
    BY <1>1, <2>2, <2>3
<1>4. PICK f, T : f = h.slots /\ T = Records
  OBVIOUS
<1>5. us = Only(f, at) /\ f \in [DOMAIN f -> T] /\ at \subseteq DOMAIN f /\ Follows(f, log, gone)
  BY <1>1, <1>3, <1>4 DEF SnapshotArcs, HotTypes
<1>6. us \in Seq(T)
  BY <1>3, <1>5, OnlyTypes
<1>7. Follows(us, log, gone)
  BY <1>3, <1>5, OnlyFollows
<1> QED
  BY <1>4, <1>6, <1>7

LEMMA ReplacedTypes ==
    ASSUME NEW us \in Seq(Records), NEW id, NEW v, v = Replaced(us, id)
    PROVE  v \in Seq(Records) /\ DOMAIN v = DOMAIN us /\ \A i \in DOMAIN us : v[i].id = us[i].id
<1>1. PICK n \in Nat : DOMAIN us = 1..n /\ us \in [1..n -> Records]
  BY LenProperties
<1>2. /\ DOMAIN v = 1..n
      /\ v = [i \in 1..n |-> IF us[i].id = id THEN [us[i] EXCEPT !.retired = TRUE] ELSE us[i]]
  BY <1>1 DEF Replaced
<1>3. \A u \in Records : [u EXCEPT !.retired = TRUE] \in Records /\ [u EXCEPT !.retired = TRUE].id = u.id
  BY DEF Records
<1>4. \A i \in 1..n : v[i] \in Records /\ v[i].id = us[i].id
  BY <1>1, <1>2, <1>3
<1>5. v \in Seq(Records)
  <2>1. v = [i \in 1..n |-> v[i]]
    BY <1>2
  <2>2. [i \in 1..n |-> v[i]] \in Seq(Records)
    BY <1>4
  <2> QED
    BY <2>1, <2>2
<1> QED
  BY <1>1, <1>2, <1>4, <1>5

\* A version whose log has the same ids, and whose tiers are the same.
LEMMA SameTiers ==
    ASSUME NEW s, NEW h, NEW gone, VersionSound(s, h, gone), NEW r, NEW g,
           DOMAIN r = SessionFields, r.log \in Seq(Records), DistinctIds(r.log), LogIds(r) = LogIds(s),
           r.items = s.items, r.flow = s.flow, r.changes = s.changes, r.code = s.code,
           r.cold \in Seq(SUBSET AsIds), Len(r.cold) <= AsMaxCold,
           HotTypes(g), Follows(g.slots, r.log, gone)
    PROVE  VersionSound(r, g, gone)
<1>1. Traced(r, gone)
  BY DEF Traced, VersionSound
<1>2. SessionTypes(r)
  BY DEF SessionTypes
<1> QED
  BY <1>1, <1>2 DEF VersionSound

\* Retiring an update.
LEMMA RetireKeeps ==
    ASSUME NEW s, NEW h, NEW gone, VersionSound(s, h, gone), NEW id, NEW c \in RetireUpdate(s, h, id)
    PROVE  VersionSound(c.ses, c.hot, gone) /\ LogIds(c.ses) = LogIds(s) /\ c.ses.hot = s.hot
<1>1. PICK r : r = [s EXCEPT !.log = Replaced(@, id)]
  OBVIOUS
<1>2. PICK g : g = IF ContainsId(h, id) THEN FromUpdates(Replaced(SnapshotArcs(h), id)) ELSE h
  OBVIOUS
<1>3. c = [ses |-> r, hot |-> g]
  BY <1>1, <1>2, Zenon DEF RetireUpdate, Change
<1>4. c.ses = r /\ c.hot = g
  BY <1>3
<1>5. /\ DOMAIN r = SessionFields /\ r.items = s.items /\ r.flow = s.flow /\ r.code = s.code
      /\ r.changes = s.changes /\ r.cold = s.cold /\ r.log = Replaced(s.log, id) /\ r.hot = s.hot
  BY <1>1 DEF VersionSound, SessionTypes, SessionFields
<1>6. PICK log, m : log \in Seq(Records) /\ log = s.log /\ m = Replaced(log, id)
  BY DEF VersionSound, SessionTypes
<1>7. m \in Seq(Records) /\ DOMAIN m = DOMAIN log /\ \A i \in DOMAIN log : m[i].id = log[i].id
  BY <1>6, ReplacedTypes
<1>8. DistinctIds(m)
  BY <1>6, <1>7 DEF DistinctIds, VersionSound, SessionTypes
<1>9. LogIds(r) = LogIds(s)
  BY <1>5, <1>6, <1>7 DEF LogIds
<1>10. log \in [DOMAIN log -> Records]
  BY <1>6, LenProperties
<1>11. HotTypes(g) /\ Follows(g.slots, m, gone)
  <2>1. CASE ~ContainsId(h, id)
    <3>1. PICK f : f = h.slots
      OBVIOUS
    <3>2. Follows(f, log, gone) /\ \A i \in DOMAIN f : f[i].id # id
      BY <1>6, <2>1, <3>1 DEF ContainsId, VersionSound
    <3>3. Follows(f, m, gone)
      BY <1>6, <1>10, <3>2, ReplacedAside
    <3> QED
      BY <1>2, <2>1, <3>1, <3>3 DEF VersionSound
  <2>2. CASE ContainsId(h, id)
    <3>1. PICK us, v : us = SnapshotArcs(h) /\ v = Replaced(us, id)
      OBVIOUS
    <3>2. us \in Seq(Records) /\ Follows(us, log, gone)
      BY <1>6, <3>1, SnapshotTypes DEF VersionSound
    <3>3. v \in Seq(Records)
      BY <3>1, <3>2, ReplacedTypes
    <3>4. us \in [DOMAIN us -> Records]
      BY <3>2, LenProperties
    <3>5. Follows(v, m, gone)
      BY <1>6, <1>10, <3>1, <3>2, <3>4, ReplacedFollows
    <3>6. g = FromUpdates(v)
      BY <1>2, <2>2, <3>1
    <3> QED
      BY <3>3, <3>5, <3>6, FromUpdatesTypes
  <2> QED
    BY <2>1, <2>2
<1>12. r.log = m /\ r.cold \in Seq(SUBSET AsIds) /\ Len(r.cold) <= AsMaxCold
  BY <1>5, <1>6 DEF VersionSound, SessionTypes, Traced
<1>13. VersionSound(r, g, gone)
  BY <1>5, <1>7, <1>8, <1>9, <1>11, <1>12, SameTiers
<1> QED
  BY <1>4, <1>5, <1>9, <1>13

\* Renaming.
LEMMA RenameKeeps ==
    ASSUME NEW s, NEW h, NEW gone, VersionSound(s, h, gone), NEW name, NEW c \in UpdateMetadata(s, h, name)
    PROVE  VersionSound(c.ses, c.hot, gone) /\ LogIds(c.ses) = LogIds(s) /\ c.ses.hot = s.hot
<1>1. PICK r : r = [s EXCEPT !.name = name]
  OBVIOUS
<1>2. c.ses = r /\ c.hot = h
  BY <1>1 DEF UpdateMetadata, Change
<1>3. /\ DOMAIN r = SessionFields /\ r.items = s.items /\ r.flow = s.flow /\ r.code = s.code
      /\ r.changes = s.changes /\ r.cold = s.cold /\ r.log = s.log /\ r.hot = s.hot
  BY <1>1 DEF VersionSound, SessionTypes, SessionFields
<1>4. LogIds(r) = LogIds(s)
  BY <1>3 DEF LogIds
<1>5. VersionSound(r, h, gone)
  BY <1>3, <1>4, SameTiers DEF VersionSound, SessionTypes, Traced
<1> QED
  BY <1>2, <1>3, <1>4, <1>5

\* A hot context that shares the log's copies: of an update that is not gone
\* the two are the same.
LEMMA SharingTypes ==
    ASSUME NEW us \in Seq(Records), NEW log \in Seq(Records), DistinctIds(log), NEW gone,
           Follows(us, log, gone), NEW h, h = HotContextSharing(us, log)
    PROVE  HotTypes(h) /\ Follows(h.slots, log, gone)
<1>1. PICK n \in Nat : n = Len(us) /\ DOMAIN us = 1..n /\ us \in [1..n -> Records]
  BY LenProperties
<1>2. PICK l \in Nat : l = Len(log) /\ DOMAIN log = 1..l /\ log \in [1..l -> Records]
  BY LenProperties
<1>3. PICK wanted : wanted = IF Len(us) > AsMaxHot THEN Len(us) ELSE AsMaxHot
  OBVIOUS
<1>4. PICK from : from = IF Len(log) > wanted THEN Len(log) - wanted + 1 ELSE 1
  OBVIOUS
<1>5. from \in Nat /\ from >= 1
  BY <1>1, <1>2, <1>3, <1>4, ActiveSessionAssumption
<1> DEFINE Shared(u) == {i \in from..l : log[i].id = u.id}
<1>6. PICK v : v = [k \in 1..n |-> IF Shared(us[k]) = {} THEN us[k] ELSE log[CHOOSE i \in Shared(us[k]) : TRUE]]
  OBVIOUS
<1>7. h = FromUpdates(v)
  <2>1. h = FromUpdates([k \in DOMAIN us |->
                IF {i \in from..Len(log) : log[i].id = us[k].id} = {} THEN us[k]
                ELSE log[CHOOSE i \in {j \in from..Len(log) : log[j].id = us[k].id} : TRUE]])
    BY <1>3, <1>4 DEF HotContextSharing
  <2>2. v = [k \in DOMAIN us |->
                IF {i \in from..Len(log) : log[i].id = us[k].id} = {} THEN us[k]
                ELSE log[CHOOSE i \in {j \in from..Len(log) : log[j].id = us[k].id} : TRUE]]
    BY <1>1, <1>2, <1>6
  <2> QED
    BY <2>1, <2>2
<1>8. ASSUME NEW k \in 1..n
      PROVE  v[k] \in Records /\ v[k].id = us[k].id /\ (us[k].id \notin gone => v[k] = us[k])
  <2>1. CASE Shared(us[k]) = {}
    BY <1>1, <1>6, <2>1
  <2>2. CASE Shared(us[k]) # {}
    <3>1. PICK i \in Shared(us[k]) : v[k] = log[i]
      BY <1>6, <2>2
    <3>2. i \in 1..l /\ log[i].id = us[k].id
      BY <1>5, <3>1
    <3>3. us[k].id \notin gone => log[i] = us[k]
      BY <1>1, <1>2, <3>2 DEF Follows, DistinctIds
    <3> QED
      BY <1>2, <3>1, <3>2, <3>3
  <2> QED
    BY <2>1, <2>2
<1>9. DOMAIN v = 1..n
  BY <1>6
<1>10. v \in Seq(Records)
  <2>1. v = [k \in 1..n |-> v[k]]
    BY <1>6
  <2>2. [k \in 1..n |-> v[k]] \in Seq(Records)
    BY <1>8
  <2> QED
    BY <2>1, <2>2
<1>11. Follows(v, log, gone)
  <2>1. \A i \in 1..n : v[i].id \notin gone => us[i].id \notin gone /\ v[i] = us[i]
    BY <1>8
  <2>2. \A i \in 1..n : v[i].id \notin gone => \E k \in DOMAIN log : log[k] = v[i]
    BY <1>1, <2>1 DEF Follows
  <2>3. ASSUME NEW i \in 1..n, v[i].id \notin gone, NEW j \in 1..n, j < i, v[j].id \notin gone,
               NEW k \in DOMAIN log, NEW m \in DOMAIN log, log[k].id = v[i].id, log[m].id = v[j].id
        PROVE  m < k
    <3>1. us[i].id \notin gone /\ us[j].id \notin gone /\ v[i] = us[i] /\ v[j] = us[j]
      BY <2>1, <2>3
    <3>2. log[k].id = us[i].id /\ log[m].id = us[j].id
      BY <2>3, <3>1
    <3> QED
      BY <1>1, <2>3, <3>1, <3>2 DEF Follows
  <2> QED
    BY <1>9, <2>2, <2>3 DEF Follows
<1> QED
  BY <1>7, <1>10, <1>11, FromUpdatesTypes

\* The tail of a log follows the log.
LEMMA TailFollows ==
    ASSUME NEW log \in Seq(Records), DistinctIds(log), NEW n \in Nat, NEW v, v = LastOf(log, n), NEW gone
    PROVE  v \in Seq(Records) /\ Follows(v, log, gone)
<1>1. v \in Seq(Records) /\ \E d \in Nat : \A k \in DOMAIN v : k + d \in DOMAIN log /\ v[k] = log[k + d]
  <2>1. PICK T : T = Records
    OBVIOUS
  <2>2. v \in Seq(T) /\ \E d \in Nat : \A k \in DOMAIN v : k + d \in DOMAIN log /\ v[k] = log[k + d]
    BY <2>1, LastOfTypes
  <2> QED
    BY <2>1, <2>2
<1>2. PICK d \in Nat : \A k \in DOMAIN v : k + d \in DOMAIN log /\ v[k] = log[k + d]
  BY <1>1
<1>3. \A k \in DOMAIN v : k \in Nat
  BY <1>1, LenProperties
<1>4. ASSUME NEW i \in DOMAIN v, NEW j \in DOMAIN v, j < i, NEW k \in DOMAIN log, NEW m \in DOMAIN log,
             log[k].id = v[i].id, log[m].id = v[j].id
      PROVE  m < k
  <2>1. k = i + d /\ m = j + d
    BY <1>2, <1>4 DEF DistinctIds
  <2> QED
    BY <1>3, <1>4, <2>1
<1>5. Follows(v, log, gone)
  BY <1>2, <1>4 DEF Follows
<1> QED
  BY <1>1, <1>5

\* A load from RocksDB.
LEMMA RocksReloadKeeps ==
    ASSUME NEW s, NEW h, NEW gone, VersionSound(s, h, gone), NEW c, c = DeserializedRocks(s, h)
    PROVE  VersionSound(c.ses, c.hot, gone) /\ LogIds(c.ses) = LogIds(s)
<1>1. PICK cold : cold = LastOf(s.cold, AsMaxCold)
  OBVIOUS
<1>2. PICK r : r = [s EXCEPT !.cold = cold]
  OBVIOUS
<1>3. PICK us : us = SnapshotArcs(h)
  OBVIOUS
<1>4. PICK g : g = HotContextSharing(us, s.log)
  OBVIOUS
<1>5. c.ses = r /\ c.hot = g
  BY <1>1, <1>2, <1>3, <1>4 DEF DeserializedRocks, VersionSound, SessionTypes, SessionFields
<1>6. /\ DOMAIN r = SessionFields /\ r.items = s.items /\ r.flow = s.flow /\ r.code = s.code
      /\ r.changes = s.changes /\ r.cold = cold /\ r.log = s.log
  BY <1>2 DEF VersionSound, SessionTypes, SessionFields
<1>7. LogIds(r) = LogIds(s)
  BY <1>6 DEF LogIds
<1>8. cold \in Seq(SUBSET AsIds) /\ Len(cold) <= AsMaxCold
  BY <1>1, LastOfTypes, ActiveSessionAssumption DEF VersionSound, SessionTypes
<1>9. us \in Seq(Records) /\ Follows(us, s.log, gone)
  BY <1>3, SnapshotTypes DEF VersionSound
<1>10. HotTypes(g) /\ Follows(g.slots, s.log, gone)
  BY <1>4, <1>9, SharingTypes DEF VersionSound, SessionTypes
<1>11. VersionSound(r, g, gone)
  BY <1>6, <1>7, <1>8, <1>10, SameTiers DEF VersionSound, SessionTypes
<1> QED
  BY <1>5, <1>7, <1>11

\* A load from SurrealDB: all tiers are built from the log.
LEMMA SurrealReloadKeeps ==
    ASSUME NEW s, NEW h, NEW gone, VersionSound(s, h, gone), NEW c, c = FromComponents(s)
    PROVE  VersionSound(c.ses, c.hot, gone) /\ LogIds(c.ses) = LogIds(s)
<1> DEFINE ids == LogIds(s)
           items == (UNION {{i \in ItemsOf(id) : i[1] \in {"decision", "question"}} : id \in ids})
                        \cup {<<"entity", n>> : n \in UNION {AsUpdates[id].ents : id \in ids}}
           flow == {s.log[i].id : i \in {j \in DOMAIN s.log : j <= AsMaxFlow}}
           changes == {[of |-> id, rel |-> AsUpdates[id].parent] :
                                id \in {x \in ids : AsUpdates[x].type = "CodeChanged"}}
           code == UNION {CodeOf(id) : id \in ids}
<1>1. PICK r : /\ DOMAIN r = SessionFields /\ r.items = items /\ r.flow = flow /\ r.code = code
               /\ r.changes = changes /\ r.cold = <<>> /\ r.log = s.log
               /\ r = c.ses
  <2>1. c.ses = [RebuildStructuredContext(s) EXCEPT !.code = code, !.changes = changes, !.cold = <<>>]
    BY DEF FromComponents
  <2>2. RebuildStructuredContext(s) = [s EXCEPT !.items = items, !.flow = flow]
    BY DEF RebuildStructuredContext
  <2> HIDE DEF items, flow, changes, code
  <2>3. PICK q : q = [s EXCEPT !.items = items, !.flow = flow]
    OBVIOUS
  <2>4. /\ DOMAIN q = SessionFields /\ q.items = items /\ q.flow = flow /\ q.log = s.log
    BY <2>3 DEF VersionSound, SessionTypes, SessionFields
  <2>5. PICK r : r = [q EXCEPT !.code = code, !.changes = changes, !.cold = <<>>]
    OBVIOUS
  <2>6. /\ DOMAIN r = SessionFields /\ r.items = items /\ r.flow = flow /\ r.code = code
        /\ r.changes = changes /\ r.cold = <<>> /\ r.log = s.log
    BY <2>4, <2>5 DEF SessionFields
  <2>7. r = c.ses
    BY <2>1, <2>2, <2>3, <2>5
  <2> QED
    BY <2>6, <2>7
<1>2. PICK us : us = LastOf(s.log, AsMaxHot)
  OBVIOUS
<1>3. PICK g : g = HotContextSharing(us, s.log)
  OBVIOUS
<1>4. c.hot = g
  BY <1>2, <1>3 DEF FromComponents
<1>5. us \in Seq(Records) /\ Follows(us, s.log, gone)
  BY <1>2, TailFollows, ActiveSessionAssumption DEF VersionSound, SessionTypes
<1>6. HotTypes(g) /\ Follows(g.slots, s.log, gone)
  BY <1>3, <1>5, SharingTypes DEF VersionSound, SessionTypes
<1>7. LogIds(r) = ids
  BY <1>1 DEF LogIds
<1>8. \A id : \A x \in ItemsOf(id) : x[2] = id
  BY DEF ItemsOf
<1>8b. ASSUME NEW x \in items, x[1] # "entity" PROVE \E id \in ids : x \in ItemsOf(id)
  <2>1. \/ x \in UNION {{i \in ItemsOf(id) : i[1] \in {"decision", "question"}} : id \in ids}
        \/ x \in {<<"entity", n>> : n \in UNION {AsUpdates[id].ents : id \in ids}}
    BY <1>8b, Zenon
  <2>2. CASE x \in UNION {{i \in ItemsOf(id) : i[1] \in {"decision", "question"}} : id \in ids}
    BY <2>2, Zenon
  <2>3. CASE x \in {<<"entity", n>> : n \in UNION {AsUpdates[id].ents : id \in ids}}
    <3>1. \E n : x = <<"entity", n>>
      BY <2>3, Zenon
    <3> QED
      BY <1>8b, <3>1
  <2> QED
    BY <2>1, <2>2, <2>3, Zenon
<1> HIDE DEF items
<1>9. r.cold \in Seq(SUBSET AsIds) /\ Len(r.cold) <= AsMaxCold
  BY <1>1, EmptySeq, ActiveSessionAssumption
<1>10. Traced(r, gone)
  <2>1. \A x \in r.items : x[1] # "entity" => x[2] \in LogIds(r) \cup gone
    BY <1>1, <1>7, <1>8, <1>8b
  <2>2. r.flow \subseteq LogIds(r) \cup gone
    BY <1>1, <1>7 DEF LogIds
  <2>3. \A x \in r.changes : x.rel = x.of => x.of \in LogIds(r) \cup gone
    BY <1>1, <1>7
  <2>4. r.code = UNION {CodeOf(x) : x \in LogIds(r)}
    BY <1>1, <1>7
  <2> QED
    BY <1>9, <2>1, <2>2, <2>3, <2>4 DEF Traced
<1>11. \A x \in r.items : x[1] # "entity" => x \in ItemsOf(x[2])
  BY <1>1, <1>8, <1>8b
<1>12. SessionTypes(r)
  BY <1>1, <1>9 DEF SessionTypes, VersionSound
<1> QED
  BY <1>1, <1>4, <1>6, <1>7, <1>10, <1>11, <1>12 DEF VersionSound

(***************************************************************************)
(* ActiveSession: the first versions.                                      *)
(***************************************************************************)

\* One more of the updates a session starts with.
Grown(x, id) == CHOOSE y \in AddIncrementalUpdate(x.ses, x.hot, id) : TRUE
FirstVersion == [ses |-> NewSession(1), hot |-> EmptyHot]

\* The versions after each of them: the recursive function exists.
LEMMA StartedSteps ==
    ASSUME NEW N \in Nat, N = Len(AsStart)
    PROVE  \E f : /\ Started = f[N] /\ f[0] = FirstVersion
                  /\ \A n \in 1..N : f[n] = Grown(f[n - 1], AsStart[n])
<1> DEFINE Steps(k, g) == g = [n \in 0..k |-> IF n = 0 THEN FirstVersion ELSE Grown(g[n - 1], AsStart[n])]
           Bad == {k \in 0..N : ~\E g : Steps(k, g)}
<1>1. Bad = {}
  <2> SUFFICES ASSUME Bad # {} PROVE FALSE
    OBVIOUS
  <2>1. Bad \in SUBSET Nat
    OBVIOUS
  <2>2. PICK k \in Bad : \A j \in Bad : k <= j
    BY <2>1, LeastNat
  <2>3. k # 0
    <3>1. Steps(0, [n \in 0..0 |-> FirstVersion])
      OBVIOUS
    <3> QED
      BY <2>2, <3>1
  <2>4. k - 1 \in 0..N /\ k - 1 \notin Bad /\ k \in 1..N
    <3>1. k \in 0..N
      BY <2>2
    <3>2. k - 1 \in 0..N /\ k \in 1..N /\ ~(k <= k - 1)
      BY <2>3, <3>1
    <3> HIDE DEF Bad
    <3> QED
      BY <2>2, <3>2
  <2>5. PICK g : Steps(k - 1, g)
    BY <2>4
  <2> DEFINE h == [n \in 0..k |-> IF n = k THEN Grown(g[k - 1], AsStart[k]) ELSE g[n]]
  <2>6. \A n \in 0..k - 1 : g[n] = IF n = 0 THEN FirstVersion ELSE Grown(g[n - 1], AsStart[n])
    BY <2>5
  <2>7. Steps(k, h)
    <3>1. ASSUME NEW n \in 0..k PROVE h[n] = IF n = 0 THEN FirstVersion ELSE Grown(h[n - 1], AsStart[n])
      <4>1. CASE n = 0
        BY <4>1, <2>4, <2>6
      <4>2. CASE n = k
        BY <4>2, <2>4
      <4>3. CASE n # 0 /\ n # k
        <5>1. n \in 0..k - 1 /\ n - 1 \in 0..k /\ n - 1 # k
          BY <4>3, <2>4
        <5> QED
          BY <4>3, <5>1, <2>6
      <4> QED
        BY <4>1, <4>2, <4>3
    <3> QED
      BY <3>1
  <2> QED
    BY <2>2, <2>7
<1>2. N \in 0..N
  OBVIOUS
<1>3. \E g : Steps(N, g)
  BY <1>1, <1>2
<1>4. PICK f : Steps(N, f) /\ Started = f[N]
  BY <1>3 DEF Started, Grown, FirstVersion
<1>5. f[0] = FirstVersion
  BY <1>4
<1>6. \A n \in 1..N : f[n] = Grown(f[n - 1], AsStart[n])
  BY <1>4
<1> QED
  BY <1>4, <1>5, <1>6

\* A version that has the first n of them.
HasFirst(x, n) ==
    VersionSound(x.ses, x.hot, {}) /\ LogIds(x.ses) = {AsStart[i] : i \in 1..n} /\ x.ses.hot = 1

LEMMA GrownHas ==
    ASSUME NEW N \in Nat, N = Len(AsStart), NEW n \in 1..N, NEW x, HasFirst(x, n - 1)
    PROVE  HasFirst(Grown(x, AsStart[n]), n)
<1>1. PICK id : id = AsStart[n]
  OBVIOUS
<1>2. DOMAIN AsStart = 1..N /\ AsStart \in [1..N -> AsIds]
  BY ActiveSessionAssumption, LenProperties
<1>3. id \in AsIds
  BY <1>1, <1>2
<1>4. id \notin LogIds(x.ses)
  <2> SUFFICES ASSUME id \in LogIds(x.ses) PROVE FALSE
    OBVIOUS
  <2>1. PICK i \in 1..(n - 1) : AsStart[i] = AsStart[n]
    BY <1>1 DEF HasFirst
  <2>2. i \in 1..N /\ n \in 1..N /\ i # n
    OBVIOUS
  <2> QED
    BY <1>2, <2>1, <2>2, ActiveSessionAssumption DEF IsInjective
<1>5. PICK y : y = Grown(x, id)
  OBVIOUS
<1>6. y \in AddIncrementalUpdate(x.ses, x.hot, id)
  <2>1. \E z : z \in AddIncrementalUpdate(x.ses, x.hot, id)
    BY DEF AddIncrementalUpdate, Change
  <2> QED
    BY <1>5, <2>1 DEF Grown
<1>7. VersionSound(y.ses, y.hot, {}) /\ LogIds(y.ses) = LogIds(x.ses) \cup {id} /\ y.ses.hot = x.ses.hot
  BY <1>3, <1>4, <1>6, AddKeeps DEF HasFirst
<1>8. {AsStart[i] : i \in 1..n} = {AsStart[i] : i \in 1..(n - 1)} \cup {AsStart[n]}
  <2>1. \A i : i \in 1..n <=> i \in 1..(n - 1) \/ i = n
    OBVIOUS
  <2> QED
    BY <2>1
<1> QED
  BY <1>1, <1>5, <1>7, <1>8 DEF HasFirst

LEMMA FirstHas == HasFirst(FirstVersion, 0)
<1>1. PICK s : s = NewSession(1)
  OBVIOUS
<1>2. /\ DOMAIN s = SessionFields /\ s.log = <<>> /\ s.hot = 1 /\ s.items = {} /\ s.flow = {}
      /\ s.changes = {} /\ s.code = {} /\ s.cold = <<>>
  BY <1>1 DEF NewSession, SessionFields
<1>3. LogIds(s) = {}
  BY <1>2 DEF LogIds
<1>4. SessionTypes(s)
  BY <1>2, EmptySeq DEF SessionTypes, DistinctIds
<1>5. Traced(s, {})
  BY <1>2, <1>3, ActiveSessionAssumption DEF Traced
<1>6. HotTypes(EmptyHot) /\ Follows(EmptyHot.slots, s.log, {})
  BY DEF HotTypes, EmptyHot, Follows
<1>7. VersionSound(s, EmptyHot, {})
  BY <1>2, <1>4, <1>5, <1>6 DEF VersionSound
<1>8. {AsStart[i] : i \in 1..0} = {}
  OBVIOUS
<1> QED
  BY <1>1, <1>2, <1>3, <1>7, <1>8 DEF HasFirst, FirstVersion

LEMMA StartedHas == ASSUME NEW N \in Nat, N = Len(AsStart) PROVE HasFirst(Started, N)
<1>1. PICK f : /\ Started = f[N] /\ f[0] = FirstVersion
               /\ \A n \in 1..N : f[n] = Grown(f[n - 1], AsStart[n])
  BY StartedSteps
<1> DEFINE Bad == {n \in 0..N : ~HasFirst(f[n], n)}
<1>2. Bad = {}
  <2> SUFFICES ASSUME Bad # {} PROVE FALSE
    OBVIOUS
  <2>1. Bad \in SUBSET Nat
    OBVIOUS
  <2>2. PICK n \in Bad : \A m \in Bad : n <= m
    BY <2>1, LeastNat
  <2>3. n # 0
    BY <1>1, <2>2, FirstHas
  <2>4. n \in 1..N /\ n - 1 \in 0..N /\ ~(n <= n - 1)
    BY <2>2, <2>3
  <2>5. HasFirst(f[n - 1], n - 1)
    BY <2>2, <2>4
  <2>6. HasFirst(f[n], n)
    BY <1>1, <2>4, <2>5, GrownHas
  <2> QED
    BY <2>2, <2>6
<1> QED
  BY <1>1, <1>2

LEMMA ActiveInitInv == ActiveInit => ActiveInv
<1> SUFFICES ASSUME ActiveInit PROVE ActiveInv
  OBVIOUS
<1>1. PICK N \in Nat : N = Len(AsStart) /\ DOMAIN AsStart = 1..N /\ AsStart \in [1..N -> AsIds]
  BY ActiveSessionAssumption, LenProperties
<1>2. HasFirst(Started, N)
  BY <1>1, StartedHas
<1>3. asCur = Started.ses /\ asHeap = [o \in {1} |-> Started.hot] /\ asCur.hot = 1
  BY <1>2 DEF ActiveInit, HasFirst
<1>4. asWork = [w \in AsWriters |-> NoChange] /\ asReader = {} /\ asInvalid = {} /\ asUsed = Range(AsStart)
  BY DEF ActiveInit
<1>5. VersionSound(asCur, asHeap[asCur.hot], asInvalid) /\ LogIds(asCur) = Range(AsStart)
  BY <1>1, <1>2, <1>3, <1>4 DEF HasFirst, Range
<1>6. Range(AsStart) \subseteq AsIds
  BY <1>1 DEF Range
<1>7. Versions = {asCur}
  BY <1>4 DEF Versions, NoChange
<1>8. HeapInUse
  BY <1>3, <1>4, <1>7 DEF HeapInUse, Referenced, AtMostOne, NoChange
<1>9. Adds(NoChange) = {}
  BY DEF Adds, NoChange
<1>10. \A w \in AsWriters : Ready(asWork[w], asCur, asHeap, asUsed, asInvalid)
  BY <1>4, <1>9 DEF Ready, NoChange
<1> QED
  BY <1>4, <1>5, <1>6, <1>8, <1>9, <1>10 DEF ActiveInv

(***************************************************************************)
(* ActiveSession: steps.                                                   *)
(***************************************************************************)

\* What a change makes of the version it is applied to.
LEMMA AppliedKeeps ==
    ASSUME NEW k, k.op[1] \in {"add", "remove", "retire", "invalidate", "rename"},
           NEW s, NEW h, NEW gone, VersionSound(s, h, gone),
           \A id \in Adds(k) : id \in AsIds /\ id \notin LogIds(s) \cup gone,
           NEW c \in Applied(k.op, s, h)
    PROVE  /\ VersionSound(c.ses, c.hot, GoneAfter(k, s, gone, c.ses))
           /\ LogIds(c.ses) \subseteq LogIds(s) \cup Adds(k) /\ c.ses.hot = s.hot
<1>1. CASE k.op[1] = "add"
  <2>1. c \in AddIncrementalUpdate(s, h, k.op[2]) /\ k.op[2] \in AsIds /\ k.op[2] \notin LogIds(s) \cup gone
    BY <1>1 DEF Applied, Adds
  <2> QED
    BY <1>1, <2>1, AddKeeps DEF GoneAfter, Adds
<1>2. CASE k.op[1] = "remove"
  <2>1. c \in RemoveUpdateById(s, h, k.op[2])
    BY <1>2 DEF Applied
  <2> QED
    BY <1>2, <2>1, RemoveKeeps DEF GoneAfter
<1>3. CASE k.op[1] = "retire"
  <2>1. c \in RetireUpdate(s, h, k.op[2])
    BY <1>3 DEF Applied
  <2> QED
    BY <1>3, <2>1, RetireKeeps DEF GoneAfter
<1>4. CASE k.op[1] = "invalidate"
  <2>1. c \in RemoveUpdatesForFile(s, h, k.op[2])
    BY <1>4 DEF Applied
  <2>2. PICK left : left = gone \cup (LogIds(s) \ LogIds(c.ses)) /\ left = GoneAfter(k, s, gone, c.ses)
    BY <1>4 DEF GoneAfter
  <2>3. /\ VersionSound(c.ses, c.hot, left)
        /\ LogIds(c.ses) \subseteq LogIds(s) /\ c.ses.hot = s.hot
    BY <2>1, <2>2, InvalidateKeeps
  <2> QED
    BY <2>2, <2>3
<1>5. CASE k.op[1] = "rename"
  <2>1. c \in UpdateMetadata(s, h, k.op[2])
    BY <1>5 DEF Applied
  <2> QED
    BY <1>5, <2>1, RenameKeeps DEF GoneAfter
<1> QED
  BY <1>1, <1>2, <1>3, <1>4, <1>5

\* While the published version and what is gone stay, so do its soundness and
\* the writers that do nothing.
LEMMA StillSound ==
    ASSUME ActiveInv, HeapMoves, asCur' = asCur, asInvalid' = asInvalid
    PROVE  VersionSound(asCur, asHeap'[asCur.hot], asInvalid)
<1>1. asCur \in Versions /\ asCur \in Versions'
  BY DEF Versions
<1> QED
  BY <1>1 DEF HeapMoves, ActiveInv

LEMMA StillReady ==
    ASSUME ActiveInv, HeapMoves, asCur' = asCur, asInvalid' = asInvalid, asUsed \subseteq asUsed',
           NEW v \in AsWriters, asWork'[v] = asWork[v]
    PROVE  Ready(asWork'[v], asCur', asHeap', asUsed', asInvalid')
<1>1. PICK k : k = asWork[v]
  OBVIOUS
<1>2. Ready(k, asCur, asHeap, asUsed, asInvalid)
  BY <1>1 DEF ActiveInv
<1>3. \A s \in k.new : asHeap'[s.hot] = asHeap[s.hot]
  <2> SUFFICES ASSUME NEW s \in k.new PROVE s \in Versions /\ s \in Versions'
    BY DEF HeapMoves
  <2> QED
    BY <1>1 DEF Versions
<1>4. Ready(k, asCur, asHeap', asUsed', asInvalid)
  BY <1>2, <1>3 DEF Ready
<1> QED
  BY <1>1, <1>4

\* A step of one writer that publishes nothing.
LEMMA WriterStep ==
    ASSUME ActiveInv, HeapMoves, asCur' = asCur, asInvalid' = asInvalid, asReader' = asReader,
           asUsed \subseteq asUsed', asUsed' \subseteq AsIds,
           NEW w \in AsWriters, NEW k, asWork' = [asWork EXCEPT ![w] = k],
           DOMAIN k = {"op", "base", "new", "current"}, AtMostOne(k.base), AtMostOne(k.new),
           Ready(k, asCur, asHeap', asUsed', asInvalid),
           \A v \in AsWriters \ {w} : Adds(asWork[v]) \cap Adds(k) = {}
    PROVE  ActiveInv'
<1>1. asWork'[w] = k /\ \A v \in AsWriters : v # w => asWork'[v] = asWork[v]
  BY DEF ActiveInv, HeapInUse
<1>2. HeapInUse'
  BY <1>1 DEF ActiveInv, HeapInUse, HeapMoves
<1>3. \A v \in AsWriters : Ready(asWork'[v], asCur', asHeap', asUsed', asInvalid')
  BY <1>1, StillReady
<1>4. VersionSound(asCur, asHeap'[asCur.hot], asInvalid)
  BY StillSound
<1>5. \A v, x \in AsWriters : v # x => Adds(asWork'[v]) \cap Adds(asWork'[x]) = {}
  BY <1>1 DEF ActiveInv
<1>6. LogIds(asCur) \cup asInvalid \subseteq asUsed'
  BY DEF ActiveInv
<1> QED
  BY <1>2, <1>3, <1>4, <1>5, <1>6 DEF ActiveInv

LEMMA IdleIsReady ==
    /\ DOMAIN NoChange = {"op", "base", "new", "current"} /\ AtMostOne(NoChange.base) /\ AtMostOne(NoChange.new)
    /\ Adds(NoChange) = {} /\ NoChange.current = FALSE
    /\ \A cur, heap, used, gone : Ready(NoChange, cur, heap, used, gone)
BY DEF NoChange, AtMostOne, Adds, Ready

\* A request is made.
LEMMA AskKeeps ==
    ASSUME ActiveInv, HeapMoves, NEW w \in AsWriters,
           NEW op, op[1] \in {"add", "remove", "retire", "invalidate", "rename"},
           op[1] = "add" => op[2] \in AsIds \ asUsed, Ask(w, op)
    PROVE  ActiveInv'
<1>1. PICK k : k = [op |-> op, base |-> {asCur}, new |-> {}, current |-> TRUE]
  OBVIOUS
<1>2. /\ DOMAIN k = {"op", "base", "new", "current"} /\ k.op = op /\ k.base = {asCur} /\ k.new = {}
      /\ k.current = TRUE
  BY <1>1
<1>3. /\ asWork' = [asWork EXCEPT ![w] = k] /\ asCur' = asCur /\ asInvalid' = asInvalid /\ asReader' = asReader
      /\ asUsed' = IF op[1] = "add" THEN asUsed \cup {op[2]} ELSE asUsed
  BY <1>1 DEF Ask
<1>4. asUsed \subseteq asUsed' /\ asUsed' \subseteq AsIds
  BY <1>3 DEF ActiveInv
<1>5. Adds(k) \subseteq asUsed' \ asUsed
  BY <1>2, <1>3 DEF Adds
<1>6. AtMostOne(k.base) /\ AtMostOne(k.new)
  BY <1>2 DEF AtMostOne
<1>7. Ready(k, asCur, asHeap', asUsed', asInvalid)
  BY <1>2, <1>5 DEF Ready, ActiveInv
<1>8. \A v \in AsWriters \ {w} : Adds(asWork[v]) \cap Adds(k) = {}
  <2>1. \A v \in AsWriters : Adds(asWork[v]) \subseteq asUsed
    BY DEF ActiveInv, Ready
  <2> QED
    BY <1>5, <2>1
<1> QED
  BY <1>2, <1>3, <1>4, <1>6, <1>7, <1>8, WriterStep

\* The new version of a writer.
LEMMA BuildKeeps ==
    ASSUME ActiveInv, HeapMoves, NEW w \in AsWriters, Build(w)
    PROVE  ActiveInv'
<1>1. PICK k : k = asWork[w]
  OBVIOUS
<1>2. PICK s : s = CHOOSE x \in k.base : TRUE
  OBVIOUS
<1>3. PICK h : h = asHeap[s.hot]
  OBVIOUS
<1>4. PICK done : done = Applied(k.op, s, h)
  OBVIOUS
<1>5. /\ k # NoChange /\ k.new = {} /\ asCur' = asCur /\ asReader' = asReader /\ asUsed' = asUsed
      /\ asInvalid' = asInvalid
      /\ IF done = {} THEN asWork' = [asWork EXCEPT ![w] = NoChange] /\ Collected(asHeap)
         ELSE \E c \in done :
                /\ asWork' = [asWork EXCEPT ![w].new = {[c.ses EXCEPT !.hot = HotContextMut(s.hot, c.hot).at]}]
                /\ Collected(HotContextMut(s.hot, c.hot).heap)
  BY <1>1, <1>2, <1>3, <1>4 DEF Build
<1>6. /\ Ready(k, asCur, asHeap, asUsed, asInvalid) /\ asUsed \subseteq AsIds
      /\ DOMAIN k = {"op", "base", "new", "current"} /\ AtMostOne(k.base)
      /\ \A v \in AsWriters \ {w} : Adds(asWork[v]) \cap Adds(k) = {}
  BY <1>1 DEF ActiveInv, HeapInUse
<1>7. CASE done = {}
  <2>1. asWork' = [asWork EXCEPT ![w] = NoChange]
    BY <1>5, <1>7
  <2>2. PICK n : n = NoChange
    OBVIOUS
  <2>3. /\ DOMAIN n = {"op", "base", "new", "current"} /\ AtMostOne(n.base) /\ AtMostOne(n.new)
        /\ Adds(n) = {} /\ Ready(n, asCur, asHeap', asUsed', asInvalid)
    BY <2>2, IdleIsReady
  <2> QED
    BY <1>5, <1>6, <2>1, <2>2, <2>3, WriterStep
<1>8. CASE done # {}
  <2>1. PICK c \in done :
          /\ asWork' = [asWork EXCEPT ![w].new = {[c.ses EXCEPT !.hot = HotContextMut(s.hot, c.hot).at]}]
          /\ Collected(HotContextMut(s.hot, c.hot).heap)
    BY <1>5, <1>8
  <2>2. PICK at, heap : at = HotContextMut(s.hot, c.hot).at /\ heap = HotContextMut(s.hot, c.hot).heap
    OBVIOUS
  <2>3. PICK n : n = [c.ses EXCEPT !.hot = at]
    OBVIOUS
  <2>4. PICK m : m = [k EXCEPT !.new = {n}]
    OBVIOUS
  <2>5. /\ DOMAIN m = {"op", "base", "new", "current"} /\ m.op = k.op /\ m.base = k.base /\ m.new = {n}
        /\ m.current = k.current
    BY <1>6, <2>4
  <2>6. asWork' = [asWork EXCEPT ![w] = m]
    <3>1. asWork' = [asWork EXCEPT ![w].new = {n}]
      BY <2>1, <2>2, <2>3
    <3> QED
      BY <1>1, <2>4, <3>1
  <2>7. AtMostOne(m.base) /\ AtMostOne(m.new)
    BY <1>6, <2>5 DEF AtMostOne
  <2>8. Adds(m) = Adds(k)
    BY <2>5 DEF Adds
  <2>9. heap[at] = c.hot
    BY <1>3, <2>2 DEF HotContextMut
  <2>10. asWork'[w] = m
    BY <2>6 DEF ActiveInv, HeapInUse
  <2>11. k.current => VersionSound(n, asHeap'[n.hot], GoneAfter(m, asCur, asInvalid, n))
                      /\ LogIds(n) \subseteq LogIds(asCur) \cup Adds(m)
    <3> SUFFICES ASSUME k.current
                 PROVE  VersionSound(n, asHeap'[n.hot], GoneAfter(m, asCur, asInvalid, n))
                        /\ LogIds(n) \subseteq LogIds(asCur) \cup Adds(m)
      OBVIOUS
    <3>1. s = asCur
      BY <1>2, <1>6 DEF Ready
    <3>2. VersionSound(s, h, asInvalid)
      BY <1>3, <3>1 DEF ActiveInv
    <3>3. \A id \in Adds(k) : id \in AsIds /\ id \notin LogIds(s) \cup asInvalid
      BY <1>6, <3>1 DEF Ready
    <3>4. /\ VersionSound(c.ses, c.hot, GoneAfter(k, s, asInvalid, c.ses))
          /\ LogIds(c.ses) \subseteq LogIds(s) \cup Adds(k)
      BY <1>4, <1>5, <1>6, <2>1, <3>2, <3>3, AppliedKeeps DEF Ready
    <3>5. PICK gone : gone = GoneAfter(k, s, asInvalid, c.ses)
      OBVIOUS
    <3>6. VersionSound(n, c.hot, gone) /\ LogIds(n) = LogIds(c.ses) /\ n.hot = at
      BY <2>3, <3>4, <3>5, AnyReference
    <3>7. gone = GoneAfter(m, asCur, asInvalid, n)
      BY <2>5, <3>1, <3>5, <3>6 DEF GoneAfter
    <3>8. n \in Versions'
      BY <2>5, <2>10 DEF Versions
    <3>9. asHeap'[n.hot] = c.hot
      <4>1. n.hot \in Referenced'
        BY <3>8 DEF Referenced
      <4> QED
        BY <2>1, <2>2, <2>9, <3>6, <4>1 DEF Collected
    <3> QED
      BY <2>8, <3>1, <3>4, <3>6, <3>7, <3>9
  <2>12. m # NoChange
    BY <2>5 DEF NoChange
  <2>13. Ready(m, asCur, asHeap', asUsed', asInvalid)
    BY <1>5, <1>6, <2>5, <2>8, <2>11, <2>12 DEF Ready
  <2> QED
    BY <1>5, <1>6, <2>5, <2>6, <2>7, <2>8, <2>13, WriterStep
<1> QED
  BY <1>7, <1>8

\* A swap that is lost.
LEMMA SwapLostKeeps ==
    ASSUME ActiveInv, HeapMoves, NEW w \in AsWriters, SwapLost(w)
    PROVE  ActiveInv'
<1>1. PICK k : k = asWork[w]
  OBVIOUS
<1>2. PICK r : r = [op |-> k.op, base |-> {asCur}, new |-> {}, current |-> TRUE]
  OBVIOUS
<1>3. PICK m : m = IF k.op[1] = "invalidate" THEN NoChange ELSE r
  OBVIOUS
<1>4. /\ k.new # {} /\ asCur' = asCur /\ asReader' = asReader /\ asUsed' = asUsed /\ asInvalid' = asInvalid
      /\ asWork' = [asWork EXCEPT ![w] = m]
  BY <1>1, <1>2, <1>3 DEF SwapLost
<1>5. /\ Ready(k, asCur, asHeap, asUsed, asInvalid) /\ asUsed \subseteq AsIds
      /\ \A v \in AsWriters \ {w} : Adds(asWork[v]) \cap Adds(k) = {}
  BY <1>1 DEF ActiveInv
<1>6. CASE m = NoChange
  <2>1. /\ DOMAIN m = {"op", "base", "new", "current"} /\ AtMostOne(m.base) /\ AtMostOne(m.new)
        /\ Adds(m) = {} /\ Ready(m, asCur, asHeap', asUsed', asInvalid)
    BY <1>6, IdleIsReady
  <2> QED
    BY <1>4, <1>5, <2>1, WriterStep
<1>7. CASE m = r
  <2>1. /\ DOMAIN m = {"op", "base", "new", "current"} /\ m.op = k.op /\ m.base = {asCur} /\ m.new = {}
        /\ m.current = TRUE
    BY <1>2, <1>7
  <2>2. AtMostOne(m.base) /\ AtMostOne(m.new) /\ Adds(m) = Adds(k)
    BY <2>1 DEF AtMostOne, Adds
  <2>3. k # NoChange
    BY <1>4 DEF NoChange
  <2>4. Ready(m, asCur, asHeap', asUsed', asInvalid)
    BY <1>4, <1>5, <2>1, <2>2, <2>3 DEF Ready
  <2> QED
    BY <1>4, <1>5, <2>1, <2>2, <2>4, WriterStep
<1> QED
  BY <1>3, <1>6, <1>7

\* A version is published: the others' bases are outdated.
LEMMA SwapKeeps ==
    ASSUME ActiveInv, HeapMoves, NEW w \in AsWriters, Swap(w)
    PROVE  ActiveInv'
<1>1. PICK k : k = asWork[w]
  OBVIOUS
<1>2. PICK n : n = CHOOSE x \in k.new : TRUE
  OBVIOUS
<1>3. /\ k.new # {} /\ k.current /\ asCur' = n /\ asReader' = asReader /\ asUsed' = asUsed
      /\ asWork' = [v \in AsWriters |-> IF v = w THEN NoChange ELSE [asWork[v] EXCEPT !.current = FALSE]]
      /\ asInvalid' = GoneAfter(k, asCur, asInvalid, n)
  BY <1>1, <1>2 DEF Swap, GoneAfter
<1>4. Ready(k, asCur, asHeap, asUsed, asInvalid) /\ n \in k.new
  BY <1>1, <1>2, <1>3 DEF ActiveInv
<1>5. VersionSound(n, asHeap[n.hot], asInvalid') /\ LogIds(n) \subseteq LogIds(asCur) \cup Adds(k)
  BY <1>3, <1>4 DEF Ready
<1>6. asHeap'[n.hot] = asHeap[n.hot]
  <2>1. n \in Versions /\ n \in Versions'
    BY <1>1, <1>3, <1>4 DEF Versions
  <2> QED
    BY <2>1 DEF HeapMoves
<1>7. asInvalid' \subseteq asInvalid \cup LogIds(asCur)
  BY <1>3 DEF GoneAfter
<1>8. LogIds(asCur) \cup asInvalid \subseteq asUsed /\ asUsed \subseteq AsIds /\ Adds(k) \subseteq asUsed
  BY <1>4 DEF ActiveInv, Ready
<1>9. ASSUME NEW v \in AsWriters
      PROVE  /\ DOMAIN asWork'[v] = {"op", "base", "new", "current"}
             /\ AtMostOne(asWork'[v].base) /\ AtMostOne(asWork'[v].new)
             /\ asWork'[v].current = FALSE /\ Adds(asWork'[v]) \subseteq Adds(asWork[v])
             /\ v = w => asWork'[v] = NoChange
             /\ v # w => asWork'[v].op = asWork[v].op /\ asWork'[v].base = asWork[v].base
                         /\ (asWork[v] = NoChange => asWork'[v] = NoChange)
  <2>1. CASE v = w
    BY <1>3, <2>1, IdleIsReady
  <2>2. CASE v # w
    <3>1. PICK j : j = asWork[v]
      OBVIOUS
    <3>2. PICK m : m = [j EXCEPT !.current = FALSE]
      OBVIOUS
    <3>3. asWork'[v] = m
      BY <1>3, <2>2, <3>1, <3>2
    <3>4. DOMAIN j = {"op", "base", "new", "current"} /\ AtMostOne(j.base) /\ AtMostOne(j.new)
      BY <3>1 DEF ActiveInv, HeapInUse
    <3>5. /\ DOMAIN m = {"op", "base", "new", "current"} /\ m.op = j.op /\ m.base = j.base /\ m.new = j.new
          /\ m.current = FALSE
      BY <3>2, <3>4
    <3>6. j = NoChange => m = NoChange
      <4>1. PICK idle : NoChange = [op |-> idle, base |-> {}, new |-> {}, current |-> FALSE]
        BY DEF NoChange
      <4>2. [[op |-> idle, base |-> {}, new |-> {}, current |-> FALSE] EXCEPT !.current = FALSE]
              = [op |-> idle, base |-> {}, new |-> {}, current |-> FALSE]
        <5>1. PICK a : a = [op |-> idle, base |-> {}, new |-> {}, current |-> FALSE]
          OBVIOUS
        <5>2. PICK b : b = [a EXCEPT !.current = FALSE]
          OBVIOUS
        <5>3. a = [x \in DOMAIN a |-> a[x]] /\ b = [x \in DOMAIN a |-> b[x]]
          BY <5>1, <5>2
        <5>4. \A x \in DOMAIN a : b[x] = a[x]
          <6>1. \A x \in DOMAIN a : x # "current" => b[x] = a[x]
            BY <5>1, <5>2
          <6>2. a["current"] = FALSE
            BY <5>1
          <6>3. "current" \in DOMAIN a
            BY <5>1
          <6>4. b["current"] = FALSE
            BY <5>2, <6>3
          <6> QED
            BY <6>1, <6>2, <6>4, Zenon
        <5>5. a = b
          BY <5>3, <5>4
        <5> QED
          BY <5>1, <5>2, <5>5
      <4> QED
        BY <3>2, <4>1, <4>2
    <3>7. Adds(m) = Adds(j)
      BY <3>5 DEF Adds
    <3> QED
      BY <2>2, <3>1, <3>3, <3>4, <3>5, <3>6, <3>7
  <2> QED
    BY <2>1, <2>2
<1>10. HeapInUse'
  <2>1. DOMAIN asWork' = AsWriters
    BY <1>3
  <2> QED
    BY <1>3, <1>9, <2>1 DEF HeapInUse, HeapMoves, ActiveInv
<1>11. ASSUME NEW v \in AsWriters PROVE Ready(asWork'[v], asCur', asHeap', asUsed', asInvalid')
  <2>1. CASE v = w
    BY <1>9, <2>1, IdleIsReady
  <2>2. CASE v # w
    <3>1. PICK m, j : m = asWork'[v] /\ j = asWork[v]
      OBVIOUS
    <3>2. /\ m.current = FALSE /\ Adds(m) \subseteq Adds(j) /\ m.op = j.op /\ m.base = j.base
          /\ (j = NoChange => m = NoChange)
      BY <1>9, <2>2, <3>1
    <3>3. Ready(j, asCur, asHeap, asUsed, asInvalid) /\ Adds(j) \cap Adds(k) = {}
      BY <1>1, <2>2, <3>1 DEF ActiveInv
    <3>4. Adds(m) \subseteq asUsed \ (LogIds(n) \cup asInvalid')
      BY <1>5, <1>7, <3>2, <3>3 DEF Ready
    <3>5. Ready(m, n, asHeap', asUsed, asInvalid')
      BY <3>2, <3>3, <3>4 DEF Ready
    <3> QED
      BY <1>3, <3>1, <3>5
  <2> QED
    BY <2>1, <2>2
<1>12. \A v, x \in AsWriters : v # x => Adds(asWork'[v]) \cap Adds(asWork'[x]) = {}
  BY <1>9 DEF ActiveInv
<1>13. LogIds(asCur') \cup asInvalid' \subseteq asUsed' /\ asUsed' \subseteq AsIds
  BY <1>3, <1>5, <1>7, <1>8
<1>14. VersionSound(asCur', asHeap'[asCur'.hot], asInvalid')
  BY <1>3, <1>5, <1>6
<1> QED
  BY <1>10, <1>11, <1>12, <1>13, <1>14 DEF ActiveInv

LEMMA ReaderKeeps ==
    ASSUME ActiveInv, HeapMoves, ReaderLoads
    PROVE  ActiveInv'
<1>1. asCur' = asCur /\ asWork' = asWork /\ asUsed' = asUsed /\ asInvalid' = asInvalid /\ asReader' = {asCur}
  BY DEF ReaderLoads
<1>2. HeapInUse'
  BY <1>1 DEF HeapInUse, HeapMoves, ActiveInv, AtMostOne
<1>3. \A v \in AsWriters : Ready(asWork'[v], asCur', asHeap', asUsed', asInvalid')
  BY <1>1, StillReady
<1>4. VersionSound(asCur, asHeap'[asCur.hot], asInvalid)
  BY <1>1, StillSound
<1> QED
  BY <1>1, <1>2, <1>3, <1>4 DEF ActiveInv

\* The session is loaded again.
LEMMA ReloadKeeps ==
    ASSUME ActiveInv, HeapMoves, Reload
    PROVE  ActiveInv'
<1>1. PICK h : h = asHeap[asCur.hot]
  OBVIOUS
<1>2. PICK l : l = IF asBackend = "rocksdb" THEN DeserializedRocks(asCur, h) ELSE FromComponents(asCur)
  OBVIOUS
<1>3. PICK n, free : free = FreeRef /\ n = [l.ses EXCEPT !.hot = free]
  OBVIOUS
<1>4. /\ \A w \in AsWriters : asWork[w] = NoChange
      /\ asCur' = n /\ asWork' = asWork /\ asReader' = asReader /\ asUsed' = asUsed /\ asInvalid' = asInvalid
      /\ Collected([o \in DOMAIN asHeap \cup {free} |-> IF o = free THEN l.hot ELSE asHeap[o]])
  BY <1>1, <1>2, <1>3 DEF Reload
<1>5. VersionSound(asCur, h, asInvalid)
  BY <1>1 DEF ActiveInv
<1>6. VersionSound(l.ses, l.hot, asInvalid) /\ LogIds(l.ses) = LogIds(asCur)
  <2>1. CASE asBackend = "rocksdb"
    BY <1>2, <1>5, <2>1, RocksReloadKeeps
  <2>2. CASE asBackend # "rocksdb"
    BY <1>2, <1>5, <2>2, SurrealReloadKeeps
  <2> QED
    BY <2>1, <2>2
<1>7. VersionSound(n, l.hot, asInvalid) /\ LogIds(n) = LogIds(l.ses) /\ n.hot = free
  BY <1>3, <1>6, AnyReference
<1>8. asHeap'[n.hot] = l.hot
  <2>1. n.hot \in Referenced'
    BY <1>4 DEF Referenced, Versions
  <2> QED
    BY <1>4, <1>7, <2>1 DEF Collected
<1>9. HeapInUse'
  BY <1>4 DEF HeapInUse, HeapMoves, ActiveInv
<1>10. \A v \in AsWriters : Ready(asWork'[v], asCur', asHeap', asUsed', asInvalid')
  BY <1>4, IdleIsReady
<1> QED
  BY <1>4, <1>6, <1>7, <1>8, <1>9, <1>10 DEF ActiveInv

LEMMA ActiveNextInv == ActiveInv /\ [ActiveNext]_activeVars => ActiveInv'
<1> SUFFICES ASSUME ActiveInv, [ActiveNext]_activeVars PROVE ActiveInv'
  OBVIOUS
<1>1. CASE ActiveNext
  <2>1. HeapMoves
    BY <1>1, HeapSteps DEF ActiveInv
  <2>2. ASSUME NEW w \in AsWriters, NEW id \in AsIds \ asUsed, Ask(w, <<"add", id>>) PROVE ActiveInv'
    <3>1. PICK op : op = <<"add", id>>
      OBVIOUS
    <3>2. op[1] = "add" /\ op[2] = id
      BY <3>1
    <3> QED
      BY <2>1, <2>2, <3>1, <3>2, AskKeeps
  <2>3. ASSUME NEW w \in AsWriters, NEW x,
               Ask(w, <<"remove", x>>) \/ Ask(w, <<"retire", x>>) \/ Ask(w, <<"invalidate", x>>)
               \/ Ask(w, <<"rename", x>>)
        PROVE  ActiveInv'
    <3>1. PICK op : Ask(w, op) /\ op[1] \in {"remove", "retire", "invalidate", "rename"}
      BY <2>3
    <3> QED
      BY <2>1, <3>1, AskKeeps
  <2>4. ASSUME NEW w \in AsWriters, Build(w) \/ Swap(w) \/ SwapLost(w) PROVE ActiveInv'
    BY <2>1, <2>4, BuildKeeps, SwapKeeps, SwapLostKeeps
  <2>5. CASE ReaderLoads
    BY <2>1, <2>5, ReaderKeeps
  <2>6. CASE Reload
    BY <2>1, <2>6, ReloadKeeps
  <2> QED
    BY <1>1, <2>2, <2>3, <2>4, <2>5, <2>6 DEF ActiveNext
<1>2. CASE UNCHANGED activeVars
  BY <1>2 DEF activeVars, ActiveInv, HeapInUse, Referenced, Versions
<1> QED
  BY <1>1, <1>2

\* The inductive invariant of one session, its versions and its writers.
THEOREM ActiveInvariant == ActiveSpec => []ActiveInv
BY ActiveInitInv, ActiveNextInv, PTL DEF ActiveSpec

\* Through additions, removals, retirements, invalidations and loads from
\* either backend, the tiers of the published version agree with its log.
THEOREM TiersAlwaysAgree == ActiveSpec => []TiersAgree
<1>1. ActiveInv => TiersAgree
  <2> SUFFICES ASSUME ActiveInv PROVE TiersAgree
    OBVIOUS
  <2>1. PICK h : h = asHeap[asCur.hot]
    OBVIOUS
  <2>2. VersionSound(asCur, h, asInvalid)
    BY <2>1 DEF ActiveInv
  <2>3. Follows(SnapshotArcs(h), asCur.log, asInvalid)
    BY <2>2, SnapshotTypes DEF VersionSound
  <2> QED
    BY <2>1, <2>2, <2>3 DEF TiersAgree, HotOf, VersionSound
<1> QED
  BY <1>1, ActiveInvariant, PTL

\* A version that somebody holds never changes: a writer forks the hot context
\* it changes, however many versions share it.
THEOREM SnapshotsAreFixed == ActiveSpec => SnapshotsFixed
<1>1. ActiveInv /\ [ActiveNext]_activeVars
        => [\A s \in Versions : s \in Versions' => SnapshotArcs(asHeap'[s.hot]) = HotOf(s)]_activeVars
  <2> SUFFICES ASSUME ActiveInv, ActiveNext
               PROVE  \A s \in Versions : s \in Versions' => SnapshotArcs(asHeap'[s.hot]) = HotOf(s)
    OBVIOUS
  <2>1. HeapMoves
    BY HeapSteps DEF ActiveInv
  <2> QED
    BY <2>1 DEF HeapMoves, HotOf
<1> QED
  BY <1>1, ActiveInvariant, PTL DEF ActiveSpec, SnapshotsFixed

==============================================================================
