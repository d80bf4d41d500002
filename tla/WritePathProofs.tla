--------------------------- MODULE WritePathProofs ---------------------------
(***************************************************************************)
(* Theorems about SessionCas and WritePath, for any number of requests and *)
(* editors: the compare-and-swap loop loses no update; the breaker only    *)
(* holds requests back, so that the write path implements the loop; callers *)
(* are told what really happened to the session; and the breaker trips.    *)
(* About UpdateRequests: the answers of the daemon to context updates are  *)
(* honest.  About ContextAssembly: an assembled context is complete within *)
(* its budget.  And about GraphViews: records succeed each other without a *)
(* gap, and the views of a session show just what holds.                   *)
(***************************************************************************)
EXTENDS WritePath, UpdateRequests, ContextAssembly, GraphViews, NumberFacts,
        FiniteSetTheorems, SequenceTheorems

(***************************************************************************)
(* The optimistic update of a session handle.                              *)
(***************************************************************************)

\* The initial version satisfies the inductive invariant.
LEMMA InitIInv == Init => IInv
<1> SUFFICES ASSUME Init PROVE IInv
  OBVIOUS
<1>1. TypeOK
  BY AttemptsAssumption DEF Init, TypeOK, Ended
<1>2. NoLostUpdate
  BY DEF Init, NoLostUpdate
<1>3. CopiesFaithful
  BY DEF Init, CopiesFaithful
<1>4. AttemptsPaid
  BY AttemptsAssumption DEF Init, AttemptsPaid
<1> QED
  BY <1>1, <1>2, <1>3, <1>4 DEF IInv

\* Every step of a writer preserves the inductive invariant.
LEMMA StepIInv == IInv /\ [Next]_vars => IInv'
<1> SUFFICES ASSUME IInv, [Next]_vars PROVE IInv'
  OBVIOUS
<1> USE AttemptsAssumption
<1>1. ASSUME NEW w \in Writers, Load(w) PROVE IInv'
  <2>1. TypeOK'
    BY <1>1 DEF IInv, TypeOK, Load, Ended
  <2>2. NoLostUpdate'
    BY <1>1 DEF IInv, TypeOK, NoLostUpdate, Load
  <2>3. CopiesFaithful'
    BY <1>1 DEF IInv, TypeOK, CopiesFaithful, Load
  <2>4. AttemptsPaid'
    BY <1>1 DEF IInv, TypeOK, AttemptsPaid, Load
  <2> QED
    BY <2>1, <2>2, <2>3, <2>4 DEF IInv
<1>2. ASSUME NEW w \in Writers, Noop(w) PROVE IInv'
  <2>1. TypeOK'
    BY <1>2 DEF IInv, TypeOK, Noop, Ended
  <2>2. NoLostUpdate'
    BY <1>2 DEF IInv, TypeOK, NoLostUpdate, Noop
  <2>3. CopiesFaithful'
    BY <1>2 DEF IInv, TypeOK, CopiesFaithful, Noop
  <2>4. AttemptsPaid'
    BY <1>2 DEF IInv, TypeOK, AttemptsPaid, Noop
  <2> QED
    BY <2>1, <2>2, <2>3, <2>4 DEF IInv
<1>3. ASSUME NEW w \in Writers, Swap(w) PROVE IInv'
  <2>1. TypeOK'
    BY <1>3 DEF IInv, TypeOK, Swap, Ended
  <2>2. NoLostUpdate'
    <3>1. copy[w] = value
      BY <1>3 DEF IInv, CopiesFaithful, Swap
    <3> QED
      BY <1>3, <3>1 DEF IInv, TypeOK, NoLostUpdate, Swap
  <2>3. CopiesFaithful'
    BY <1>3 DEF IInv, TypeOK, CopiesFaithful, Swap
  <2>4. AttemptsPaid'
    BY <1>3 DEF IInv, TypeOK, AttemptsPaid, Swap
  <2> QED
    BY <2>1, <2>2, <2>3, <2>4 DEF IInv
<1>4. ASSUME NEW w \in Writers, Lose(w) PROVE IInv'
  <2>1. TypeOK'
    <3>1. attempts[w] + 1 \in 0 .. MaxAttempts
      BY <1>4 DEF IInv, TypeOK, AttemptsPaid, Lose
    <3> QED
      BY <1>4, <3>1 DEF IInv, TypeOK, Lose, Ended
  <2>2. NoLostUpdate'
    BY <1>4 DEF IInv, TypeOK, NoLostUpdate, Lose
  <2>3. CopiesFaithful'
    BY <1>4 DEF IInv, TypeOK, CopiesFaithful, Lose
  <2>4. AttemptsPaid'
    <3>1. attempts[w] + 1 <= version
      BY <1>4 DEF IInv, TypeOK, CopiesFaithful, AttemptsPaid, Lose
    <3> QED
      BY <1>4, <3>1 DEF IInv, TypeOK, AttemptsPaid, Lose
  <2> QED
    BY <2>1, <2>2, <2>3, <2>4 DEF IInv
<1>5. CASE UNCHANGED vars
  BY <1>5 DEF vars, IInv, TypeOK, NoLostUpdate, CopiesFaithful, AttemptsPaid, Ended
<1> QED
  BY <1>1, <1>2, <1>3, <1>4, <1>5 DEF Next

\* The inductive invariant holds in every reachable state.
THEOREM Invariance == Spec => []IInv
  BY InitIInv, StepIInv, PTL DEF Spec

\* However many operations race on a session handle, the published session
\* holds exactly the changes of those that were told they succeeded
\* (cas_update_session, add_incremental_update_internal).
THEOREM UpdatesNeverLost == Spec => []NoLostUpdate
<1>1. IInv => NoLostUpdate
  BY DEF IInv
<1> QED
  BY <1>1, Invariance, PTL

\* An operation that gives up with "high contention" was overtaken by at least
\* MaxAttempts published versions.
THEOREM FailureNeedsContention == Spec => []FailsOnlyUnderContention
<1>1. IInv => FailsOnlyUnderContention
  BY AttemptsAssumption DEF IInv, TypeOK, AttemptsPaid, FailsOnlyUnderContention
<1> QED
  BY <1>1, Invariance, PTL

\* Both at once: the loop of cas_update_session is sound for any number of
\* writers and attempts.
THEOREM LoopIsSound == Spec => []CasSound
  BY UpdatesNeverLost, FailureNeedsContention, PTL DEF CasSound

(***************************************************************************)
(* The write path.                                                         *)
(***************************************************************************)

\* A step of the write path is a step of the compare-and-swap loop, or leaves
\* the session alone.
LEMMA StepImplementsCas == [WPNext]_<<vars, breakerVars>> => [Next]_vars
<1>1. ASSUME NEW w \in Tasks, Attempt(w) PROVE Next
  <2>1. w \in Writers
    BY EditorAssumption
  <2>2. Load(w) \/ Swap(w) \/ Lose(w)
    BY <1>1 DEF Attempt
  <2> QED
    BY <2>1, <2>2 DEF Next
<1>2. ASSUME NEW w \in Editors, Edit(w) PROVE Next
  <2>1. w \in Writers
    BY EditorAssumption
  <2>2. Load(w) \/ Noop(w) \/ Swap(w) \/ Lose(w)
    BY <1>2 DEF Edit
  <2> QED
    BY <2>1, <2>2 DEF Next
<1>3. ASSUME NEW w \in Tasks, AskBreaker(w) \/ Fail(w) \/ Succeed(w) \/ Record(w)
      PROVE UNCHANGED vars
  BY <1>3 DEF AskBreaker, Fail, Succeed, Record
<1>4. CASE UNCHANGED <<vars, breakerVars>>
  BY <1>4
<1>5. CASE WPNext
  BY <1>5, <1>1, <1>2, <1>3 DEF WPNext
<1> QED
  BY <1>4, <1>5

\* The write path, breaker included, implements the optimistic update of a
\* session handle (add_incremental_update_with, cas_update_session).
THEOREM WritePathImplementsCas == WPSpec => Spec
<1>1. WPInit => Init
  BY DEF WPInit
<1> QED
  BY <1>1, StepImplementsCas, PTL DEF WPSpec, Spec

\* No committed change is lost, with the breaker opening and closing and other
\* operations writing the session past it.
THEOREM WritePathIsSound == WPSpec => []CasSound
  BY WritePathImplementsCas, LoopIsSound, PTL

\* The stages of a request agree initially.
LEMMA InitWPInv == WPInit => WPInv
<1>1. ASSUME WPInit PROVE IInv
  BY <1>1, InitIInv DEF WPInit
<1>2. ASSUME WPInit PROVE bpc \in [Tasks -> Labels] /\ StagesAgree
  BY <1>2, EditorAssumption DEF WPInit, Init, BreakerInit, StagesAgree, Labels
<1> QED
  BY <1>1, <1>2 DEF WPInv

\* Every step of the write path keeps the stages in agreement: a request takes
\* part in the loop only while the breaker has let it work, and records what
\* the loop ended with.
LEMMA StepWPInv == WPInv /\ [WPNext]_<<vars, breakerVars>> => WPInv'
<1> SUFFICES ASSUME WPInv, [WPNext]_<<vars, breakerVars>> PROVE WPInv'
  OBVIOUS
<1> USE DEF WPInv
<1>1. IInv'
  BY StepImplementsCas, StepIInv
<1>2. pc \in [Writers -> {"load", "loaded", "done", "noop", "failed"}]
  BY DEF IInv, TypeOK, Ended
<1>3. ASSUME NEW w \in Tasks, AskBreaker(w)
      PROVE (bpc \in [Tasks -> Labels] /\ StagesAgree)'
  BY <1>3, <1>2 DEF AskBreaker, LoadFlag, LoadTimestamp, ClearFlag, ClearCount, Goto,
                    vars, StagesAgree, Labels
<1>4. ASSUME NEW w \in Tasks, Attempt(w)
      PROVE (bpc \in [Tasks -> Labels] /\ StagesAgree)'
  <2>1. w \in Writers
    BY EditorAssumption
  <2>2. bpc' = bpc /\ bpc[w] = "work"
    BY <1>4 DEF Attempt, breakerVars
  <2>3. \E v : pc' = [pc EXCEPT ![w] = v]
    BY <1>4, Zenon DEF Attempt, Load, Swap, Lose
  <2>4. \A x \in Tasks : x # w => pc'[x] = pc[x]
    BY <1>2, <2>1, <2>3, EditorAssumption
  <2> QED
    BY <2>2, <2>4 DEF StagesAgree, Labels
<1>5. ASSUME NEW w \in Editors, Edit(w)
      PROVE (bpc \in [Tasks -> Labels] /\ StagesAgree)'
  <2>1. bpc' = bpc
    BY <1>5 DEF Edit, breakerVars
  <2>2. \A x \in Tasks : pc'[x] = pc[x]
    BY <1>5, <1>2, EditorAssumption DEF Edit, Load, Noop, Swap, Lose
  <2> QED
    BY <2>1, <2>2 DEF StagesAgree
<1>6. ASSUME NEW w \in Tasks, Fail(w)
      PROVE (bpc \in [Tasks -> Labels] /\ StagesAgree)'
  BY <1>6, <1>2 DEF Fail, CountFailure, Goto, vars, StagesAgree, Labels
<1>7. ASSUME NEW w \in Tasks, Succeed(w)
      PROVE (bpc \in [Tasks -> Labels] /\ StagesAgree)'
  BY <1>7, <1>2 DEF Succeed, LoadCount, Goto, vars, StagesAgree, Labels
<1>8. ASSUME NEW w \in Tasks, Record(w)
      PROVE (bpc \in [Tasks -> Labels] /\ StagesAgree)'
  BY <1>8, <1>2 DEF Record, StampFailure, Trip, Decrement, Goto, vars, StagesAgree, Labels
<1>9. ASSUME UNCHANGED <<bpc, pc>>
      PROVE (bpc \in [Tasks -> Labels] /\ StagesAgree)'
  BY <1>9 DEF StagesAgree
<1>10. Tick /\ UNCHANGED vars => UNCHANGED <<bpc, pc>>
  BY DEF Tick, vars
<1>11. UNCHANGED <<vars, breakerVars>> => UNCHANGED <<bpc, pc>>
  BY DEF vars, breakerVars
<1> QED
  BY <1>1, <1>3, <1>4, <1>5, <1>6, <1>7, <1>8, <1>9, <1>10, <1>11 DEF WPNext

\* Every caller of the write path is told the truth: rejected and failed
\* requests left no change in the session, successful ones did, for any number
\* of requests, editors, attempts and failures.
THEOREM OutcomesTruthful == WPSpec => []OutcomeMatchesSession
<1>1. WPInv => OutcomeMatchesSession
  BY EditorAssumption DEF WPInv, IInv, NoLostUpdate, StagesAgree, OutcomeMatchesSession
<1> QED
  BY <1>1, InitWPInv, StepWPInv, PTL DEF WPSpec

(***************************************************************************)
(* The circuit breaker.                                                    *)
(***************************************************************************)

\* One up, modulo Word.
LEMMA CountUp ==
    ASSUME NEW n \in 0 .. Word - 1
    PROVE  (n + 1) % Word = IF n = Word - 1 THEN 0 ELSE n + 1
<1> USE BreakerAssumption
<1>1. CASE n = Word - 1
  <2>1. n + 1 = Word * 1 + 0 /\ 0 \in 0 .. Word - 1 /\ n + 1 \in Int /\ Word \in Nat /\ Word > 0
    BY <1>1
  <2> QED
    BY <1>1, <2>1, ModUnique
<1>2. CASE n # Word - 1
  <2>1. n + 1 \in 0 .. Word - 1 /\ Word \in Nat /\ Word > 0
    BY <1>2
  <2> QED
    BY <1>2, <2>1, ModSmall
<1> QED
  BY <1>1, <1>2

\* One down, modulo Word.
LEMMA CountDown ==
    ASSUME NEW n \in 0 .. Word - 1
    PROVE  (n + Word - 1) % Word = IF n = 0 THEN Word - 1 ELSE n - 1
<1> USE BreakerAssumption
<1>1. CASE n = 0
  <2>1. n + Word - 1 = Word - 1 /\ Word - 1 \in 0 .. Word - 1 /\ Word \in Nat /\ Word > 0
    BY <1>1
  <2> QED
    BY <1>1, <2>1, ModSmall
<1>2. CASE n # 0
  <2>1. /\ n + Word - 1 = Word * 1 + (n - 1) /\ n - 1 \in 0 .. Word - 1
        /\ n + Word - 1 \in Int /\ Word \in Nat /\ Word > 0
    BY <1>2
  <2> QED
    BY <1>2, <2>1, ModUnique
<1> QED
  BY <1>1, <1>2

\* A request that goes from the rest to one of two sets of requests makes it
\* one larger; requests that stay leave it no smaller.
LEMMA CountedGrows ==
    ASSUME IsFiniteSet(Tasks), bpc \in [Tasks -> Labels], NEW t \in Tasks, NEW l \in Labels,
           Goto(t, l)
    PROVE  /\ Cardinality(Counted) \in Nat /\ Cardinality(TookBack) \in Nat
           /\ Cardinality(Counted)' \in 0 .. Cardinality(Tasks)
           /\ Cardinality(TookBack)' \in 0 .. Cardinality(Tasks)
           /\ (bpc[t] \in {"stamp", "stampOpen", "trip", "erred"}
                 => l \in {"stamp", "stampOpen", "trip", "erred"})
              => Cardinality(Counted) <= Cardinality(Counted)'
           /\ bpc[t] # "ok" => Cardinality(TookBack) <= Cardinality(TookBack)'
           /\ bpc[t] = "work" /\ l \in {"stamp", "stampOpen"}
              => Cardinality(Counted)' = Cardinality(Counted) + 1
           /\ bpc[t] # "ok" /\ l = "ok" => Cardinality(TookBack)' = Cardinality(TookBack) + 1
<1>1. PICK C, B, D, E : C = Counted /\ B = TookBack /\ D = Counted' /\ E = TookBack'
  OBVIOUS
<1>2. C \subseteq Tasks /\ B \subseteq Tasks /\ D \subseteq Tasks /\ E \subseteq Tasks
  BY <1>1 DEF Counted, TookBack
<1>3. /\ IsFiniteSet(C) /\ IsFiniteSet(B) /\ IsFiniteSet(D) /\ IsFiniteSet(E)
      /\ Cardinality(D) <= Cardinality(Tasks) /\ Cardinality(E) <= Cardinality(Tasks)
  BY <1>2, FS_Subset
<1>4. /\ Cardinality(C) \in Nat /\ Cardinality(B) \in Nat /\ Cardinality(D) \in Nat
      /\ Cardinality(E) \in Nat /\ Cardinality(Tasks) \in Nat
  BY <1>3, FS_CardinalityType
<1>5. /\ bpc' \in [Tasks -> Labels] /\ bpc'[t] = l
      /\ \A x \in Tasks \ {t} : bpc'[x] = bpc[x]
  BY DEF Goto
<1>6. ASSUME bpc[t] \in {"stamp", "stampOpen", "trip", "erred"} => l \in {"stamp", "stampOpen", "trip", "erred"}
      PROVE  Cardinality(C) <= Cardinality(D)
  <2>1. C \subseteq D
    BY <1>1, <1>5, <1>6 DEF Counted
  <2> QED
    BY <1>3, <2>1, FS_Subset
<1>7. ASSUME bpc[t] # "ok" PROVE Cardinality(B) <= Cardinality(E)
  <2>1. B \subseteq E
    BY <1>1, <1>5, <1>7 DEF TookBack
  <2> QED
    BY <1>3, <2>1, FS_Subset
<1>8. ASSUME bpc[t] = "work", l \in {"stamp", "stampOpen"} PROVE Cardinality(D) = Cardinality(C) + 1
  <2>1. D = C \cup {t} /\ t \notin C
    BY <1>1, <1>5, <1>8 DEF Counted
  <2> QED
    BY <1>3, <2>1, FS_AddElement
<1>9. ASSUME bpc[t] # "ok", l = "ok" PROVE Cardinality(E) = Cardinality(B) + 1
  <2>1. E = B \cup {t} /\ t \notin B
    BY <1>1, <1>5, <1>9 DEF TookBack
  <2> QED
    BY <1>3, <2>1, FS_AddElement
<1> QED
  BY <1>1, <1>3, <1>4, <1>6, <1>7, <1>8, <1>9

\* Every step of the breaker keeps the invariant.
LEMMA BreakerStep ==
    ASSUME IsFiniteSet(Tasks), 2 * Cardinality(Tasks) + 1 < Word, TripInv, NEW t \in Tasks,
           \/ LoadFlag(t) \/ LoadTimestamp(t) \/ ClearFlag(t) \/ ClearCount(t)
           \/ CountFailure(t) \/ StampFailure(t) \/ Trip(t) \/ LoadCount(t) \/ Decrement(t)
    PROVE  TripInv'
<1> DEFINE M == Cardinality(Tasks)
           C == Cardinality(Counted)
           B == Cardinality(TookBack)
<1>m. M \in Nat
  BY FS_CardinalityType
<1>b. Word \in Nat /\ Threshold \in Nat \ {0} /\ Word > Threshold + 1
  BY BreakerAssumption
<1>n. failureCount \in 0 .. Word - 1 /\ bpc \in [Tasks -> Labels]
  BY DEF TripInv
<1>1. CASE LoadFlag(t) \/ LoadTimestamp(t)
  <2>1. PICK l \in {"open", "work", "reset", "rejected"} : Goto(t, l)
    BY <1>1 DEF LoadFlag, LoadTimestamp
  <2>2. bpc[t] \in {"idle", "open"} /\ UNCHANGED <<isOpen, failureCount>>
    BY <1>1 DEF LoadFlag, LoadTimestamp, atomics
  <2>3. C <= C' /\ B <= B' /\ C \in Nat /\ B \in Nat /\ C' \in Nat /\ B' \in Nat
    BY <1>n, <2>1, <2>2, CountedGrows DEF Labels
  <2>4. CountBounded'
    BY <1>b, <1>n, <2>2, <2>3 DEF TripInv, CountBounded
  <2> QED
    BY <2>1, <2>2, <2>4 DEF TripInv, Goto, Labels
<1>2. CASE ClearFlag(t)
  <2>2. bpc[t] = "reset" /\ UNCHANGED failureCount /\ Goto(t, "clear")
    BY <1>2 DEF ClearFlag
  <2>3. C <= C' /\ B <= B' /\ C \in Nat /\ B \in Nat /\ C' \in Nat /\ B' \in Nat
    BY <1>n, <2>2, CountedGrows DEF Labels
  <2>4. CountBounded'
    BY <1>b, <1>n, <2>2, <2>3 DEF TripInv, CountBounded
  <2>5. bpc'[t] = "clear" /\ bpc' \in [Tasks -> Labels]
    BY <1>n, <2>2 DEF Goto, Labels
  <2> QED
    BY <1>n, <2>2, <2>4, <2>5 DEF TripInv
<1>3. CASE ClearCount(t)
  <2>2. failureCount' = 0 /\ Goto(t, "work")
    BY <1>3 DEF ClearCount
  <2>3. C' \in Nat
    BY <1>n, <2>2, CountedGrows DEF Labels
  <2>4. CountBounded'
    BY <2>2, <2>3 DEF CountBounded
  <2>5. bpc' \in [Tasks -> Labels]
    BY <1>n, <2>2 DEF Goto, Labels
  <2> QED
    BY <1>b, <2>2, <2>4, <2>5 DEF TripInv
<1>4. CASE CountFailure(t)
  <2>1. PICK l : l = IF failureCount' >= Threshold THEN "stampOpen" ELSE "stamp"
    OBVIOUS
  <2>2. bpc[t] = "work" /\ failureCount' = (failureCount + 1) % Word /\ Goto(t, l) /\ l \in Labels
        /\ l \in {"stamp", "stampOpen"}
    BY <1>4, <2>1 DEF CountFailure, Labels
  <2>3. C' = C + 1 /\ B <= B' /\ C \in Nat /\ B \in Nat /\ C' \in Nat /\ B' \in Nat
    BY <1>n, <2>2, CountedGrows
  <2>4. failureCount' = IF failureCount = Word - 1 THEN 0 ELSE failureCount + 1
    BY <1>n, <2>2, CountUp, Zenon
  <2>5. CountBounded' /\ failureCount' \in 0 .. Word - 1
    BY <1>b, <1>n, <2>3, <2>4 DEF TripInv, CountBounded
  <2>6. bpc'[t] = l /\ bpc' \in [Tasks -> Labels]
    BY <1>n, <2>2 DEF Goto
  <2>7. failureCount' \in Threshold .. M => l = "stampOpen"
    BY <2>1, <1>b
  <2> QED
    BY <2>5, <2>6, <2>7 DEF TripInv
<1>5. CASE StampFailure(t)
  <2>1. PICK l : l = IF bpc[t] = "stampOpen" THEN "trip" ELSE "erred"
    OBVIOUS
  <2>2. bpc[t] \in {"stamp", "stampOpen"} /\ UNCHANGED <<isOpen, failureCount>> /\ Goto(t, l)
        /\ l \in {"trip", "erred"} /\ l \in Labels
    BY <1>5, <2>1 DEF StampFailure, Labels
  <2>3. C <= C' /\ B <= B' /\ C \in Nat /\ B \in Nat /\ C' \in Nat /\ B' \in Nat
    BY <1>n, <2>2, CountedGrows
  <2>4. CountBounded'
    BY <1>b, <1>n, <2>2, <2>3 DEF TripInv, CountBounded
  <2>5. bpc'[t] = l /\ bpc' \in [Tasks -> Labels] /\ \A x \in Tasks \ {t} : bpc'[x] = bpc[x]
    BY <1>n, <2>2 DEF Goto
  <2>6. (\E x \in Tasks : bpc[x] \in {"stampOpen", "trip", "clear"})
        => \E x \in Tasks : bpc'[x] \in {"stampOpen", "trip", "clear"}
    BY <2>1, <2>2, <2>5
  <2> QED
    BY <2>2, <2>4, <2>5, <2>6 DEF TripInv
<1>6. CASE Trip(t)
  <2>2. bpc[t] = "trip" /\ UNCHANGED failureCount /\ Goto(t, "erred") /\ isOpen'
    BY <1>6 DEF Trip
  <2>3. C <= C' /\ B <= B' /\ C \in Nat /\ B \in Nat /\ C' \in Nat /\ B' \in Nat
    BY <1>n, <2>2, CountedGrows DEF Labels
  <2>4. CountBounded'
    BY <1>b, <1>n, <2>2, <2>3 DEF TripInv, CountBounded
  <2>5. bpc' \in [Tasks -> Labels]
    BY <1>n, <2>2 DEF Goto, Labels
  <2> QED
    BY <1>n, <2>2, <2>4, <2>5 DEF TripInv
<1>7. CASE LoadCount(t)
  <2>1. PICK l \in {"decrement", "ok"} : Goto(t, l)
    BY <1>7 DEF LoadCount
  <2>2. bpc[t] = "work" /\ UNCHANGED <<isOpen, failureCount>>
    BY <1>7 DEF LoadCount, atomics
  <2>3. C <= C' /\ B <= B' /\ C \in Nat /\ B \in Nat /\ C' \in Nat /\ B' \in Nat
    BY <1>n, <2>1, <2>2, CountedGrows DEF Labels
  <2>4. CountBounded'
    BY <1>b, <1>n, <2>2, <2>3 DEF TripInv, CountBounded
  <2> QED
    BY <2>1, <2>2, <2>4 DEF TripInv, Goto, Labels
<1>8. CASE Decrement(t)
  <2>2. bpc[t] = "decrement" /\ failureCount' = (failureCount + Word - 1) % Word /\ Goto(t, "ok")
        /\ UNCHANGED isOpen
    BY <1>8 DEF Decrement
  <2>3. /\ C <= C' /\ B' = B + 1 /\ C \in Nat /\ B \in Nat /\ C' \in 0 .. M /\ B' \in 0 .. M
    BY <1>m, <1>n, <2>2, CountedGrows DEF Labels
  <2>4. failureCount' = IF failureCount = 0 THEN Word - 1 ELSE failureCount - 1
    BY <1>n, <2>2, CountDown, Zenon
  <2>5. CountBounded' /\ failureCount' \in 0 .. Word - 1
    BY <1>b, <1>m, <1>n, <2>3, <2>4 DEF TripInv, CountBounded
  <2>6. bpc' \in [Tasks -> Labels] /\ bpc[t] = "decrement" /\ \A x \in Tasks \ {t} : bpc'[x] = bpc[x]
    BY <1>n, <2>2 DEF Goto, Labels
  <2>7. failureCount' \in Threshold .. M => failureCount \in Threshold .. M
    BY <1>b, <1>m, <1>n, <2>3, <2>4 DEF TripInv, CountBounded
  <2> QED
    BY <2>2, <2>5, <2>6, <2>7 DEF TripInv
<1> QED
  BY <1>1, <1>2, <1>3, <1>4, <1>5, <1>6, <1>7, <1>8

\* The breaker trips: a count at the threshold means an open circuit whenever no
\* record is half done, for any threshold, timeout and interleaving of requests
\* and resets, provided the 64-bit counter has room for all requests twice
\* (record_failure, record_success, is_open).
THEOREM BreakerTrips ==
    ASSUME IsFiniteSet(Tasks), 2 * Cardinality(Tasks) + 1 < Word
    PROVE  WPSpec => []TripsWhenDue
<1>1. WPInit => TripInv
  <2> SUFFICES ASSUME WPInit PROVE TripInv
    OBVIOUS
  <2>1. failureCount = 0 /\ bpc = [t \in Tasks |-> "idle"]
    BY DEF WPInit, BreakerInit
  <2>2. Counted = {}
    BY <2>1 DEF Counted
  <2>3. CountBounded
    BY <2>1, <2>2, FS_EmptySet DEF CountBounded
  <2> QED
    BY <2>1, <2>3, BreakerAssumption DEF TripInv, Labels
<1>2. TripInv /\ [WPNext]_<<vars, breakerVars>> => TripInv'
  <2> SUFFICES ASSUME TripInv, [WPNext]_<<vars, breakerVars>> PROVE TripInv'
    OBVIOUS
  <2>1. ASSUME UNCHANGED <<isOpen, failureCount, bpc>> PROVE TripInv'
    BY <2>1 DEF TripInv, CountBounded, Counted, TookBack
  <2>2. ASSUME NEW t \in Tasks, AskBreaker(t) \/ Fail(t) \/ Succeed(t) \/ Record(t) PROVE TripInv'
    BY <2>2, BreakerStep DEF AskBreaker, Fail, Succeed, Record
  <2>3. ASSUME (\E t \in Tasks : Attempt(t)) \/ (\E t \in Editors : Edit(t)) \/ Tick \/ UNCHANGED breakerVars
        PROVE  TripInv'
    BY <2>1, <2>3 DEF Attempt, Edit, Tick, atomics, breakerVars
  <2> QED
    BY <2>2, <2>3 DEF WPNext
<1>3. TripInv => TripsWhenDue
  BY DEF TripInv, TripsWhenDue
<1> QED
  BY <1>1, <1>2, <1>3, PTL DEF WPSpec

(***************************************************************************)
(* UpdateRequests.                                                         *)
(***************************************************************************)

\* AnswersHonest, of a request q.
HonestAnswer(q) ==
    q.pc = "end" =>
        /\ q.answer \in {"invalid", "notfound", "dry"} => q.landed = {}
        /\ q.answer # "cancelled" =>
             /\ q.landed \subseteq q.derived
             /\ \A i \in q.landed :
                  q.updates[i] \in {"refs", "good"} \cup
                      (IF q.route \in {"grpc", "grpcBulk"} THEN {"kind", "code"} ELSE {})
             /\ q.answer = "done" =>
                  /\ q.counted = Cardinality(q.landed)
                  /\ q.counted + q.failed = Len(q.updates)

\* A request the invariant holds of.
GoodRequest(q) ==
    /\ q \in UrRequests /\ UpdatesListed(q)
    /\ q.pc # "end" => UpdatesUnderway(q)
    /\ HonestAnswer(q)

\* The positions that pass, in order.
LEMMA ChosenAre ==
    ASSUME NEW n \in 1 .. MaxBatch, NEW S \in SUBSET (1 .. n), NEW s, s = ChosenUpdates(S)
    PROVE  /\ s \in Seq(UrPositions) /\ Len(s) \in 0 .. n
           /\ \A k \in DOMAIN s : s[k] \in S
           /\ \A j, k \in DOMAIN s : j < k => s[j] < s[k]
<1>1. MaxBatch \in Nat
  BY UpdateRequestAssumption
<1>2. n \in Nat /\ S \in SUBSET Nat /\ \A i \in S : i \in UrPositions
  BY <1>1 DEF UrPositions
<1>3. IsFiniteSet(1 .. n) /\ Cardinality(1 .. n) = n
  <2>1. 1 \in Int /\ n \in Int /\ 1 <= n
    BY <1>1, <1>2
  <2>2. IsFiniteSet(1 .. n) /\ Cardinality(1 .. n) = IF 1 > n THEN 0 ELSE n - 1 + 1
    BY <2>1, FS_Interval
  <2> QED
    BY <2>1, <2>2
<1>4. IsFiniteSet(S) /\ Cardinality(S) <= n /\ Cardinality(S) \in Nat
  BY <1>3, FS_Subset, FS_CardinalityType
<1>5. PICK c \in Nat : c = Cardinality(S)
  BY <1>4
<1>6. s \in [1 .. c -> S] /\ \A j, k \in DOMAIN s : j < k => s[j] < s[k]
  BY <1>2, <1>4, <1>5, AscendingExists DEF ChosenUpdates
<1>7. s \in Seq(UrPositions) /\ Len(s) = c
  <2>1. s \in [1 .. c -> UrPositions]
    BY <1>2, <1>6
  <2>2. s = [k \in 1 .. c |-> s[k]] /\ \A k \in 1 .. c : s[k] \in UrPositions
    BY <2>1
  <2>3. [k \in 1 .. c |-> s[k]] \in Seq(UrPositions)
    BY <1>5, <2>2
  <2>4. s \in Seq(UrPositions) /\ DOMAIN s = 1 .. c
    BY <2>2, <2>3
  <2>5. Len(s) \in Nat /\ DOMAIN s = 1 .. Len(s)
    BY <2>4
  <2> QED
    BY <1>5, <2>4, <2>5
<1> QED
  BY <1>4, <1>5, <1>6, <1>7

\* A request with one update works on one at most.
LEMMA SingleUpdate ==
    ASSUME NEW q \in UrRequests, UpdatesListed(q), q.route \in {"grpc", "mcp"}
    PROVE  Len(q.todo) <= 1
<1> SUFFICES ASSUME ~(Len(q.todo) <= 1) PROVE FALSE
  OBVIOUS
<1>1. q.todo \in Seq(UrPositions) /\ Len(q.todo) \in Nat /\ DOMAIN q.todo = 1 .. Len(q.todo)
  BY DEF UrRequests, UrLists
<1>2. 1 \in DOMAIN q.todo /\ 2 \in DOMAIN q.todo
  BY <1>1
<1>3. PICK n \in 1 .. MaxBatch : q.updates \in [1 .. n -> UpdateKinds]
  BY DEF UrRequests, UpdateSeqs
<1>4. Len(q.updates) = 1 /\ q.todo[1] \in DOMAIN q.updates /\ q.todo[2] \in DOMAIN q.updates
      /\ q.todo[1] < q.todo[2]
  BY <1>2 DEF UpdatesListed
<1>5. n \in Nat /\ Len(q.updates) = n /\ DOMAIN q.updates = 1 .. n
  BY <1>3, UpdateRequestAssumption
<1>6. q.todo[1] \in 1 .. 1 /\ q.todo[2] \in 1 .. 1
  BY <1>4, <1>5
<1>7. q.todo[1] = 1 /\ q.todo[2] = 1
  BY <1>6
<1> QED
  BY <1>4, <1>7

\* The updates of a request are what its transport let pass.
LEMMA ListedKinds ==
    ASSUME NEW q \in UrRequests, UpdatesListed(q), NEW k \in DOMAIN q.todo,
           Sound(q.updates[q.todo[k]])
    PROVE  q.updates[q.todo[k]] \in {"refs", "good"} \cup
              (IF q.route \in {"grpc", "grpcBulk"} THEN {"kind", "code"} ELSE {})
<1>1. PICK n \in 1 .. MaxBatch : q.updates \in [1 .. n -> UpdateKinds]
  BY DEF UrRequests, UpdateSeqs
<1>2. q.updates[q.todo[k]] \in UpdateKinds
  BY <1>1 DEF UpdatesListed
<1>3. q.route \in {"grpc", "grpcBulk", "mcp", "mcpBulk"}
  BY DEF UrRequests, UrRoutes
<1> QED
  BY <1>2, <1>3 DEF UpdatesListed, UpdateKinds, Sound

\* What is written by then is of the kinds that pass.
LEMMA LandedKinds ==
    ASSUME NEW q \in UrRequests, UpdatesListed(q), UpdatesUnderway(q)
    PROVE  \A i \in q.landed : q.updates[i] \in {"refs", "good"} \cup
              (IF q.route \in {"grpc", "grpcBulk"} THEN {"kind", "code"} ELSE {})
<1> SUFFICES ASSUME NEW i \in q.landed
             PROVE  q.updates[i] \in {"refs", "good"} \cup
                      (IF q.route \in {"grpc", "grpcBulk"} THEN {"kind", "code"} ELSE {})
  OBVIOUS
<1>1. Len(q.todo) \in Nat /\ DOMAIN q.todo = 1 .. Len(q.todo)
  BY DEF UrRequests, UrLists
<1>2. PICK k \in DOMAIN q.todo : i = q.todo[k]
  <2>1. CASE i \in q.derived
    BY <1>1, <2>1 DEF UpdatesUnderway
  <2>2. CASE i \notin q.derived
    BY <1>1, <2>2 DEF UpdatesUnderway
  <2> QED
    BY <2>1, <2>2
<1>3. Sound(q.updates[q.todo[k]])
  BY <1>2 DEF UpdatesUnderway
<1> QED
  BY <1>2, <1>3, ListedKinds

\* A call is refused.
LEMMA RefusedKeeps ==
    ASSUME NEW q \in UrRequests, UpdatesListed(q), UpdatesUnderway(q),
           q.pc \in {"check", "write"}, NEW x \in {"invalid", "notfound", "internal"},
           q.pc = "write" => x = "internal",
           NEW r, r = UpdateRefused(q, x)
    PROVE  GoodRequest(r)
<1>1. /\ q.todo \in Seq(UrPositions) /\ Len(q.todo) \in Nat /\ DOMAIN q.todo = 1 .. Len(q.todo)
      /\ q.pos \in Nat /\ q.failed \in Nat /\ q.counted \in Nat /\ q.checked \in Nat
      /\ q.mode \in {"each", "batch"} /\ q.route \in {"grpc", "grpcBulk", "mcp", "mcpBulk"}
  BY DEF UrRequests, UrLists, UrModes, UrRoutes
<1>2. Len(q.updates) \in Nat
  BY UpdateRequestAssumption DEF UrRequests, UpdateSeqs
<1>3. q.landed = q.derived /\ q.pos \in 1 .. Len(q.todo)
  BY DEF UpdatesUnderway
<1>4. \A i \in q.landed : q.updates[i] \in {"refs", "good"} \cup
              (IF q.route \in {"grpc", "grpcBulk"} THEN {"kind", "code"} ELSE {})
  BY LandedKinds
<1>0. /\ q.failed + 1 \in Nat /\ q.pos + 1 \in Nat
      /\ "end" \in UrStages /\ "check" \in UrStages /\ x \in UrAnswers /\ "done" \in UrAnswers
  BY <1>1 DEF UrStages, UrAnswers
<1>5. CASE q.mode = "batch"
  <2>1. r = UpdateAnswered([q EXCEPT !.counted = 0, !.failed = @ + 1], x)
    BY <1>5 DEF UpdateRefused
  <2>2. /\ r \in UrRequests /\ r.pc = "end" /\ r.answer = x /\ r.landed = q.landed
        /\ r.derived = q.derived /\ r.route = q.route /\ r.updates = q.updates /\ r.todo = q.todo
    <3>1. r = [q EXCEPT !.counted = 0, !.failed = q.failed + 1, !.pc = "end", !.answer = x]
      BY <2>1 DEF UpdateAnswered, UrRequests
    <3>2. PICK c \in Nat, f \in Nat : c = 0 /\ f = q.failed + 1
      BY <1>0
    <3>3. r = [q EXCEPT !.counted = c, !.failed = f, !.pc = "end", !.answer = x]
      BY <3>1, <3>2
    <3>4. r \in UrRequests
      BY <1>0, <3>2, <3>3 DEF UrRequests
    <3> QED
      BY <3>1, <3>4 DEF UrRequests
  <2>3. x \in {"invalid", "notfound"} => q.landed = {}
    BY <1>3, <1>5 DEF UpdatesUnderway
  <2>4. HonestAnswer(r)
    BY <1>3, <1>4, <2>2, <2>3 DEF HonestAnswer
  <2>5. UpdatesListed(r)
    BY <2>2 DEF UpdatesListed
  <2> QED
    BY <2>2, <2>4, <2>5 DEF GoodRequest
<1>6. CASE q.mode = "each" /\ q.route \in {"grpc", "mcp"}
  <2>1. r = UpdateAnswered([q EXCEPT !.failed = @ + 1], x)
    BY <1>6 DEF UpdateRefused
  <2>2. /\ r \in UrRequests /\ r.pc = "end" /\ r.answer = x /\ r.landed = q.landed
        /\ r.derived = q.derived /\ r.route = q.route /\ r.updates = q.updates /\ r.todo = q.todo
    <3>1. r = [q EXCEPT !.failed = q.failed + 1, !.pc = "end", !.answer = x]
      BY <2>1 DEF UpdateAnswered, UrRequests
    <3>2. r \in UrRequests
      BY <1>0, <3>1 DEF UrRequests
    <3> QED
      BY <3>1, <3>2 DEF UrRequests
  <2>3. q.landed = {}
    <3>1. q.pos = 1
      BY <1>1, <1>3, <1>6, SingleUpdate
    <3>2. 1 .. q.pos - 1 = {}
      BY <3>1
    <3> QED
      BY <1>3, <3>2 DEF UpdatesUnderway
  <2>4. HonestAnswer(r)
    BY <1>3, <2>2, <2>3 DEF HonestAnswer
  <2>5. UpdatesListed(r)
    BY <2>2 DEF UpdatesListed
  <2> QED
    BY <2>2, <2>4, <2>5 DEF GoodRequest
<1>7. CASE q.mode = "each" /\ q.route \notin {"grpc", "mcp"} /\ ItemLast(q)
  <2>1. r = UpdateAnswered([q EXCEPT !.failed = @ + 1], "done")
    BY <1>7 DEF UpdateRefused
  <2>2. /\ r \in UrRequests /\ r.pc = "end" /\ r.answer = "done" /\ r.landed = q.landed
        /\ r.derived = q.derived /\ r.route = q.route /\ r.updates = q.updates /\ r.todo = q.todo
        /\ r.counted = q.counted /\ r.failed = q.failed + 1
    <3>1. r = [q EXCEPT !.failed = q.failed + 1, !.pc = "end", !.answer = "done"]
      BY <2>1 DEF UpdateAnswered, UrRequests
    <3>2. r \in UrRequests
      BY <1>0, <3>1 DEF UrRequests
    <3> QED
      BY <3>1, <3>2 DEF UrRequests
  <2>3. q.counted = Cardinality(q.landed) /\ q.counted + (q.failed + 1) = Len(q.updates)
    <3>1. q.counted + q.failed + (Len(q.todo) - q.pos + 1) = Len(q.updates)
      BY <1>7 DEF UpdatesUnderway
    <3>2. q.pos = Len(q.todo) /\ q.counted = Cardinality(q.landed)
      BY <1>3, <1>7 DEF UpdatesUnderway, ItemLast
    <3> QED
      BY <1>1, <1>2, <3>1, <3>2
  <2>4. HonestAnswer(r)
    BY <1>3, <1>4, <2>2, <2>3 DEF HonestAnswer
  <2>5. UpdatesListed(r)
    BY <2>2 DEF UpdatesListed
  <2> QED
    BY <2>2, <2>4, <2>5 DEF GoodRequest
<1>8. CASE q.mode = "each" /\ q.route \notin {"grpc", "mcp"} /\ ~ItemLast(q)
  <2>1. r = [q EXCEPT !.pos = @ + 1, !.pc = "check", !.failed = @ + 1]
    BY <1>8 DEF UpdateRefused
  <2>2. /\ r \in UrRequests /\ r.pc = "check" /\ r.mode = "each" /\ r.landed = q.landed
        /\ r.derived = q.derived /\ r.route = q.route /\ r.updates = q.updates /\ r.todo = q.todo
        /\ r.counted = q.counted /\ r.failed = q.failed + 1 /\ r.pos = q.pos + 1
        /\ r.checked = q.checked
    <3>1. r = [q EXCEPT !.pos = q.pos + 1, !.pc = "check", !.failed = q.failed + 1]
      BY <2>1 DEF UrRequests
    <3>2. r \in UrRequests
      BY <1>0, <3>1 DEF UrRequests
    <3> QED
      BY <1>8, <3>1, <3>2 DEF UrRequests
  <2>3. UpdatesListed(r)
    BY <2>2 DEF UpdatesListed
  <2>4. r.pos \in 1 .. Len(r.todo) /\ r.checked < r.pos
    BY <1>1, <1>3, <1>8, <2>2, SMTT(30) DEF UpdatesUnderway, ItemLast
  <2>5. r.counted + r.failed + (Len(r.todo) - r.pos + 1) = Len(r.updates)
    <3>1. q.counted + q.failed + (Len(q.todo) - q.pos + 1) = Len(q.updates)
      BY <1>8 DEF UpdatesUnderway
    <3>2. PICK a \in Nat, b \in Nat, c \in Nat, p \in Nat :
             a = q.counted /\ b = q.failed /\ c = Len(q.todo) /\ p = q.pos
      BY <1>1
    <3>3. a + (b + 1) + (c - (p + 1) + 1) = a + b + (c - p + 1)
      OBVIOUS
    <3>4. q.counted + (q.failed + 1) + (Len(q.todo) - (q.pos + 1) + 1) = Len(q.updates)
      BY <3>1, <3>2, <3>3
    <3> QED
      BY <2>2, <3>4
  <2>6. r.derived \subseteq {r.todo[k] : k \in 1 .. r.pos - 1}
    <3>1. \A k \in 1 .. q.pos - 1 : k \in 1 .. r.pos - 1
      BY <1>1, <2>2
    <3> QED
      BY <2>2, <3>1 DEF UpdatesUnderway
  <2>7. UpdatesUnderway(r)
    BY <1>3, <2>2, <2>4, <2>5, <2>6 DEF UpdatesUnderway
  <2> QED
    BY <2>2, <2>3, <2>7 DEF GoodRequest, HonestAnswer
<1> QED
  BY <1>1, <1>5, <1>6, <1>7, <1>8

\* An update that was written is handed on, and the next one is due.
LEMMA SubmittedKeeps ==
    ASSUME NEW q \in UrRequests, UpdatesListed(q), q.pc \in {"write", "durable"},
           q.pos \in 1 .. Len(q.todo), q.counted = Cardinality(q.derived),
           q.derived \subseteq {q.todo[k] : k \in 1 .. q.pos - 1},
           q.landed = q.derived \cup {q.todo[q.pos]},
           \A i \in q.landed : Sound(q.updates[i]),
           q.counted + q.failed + (Len(q.todo) - q.pos + 1) = Len(q.updates),
           q.mode = "each" => q.checked = q.pos,
           q.mode = "batch" =>
              /\ q.failed = 0 /\ Len(q.todo) = Len(q.updates) /\ q.checked = Len(q.todo)
              /\ \A k \in 1 .. q.checked : Sound(q.updates[q.todo[k]]),
           NEW r, r = Submitted(q)
    PROVE  GoodRequest(r)
<1>1. /\ q.todo \in Seq(UrPositions) /\ Len(q.todo) \in Nat /\ DOMAIN q.todo = 1 .. Len(q.todo)
      /\ q.pos \in Nat /\ q.failed \in Nat /\ q.counted \in Nat /\ q.checked \in Nat
      /\ q.mode \in {"each", "batch"} /\ q.derived \in UrSets
  BY DEF UrRequests, UrLists, UrModes
<1>2. Len(q.updates) \in Nat
  BY UpdateRequestAssumption DEF UrRequests, UpdateSeqs
<1>3. PICK item : item = q.todo[q.pos]
  OBVIOUS
<1>4. item \in UrPositions
  BY <1>1, <1>3
<1>5. PICK derived : derived = q.derived \cup {item}
  OBVIOUS
<1>6. derived \in UrSets /\ derived = q.landed
  BY <1>1, <1>3, <1>4, <1>5 DEF UrSets
<1>7. item \notin q.derived
  <2>1. ASSUME NEW k \in 1 .. q.pos - 1 PROVE q.todo[k] # item
    <3>1. k \in DOMAIN q.todo /\ q.pos \in DOMAIN q.todo /\ k < q.pos
      BY <1>1
    <3>2. q.todo[k] < q.todo[q.pos]
      BY <3>1 DEF UpdatesListed
    <3>3. q.todo[k] \in UrPositions /\ q.todo[k] \in Int
      <4>1. q.todo[k] \in UrPositions
        BY <1>1, <3>1
      <4> QED
        BY <4>1, UpdateRequestAssumption DEF UrPositions
    <3> QED
      BY <1>3, <3>2, <3>3
  <2> QED
    BY <2>1
<1>8. Cardinality(derived) = q.counted + 1
  <2>1. IsFiniteSet(1 .. MaxBatch)
    BY UpdateRequestAssumption, FS_Interval
  <2>2. IsFiniteSet(q.derived)
    BY <1>1, <2>1, FS_Subset DEF UrSets, UrPositions
  <2>3. Cardinality(q.derived \cup {item}) = Cardinality(q.derived) + 1
    BY <1>7, <2>2, FS_AddElement
  <2> QED
    BY <1>5, <2>3
<1>9. PICK count \in Nat : count = q.counted + 1
  BY <1>1
<1>10. \A i \in derived : \E k \in DOMAIN q.todo : i = q.todo[k]
  <2>1. q.pos \in DOMAIN q.todo /\ \A k \in 1 .. q.pos - 1 : k \in DOMAIN q.todo
    BY <1>1
  <2> QED
    BY <1>3, <1>5, <2>1
<1>11. \A i \in derived : q.updates[i] \in {"refs", "good"} \cup
              (IF q.route \in {"grpc", "grpcBulk"} THEN {"kind", "code"} ELSE {})
  BY <1>6, <1>10, ListedKinds
<1>12. r = NextItem([q EXCEPT !.counted = count, !.derived = derived])
  BY <1>3, <1>5, <1>9 DEF Submitted, ItemAt, UrRequests
<1>13. PICK p : p = [q EXCEPT !.counted = count, !.derived = derived]
  OBVIOUS
<1>14. /\ p.pos = q.pos /\ p.todo = q.todo /\ p.checked = q.checked
       /\ p.route = q.route /\ p.updates = q.updates /\ p.mode = q.mode
       /\ p.landed = q.landed /\ p.failed = q.failed /\ p.derived = derived /\ p.counted = count
  BY <1>13 DEF UrRequests
<1>15. p \in UrRequests
  BY <1>6, <1>13 DEF UrRequests
<1>16. UpdatesListed(p)
  BY <1>14 DEF UpdatesListed
<1>17. CASE ItemLast(p)
  <2>1. r = UpdateAnswered(p, "done")
    BY <1>12, <1>13, <1>17 DEF NextItem
  <2>2. "end" \in UrStages /\ "done" \in UrAnswers
    BY DEF UrStages, UrAnswers
  <2>3. r = [p EXCEPT !.pc = "end", !.answer = "done"]
    BY <2>1 DEF UpdateAnswered
  <2>4. /\ r.pc = "end" /\ r.answer = "done" /\ r.landed = p.landed /\ r.derived = p.derived
        /\ r.route = p.route /\ r.updates = p.updates /\ r.todo = p.todo
        /\ r.counted = p.counted /\ r.failed = p.failed
    BY <1>15, <2>3 DEF UrRequests
  <2>5. r \in UrRequests
    BY <1>15, <2>2, <2>3 DEF UrRequests
  <2>6. q.pos = Len(q.todo)
    BY <1>14, <1>17 DEF ItemLast
  <2>7. count + q.failed = Len(q.updates)
    BY <1>1, <1>2, <1>9, <2>6
  <2>8. HonestAnswer(r)
    BY <1>6, <1>8, <1>9, <1>11, <1>14, <2>4, <2>7 DEF HonestAnswer
  <2>9. UpdatesListed(r)
    BY <1>16, <2>4 DEF UpdatesListed
  <2> QED
    BY <2>4, <2>5, <2>8, <2>9 DEF GoodRequest
<1>18. CASE ~ItemLast(p)
  <2>1. q.pos + 1 \in 1 .. Len(q.todo) /\ q.pos + 1 \in Nat
    BY <1>1, <1>14, <1>18, SMTT(30) DEF ItemLast
  <2>2. PICK stage \in {"write", "check"} : stage = IF q.checked > q.pos THEN "write" ELSE "check"
    OBVIOUS
  <2>3. stage \in UrStages
    BY <2>2 DEF UrStages
  <2>4. PICK pos \in Nat : pos = q.pos + 1
    BY <2>1
  <2>5. r = [p EXCEPT !.pos = pos, !.pc = stage]
    BY <1>12, <1>13, <1>14, <1>18, <2>2, <2>4 DEF NextItem
  <2>6. /\ r.pc = stage /\ r.pos = pos /\ r.landed = p.landed /\ r.derived = p.derived
        /\ r.route = p.route /\ r.updates = p.updates /\ r.todo = p.todo /\ r.mode = p.mode
        /\ r.counted = p.counted /\ r.failed = p.failed /\ r.checked = p.checked
    BY <1>15, <2>5 DEF UrRequests
  <2>7. r \in UrRequests
    BY <1>15, <2>3, <2>5 DEF UrRequests
  <2>8. UpdatesListed(r)
    BY <1>16, <2>6 DEF UpdatesListed
  <2>9. /\ q.mode = "each" => stage = "check"
        /\ q.mode = "batch" => stage = "write"
    BY <1>1, <2>1, <2>2
  <2>10. r.derived \subseteq {r.todo[k] : k \in 1 .. r.pos - 1}
    <3>1. \A k \in 1 .. q.pos - 1 : k \in 1 .. pos - 1
      BY <1>1, <2>4
    <3>2. q.pos \in 1 .. pos - 1
      BY <1>1, <2>4
    <3> QED
      BY <1>3, <1>5, <1>14, <2>6, <3>1, <3>2
  <2>11. r.counted + r.failed + (Len(r.todo) - r.pos + 1) = Len(r.updates)
    <3>0. PICK a \in Nat, b \in Nat, c \in Nat, p0 \in Nat :
             a = q.counted /\ b = q.failed /\ c = Len(q.todo) /\ p0 = q.pos
      BY <1>1
    <3>a. (a + 1) + b + (c - (p0 + 1) + 1) = a + b + (c - p0 + 1)
      OBVIOUS
    <3>1. count + q.failed + (Len(q.todo) - pos + 1) = Len(q.updates)
      BY <1>9, <2>4, <3>0, <3>a
    <3> QED
      BY <1>14, <2>6, <3>1
  <2>12. r.pos \in 1 .. Len(r.todo) /\ r.counted = Cardinality(r.derived) /\ r.landed = r.derived
    BY <1>6, <1>8, <1>9, <1>14, <2>1, <2>4, <2>6
  <2>13. r.mode = "each" => r.pc = "check" /\ r.checked < r.pos
    BY <1>1, <1>14, <2>4, <2>6, <2>9
  <2>14. r.mode = "batch" =>
           /\ r.failed = 0 /\ Len(r.todo) = Len(r.updates) /\ r.pc = "write"
           /\ r.checked = Len(r.todo) /\ \A k \in 1 .. r.checked : Sound(r.updates[r.todo[k]])
    BY <1>14, <2>6, <2>9
  <2>15. \A i \in r.landed : Sound(r.updates[i])
    BY <1>14, <2>6
  <2>16. r.pc \in {"write", "check"}
    BY <2>2, <2>6
  <2>17. UpdatesUnderway(r)
    BY <2>10, <2>11, <2>12, <2>13, <2>14, <2>15, <2>16 DEF UpdatesUnderway
  <2> QED
    BY <2>7, <2>8, <2>16, <2>17 DEF GoodRequest, HonestAnswer
<1> QED
  BY <1>17, <1>18

\* A check is passed.
LEMMA PassedKeeps ==
    ASSUME NEW q \in UrRequests, UpdatesListed(q), UpdatesUnderway(q), q.pc = "check",
           Sound(q.updates[q.todo[q.pos]]), NEW r, r = AfterCheck(q)
    PROVE  GoodRequest(r)
<1>1. /\ Len(q.todo) \in Nat /\ DOMAIN q.todo = 1 .. Len(q.todo)
      /\ q.pos \in Nat /\ q.checked \in Nat /\ q.failed \in Nat /\ q.counted \in Nat
      /\ q.mode \in {"each", "batch"}
  BY DEF UrRequests, UrLists, UrModes
<1>2. q.pos \in 1 .. Len(q.todo) /\ q.landed = q.derived
  BY DEF UpdatesUnderway
<1>3. "check" \in UrStages /\ "write" \in UrStages /\ q.pos + 1 \in Nat /\ 1 \in Nat
  BY <1>1 DEF UrStages
<1>4. CASE q.mode = "batch" /\ ~ItemLast(q)
  <2>1. r = [q EXCEPT !.checked = q.pos, !.pos = q.pos + 1]
    BY <1>4 DEF AfterCheck, UrRequests
  <2>2. r \in UrRequests
    BY <1>1, <1>3, <2>1 DEF UrRequests
  <2>3. /\ r.pc = "check" /\ r.pos = q.pos + 1 /\ r.landed = q.landed /\ r.derived = q.derived
        /\ r.route = q.route /\ r.updates = q.updates /\ r.todo = q.todo /\ r.mode = "batch"
        /\ r.counted = q.counted /\ r.failed = q.failed /\ r.checked = q.pos
    BY <1>4, <2>1 DEF UrRequests
  <2>4. UpdatesListed(r)
    BY <2>3 DEF UpdatesListed
  <2>5. r.pos \in 1 .. Len(r.todo) /\ r.checked = r.pos - 1
    BY <1>1, <1>2, <1>4, <2>3 DEF ItemLast
  <2>6. \A k \in 1 .. r.checked : Sound(r.updates[r.todo[k]])
    <3>1. \A k \in 1 .. q.pos : k = q.pos \/ k \in 1 .. q.pos - 1
      BY <1>1
    <3>2. \A k \in 1 .. q.pos - 1 : Sound(q.updates[q.todo[k]])
      BY <1>4 DEF UpdatesUnderway
    <3> QED
      BY <2>3, <3>1, <3>2
  <2>7. /\ q.derived = {} /\ q.failed = 0 /\ Len(q.todo) = Len(q.updates)
        /\ q.counted = Cardinality(q.derived) /\ \A i \in q.landed : Sound(q.updates[i])
    BY <1>4 DEF UpdatesUnderway
  <2>8. UpdatesUnderway(r)
    BY <1>2, <2>3, <2>5, <2>6, <2>7 DEF UpdatesUnderway
  <2> QED
    BY <2>2, <2>3, <2>4, <2>8 DEF GoodRequest, HonestAnswer
<1>5. CASE q.mode = "batch" /\ ItemLast(q)
  <2>1. r = [q EXCEPT !.checked = q.pos, !.pos = 1, !.pc = "write"]
    BY <1>5 DEF AfterCheck, UrRequests
  <2>2. r \in UrRequests
    BY <1>1, <1>3, <2>1 DEF UrRequests
  <2>3. /\ r.pc = "write" /\ r.pos = 1 /\ r.landed = q.landed /\ r.derived = q.derived
        /\ r.route = q.route /\ r.updates = q.updates /\ r.todo = q.todo /\ r.mode = "batch"
        /\ r.counted = q.counted /\ r.failed = q.failed /\ r.checked = q.pos
    BY <1>5, <2>1 DEF UrRequests
  <2>4. UpdatesListed(r)
    BY <2>3 DEF UpdatesListed
  <2>5. r.pos \in 1 .. Len(r.todo) /\ r.checked = Len(r.todo)
    BY <1>1, <1>2, <1>5, <2>3 DEF ItemLast
  <2>6. \A k \in 1 .. r.checked : Sound(r.updates[r.todo[k]])
    <3>1. \A k \in 1 .. q.pos : k = q.pos \/ k \in 1 .. q.pos - 1
      BY <1>1
    <3>2. \A k \in 1 .. q.pos - 1 : Sound(q.updates[q.todo[k]])
      BY <1>5 DEF UpdatesUnderway
    <3> QED
      BY <2>3, <3>1, <3>2
  <2>7. /\ q.derived = {} /\ q.failed = 0 /\ Len(q.todo) = Len(q.updates)
        /\ q.counted = Cardinality(q.derived) /\ \A i \in q.landed : Sound(q.updates[i])
    BY <1>5 DEF UpdatesUnderway
  <2>8. r.counted + r.failed + (Len(r.todo) - r.pos + 1) = Len(r.updates)
    <3>1. q.counted = 0
      BY <2>7, FS_EmptySet
    <3> QED
      BY <1>1, <2>3, <2>7, <3>1
  <2>9. UpdatesUnderway(r)
    BY <1>2, <2>3, <2>5, <2>6, <2>7, <2>8 DEF UpdatesUnderway
  <2> QED
    BY <2>2, <2>3, <2>4, <2>9 DEF GoodRequest, HonestAnswer
<1>6. CASE q.mode = "each"
  <2>1. r = [q EXCEPT !.checked = q.pos, !.pc = "write"]
    BY <1>6 DEF AfterCheck, UrRequests
  <2>2. r \in UrRequests
    BY <1>1, <1>3, <2>1 DEF UrRequests
  <2>3. /\ r.pc = "write" /\ r.pos = q.pos /\ r.landed = q.landed /\ r.derived = q.derived
        /\ r.route = q.route /\ r.updates = q.updates /\ r.todo = q.todo /\ r.mode = "each"
        /\ r.counted = q.counted /\ r.failed = q.failed /\ r.checked = q.pos
    BY <1>6, <2>1 DEF UrRequests
  <2>4. UpdatesListed(r)
    BY <2>3 DEF UpdatesListed
  <2>5. /\ q.counted = Cardinality(q.derived) /\ \A i \in q.landed : Sound(q.updates[i])
        /\ q.derived \subseteq {q.todo[k] : k \in 1 .. q.pos - 1}
        /\ q.counted + q.failed + (Len(q.todo) - q.pos + 1) = Len(q.updates)
    BY <1>6 DEF UpdatesUnderway
  <2>6. UpdatesUnderway(r)
    BY <1>2, <2>3, <2>5 DEF UpdatesUnderway
  <2> QED
    BY <2>2, <2>3, <2>4, <2>6 DEF GoodRequest, HonestAnswer
<1> QED
  BY <1>1, <1>4, <1>5, <1>6

\* A request that is answered before it reaches the service.
LEMMA AnsweredAtOnce ==
    ASSUME NEW route \in UrRoutes, NEW updates \in UpdateSeqs, NEW dry \in BOOLEAN,
           route \in {"grpc", "mcp"} => Len(updates) = 1,
           NEW mode \in UrModes, NEW f \in Nat, NEW x \in UrAnswers, x = "done" => f = Len(updates),
           NEW r, r = [route |-> route, updates |-> updates, dry |-> dry,
                       pc |-> "end", mode |-> mode, todo |-> <<>>, pos |-> 1, checked |-> 0,
                       landed |-> {}, derived |-> {}, lost |-> {}, failed |-> f,
                       counted |-> 0, answer |-> x]
    PROVE  GoodRequest(r)
<1>1. /\ "end" \in UrStages /\ <<>> \in UrLists /\ {} \in UrSets /\ 0 \in Nat /\ 1 \in Nat
  BY DEF UrStages, UrLists, UrSets
<1>2. r \in UrRequests
  BY <1>1 DEF UrRequests
<1>3. UpdatesListed(r)
  BY DEF UpdatesListed
<1>4. f \in Nat /\ 0 + f = f
  OBVIOUS
<1>5. HonestAnswer(r)
  BY <1>4, FS_EmptySet DEF HonestAnswer
<1> QED
  BY <1>2, <1>3, <1>5 DEF GoodRequest

\* A request that goes on to the service.
LEMMA GoesToService ==
    ASSUME NEW route \in UrRoutes, NEW updates \in UpdateSeqs, NEW dry \in BOOLEAN,
           route \in {"grpc", "mcp"} => Len(updates) = 1,
           NEW mode \in UrModes, NEW f \in Nat, NEW todo \in UrLists, todo # <<>>,
           Len(todo) + f = Len(updates), mode = "batch" => f = 0,
           \A j, k \in DOMAIN todo : j < k => todo[j] < todo[k],
           \A k \in DOMAIN todo :
              /\ todo[k] \in DOMAIN updates
              /\ updates[todo[k]] \notin {"meta", "relation"}
              /\ route \in {"mcp", "mcpBulk"} => updates[todo[k]] \notin {"code", "kind"},
           NEW r, r = [route |-> route, updates |-> updates, dry |-> dry,
                       pc |-> "check", mode |-> mode, todo |-> todo, pos |-> 1, checked |-> 0,
                       landed |-> {}, derived |-> {}, lost |-> {}, failed |-> f,
                       counted |-> 0, answer |-> "none"]
    PROVE  GoodRequest(r)
<1>1. /\ "check" \in UrStages /\ "none" \in UrAnswers /\ {} \in UrSets /\ 0 \in Nat /\ 1 \in Nat
  BY DEF UrStages, UrAnswers, UrSets
<1>2. r \in UrRequests
  BY <1>1 DEF UrRequests
<1>3. UpdatesListed(r)
  BY DEF UpdatesListed
<1>4. Len(todo) \in Nat /\ Len(todo) # 0 /\ Len(updates) \in Nat
  BY UpdateRequestAssumption DEF UrLists, UpdateSeqs
<1>5. 1 \in 1 .. Len(todo) /\ 0 + f + (Len(todo) - 1 + 1) = Len(updates) /\ 0 < 1 /\ 0 = 1 - 1
  BY <1>4
<1>6. mode = "batch" => Len(todo) = Len(updates)
  BY <1>4
<1>7. \A k \in 1 .. 0 : FALSE
  OBVIOUS
<1>8. mode \in {"each", "batch"}
  BY DEF UrModes
<1>9. UpdatesUnderway(r)
  BY <1>5, <1>6, <1>7, <1>8, FS_EmptySet DEF UpdatesUnderway
<1> QED
  BY <1>2, <1>3, <1>9 DEF GoodRequest, HonestAnswer

\* A client sends a request.
LEMMA SentKeeps ==
    ASSUME NEW route \in {"grpc", "grpcBulk", "mcp", "mcpBulk"}, NEW updates \in UpdateSeqs,
           NEW dry \in BOOLEAN, SendUpdate(route, updates, dry)
    PROVE  GoodRequest(urReq')
<1> DEFINE RequestAt(stage, mode, todo, f, x) ==
             [route |-> route, updates |-> updates, dry |-> dry,
              pc |-> stage, mode |-> mode, todo |-> todo, pos |-> 1, checked |-> 0,
              landed |-> {}, derived |-> {}, lost |-> {}, failed |-> f,
              counted |-> 0, answer |-> x]
<1>1. PICK req : req = RequestAt("start", "each", <<>>, 0, "none")
  OBVIOUS
<1>2. /\ route \in {"grpc", "mcp"} => Len(updates) = 1
      /\ urReq' = IF route \in {"grpc", "grpcBulk"} THEN GrpcRequest(req) ELSE McpRequest(req)
  BY <1>1 DEF SendUpdate
<1>3. PICK n \in 1 .. MaxBatch : updates \in [1 .. n -> UpdateKinds]
  BY DEF UpdateSeqs
<1>4. n \in Nat /\ Len(updates) = n /\ DOMAIN updates = 1 .. n /\ updates \in Seq(UpdateKinds)
  BY <1>3, UpdateRequestAssumption
<1>5. /\ "each" \in UrModes /\ "batch" \in UrModes /\ route \in UrRoutes
      /\ "invalid" \in UrAnswers /\ "dry" \in UrAnswers /\ "notfound" \in UrAnswers
      /\ "done" \in UrAnswers /\ 0 \in Nat
  BY DEF UrModes, UrRoutes, UrAnswers
<1>6. ASSUME NEW x \in {"invalid", "dry", "notfound"}, urReq' = UpdateAnswered(req, x)
      PROVE  GoodRequest(urReq')
  <2>1. urReq' = RequestAt("end", "each", <<>>, 0, x)
    BY <1>1, <1>6 DEF UpdateAnswered
  <2>2. x \in UrAnswers /\ x # "done"
    BY <1>6 DEF UrAnswers
  <2> QED
    BY <1>2, <1>5, <2>1, <2>2, AnsweredAtOnce
<1>7. ASSUME NEW S \in SUBSET (1 .. n),
             \A i \in S : /\ updates[i] \notin {"meta", "relation"}
                          /\ route \in {"mcp", "mcpBulk"} => updates[i] \notin {"code", "kind"},
             NEW mode \in UrModes, NEW f, f = n - Len(ChosenUpdates(S)), mode = "batch" => f = 0,
             urReq' = Going([req EXCEPT !.failed = f], ChosenUpdates(S), mode)
      PROVE  GoodRequest(urReq')
  <2>1. PICK s : s = ChosenUpdates(S)
    OBVIOUS
  <2>2. /\ s \in Seq(UrPositions) /\ Len(s) \in 0 .. n /\ \A k \in DOMAIN s : s[k] \in S
        /\ \A j, k \in DOMAIN s : j < k => s[j] < s[k]
    BY <1>3, <1>7, <2>1, ChosenAre
  <2>3. f \in Nat /\ Len(s) + f = n
    BY <1>4, <1>7, <2>1, <2>2
  <2>4. CASE s = <<>>
    <3>1. f = n
      BY <2>3, <2>4
    <3>2. urReq' = UpdateAnswered([req EXCEPT !.failed = f], "done")
      BY <1>7, <2>1, <2>4 DEF Going
    <3>3. urReq' = RequestAt("end", "each", <<>>, f, "done")
      BY <1>1, <3>2 DEF UpdateAnswered
    <3>4. PICK r : r = RequestAt("end", "each", <<>>, f, "done")
      OBVIOUS
    <3>5. f \in Nat /\ f = Len(updates)
      BY <1>4, <2>3, <3>1
    <3>6. GoodRequest(r)
      BY <1>2, <1>5, <3>4, <3>5, AnsweredAtOnce
    <3> QED
      BY <3>3, <3>4, <3>6
  <2>5. CASE s # <<>>
    <3>1. urReq' = [[req EXCEPT !.failed = f] EXCEPT !.pc = "check", !.todo = s, !.mode = mode]
      BY <1>7, <2>1, <2>5 DEF Going
    <3>2. urReq' = RequestAt("check", mode, s, f, "none")
      BY <1>1, <3>1
    <3>3. s \in UrLists
      BY <2>2 DEF UrLists
    <3>4. \A k \in DOMAIN s :
              /\ s[k] \in DOMAIN updates
              /\ updates[s[k]] \notin {"meta", "relation"}
              /\ route \in {"mcp", "mcpBulk"} => updates[s[k]] \notin {"code", "kind"}
      BY <1>4, <1>7, <2>2
    <3>5. \A j, k \in DOMAIN s : j < k => s[j] < s[k]
      BY <2>2
    <3>6. PICK r : r = RequestAt("check", mode, s, f, "none")
      OBVIOUS
    <3>7. Len(s) + f = Len(updates) /\ f \in Nat /\ mode \in UrModes /\ (mode = "batch" => f = 0)
      BY <1>4, <1>7, <2>3
    <3>8. GoodRequest(r)
      BY <1>2, <1>5, <2>5, <3>3, <3>4, <3>5, <3>6, <3>7, GoesToService
    <3> QED
      BY <3>2, <3>6, <3>8
  <2> QED
    BY <2>4, <2>5
<1>8. req.updates = updates /\ req.route = route /\ req.dry = dry
  BY <1>1
<1>9. CASE route \in {"grpc", "grpcBulk"}
  <2> DEFINE S == {i \in DOMAIN updates : GrpcTranslates(updates[i])}
  <2>1. urReq' = GrpcRequest(req)
    BY <1>2, <1>9
  <2>2. CASE route = "grpc" /\ ChosenUpdates(S) = <<>>
    BY <1>6, <1>8, <2>1, <2>2 DEF GrpcRequest
  <2>3. CASE ~(route = "grpc" /\ ChosenUpdates(S) = <<>>)
    <3>1. urReq' = Going([req EXCEPT !.failed = n - Len(ChosenUpdates(S))], ChosenUpdates(S), "each")
      BY <1>4, <1>8, <2>1, <2>3 DEF GrpcRequest
    <3>2. S \in SUBSET (1 .. n)
      BY <1>4
    <3>3. \A i \in S : updates[i] \notin {"meta", "relation"} /\ route \notin {"mcp", "mcpBulk"}
      BY <1>9 DEF GrpcTranslates, MetaParses, RelationsKnown
    <3> HIDE DEF S
    <3> QED
      BY <1>5, <1>7, <3>1, <3>2, <3>3
  <2> QED
    BY <2>2, <2>3
<1>10. CASE route \in {"mcp", "mcpBulk"}
  <2> DEFINE S == {i \in DOMAIN updates : McpTranslates(updates[i])}
             formed == \A i \in DOMAIN updates : McpWellFormed(updates[i])
  <2>1. urReq' = McpRequest(req)
    BY <1>2, <1>10
  <2>2. CASE ~formed
    BY <1>6, <1>8, <2>1, <2>2 DEF McpRequest
  <2>3. CASE formed /\ dry
    <3>1. urReq' = DryRun(req)
      BY <1>8, <2>1, <2>3 DEF McpRequest
    <3>2. urReq' = UpdateAnswered(req, "invalid") \/ urReq' = UpdateAnswered(req, "dry")
          \/ urReq' = UpdateAnswered(req, "notfound")
      BY <3>1 DEF DryRun
    <3> QED
      BY <1>6, <3>2
  <2>4. CASE formed /\ ~dry /\ route = "mcp" /\ ChosenUpdates(S) = <<>>
    BY <1>6, <1>8, <2>1, <2>4 DEF McpRequest
  <2>5. CASE formed /\ ~dry /\ ~(route = "mcp" /\ ChosenUpdates(S) = <<>>)
    <3>0. PICK f : f = n - Len(ChosenUpdates(S))
      OBVIOUS
    <3>a. PICK mode \in {"each", "batch"} : mode = IF route = "mcpBulk" /\ f = 0 THEN "batch" ELSE "each"
      OBVIOUS
    <3>b. [req EXCEPT !.failed = f].failed = f
      BY <1>1
    <3>1. urReq' = Going([req EXCEPT !.failed = f], ChosenUpdates(S), mode)
      BY <1>4, <1>8, <2>1, <2>5, <3>0, <3>a, <3>b DEF McpRequest
    <3>2. S \in SUBSET (1 .. n)
      BY <1>4
    <3>3. \A i \in S : updates[i] \notin {"meta", "relation", "code", "kind"}
      BY <2>5 DEF McpTranslates, McpWellFormed, MetaParses, CodeReferenceValid, InteractionKnown,
                  RelationsKnown
    <3>4. mode \in UrModes /\ (mode = "batch" => f = 0)
      BY <3>a DEF UrModes
    <3> HIDE DEF S
    <3> QED
      BY <1>7, <3>0, <3>1, <3>2, <3>3, <3>4
  <2> QED
    BY <2>2, <2>3, <2>4, <2>5
<1> QED
  BY <1>9, <1>10

\* The invariant, of the request.
LEMMA UpdateInvIs == UpdateInv <=> urReq = NotSent \/ GoodRequest(urReq)
  BY DEF UpdateInv, GoodRequest, HonestAnswer, AnswersHonest, RejectedUntouched, AnswerAccounts,
         UrRequests, NotSent

\* Every step preserves the invariant.
LEMMA UpdateStepInv ==
    ASSUME UpdateInv, [UpdateNext]_updateVars
    PROVE  UpdateInv'
<1> SUFFICES urReq' = NotSent \/ GoodRequest(urReq')
  BY UpdateInvIs DEF UpdateInv, GoodRequest, HonestAnswer, AnswersHonest, RejectedUntouched,
                     AnswerAccounts, UrRequests, NotSent
<1>0. urReq = NotSent \/ GoodRequest(urReq)
  BY UpdateInvIs
<1>1. NotSent.pc = "none"
  BY DEF NotSent
<1>2. CASE urReq' = urReq
  BY <1>0, <1>2
<1>3. ASSUME urReq.pc \in {"check", "write", "durable"}
      PROVE  urReq \in UrRequests /\ UpdatesListed(urReq) /\ UpdatesUnderway(urReq)
  BY <1>0, <1>1, <1>3 DEF GoodRequest
<1>4. CASE \E route \in {"grpc", "grpcBulk", "mcp", "mcpBulk"},
              updates \in UpdateSeqs, dry \in BOOLEAN : SendUpdate(route, updates, dry)
  BY <1>4, SentKeeps
<1>5. CASE (\E refusal \in {"invalid", "notfound"} : RefuseUpdate(refusal)) \/ CheckFails
  <2>1. PICK x \in {"invalid", "notfound", "internal"} :
          urReq.pc = "check" /\ urReq' = UpdateRefused(urReq, x)
    BY <1>5 DEF RefuseUpdate, CheckFails
  <2> QED
    BY <1>3, <2>1, RefusedKeeps
<1>6. CASE PassCheck
  <2>1. /\ urReq.pc = "check" /\ Refusals(urReq.updates[urReq.todo[urReq.pos]]) = {}
        /\ urReq' = AfterCheck(urReq)
    BY <1>6 DEF PassCheck, ItemAt
  <2>2. Sound(urReq.updates[urReq.todo[urReq.pos]])
    BY <2>1 DEF Refusals
  <2> QED
    BY <1>3, <2>1, <2>2, PassedKeeps
<1>7. CASE CommitUpdate
  <2>0. urReq.pc = "write"
    BY <1>7 DEF CommitUpdate
  <2>1. urReq \in UrRequests /\ UpdatesListed(urReq) /\ UpdatesUnderway(urReq)
    BY <1>3, <2>0
  <2>2. PICK item : item = urReq.todo[urReq.pos]
    OBVIOUS
  <2>3. PICK q : q = [urReq EXCEPT !.landed = urReq.landed \cup {item}]
    OBVIOUS
  <2>4. /\ Len(urReq.todo) \in Nat /\ DOMAIN urReq.todo = 1 .. Len(urReq.todo)
        /\ urReq.todo \in Seq(UrPositions) /\ urReq.mode \in {"each", "batch"}
    BY <2>1 DEF UrRequests, UrLists, UrModes
  <2>5. urReq.pos \in 1 .. Len(urReq.todo)
    BY <2>1 DEF UpdatesUnderway
  <2>6. item \in UrPositions
    BY <2>2, <2>4, <2>5
  <2>7. urReq.landed \cup {item} \in UrSets
    BY <2>1, <2>6 DEF UrRequests, UrSets
  <2>8. q \in UrRequests
    BY <2>1, <2>3, <2>7 DEF UrRequests
  <2>9. /\ q.pc = "write" /\ q.pos = urReq.pos /\ q.landed = urReq.landed \cup {item}
        /\ q.derived = urReq.derived /\ q.route = urReq.route /\ q.updates = urReq.updates
        /\ q.todo = urReq.todo /\ q.mode = urReq.mode /\ q.counted = urReq.counted
        /\ q.failed = urReq.failed /\ q.checked = urReq.checked
    BY <2>0, <2>1, <2>3 DEF UrRequests
  <2>10. Sound(urReq.updates[item])
    <3>1. CASE urReq.mode = "each"
      BY <2>0, <2>1, <2>2, <3>1 DEF UpdatesUnderway
    <3>2. CASE urReq.mode = "batch"
      BY <2>0, <2>1, <2>2, <2>5, <3>2 DEF UpdatesUnderway
    <3> QED
      BY <2>4, <3>1, <3>2
  <2>11. UpdatesListed(q)
    BY <2>1, <2>9 DEF UpdatesListed
  <2>12. /\ urReq.landed = urReq.derived /\ urReq.counted = Cardinality(urReq.derived)
         /\ urReq.derived \subseteq {urReq.todo[k] : k \in 1 .. urReq.pos - 1}
         /\ \A i \in urReq.landed : Sound(urReq.updates[i])
         /\ urReq.counted + urReq.failed + (Len(urReq.todo) - urReq.pos + 1) = Len(urReq.updates)
         /\ urReq.mode = "each" => urReq.checked = urReq.pos
    BY <2>0, <2>1 DEF UpdatesUnderway
  <2>13. urReq.mode = "batch" =>
            /\ urReq.failed = 0 /\ Len(urReq.todo) = Len(urReq.updates)
            /\ urReq.checked = Len(urReq.todo)
            /\ \A k \in 1 .. urReq.checked : Sound(urReq.updates[urReq.todo[k]])
    BY <2>0, <2>1 DEF UpdatesUnderway
  <2>14. urReq' = IF urReq.mode = "batch" /\ ~ItemLast(urReq) THEN Submitted(q)
                  ELSE [q EXCEPT !.pc = "durable"]
    BY <1>7, <2>2, <2>3 DEF CommitUpdate, ItemAt
  <2>15. CASE urReq.mode = "batch" /\ ~ItemLast(urReq)
    <3>1. urReq' = Submitted(q)
      BY <2>14, <2>15
    <3>2. /\ q.pos \in 1 .. Len(q.todo) /\ q.counted = Cardinality(q.derived)
          /\ q.derived \subseteq {q.todo[k] : k \in 1 .. q.pos - 1}
          /\ q.landed = q.derived \cup {q.todo[q.pos]}
          /\ q.counted + q.failed + (Len(q.todo) - q.pos + 1) = Len(q.updates)
          /\ q.mode = "each" => q.checked = q.pos
      BY <2>2, <2>5, <2>9, <2>12
    <3>3. \A i \in q.landed : Sound(q.updates[i])
      BY <2>9, <2>10, <2>12
    <3>4. q.mode = "batch" =>
              /\ q.failed = 0 /\ Len(q.todo) = Len(q.updates) /\ q.checked = Len(q.todo)
              /\ \A k \in 1 .. q.checked : Sound(q.updates[q.todo[k]])
      BY <2>9, <2>13
    <3> QED
      BY <2>8, <2>9, <2>11, <3>1, <3>2, <3>3, <3>4, SubmittedKeeps
  <2>16. CASE ~(urReq.mode = "batch" /\ ~ItemLast(urReq))
    <3>1. PICK r : r = [q EXCEPT !.pc = "durable"]
      OBVIOUS
    <3>2. urReq' = r
      BY <2>14, <2>16, <3>1
    <3>3. "durable" \in UrStages
      BY DEF UrStages
    <3>4. r \in UrRequests
      BY <2>8, <3>1, <3>3 DEF UrRequests
    <3>5. /\ r.pc = "durable" /\ r.pos = urReq.pos /\ r.landed = urReq.landed \cup {item}
          /\ r.derived = urReq.derived /\ r.route = urReq.route /\ r.updates = urReq.updates
          /\ r.todo = urReq.todo /\ r.mode = urReq.mode /\ r.counted = urReq.counted
          /\ r.failed = urReq.failed /\ r.checked = urReq.checked
      BY <2>8, <2>9, <3>1 DEF UrRequests
    <3>6. UpdatesListed(r)
      BY <2>1, <3>5 DEF UpdatesListed
    <3>7. \A i \in r.landed : Sound(r.updates[i])
      BY <2>10, <2>12, <3>5
    <3>8. UpdatesUnderway(r)
      BY <2>2, <2>4, <2>5, <2>10, <2>12, <2>13, <3>5, <3>7 DEF UpdatesUnderway
    <3> QED
      BY <3>2, <3>4, <3>5, <3>6, <3>8 DEF GoodRequest, HonestAnswer
  <2> QED
    BY <2>15, <2>16
<1>8. CASE CommitUpdateFails
  <2>0. urReq.pc = "write"
    BY <1>8 DEF CommitUpdateFails
  <2>1. urReq \in UrRequests /\ UpdatesListed(urReq) /\ UpdatesUnderway(urReq)
    BY <1>3, <2>0
  <2>2. PICK item : item = urReq.todo[urReq.pos]
    OBVIOUS
  <2>3. PICK q : q = [urReq EXCEPT !.lost = urReq.lost \cup {item}]
    OBVIOUS
  <2>4. item \in UrPositions
    <3>1. urReq.todo \in Seq(UrPositions) /\ urReq.pos \in 1 .. Len(urReq.todo)
      BY <2>1 DEF UrRequests, UrLists, UpdatesUnderway
    <3> QED
      BY <2>2, <3>1
  <2>5. urReq.lost \cup {item} \in UrSets
    BY <2>1, <2>4 DEF UrRequests, UrSets
  <2>6. q \in UrRequests
    BY <2>1, <2>3, <2>5 DEF UrRequests
  <2>7. /\ q.pc = "write" /\ q.pos = urReq.pos /\ q.landed = urReq.landed
        /\ q.derived = urReq.derived /\ q.route = urReq.route /\ q.updates = urReq.updates
        /\ q.todo = urReq.todo /\ q.mode = urReq.mode /\ q.counted = urReq.counted
        /\ q.failed = urReq.failed /\ q.checked = urReq.checked
    BY <2>0, <2>1, <2>3 DEF UrRequests
  <2>8. UpdatesListed(q)
    BY <2>1, <2>7 DEF UpdatesListed
  <2>9. UpdatesUnderway(q)
    BY <2>0, <2>1, <2>7 DEF UpdatesUnderway
  <2>10. urReq' = UpdateRefused(q, "internal")
    BY <1>8, <2>2, <2>3 DEF CommitUpdateFails, ItemAt
  <2> QED
    BY <2>6, <2>7, <2>8, <2>9, <2>10, RefusedKeeps
<1>9. CASE WriteFinished
  <2>0. urReq.pc = "durable" /\ urReq' = Submitted(urReq)
    BY <1>9 DEF WriteFinished
  <2>1. urReq \in UrRequests /\ UpdatesListed(urReq) /\ UpdatesUnderway(urReq)
    BY <1>3, <2>0
  <2>2. /\ urReq.pos \in 1 .. Len(urReq.todo) /\ urReq.counted = Cardinality(urReq.derived)
        /\ urReq.derived \subseteq {urReq.todo[k] : k \in 1 .. urReq.pos - 1}
        /\ urReq.landed = urReq.derived \cup {urReq.todo[urReq.pos]}
        /\ \A i \in urReq.landed : Sound(urReq.updates[i])
        /\ urReq.counted + urReq.failed + (Len(urReq.todo) - urReq.pos + 1) = Len(urReq.updates)
        /\ urReq.mode = "each" => urReq.checked = urReq.pos
    BY <2>0, <2>1 DEF UpdatesUnderway
  <2>3. urReq.mode = "batch" =>
            /\ urReq.failed = 0 /\ Len(urReq.todo) = Len(urReq.updates)
            /\ urReq.checked = Len(urReq.todo)
            /\ \A k \in 1 .. urReq.checked : Sound(urReq.updates[urReq.todo[k]])
    BY <2>0, <2>1 DEF UpdatesUnderway
  <2> QED
    BY <2>0, <2>1, <2>2, <2>3, SubmittedKeeps
<1>10. CASE CancelUpdate
  <2>1. /\ urReq.pc \in {"check", "write", "durable"}
        /\ urReq' = [urReq EXCEPT !.pc = "end", !.answer = "cancelled"]
    BY <1>10 DEF CancelUpdate, UpdateAnswered
  <2>2. urReq \in UrRequests /\ UpdatesListed(urReq)
    BY <1>3, <2>1
  <2>3. "end" \in UrStages /\ "cancelled" \in UrAnswers
    BY DEF UrStages, UrAnswers
  <2>4. urReq' \in UrRequests
    BY <2>1, <2>2, <2>3 DEF UrRequests
  <2>5. /\ urReq'.pc = "end" /\ urReq'.answer = "cancelled" /\ urReq'.todo = urReq.todo
        /\ urReq'.updates = urReq.updates /\ urReq'.route = urReq.route
    BY <2>1, <2>2 DEF UrRequests
  <2>6. UpdatesListed(urReq')
    BY <2>2, <2>5 DEF UpdatesListed
  <2> QED
    BY <2>4, <2>5, <2>6 DEF GoodRequest, HonestAnswer
<1> QED
  BY <1>2, <1>4, <1>5, <1>6, <1>7, <1>8, <1>9, <1>10
  DEF UpdateNext, updateVars, SessionDeleted, ReferentPurged

\* Whatever is deleted or purged meanwhile, whichever step fails and wherever the
\* request is dropped, a refusal means that nothing was written, and a success
\* counts what was written, checked and handed on (update_context,
\* bulk_update_context and their gRPC and MCP handlers).
THEOREM UpdateAnswersHonest == UpdateSpec => []AnswersHonest
<1>1. UpdateInit => UpdateInv
  BY DEF UpdateInit, UpdateInv
<1>2. UpdateInv /\ [UpdateNext]_updateVars => UpdateInv'
  BY UpdateStepInv
<1>3. UpdateInv => AnswersHonest
  BY DEF UpdateInv, AnswersHonest, RejectedUntouched, AnswerAccounts, NotSent
<1> QED
  BY <1>1, <1>2, <1>3, PTL DEF UpdateSpec


(***************************************************************************)
(* The context an agent is given.  Its budget is shared by two loops that  *)
(* take whatever still fits.                                               *)
(***************************************************************************)

\* The sums of the first elements of s.
Sums(s, f) == f[0] = 0 /\ \A n \in 1..Len(s) : f[n] = f[n - 1] + s[n]

LEMMA TotalSums ==
    ASSUME NEW s \in Seq(Nat)
    PROVE  \E f \in [0..Len(s) -> Nat] : Sums(s, f) /\ Total(s) = f[Len(s)]
<1>1. PICK N \in Nat : N = Len(s) /\ s \in [1..N -> Nat]
  BY LenProperties
<1> DEFINE Steps(f) == f = [n \in 0..Len(s) |-> IF n = 0 THEN 0 ELSE f[n - 1] + s[n]]
<1>2. PICK next : next = [x \in (1..N) \X Nat |-> x[2] + s[x[1]]]
  OBVIOUS
<1>3. PICK f : f \in [0..N -> Nat] /\ f[0] = 0 /\ \A n \in 1..N : f[n] = next[<<n, f[n - 1]>>]
  <2>1. ASSUME NEW x \in (1..N) \X Nat PROVE x[2] + s[x[1]] \in Nat
    BY <1>1
  <2>2. next \in [(1..N) \X Nat -> Nat]
    BY <1>2, <2>1
  <2>3. N \in Nat /\ 0 \in Nat
    BY <1>1
  <2>4. \E f : Runs(N, Nat, 0, next, f)
    BY <2>2, <2>3, LoopRuns
  <2> QED
    BY <2>4 DEF Runs
<1>4. ASSUME NEW n \in 1..N PROVE f[n] = f[n - 1] + s[n]
  <2>1. n - 1 \in 0..N
    OBVIOUS
  <2>2. <<n, f[n - 1]>> \in (1..N) \X Nat
    BY <1>3, <2>1
  <2> QED
    BY <1>2, <1>3, <2>2
<1>5. Steps(f)
  BY <1>1, <1>3, <1>4
<1>6. PICK g : Steps(g) /\ Total(s) = g[Len(s)]
  BY <1>5 DEF Total
<1>7. Sums(s, g)
  <2>1. g[0] = 0
    BY <1>1, <1>6
  <2>2. ASSUME NEW n \in 1..N PROVE g[n] = g[n - 1] + s[n]
    <3>1. n \in 0..N /\ n # 0
      OBVIOUS
    <3> QED
      BY <1>1, <1>6, <3>1
  <2> QED
    BY <1>1, <2>1, <2>2 DEF Sums
<1>8. ASSUME NEW n \in 0..N PROVE g[n] = f[n]
  <2> DEFINE Bad == {m \in 0..N : g[m] # f[m]}
  <2> SUFFICES ASSUME Bad # {} PROVE FALSE
    OBVIOUS
  <2>1. PICK m \in Bad : \A k \in Bad : m <= k
    <3>1. Bad \in SUBSET Nat
      OBVIOUS
    <3> HIDE DEF Bad
    <3> QED
      BY <3>1, LeastNat
  <2>2. m # 0
    BY <1>1, <1>3, <1>6, <2>1
  <2>3. m \in 1..N /\ m - 1 \in 0..N /\ ~(m <= m - 1)
    BY <2>1, <2>2
  <2>4. g[m - 1] = f[m - 1]
    BY <2>1, <2>3
  <2> QED
    BY <1>1, <1>4, <1>7, <2>1, <2>3, <2>4 DEF Sums
<1>9. Sums(s, f) /\ Total(s) = f[Len(s)]
  BY <1>1, <1>3, <1>4, <1>6, <1>8 DEF Sums
<1> QED
  BY <1>1, <1>3, <1>9

LEMMA TotalIs ==
    ASSUME NEW s \in Seq(Nat), NEW f, Sums(s, f)
    PROVE  Total(s) = f[Len(s)] /\ Total(s) \in Nat /\ \A n \in 0..Len(s) : f[n] \in Nat
<1>1. PICK N \in Nat : N = Len(s) /\ s \in [1..N -> Nat]
  BY LenProperties
<1>2. PICK g \in [0..N -> Nat] : Sums(s, g) /\ Total(s) = g[N]
  BY <1>1, TotalSums
<1>3. ASSUME NEW n \in 0..N PROVE g[n] = f[n]
  <2> DEFINE Bad == {m \in 0..N : g[m] # f[m]}
  <2> SUFFICES ASSUME Bad # {} PROVE FALSE
    OBVIOUS
  <2>1. PICK m \in Bad : \A k \in Bad : m <= k
    <3>1. Bad \in SUBSET Nat
      OBVIOUS
    <3> HIDE DEF Bad
    <3> QED
      BY <3>1, LeastNat
  <2>2. m # 0
    BY <1>2, <2>1 DEF Sums
  <2>3. m \in 1..N /\ m - 1 \in 0..N /\ ~(m <= m - 1)
    BY <2>1, <2>2
  <2>4. g[m - 1] = f[m - 1]
    BY <2>1, <2>3
  <2> QED
    BY <1>1, <1>2, <2>1, <2>3, <2>4 DEF Sums
<1>4. N \in 0..N
  OBVIOUS
<1> QED
  BY <1>1, <1>2, <1>3, <1>4

LEMMA TotalGrows ==
    ASSUME NEW s \in Seq(Nat), NEW x \in Nat
    PROVE  Total(Append(s, x)) = Total(s) + x /\ Total(<<>>) = 0
<1>1. PICK N \in Nat : N = Len(s) /\ s \in [1..N -> Nat]
  BY LenProperties
<1>2. PICK t : t = Append(s, x)
  OBVIOUS
<1>3. t \in Seq(Nat) /\ Len(t) = N + 1 /\ t[N + 1] = x /\ \A n \in 1..N : t[n] = s[n]
  BY <1>1, <1>2, AppendProperties
<1>4. PICK f \in [0..(N + 1) -> Nat] : Sums(t, f) /\ Total(t) = f[N + 1]
  BY <1>3, TotalSums
<1>5. Sums(s, f)
  BY <1>1, <1>3, <1>4 DEF Sums
<1>6. Total(s) = f[N]
  BY <1>1, <1>5, TotalIs
<1>7. f[N + 1] = f[N] + x
  <2>1. N + 1 \in 1..Len(t) /\ (N + 1) - 1 = N
    BY <1>1, <1>3
  <2>2. f[N + 1] = f[(N + 1) - 1] + t[N + 1]
    BY <1>4, <2>1 DEF Sums
  <2> QED
    BY <1>3, <2>1, <2>2
<1>8. Total(<<>>) = 0
  <2>1. <<>> \in Seq(Nat) /\ Len(<<>>) = 0
    BY EmptySeq
  <2>2. PICK e : e = <<>>
    OBVIOUS
  <2>3. PICK g \in [0..0 -> Nat] : Sums(e, g) /\ Total(e) = g[0]
    BY <2>1, <2>2, TotalSums
  <2> QED
    BY <2>2, <2>3 DEF Sums
<1> QED
  BY <1>2, <1>4, <1>6, <1>7, <1>8

\* A part of a sum is no more than the sum.
LEMMA SumsGrow ==
    ASSUME NEW s \in Seq(Nat), NEW f, Sums(s, f), NEW n \in 0..Len(s)
    PROVE  f[n] <= Total(s)
<1>1. PICK N \in Nat : N = Len(s) /\ s \in [1..N -> Nat]
  BY LenProperties
<1>2. Total(s) = f[N] /\ \A m \in 0..N : f[m] \in Nat
  BY <1>1, TotalIs
<1> DEFINE Bad == {m \in 0..N : n <= m /\ ~(f[n] <= f[m])}
<1> SUFFICES ASSUME Bad # {} PROVE FALSE
  BY <1>1, <1>2
<1>3. PICK m \in Bad : \A k \in Bad : m <= k
  <2>1. Bad \in SUBSET Nat
    OBVIOUS
  <2> HIDE DEF Bad
  <2> QED
    BY <2>1, LeastNat
<1>4. m \in 0..N /\ n <= m /\ n \in 0..N /\ ~(f[n] <= f[m])
  BY <1>1, <1>3
<1>5. m # n
  BY <1>2, <1>4
<1>6. m \in 1..N /\ m - 1 \in 0..N /\ n <= m - 1 /\ ~(m <= m - 1)
  BY <1>4, <1>5
<1>7. f[n] <= f[m - 1]
  BY <1>3, <1>6
<1>8. f[m] = f[m - 1] + s[m] /\ s[m] \in Nat
  BY <1>1, <1>6 DEF Sums
<1>9. f[n] \in Nat /\ f[m - 1] \in Nat
  BY <1>2, <1>4, <1>6
<1> QED
  BY <1>4, <1>7, <1>8, <1>9

-----------------------------------------------------------------------------

\* What the elements of a sequence take.
SizesOf(items, size) == [i \in DOMAIN items |-> size[items[i]]]
Loads(X) == [used : Nat, kept : Seq(X)]
NoLoad == [used |-> 0, kept |-> <<>>]
Loading(items, tokens, budget, f) ==
    f[0] = NoLoad /\ \A n \in 1..Len(items) : f[n] = TakeIf(f[n - 1], items[n], tokens[n], budget)

LEMMA SizesAre ==
    ASSUME NEW X, NEW items \in Seq(X), NEW size \in [X -> Nat]
    PROVE  /\ SizesOf(items, size) \in Seq(Nat) /\ Len(SizesOf(items, size)) = Len(items)
           /\ \A n \in 1..Len(items) : SizesOf(items, size)[n] = size[items[n]] /\ items[n] \in X
<1>1. PICK N \in Nat : N = Len(items) /\ items \in [1..N -> X] /\ DOMAIN items = 1..N
  BY LenProperties
<1>2. PICK t : t = SizesOf(items, size)
  OBVIOUS
<1>3. t = [n \in 1..N |-> size[items[n]]]
  BY <1>1, <1>2 DEF SizesOf
<1>4. ASSUME NEW n \in 1..N PROVE t[n] \in Nat /\ t[n] = size[items[n]] /\ items[n] \in X
  BY <1>1, <1>3
<1>5. t = [n \in 1..N |-> t[n]]
  BY <1>3
<1>6. [n \in 1..N |-> t[n]] \in Seq(Nat)
  BY <1>1, <1>4
<1>7. t \in Seq(Nat) /\ Len(t) = N
  BY <1>1, <1>3, <1>5, <1>6, LenProperties
<1> QED
  BY <1>1, <1>2, <1>4, <1>7

LEMMA SizesAppend ==
    ASSUME NEW X, NEW items \in Seq(X), NEW x \in X, NEW size \in [X -> Nat]
    PROVE  Total(SizesOf(Append(items, x), size)) = Total(SizesOf(items, size)) + size[x]
<1>1. PICK N \in Nat : N = Len(items) /\ DOMAIN items = 1..N
  BY LenProperties
<1>2. PICK more : more = Append(items, x)
  OBVIOUS
<1>3. more \in Seq(X) /\ Len(more) = N + 1 /\ more[N + 1] = x /\ \A n \in 1..N : more[n] = items[n]
  BY <1>1, <1>2, AppendProperties
<1>4. PICK s : s = SizesOf(items, size)
  OBVIOUS
<1>5. PICK t : t = SizesOf(more, size)
  OBVIOUS
<1>6. s \in Seq(Nat) /\ Len(s) = N /\ \A n \in 1..N : s[n] = size[items[n]]
  BY <1>1, <1>4, SizesAre
<1>7. t \in Seq(Nat) /\ Len(t) = N + 1 /\ \A n \in 1..(N + 1) : t[n] = size[more[n]]
  <2>1. t \in Seq(Nat) /\ Len(t) = Len(more) /\ \A n \in 1..Len(more) : t[n] = size[more[n]]
    <3>1. more \in Seq(X)
      BY <1>3
    <3> QED
      BY <1>5, <3>1, SizesAre
  <2> QED
    BY <1>3, <2>1
<1>8. size[x] \in Nat
  OBVIOUS
<1>9. PICK u : u = Append(s, size[x])
  OBVIOUS
<1>10. u \in Seq(Nat) /\ Len(u) = N + 1 /\ u[N + 1] = size[x] /\ \A n \in 1..N : u[n] = s[n]
  BY <1>6, <1>8, <1>9, AppendProperties
<1>11. \A n \in 1..(N + 1) : u[n] = t[n]
  <2>1. ASSUME NEW n \in 1..(N + 1) PROVE u[n] = t[n]
    <3>1. CASE n = N + 1
      BY <3>1, <1>3, <1>7, <1>10
    <3>2. CASE n # N + 1
      <4>1. n \in 1..N
        BY <3>2, <1>1
      <4>2. u[n] = size[items[n]] /\ more[n] = items[n]
        BY <4>1, <1>3, <1>6, <1>10
      <4> QED
        BY <4>2, <1>7
    <3> QED
      BY <3>1, <3>2
  <2> QED
    BY <2>1
<1>12. u = t
  BY <1>1, <1>7, <1>10, <1>11, SeqEqual
<1>13. Total(u) = Total(s) + size[x]
  BY <1>6, <1>8, <1>9, TotalGrows
<1> QED
  BY <1>2, <1>4, <1>5, <1>12, <1>13

LEMMA FittingLoads ==
    ASSUME NEW X, NEW items \in Seq(X), NEW tokens \in Seq(Nat), Len(tokens) = Len(items),
           NEW budget \in Nat
    PROVE  \E f \in [0..Len(items) -> Loads(X)] :
              Loading(items, tokens, budget, f) /\ Fitting(items, tokens, budget) = f[Len(items)]
<1>1. PICK N \in Nat : N = Len(items) /\ items \in [1..N -> X] /\ tokens \in [1..N -> Nat]
  BY LenProperties
<1> DEFINE Steps(f) == f = [n \in 0..Len(items) |-> IF n = 0 THEN [used |-> 0, kept |-> <<>>]
                                     ELSE TakeIf(f[n - 1], items[n], tokens[n], budget)]
<1>2. PICK next : next = [x \in (1..N) \X Loads(X) |-> TakeIf(x[2], items[x[1]], tokens[x[1]], budget)]
  OBVIOUS
<1>3. PICK f : /\ f \in [0..N -> Loads(X)] /\ f[0] = NoLoad
               /\ \A n \in 1..N : f[n] = next[<<n, f[n - 1]>>]
  <2>1. ASSUME NEW g \in Loads(X), NEW n \in 1..N
        PROVE TakeIf(g, items[n], tokens[n], budget) \in Loads(X)
    <3>1. items[n] \in X /\ tokens[n] \in Nat /\ g.used \in Nat /\ g.kept \in Seq(X)
      BY <1>1 DEF Loads
    <3>2. Append(g.kept, items[n]) \in Seq(X) /\ g.used + tokens[n] \in Nat
      BY <3>1, AppendProperties
    <3> QED
      BY <3>2 DEF TakeIf, Loads
  <2>2. next \in [(1..N) \X Loads(X) -> Loads(X)]
    <3>1. ASSUME NEW x \in (1..N) \X Loads(X)
          PROVE TakeIf(x[2], items[x[1]], tokens[x[1]], budget) \in Loads(X)
      BY <2>1
    <3> QED
      BY <1>2, <3>1
  <2>3. N \in Nat /\ NoLoad \in Loads(X)
    BY <1>1, EmptySeq DEF NoLoad, Loads
  <2>4. \E f : Runs(N, Loads(X), NoLoad, next, f)
    BY <2>2, <2>3, LoopRuns
  <2> QED
    BY <2>4 DEF Runs
<1>4. ASSUME NEW n \in 1..N PROVE f[n] = TakeIf(f[n - 1], items[n], tokens[n], budget)
  <2>1. n - 1 \in 0..N
    OBVIOUS
  <2>2. <<n, f[n - 1]>> \in (1..N) \X Loads(X)
    BY <1>3, <2>1
  <2> QED
    BY <1>2, <1>3, <2>2
<1>5. Steps(f)
  BY <1>1, <1>3, <1>4 DEF NoLoad
<1>6. PICK g : Steps(g) /\ Fitting(items, tokens, budget) = g[Len(items)]
  BY <1>5 DEF Fitting
<1>7. g[0] = NoLoad /\ \A n \in 1..N : g[n] = TakeIf(g[n - 1], items[n], tokens[n], budget)
  <2>1. g[0] = NoLoad
    BY <1>1, <1>6 DEF NoLoad
  <2>2. ASSUME NEW n \in 1..N PROVE g[n] = TakeIf(g[n - 1], items[n], tokens[n], budget)
    <3>1. n \in 0..N /\ n # 0
      OBVIOUS
    <3> QED
      BY <1>1, <1>6, <3>1
  <2> QED
    BY <2>1, <2>2
<1> HIDE DEF Steps
<1>8. ASSUME NEW n \in 0..N PROVE g[n] = f[n]
  <2> DEFINE Bad == {m \in 0..N : g[m] # f[m]}
  <2> SUFFICES ASSUME Bad # {} PROVE FALSE
    OBVIOUS
  <2>1. PICK m \in Bad : \A k \in Bad : m <= k
    <3>1. Bad \in SUBSET Nat
      OBVIOUS
    <3> HIDE DEF Bad
    <3> QED
      BY <3>1, LeastNat
  <2>2. m # 0
    BY <1>3, <1>7, <2>1
  <2>3. m \in 1..N /\ m - 1 \in 0..N /\ ~(m <= m - 1)
    BY <2>1, <2>2
  <2>4. g[m - 1] = f[m - 1]
    BY <2>1, <2>3
  <2> QED
    BY <1>4, <1>7, <2>1, <2>3, <2>4
<1>9. N \in 0..N
  OBVIOUS
<1>10. Fitting(items, tokens, budget) = f[Len(items)]
  BY <1>1, <1>6, <1>8, <1>9
<1>11. Loading(items, tokens, budget, f)
  BY <1>1, <1>3, <1>4 DEF Loading
<1>12. f \in [0..Len(items) -> Loads(X)]
  BY <1>1, <1>3
<1> QED
  BY <1>10, <1>11, <1>12

\* What a load holds, after n of the items: it is within the budget, its size is
\* that of what it holds, and what was left out would not fit.
Loaded(items, size, budget, g, n) ==
    /\ g.used <= budget /\ g.used = Total(SizesOf(g.kept, size))
    /\ \A i \in 1..n : items[i] \in Range(g.kept) \/ g.used + size[items[i]] > budget

LEMMA FittingFits ==
    ASSUME NEW X, NEW items \in Seq(X), NEW size \in [X -> Nat], NEW budget \in Nat,
           NEW tokens, tokens = SizesOf(items, size)
    PROVE  /\ Fitting(items, tokens, budget) \in Loads(X)
           /\ Loaded(items, size, budget, Fitting(items, tokens, budget), Len(items))
<1>1. PICK N \in Nat : N = Len(items) /\ items \in [1..N -> X]
  BY LenProperties
<1>2. tokens \in Seq(Nat) /\ Len(tokens) = N /\ \A n \in 1..N : tokens[n] = size[items[n]] /\ items[n] \in X
  BY <1>1, SizesAre
<1>3. PICK f \in [0..N -> Loads(X)] :
         Loading(items, tokens, budget, f) /\ Fitting(items, tokens, budget) = f[N]
  BY <1>1, <1>2, FittingLoads
<1> DEFINE Bad == {n \in 0..N : ~Loaded(items, size, budget, f[n], n)}
<1>4. Bad = {}
  <2> SUFFICES ASSUME Bad # {} PROVE FALSE
    OBVIOUS
  <2>1. PICK n \in Bad : \A k \in Bad : n <= k
    <3>1. Bad \in SUBSET Nat
      OBVIOUS
    <3> HIDE DEF Bad
    <3> QED
      BY <3>1, LeastNat
  <2>2. n # 0
    <3>1. Loaded(items, size, budget, f[0], 0)
      <4>1. f[0].used = 0 /\ f[0].kept = <<>>
        BY <1>3 DEF Loading, NoLoad
      <4>2. SizesOf(<<>>, size) = <<>>
        BY DEF SizesOf
      <4>3. PICK e \in Seq(Nat) : e = <<>>
        BY EmptySeq
      <4>4. Total(<<>>) = 0
        BY <4>3, TotalGrows
      <4> QED
        BY <4>1, <4>2, <4>4 DEF Loaded
    <3> QED
      BY <2>1, <3>1
  <2>3. n \in 1..N /\ n - 1 \in 0..N /\ ~(n <= n - 1) /\ n \in Nat
    BY <2>1, <2>2
  <2>4. PICK g : g = f[n - 1]
    OBVIOUS
  <2>5. Loaded(items, size, budget, g, n - 1)
    BY <2>1, <2>3, <2>4
  <2>6. PICK x \in X : x = items[n] /\ tokens[n] = size[x] /\ size[x] \in Nat
    BY <1>2, <2>3
  <2>7. g.used \in Nat /\ g.kept \in Seq(X)
    BY <1>3, <2>3, <2>4 DEF Loads
  <2>8. f[n] = TakeIf(g, x, size[x], budget)
    BY <1>1, <1>3, <2>3, <2>4, <2>6 DEF Loading
  <2>9. CASE g.used + size[x] > budget
    <3>1. f[n] = g
      BY <2>8, <2>9 DEF TakeIf
    <3>2. \A i \in 1..n : items[i] \in Range(g.kept) \/ g.used + size[items[i]] > budget
      <4>1. \A i \in 1..n : i \in 1..(n - 1) \/ i = n
        BY <2>3
      <4> QED
        BY <4>1, <2>5, <2>6, <2>9 DEF Loaded
    <3>3. Loaded(items, size, budget, f[n], n)
      BY <2>5, <3>1, <3>2 DEF Loaded
    <3> QED
      BY <2>1, <3>3
  <2>10. CASE ~(g.used + size[x] > budget)
    <3>1. PICK k : k = Append(g.kept, x)
      OBVIOUS
    <3>2. f[n].used = g.used + size[x] /\ f[n].kept = k
      BY <2>8, <2>10, <3>1 DEF TakeIf
    <3>3. Total(SizesOf(k, size)) = Total(SizesOf(g.kept, size)) + size[x]
      BY <2>7, <3>1, SizesAppend
    <3>4. Range(k) = Range(g.kept) \cup {x}
      <4>1. PICK M \in Nat : M = Len(g.kept) /\ DOMAIN g.kept = 1..M
        BY <2>7, LenProperties
      <4>2. k \in Seq(X) /\ Len(k) = M + 1 /\ k[M + 1] = x /\ \A i \in 1..M : k[i] = g.kept[i]
        BY <2>7, <3>1, <4>1, AppendProperties
      <4>3. DOMAIN k = 1..(M + 1)
        BY <4>2, LenProperties
      <4>4. \A i \in 1..(M + 1) : i \in 1..M \/ i = M + 1
        BY <4>1
      <4>5. \A i \in 1..M : i \in 1..(M + 1)
        BY <4>1
      <4>6. M + 1 \in 1..(M + 1)
        BY <4>1
      <4> QED
        BY <4>1, <4>2, <4>3, <4>4, <4>5, <4>6 DEF Range
    <3>5. ASSUME NEW i \in 1..n PROVE items[i] \in Range(k) \/ f[n].used + size[items[i]] > budget
      <4>1. CASE i = n
        BY <4>1, <2>6, <3>4
      <4>2. CASE i # n
        <5>1. i \in 1..(n - 1) /\ i \in 1..N
          BY <4>2, <2>3
        <5>2. items[i] \in Range(g.kept) \/ g.used + size[items[i]] > budget
          BY <2>5, <5>1 DEF Loaded
        <5>3. size[items[i]] \in Nat
          BY <1>2, <5>1
        <5> QED
          BY <2>6, <2>7, <3>2, <3>4, <5>2, <5>3
      <4> QED
        BY <4>1, <4>2
    <3>6. f[n].used <= budget
      <4>1. PICK a \in Nat, b \in Nat : a = g.used /\ b = size[x]
        BY <2>6, <2>7
      <4>2. a + b <= budget
        <5>1. ~(a + b > budget)
          BY <2>10, <4>1
        <5>2. budget \in Nat
          OBVIOUS
        <5> HIDE DEF Bad
        <5> QED
          BY ONLY <5>1, <5>2, a \in Nat, b \in Nat
      <4> QED
        BY <3>2, <4>1, <4>2
    <3>7. f[n].used = Total(SizesOf(f[n].kept, size))
      BY <2>5, <3>2, <3>3 DEF Loaded
    <3>8. Loaded(items, size, budget, f[n], n)
      BY <3>2, <3>5, <3>6, <3>7 DEF Loaded
    <3> QED
      BY <2>1, <3>8
  <2> QED
    BY <2>9, <2>10
<1>5. N \in 0..N
  OBVIOUS
<1>6. Loaded(items, size, budget, f[N], N) /\ f[N] \in Loads(X)
  BY <1>3, <1>4, <1>5
<1> QED
  BY <1>1, <1>3, <1>6


\* What is no more than the budget is taken whole.
LEMMA FittingAll ==
    ASSUME NEW X, NEW items \in Seq(X), NEW size \in [X -> Nat], NEW budget \in Nat,
           NEW tokens, tokens = SizesOf(items, size), Total(tokens) <= budget
    PROVE  /\ Fitting(items, tokens, budget).kept = items
           /\ Fitting(items, tokens, budget).used = Total(tokens)
<1>1. PICK N \in Nat : N = Len(items) /\ items \in [1..N -> X]
  BY LenProperties
<1>2. tokens \in Seq(Nat) /\ Len(tokens) = N /\ \A n \in 1..N : tokens[n] \in Nat /\ items[n] \in X
  BY <1>1, SizesAre
<1>3. PICK f \in [0..N -> Loads(X)] :
         Loading(items, tokens, budget, f) /\ Fitting(items, tokens, budget) = f[N]
  BY <1>1, <1>2, FittingLoads
<1>4. PICK h \in [0..N -> Nat] : Sums(tokens, h) /\ Total(tokens) = h[N]
  BY <1>2, TotalSums
<1> DEFINE Whole(n) == /\ f[n].used = h[n] /\ Len(f[n].kept) = n
                       /\ \A i \in 1..n : f[n].kept[i] = items[i]
<1>5. Whole(0)
  <2>1. f[0].used = 0 /\ f[0].kept = <<>> /\ h[0] = 0
    BY <1>3, <1>4 DEF Loading, NoLoad, Sums
  <2> QED
    BY <2>1, EmptySeq
<1>6. ASSUME NEW n \in 1..N, Whole(n - 1) PROVE Whole(n)
  <2>1. n - 1 \in 0..N /\ n \in Nat /\ n \in 0..N
    OBVIOUS
  <2>2. PICK g : g = f[n - 1]
    OBVIOUS
  <2>3. g.used = h[n - 1] /\ Len(g.kept) = n - 1 /\ \A i \in 1..(n - 1) : g.kept[i] = items[i]
    BY <1>6, <2>2
  <2> HIDE DEF Whole
  <2>4. g.kept \in Seq(X) /\ h[n - 1] \in Nat
    BY <1>3, <1>4, <2>1, <2>2 DEF Loads
  <2>5. h[n] = h[n - 1] + tokens[n] /\ h[n] <= Total(tokens) /\ h[n] \in Nat
    BY <1>2, <1>4, <2>1, SumsGrow DEF Sums
  <2>6. ~(g.used + tokens[n] > budget)
    <3>1. h[n] <= budget
      <4>1. PICK t \in Nat : t = Total(tokens)
        BY <1>2, TotalIs, <1>4
      <4> QED
        BY <2>5, <4>1
    <3>2. g.used + tokens[n] = h[n]
      BY <2>3, <2>5
    <3> QED
      BY ONLY <2>5, <3>1, <3>2, budget \in Nat
  <2>7. PICK k : k = Append(g.kept, items[n])
    OBVIOUS
  <2>8. f[n] = [used |-> g.used + tokens[n], kept |-> k]
    BY <1>1, <1>3, <2>1, <2>2, <2>6, <2>7 DEF Loading, TakeIf
  <2>9. items[n] \in X
    BY <1>2, <2>1
  <2>10. Len(k) = Len(g.kept) + 1 /\ k[Len(g.kept) + 1] = items[n]
         /\ \A i \in 1..Len(g.kept) : k[i] = g.kept[i]
    BY <2>4, <2>7, <2>9, AppendProperties
  <2>11. Len(k) = n /\ k[n] = items[n] /\ \A i \in 1..(n - 1) : k[i] = items[i]
    BY <2>1, <2>3, <2>10
  <2>12. \A i \in 1..n : k[i] = items[i]
    <3>1. \A i \in 1..n : i \in 1..(n - 1) \/ i = n
      BY <2>1
    <3> QED
      BY <2>11, <3>1
  <2>13. f[n].used = h[n] /\ f[n].kept = k
    BY <2>3, <2>5, <2>8
  <2> QED
    BY <2>11, <2>12, <2>13 DEF Whole
<1> HIDE DEF Whole
<1> DEFINE Bad == {n \in 0..N : ~Whole(n)}
<1>7. Bad = {}
  <2> SUFFICES ASSUME Bad # {} PROVE FALSE
    OBVIOUS
  <2>1. PICK n \in Bad : \A k \in Bad : n <= k
    <3>1. Bad \in SUBSET Nat
      OBVIOUS
    <3> HIDE DEF Bad
    <3> QED
      BY <3>1, LeastNat
  <2>2. n # 0
    BY <1>5, <2>1
  <2>3. n \in 1..N /\ n - 1 \in 0..N /\ ~(n <= n - 1)
    BY <2>1, <2>2
  <2>4. Whole(n - 1)
    BY <2>1, <2>3
  <2> QED
    BY <1>6, <2>1, <2>3, <2>4
<1>8. N \in 0..N
  OBVIOUS
<1>9. Whole(N) /\ f[N].kept \in Seq(X)
  BY <1>3, <1>7, <1>8 DEF Loads
<1>10. f[N].kept = items
  BY <1>1, <1>9, SeqEqual DEF Whole
<1> QED
  BY <1>3, <1>4, <1>9, <1>10 DEF Whole

-----------------------------------------------------------------------------

LEMMA CardsAre ==
    ASSUME NEW cards \in Seq(Nat)
    PROVE  CardsKept(cards) \in Seq(Nat) /\ CardsTotal(CardsKept(cards)) \in Nat
<1>1. PICK N \in Nat : N = Len(cards) /\ cards \in [1..N -> Nat]
  BY LenProperties
<1> DEFINE Steps(f) == f = [n \in 0..Len(cards) |-> IF n = 0 THEN <<>>
              ELSE IF cards[n] > 0 THEN Append(f[n - 1], cards[n]) ELSE f[n - 1]]
<1>2. PICK next : next = [x \in (1..N) \X Seq(Nat) |->
                            IF cards[x[1]] > 0 THEN Append(x[2], cards[x[1]]) ELSE x[2]]
  OBVIOUS
<1>3. PICK f : /\ f \in [0..N -> Seq(Nat)] /\ f[0] = <<>>
               /\ \A n \in 1..N : f[n] = next[<<n, f[n - 1]>>]
  <2>1. ASSUME NEW s \in Seq(Nat), NEW n \in 1..N PROVE Append(s, cards[n]) \in Seq(Nat)
    BY <1>1, AppendProperties
  <2>2. next \in [(1..N) \X Seq(Nat) -> Seq(Nat)]
    <3>1. ASSUME NEW x \in (1..N) \X Seq(Nat)
          PROVE (IF cards[x[1]] > 0 THEN Append(x[2], cards[x[1]]) ELSE x[2]) \in Seq(Nat)
      BY <2>1
    <3> QED
      BY <1>2, <3>1
  <2>3. PICK e : e = <<>> /\ e \in Seq(Nat)
    BY EmptySeq
  <2>4. \E f : Runs(N, Seq(Nat), e, next, f)
    BY <1>1, <2>2, <2>3, LoopRuns
  <2> QED
    BY <2>3, <2>4 DEF Runs
<1>4. ASSUME NEW n \in 1..N
      PROVE f[n] = IF cards[n] > 0 THEN Append(f[n - 1], cards[n]) ELSE f[n - 1]
  <2>1. n - 1 \in 0..N
    OBVIOUS
  <2>2. <<n, f[n - 1]>> \in (1..N) \X Seq(Nat)
    BY <1>3, <2>1
  <2> QED
    BY <1>2, <1>3, <2>2
<1>5. Steps(f)
  <2>1. ASSUME NEW n \in 0..N
        PROVE f[n] = IF n = 0 THEN <<>>
              ELSE IF cards[n] > 0 THEN Append(f[n - 1], cards[n]) ELSE f[n - 1]
    <3>1. CASE n = 0
      BY <1>3, <3>1
    <3>2. CASE n # 0
      <4>1. n \in 1..N
        BY <3>2
      <4> QED
        BY <1>4, <3>2, <4>1
    <3> QED
      BY <3>1, <3>2
  <2> QED
    BY <1>1, <1>3, <2>1
<1>6. PICK g : Steps(g) /\ CardsKept(cards) = g[Len(cards)]
  BY <1>5 DEF CardsKept
<1>7. \A n \in 0..N : g[n] = IF n = 0 THEN <<>>
              ELSE IF cards[n] > 0 THEN Append(g[n - 1], cards[n]) ELSE g[n - 1]
  BY <1>1, <1>6
<1> HIDE DEF Steps
<1> DEFINE Bad == {n \in 0..N : g[n] \notin Seq(Nat)}
<1>8. Bad = {}
  <2> SUFFICES ASSUME Bad # {} PROVE FALSE
    OBVIOUS
  <2>1. PICK n \in Bad : \A k \in Bad : n <= k
    <3>1. Bad \in SUBSET Nat
      OBVIOUS
    <3> HIDE DEF Bad
    <3> QED
      BY <3>1, LeastNat
  <2>2. n # 0
    BY <1>1, <1>7, <2>1, EmptySeq
  <2>3. n \in 1..N /\ n - 1 \in 0..N /\ ~(n <= n - 1) /\ n \in 0..N
    BY <2>1, <2>2
  <2>4. g[n - 1] \in Seq(Nat) /\ cards[n] \in Nat
    BY <1>1, <2>1, <2>3
  <2>5. Append(g[n - 1], cards[n]) \in Seq(Nat)
    BY <2>4, AppendProperties
  <2>6. g[n] \in Seq(Nat)
    BY <1>7, <2>2, <2>3, <2>4, <2>5
  <2> QED
    BY <2>1, <2>6
<1>9. CardsKept(cards) \in Seq(Nat)
  <2>1. N \in 0..N
    OBVIOUS
  <2> QED
    BY <1>1, <1>6, <1>8, <2>1
<1>10. PICK k \in Seq(Nat) : k = CardsKept(cards)
  BY <1>9
<1>11. PICK h \in [0..Len(k) -> Nat] : Sums(k, h) /\ Total(k) = h[Len(k)]
  BY TotalSums
<1>12. Len(k) \in Nat /\ Len(k) \in 0..Len(k) /\ CardTokens \in Nat
  BY LenProperties, ContextAssemblyAssumption
<1>13. CardTokens * Len(k) \in Nat
  BY <1>12
<1>14. Total(k) \in Nat
  BY <1>11, <1>12
<1> QED
  BY <1>10, <1>13, <1>14 DEF CardsTotal


LEMMA ImageFinite ==
    ASSUME NEW E, IsFiniteSet(E), NEW F, F = [x \in E |-> F[x]]
    PROVE  IsFiniteSet({F[x] : x \in E})
<1>1. PICK A : A = {F[x] : x \in E}
  OBVIOUS
<1>2. F \in [E -> A] /\ \A y \in A : \E x \in E : F[x] = y
  BY <1>1
<1>3. F \in Surjection(E, A)
  BY <1>2 DEF Surjection
<1> QED
  BY <1>1, <1>3, FS_Surjection

LEMMA SectionsAre ==
    ASSUME NEW named, NEW graph \in SUBSET CaEdges
    PROVE  GraphSectionTokens(BuildEntityContext(named, graph), AnalyzeImpact(named, graph)) \in Nat
<1>1. ASSUME NEW lines, IsFiniteSet(lines) PROVE SectionTokens(lines) \in Nat
  <2>1. PICK c \in Nat : c = Cardinality(lines)
    BY <1>1, FS_CardinalityType
  <2>2. HeadTokens \in Nat /\ LineTokens \in Nat
    BY ContextAssemblyAssumption
  <2>3. LineTokens * c \in Nat
    BY <2>2
  <2> QED
    BY <2>1, <2>2, <2>3 DEF SectionTokens
<1>2. IsFiniteSet(graph)
  BY ContextAssemblyAssumption, FS_Subset
<1>3. PICK around : around = BuildEntityContext(named, graph)
  OBVIOUS
<1>4. \A x \in DOMAIN around : around[x].rels \subseteq graph
  BY <1>3 DEF BuildEntityContext, TouchingEdges
<1>5. IsFiniteSet(UNION {around[x].rels : x \in DOMAIN around})
  <2>1. UNION {around[x].rels : x \in DOMAIN around} \in SUBSET graph
    BY <1>4
  <2> QED
    BY <1>2, <2>1, FS_Subset
<1>6. IsFiniteSet(AnalyzeImpact(named, graph))
  <2> DEFINE edges == {r \in graph : r[1] # r[3]}
             In == {q \in edges : /\ q[2] \in {"DependsOn", "RequiredBy", "Implements"}
                                  /\ q[3] \in Range(named)}
             Out == {q \in edges : q[2] = "RequiredBy" /\ q[1] \in Range(named)}
             f == [r \in In |-> <<r[1], r[3]>>]
             g == [r \in Out |-> <<r[3], r[1]>>]
  <2>1. IsFiniteSet(In) /\ IsFiniteSet(Out)
    <3>1. In \in SUBSET graph /\ Out \in SUBSET graph
      OBVIOUS
    <3> HIDE DEF In, Out
    <3> QED
      BY <1>2, <3>1, FS_Subset
  <2>2. AnalyzeImpact(named, graph) = {f[r] : r \in In} \cup {g[r] : r \in Out}
    BY DEF AnalyzeImpact
  <2>3. f = [r \in In |-> f[r]] /\ g = [r \in Out |-> g[r]]
    OBVIOUS
  <2> HIDE DEF In, Out, f, g
  <2>4. IsFiniteSet({f[r] : r \in In}) /\ IsFiniteSet({g[r] : r \in Out})
    BY <2>1, <2>3, ImageFinite
  <2> QED
    BY <2>2, <2>4, FS_Union
<1> QED
  BY <1>1, <1>3, <1>5, <1>6 DEF GraphSectionTokens

LEMMA ScoreIs ==
    ASSUME NEW u \in StoredRecords, NEW named, NEW around
    PROVE  Score(u, named, around) \in Nat
<1> DEFINE direct == u.mentions \cap Range(named)
           beside == (u.mentions \cap DOMAIN around) \ direct
<1>1. u.recency \in Nat /\ u.mentions \in SUBSET CaEntities
  BY DEF StoredRecords
<1>2. direct \in SUBSET CaEntities /\ beside \in SUBSET CaEntities
  BY <1>1
<1> HIDE DEF direct, beside
<1>3. PICK d \in Nat, b \in Nat : d = Cardinality(direct) /\ b = Cardinality(beside)
  BY <1>2, ContextAssemblyAssumption, FS_Subset, FS_CardinalityType
<1>4. PICK i \in Nat : i = IF u.important THEN 2 ELSE 0
  OBVIOUS
<1>5. u.recency + 4 * d + 2 * b + i \in Nat
  BY <1>1
<1>6. Score(u, named, around) = IF u.recency + 4 * d + 2 * b + i > 10 THEN 10
                                ELSE u.recency + 4 * d + 2 * b + i
  BY <1>3, <1>4 DEF Score, direct, beside
<1> QED
  BY <1>5, <1>6

\* The records by their scores are the same records.
LEMMA RankedIs ==
    ASSUME NEW records \in Seq(StoredRecords), NEW named, NEW around
    PROVE  /\ Ranked(records, named, around) \in Seq(StoredRecords)
           /\ Range(Ranked(records, named, around)) = Range(records)
           /\ Len(Ranked(records, named, around)) = Len(records)
<1>1. PICK N \in Nat : N = Len(records) /\ DOMAIN records = 1..N /\ records \in [1..N -> StoredRecords]
  BY LenProperties
<1> DEFINE before(i, j) ==
             \/ Score(records[i], named, around) > Score(records[j], named, around)
             \/ Score(records[i], named, around) = Score(records[j], named, around) /\ i < j
<1>2. PICK R : R = {x \in (1..N) \X (1..N) : before(x[1], x[2])}
  OBVIOUS
<1>3. \A i, j \in 1..N : <<i, j>> \in R <=> before(i, j)
  BY <1>2
<1>4. \A i \in 1..N : Score(records[i], named, around) \in Nat
  BY <1>1, ScoreIs
<1>5. \A i \in 1..N : <<i, i>> \notin R
  BY <1>3, <1>4
<1>6. ASSUME NEW i \in 1..N, NEW j \in 1..N, NEW k \in 1..N, <<i, j>> \in R, <<j, k>> \in R
      PROVE <<i, k>> \in R
  <2>1. PICK a \in Nat, b \in Nat, c \in Nat :
           /\ a = Score(records[i], named, around) /\ b = Score(records[j], named, around)
           /\ c = Score(records[k], named, around)
    BY <1>4
  <2>2. (a > b \/ (a = b /\ i < j)) /\ (b > c \/ (b = c /\ j < k))
    BY <1>3, <1>6, <2>1
  <2>3. a > c \/ (a = c /\ i < k)
    BY <2>2
  <2> QED
    BY <1>3, <2>1, <2>3
<1>7. PICK S : S = 1..N
  OBVIOUS
<1>8. IsFiniteSet(S) /\ Cardinality(S) = N
  <2>1. 1 \in Int /\ N \in Int
    BY <1>1
  <2>2. IsFiniteSet(1..N) /\ Cardinality(1..N) = IF 1 > N THEN 0 ELSE N - 1 + 1
    BY <2>1, FS_Interval
  <2>3. Cardinality(1..N) = N
    BY <1>1, <2>2
  <2> QED
    BY <1>7, <2>2, <2>3
<1>9. PICK q \in [1..N -> S] : /\ \A i, j \in 1..N : i # j => q[i] # q[j]
                               /\ \A i, j \in 1..N : <<q[i], q[j]>> \in R => i < j
  <2>1. R \in SUBSET (S \X S)
    BY <1>2, <1>7
  <2>2. \A x \in S : <<x, x>> \notin R
    BY <1>5, <1>7
  <2>3. \A x, y, z \in S : <<x, y>> \in R /\ <<y, z>> \in R => <<x, z>> \in R
    BY <1>6, <1>7
  <2>4. \E p \in [1..Cardinality(S) -> S] :
           /\ \A i, j \in 1..Cardinality(S) : i # j => p[i] # p[j]
           /\ \A i, j \in 1..Cardinality(S) : <<p[i], p[j]>> \in R => i < j
    BY <1>8, <2>1, <2>2, <2>3, SortExists
  <2> QED
    BY <1>8, <2>4
<1>10. q \in SetToSeqs(S) /\ \A i, j \in DOMAIN q : before(q[i], q[j]) => i < j
  <2>1. q \in SetToSeqs(S)
    BY <1>8, <1>9 DEF SetToSeqs
  <2>2. DOMAIN q = 1..N
    BY <1>9
  <2>3. ASSUME NEW i \in 1..N, NEW j \in 1..N, before(q[i], q[j]) PROVE i < j
    <3>1. q[i] \in 1..N /\ q[j] \in 1..N
      BY <1>7, <1>9
    <3>2. <<q[i], q[j]>> \in R
      BY <1>3, <2>3, <3>1
    <3> QED
      BY <1>9, <3>2
  <2> HIDE DEF before
  <2> QED
    BY <2>1, <2>2, <2>3
<1>11. PICK order : order \in SetToSeqs(S) /\ Ranked(records, named, around) = [i \in DOMAIN order |-> records[order[i]]]
  <2>1. PICK p : p = CHOOSE r \in SetToSeqs(S) : \A i, j \in DOMAIN r : before(r[i], r[j]) => i < j
    OBVIOUS
  <2>2. Ranked(records, named, around) = [i \in DOMAIN p |-> records[p[i]]]
    BY <1>1, <1>7, <2>1 DEF Ranked, Arranged
  <2> HIDE DEF before
  <2>3. p \in SetToSeqs(S)
    BY <1>10, <2>1
  <2> QED
    BY <2>2, <2>3
<1>12. order \in [1..N -> S] /\ \A i, j \in 1..N : i # j => order[i] # order[j]
  BY <1>8, <1>11 DEF SetToSeqs
<1>13. \A x \in S : \E i \in 1..N : order[i] = x
  <2>1. order \in [1..Cardinality(S) -> S] /\ \A i, j \in 1..Cardinality(S) : i # j => order[i] # order[j]
    BY <1>8, <1>12
  <2>2. \A x \in S : \E i \in 1..Cardinality(S) : order[i] = x
    BY <1>8, <2>1, FillsSet
  <2> QED
    BY <1>8, <2>2
<1>14. PICK t : t = Ranked(records, named, around)
  OBVIOUS
<1>15. t = [i \in 1..N |-> records[order[i]]]
  BY <1>11, <1>12, <1>14
<1>16. \A i \in 1..N : t[i] = records[order[i]] /\ order[i] \in 1..N /\ t[i] \in StoredRecords
  BY <1>1, <1>7, <1>12, <1>15
<1>17. t \in Seq(StoredRecords) /\ Len(t) = N
  <2>1. t = [i \in 1..N |-> t[i]]
    BY <1>15
  <2>2. [i \in 1..N |-> t[i]] \in Seq(StoredRecords)
    BY <1>1, <1>16
  <2>3. t \in Seq(StoredRecords)
    BY <2>1, <2>2
  <2> QED
    BY <1>1, <1>15, <2>3, LenProperties
<1>18. Range(t) = Range(records)
  <2>1. DOMAIN t = 1..N
    BY <1>15
  <2>2. \A y : y \in Range(t) <=> \E i \in 1..N : y = t[i]
    BY <2>1 DEF Range
  <2>3. \A y : y \in Range(records) <=> \E i \in 1..N : y = records[i]
    BY <1>1 DEF Range
  <2>4. ASSUME NEW i \in 1..N PROVE records[i] \in Range(t)
    <3>1. PICK k \in 1..N : order[k] = i
      BY <1>7, <1>13
    <3> QED
      BY <1>16, <2>2, <3>1
  <2>5. ASSUME NEW i \in 1..N PROVE t[i] \in Range(records)
    BY <1>16, <2>3
  <2> QED
    BY <2>2, <2>3, <2>4, <2>5
<1> QED
  BY <1>1, <1>14, <1>17, <1>18


-----------------------------------------------------------------------------

\* The arithmetic of the shares: B is the budget, c what the cards take of it, s
\* the sections, t the excerpts' share of what is left, f the records, x the
\* excerpts added.
Left(a, b) == IF a < b THEN 0 ELSE a - b

LEMMA SharesAdd ==
    ASSUME NEW B \in Nat, NEW c \in Nat, NEW s \in Nat, NEW t \in Nat, NEW f \in Nat, NEW x \in Nat,
           t <= Left(B, c), f <= Left(Left(B, c) - t, s), x <= Left(Left(B, c), f + s)
    PROVE  f + x <= Left(B, c + s)
<1>1. Left(B, c) \in Nat /\ Left(B, c) - t \in Nat /\ Left(Left(B, c) - t, s) \in Nat
      /\ Left(Left(B, c), f + s) \in Nat
  BY DEF Left
<1> QED
  BY <1>1 DEF Left

\* A share t of at most half the room r is never cut again.
LEMMA HalfStays ==
    ASSUME NEW b \in Nat, NEW s \in Nat, NEW t \in Nat, NEW f \in Nat,
           t <= b, f <= Left(b - t, s), 2 * t <= Left(b, s)
    PROVE  /\ t <= Left(b, f + s)
           /\ \A u \in Nat : f + u > Left(b - t, s) => f + t + u > Left(b, s)
  BY DEF Left

Itself == [t \in Nat |-> t]
Tokens == [u \in StoredRecords |-> u.tokens]

LEMMA ItselfSizes ==
    ASSUME NEW s \in Seq(Nat)
    PROVE  SizesOf(s, Itself) = s
<1>1. PICK N \in Nat : N = Len(s) /\ s \in [1..N -> Nat] /\ DOMAIN s = 1..N
  BY LenProperties
<1> QED
  BY <1>1 DEF SizesOf, Itself

LEMMA TokensSizes ==
    ASSUME NEW s \in Seq(StoredRecords)
    PROVE  SizesOf(s, Tokens) = TokensOf(s)
<1>1. PICK N \in Nat : N = Len(s) /\ s \in [1..N -> StoredRecords] /\ DOMAIN s = 1..N
  BY LenProperties
<1> QED
  BY <1>1 DEF SizesOf, Tokens, TokensOf

LEMMA SizeTypes == Itself \in [Nat -> Nat] /\ Tokens \in [StoredRecords -> Nat]
  BY DEF Itself, Tokens, StoredRecords

\* Nothing fits as nothing.
LEMMA FittingNone ==
    ASSUME NEW X, NEW items \in Seq(X), NEW size \in [X -> Nat], NEW budget \in Nat,
           NEW tokens, tokens = SizesOf(items, size), Len(items) = 0
    PROVE  Fitting(items, tokens, budget).kept = items /\ items = <<>>
<1>1. items = <<>>
  BY EmptySeq
<1>2. tokens = <<>>
  BY <1>1 DEF SizesOf
<1>3. <<>> \in Seq(Nat) /\ 0 \in Nat
  BY EmptySeq
<1>4. Total(tokens) = 0
  BY <1>2, <1>3, TotalGrows
<1>5. Total(tokens) <= budget
  BY <1>4
<1> QED
  BY <1>1, <1>5, FittingAll


LEMMA ExcerptsFit ==
    ASSUME NEW s \in Seq(Nat), NEW budget \in Nat, Total(s) <= budget
    PROVE  Fitting(s, s, budget).kept = s /\ Fitting(s, s, budget).used = Total(s)
<1>1. PICK X, q, size, b : X = Nat /\ q = s /\ size = Itself /\ b = budget
  OBVIOUS
<1>2. q \in Seq(X) /\ size \in [X -> Nat] /\ b \in Nat
  BY <1>1, SizeTypes
<1>3. q = SizesOf(q, size) /\ Total(q) <= b
  BY <1>1, ItselfSizes
<1>4. Fitting(q, q, b).kept = q /\ Fitting(q, q, b).used = Total(q)
  BY ONLY <1>2, <1>3, FittingAll
<1> QED
  BY <1>1, <1>4

\* The excerpts' share of what the cards leave.
ShareOf(corpus, budget, s) == IF corpus = "messages" THEN budget ELSE Left(budget, s) \div 2

\* The parts an answer is assembled from: the tokens c of its cards and s of its
\* sections, the excerpts' share, the records that fit and the excerpts at last.
Parts(ask, turns, a, c, s, share, ranked, fits, ex) ==
    /\ c = CardsTotal(a.cards) /\ s = GraphSectionTokens(a.around, a.impact)
    /\ a.total = fits.used + s + ex.used + c /\ a.records = fits.kept /\ a.excerpts = ex.kept
    /\ share = Fitting(turns, turns, ShareOf(ask.corpus, Left(ask.budget, c), s))
    /\ fits = Fitting(ranked, TokensOf(ranked), Left(Left(ask.budget, c) - share.used, s))
    /\ ex = Fitting(share.kept, share.kept, Left(Left(ask.budget, c), fits.used + s))
Chosen(ask, ranked) ==
    /\ ranked \in Seq(StoredRecords)
    /\ ask.corpus = "messages" => Len(ranked) = 0
    /\ ask.corpus # "messages" => Range(ranked) = Range(ask.records)
HasParts(ask, turns, a) ==
    \E c, s, share, ranked, fits, ex :
        c \in Nat /\ s \in Nat /\ Chosen(ask, ranked) /\ Parts(ask, turns, a, c, s, share, ranked, fits, ex)

LEMMA AskTypes ==
    ASSUME NEW ask \in Asks
    PROVE  /\ ask.graph \in SUBSET CaEdges /\ ask.records \in Seq(StoredRecords)
           /\ ask.corpus \in Corpora /\ ask.budget \in Nat
  BY ContextAssemblyAssumption DEF Asks

LEMMA AnswerParts ==
    ASSUME NEW ask \in Asks, NEW cards \in Seq(Nat), NEW turns \in Seq(Nat)
    PROVE  HasParts(ask, turns, Assembled(ask, cards, turns))
<1>1. PICK named : named = FindQueryEntities(ask.query)
  OBVIOUS
<1>2. PICK around : around = BuildEntityContext(named, ask.graph)
  OBVIOUS
<1>3. PICK impact : impact = AnalyzeImpact(named, ask.graph)
  OBVIOUS
<1>4. PICK s \in Nat : s = GraphSectionTokens(around, impact)
  BY <1>2, <1>3, AskTypes, SectionsAre
<1>5. PICK kept : kept = CardsKept(cards)
  OBVIOUS
<1>6. PICK c \in Nat : c = CardsTotal(kept)
  BY <1>5, CardsAre
<1>7. PICK budget : budget = Left(ask.budget, c)
  OBVIOUS
<1>8. PICK share : share = Fitting(turns, turns, ShareOf(ask.corpus, budget, s))
  OBVIOUS
<1>9. PICK records : records = IF ask.corpus = "messages" THEN <<>> ELSE ask.records
  OBVIOUS
<1>10. PICK ranked : ranked = Ranked(records, named, around)
  OBVIOUS
<1>11. PICK fits : fits = Fitting(ranked, TokensOf(ranked), Left(budget - share.used, s))
  OBVIOUS
<1>12. PICK ex : ex = Fitting(share.kept, share.kept, Left(budget, fits.used + s))
  OBVIOUS
<1>13. PICK a : a = Assembled(ask, cards, turns)
  OBVIOUS
<1>14. Chosen(ask, ranked)
  <2>1. records \in Seq(StoredRecords)
    BY <1>9, AskTypes, EmptySeq
  <2>2. ranked \in Seq(StoredRecords) /\ Range(ranked) = Range(records) /\ Len(ranked) = Len(records)
    BY <1>10, <2>1, RankedIs
  <2>3. ask.corpus = "messages" => Len(ranked) = 0
    BY <1>9, <2>2, EmptySeq
  <2> QED
    BY <1>9, <2>2, <2>3 DEF Chosen
<1>15. LeftByCards(ask, cards) = budget
  BY <1>5, <1>6, <1>7 DEF LeftByCards, Left
<1>16. ExcerptShare(ask, budget) = ShareOf(ask.corpus, budget, s)
  BY <1>1, <1>2, <1>3, <1>4 DEF ExcerptShare, EntitySummaryTokens, ShareOf, Left
<1>17. PICK ctx : ctx = AssembleRecords(ask.query, ask.graph, records, RecordsBudget(budget, share.used))
  OBVIOUS
<1>18. ctx = [NoAnswer EXCEPT !.records = fits.kept, !.around = around, !.impact = impact,
                              !.total = fits.used + s]
  BY <1>1, <1>2, <1>3, <1>4, <1>10, <1>11, <1>17 DEF AssembleRecords, RecordsBudget, Left
<1>19. ctx = [records |-> fits.kept, excerpts |-> <<>>, cards |-> <<>>, around |-> around,
              impact |-> impact, total |-> fits.used + s]
  BY <1>18 DEF NoAnswer
<1>20. a = AddCards(AddExcerpts(ctx, share.kept, budget), cards)
  BY <1>8, <1>9, <1>13, <1>15, <1>16, <1>17 DEF Assembled
<1>21. AddExcerpts(ctx, share.kept, budget) =
          [records |-> fits.kept, excerpts |-> ex.kept, cards |-> <<>>, around |-> around,
           impact |-> impact, total |-> fits.used + s + ex.used]
  <2>1. ctx.total = fits.used + s
    BY <1>19
  <2>2. ex = Fitting(share.kept, share.kept,
                     IF budget < ctx.total THEN 0 ELSE budget - ctx.total)
    BY <1>12, <2>1 DEF Left
  <2>3. AddExcerpts(ctx, share.kept, budget) =
           [ctx EXCEPT !.excerpts = ex.kept, !.total = ctx.total + ex.used]
    BY ONLY <2>2 DEF AddExcerpts
  <2> QED
    BY <1>19, <2>1, <2>3
<1>22. a = [records |-> fits.kept, excerpts |-> ex.kept, cards |-> kept, around |-> around,
            impact |-> impact, total |-> fits.used + s + ex.used + c]
  <2>1. a = [AddExcerpts(ctx, share.kept, budget) EXCEPT !.cards = kept, !.total = @ + c]
    BY <1>5, <1>6, <1>20 DEF AddCards
  <2> QED
    <3>1. PICK tot : tot = fits.used + s + ex.used
      OBVIOUS
    <3>2. PICK ctx2 : ctx2 = AddExcerpts(ctx, share.kept, budget)
      OBVIOUS
    <3>3. ctx2 = [records |-> fits.kept, excerpts |-> ex.kept, cards |-> <<>>, around |-> around,
                  impact |-> impact, total |-> tot]
      BY ONLY <1>21, <3>1, <3>2
    <3>4. a = [ctx2 EXCEPT !.cards = kept, !.total = @ + c]
      BY ONLY <2>1, <3>2
    <3>5. a = [records |-> fits.kept, excerpts |-> ex.kept, cards |-> kept, around |-> around,
               impact |-> impact, total |-> tot + c]
      BY ONLY <3>3, <3>4
    <3> QED
      BY ONLY <3>1, <3>5
<1>23. Parts(ask, turns, a, c, s, share, ranked, fits, ex)
  BY <1>4, <1>6, <1>7, <1>8, <1>11, <1>12, <1>22 DEF Parts
<1> QED
  BY <1>13, <1>14, <1>23 DEF HasParts

\* The arithmetic of an answer: the budget is kept and shared.
LEMMA PartsShare ==
    ASSUME NEW ask \in Asks, NEW turns \in Seq(Nat), NEW a, HasParts(ask, turns, a),
           ask.corpus = "records" => turns = <<>>
    PROVE  LET fixed == CardsTotal(a.cards) + GraphSectionTokens(a.around, a.impact)
               room == IF ask.budget < fixed THEN 0 ELSE ask.budget - fixed
               filled == Total(TokensOf(a.records)) + Total(a.excerpts)
           IN  /\ a.total = fixed + filled
               /\ filled <= room
               /\ ask.corpus = "messages" => a.records = <<>>
               /\ ask.corpus = "records" => a.excerpts = <<>>
               /\ ask.corpus = "all" =>
                   /\ 2 * Total(a.excerpts) <= room
                   /\ a.excerpts = Fitting(turns, turns, room \div 2).kept
               /\ ask.corpus # "messages" =>
                   \A u \in Range(ask.records) \ Range(a.records) : filled + u.tokens > room
<1>1. PICK c, s, share, ranked, fits, ex :
        c \in Nat /\ s \in Nat /\ Chosen(ask, ranked) /\ Parts(ask, turns, a, c, s, share, ranked, fits, ex)
  BY DEF HasParts
<1>2. PICK B \in Nat : B = ask.budget
  BY AskTypes
<1>3. PICK el : el = ShareOf(ask.corpus, Left(B, c), s)
  OBVIOUS
<1>4. el \in Nat /\ el <= Left(B, c) /\ (ask.corpus # "messages" => el = Left(Left(B, c), s) \div 2)
  <2>1. Left(B, c) \in Nat /\ Left(Left(B, c), s) \in Nat /\ Left(Left(B, c), s) <= Left(B, c)
    BY <1>1 DEF Left
  <2>2. PICK l \in Nat, m \in Nat : l = Left(B, c) /\ m = Left(l, s) /\ m <= l
    BY <2>1
  <2>3. m \div 2 \in Nat /\ m \div 2 <= m
    OBVIOUS
  <2> QED
    BY <1>3, <2>2, <2>3 DEF ShareOf
<1>5. share \in Loads(Nat) /\ share.used <= el /\ share.used = Total(share.kept)
  <2>1. share = Fitting(turns, turns, el)
    BY <1>1, <1>2, <1>3 DEF Parts
  <2>2. turns = SizesOf(turns, Itself)
    BY ItselfSizes
  <2>3. share \in Loads(Nat) /\ Loaded(turns, Itself, el, share, Len(turns))
    BY <1>4, <2>1, <2>2, SizeTypes, FittingFits
  <2>4. share.kept \in Seq(Nat)
    BY <2>3 DEF Loads
  <2> QED
    BY <2>3, <2>4, ItselfSizes DEF Loaded
<1>6. PICK t \in Nat : t = share.used /\ t <= Left(B, c)
  <2>1. share.used \in Nat
    BY <1>5 DEF Loads
  <2>2. Left(B, c) \in Nat
    BY <1>1 DEF Left
  <2> QED
    BY <1>4, <1>5, <2>1, <2>2
<1>7. PICK rb : rb = Left(Left(B, c) - t, s)
  OBVIOUS
<1>8. rb \in Nat
  <2>1. Left(B, c) \in Nat
    BY <1>1 DEF Left
  <2>2. PICK l \in Nat : l = Left(B, c) /\ l - t \in Nat
    BY <1>6, <2>1
  <2> QED
    BY <1>1, <1>7, <2>2 DEF Left
<1>9. /\ fits \in Loads(StoredRecords) /\ fits.used <= rb /\ fits.used = Total(TokensOf(fits.kept))
      /\ \A u \in Range(ranked) : u \in Range(fits.kept) \/ fits.used + u.tokens > rb
  <2>1. fits = Fitting(ranked, TokensOf(ranked), rb) /\ ranked \in Seq(StoredRecords)
    BY <1>1, <1>2, <1>6, <1>7 DEF Parts, Chosen
  <2>2. TokensOf(ranked) = SizesOf(ranked, Tokens)
    BY <2>1, TokensSizes
  <2>3. fits \in Loads(StoredRecords) /\ Loaded(ranked, Tokens, rb, fits, Len(ranked))
    BY <1>8, <2>1, <2>2, SizeTypes, FittingFits
  <2>4. fits.kept \in Seq(StoredRecords)
    BY <2>3 DEF Loads
  <2>5. fits.used <= rb /\ fits.used = Total(TokensOf(fits.kept))
    BY <2>3, <2>4, TokensSizes DEF Loaded
  <2>6. ASSUME NEW u \in Range(ranked) PROVE u \in Range(fits.kept) \/ fits.used + u.tokens > rb
    <3>1. PICK i \in DOMAIN ranked : u = ranked[i]
      BY DEF Range
    <3>2. i \in 1..Len(ranked) /\ ranked[i] \in StoredRecords
      BY <2>1, <3>1, LenProperties, ElementOfSeq
    <3>3. ranked[i] \in Range(fits.kept) \/ fits.used + Tokens[ranked[i]] > rb
      BY <2>3, <3>2 DEF Loaded
    <3>4. Tokens[ranked[i]] = u.tokens
      BY <3>1, <3>2 DEF Tokens
    <3> QED
      BY <3>1, <3>3, <3>4
  <2> QED
    BY <2>3, <2>5, <2>6
<1>10. PICK f \in Nat : f = fits.used
  BY <1>9 DEF Loads
<1>11. PICK xb : xb = Left(Left(B, c), f + s)
  OBVIOUS
<1>12. xb \in Nat
  <2>1. Left(B, c) \in Nat
    BY <1>1 DEF Left
  <2> QED
    BY <1>1, <1>11, <2>1 DEF Left
<1>13. share.kept \in Seq(Nat) /\ share.kept = SizesOf(share.kept, Itself)
       /\ ex = Fitting(share.kept, share.kept, xb)
  BY <1>1, <1>2, <1>5, <1>10, <1>11, ItselfSizes DEF Parts, Loads
<1>14. ex \in Loads(Nat) /\ ex.used <= xb /\ ex.used = Total(ex.kept)
  <2>1. ex \in Loads(Nat) /\ Loaded(share.kept, Itself, xb, ex, Len(share.kept))
    BY <1>12, <1>13, SizeTypes, FittingFits
  <2>2. ex.kept \in Seq(Nat)
    BY <2>1 DEF Loads
  <2> QED
    BY <2>1, <2>2, ItselfSizes DEF Loaded
<1>15. PICK x \in Nat : x = ex.used
  BY <1>14 DEF Loads
<1>16. PICK room : room = Left(B, c + s)
  OBVIOUS
<1>17. f + x <= room
  <2>1. f <= rb /\ x <= Left(Left(B, c), f + s)
    BY <1>9, <1>10, <1>11, <1>14, <1>15
  <2> QED
    BY <1>1, <1>6, <1>7, <1>16, <2>1, SharesAdd
<1>18. a.total = c + s + (f + x)
  <2>1. a.total = fits.used + s + ex.used + c
    BY <1>1 DEF Parts
  <2> QED
    BY <1>1, <1>10, <1>15, <2>1
<1>19. Total(TokensOf(a.records)) = f /\ Total(a.excerpts) = x
  <2>1. a.records = fits.kept /\ a.excerpts = ex.kept
    BY <1>1 DEF Parts
  <2> QED
    BY <1>9, <1>10, <1>14, <1>15, <2>1
<1>20. CardsTotal(a.cards) = c /\ GraphSectionTokens(a.around, a.impact) = s
  BY <1>1 DEF Parts
<1>21. ASSUME ask.corpus = "messages" PROVE a.records = <<>>
  <2>1. ranked \in Seq(StoredRecords) /\ Len(ranked) = 0 /\ TokensOf(ranked) = SizesOf(ranked, Tokens)
    BY <1>1, <1>21, TokensSizes DEF Chosen
  <2>2. Fitting(ranked, TokensOf(ranked), rb).kept = ranked /\ ranked = <<>>
    BY <1>8, <2>1, SizeTypes, FittingNone
  <2> QED
    BY <1>1, <1>2, <1>6, <1>7, <2>2 DEF Parts
<1>22. ASSUME ask.corpus = "records" PROVE a.excerpts = <<>>
  <2>1. turns = <<>> /\ Total(turns) = 0
    <3>1. <<>> \in Seq(Nat) /\ 0 \in Nat
      BY EmptySeq
    <3> QED
      BY <1>22, <3>1, TotalGrows
  <2>2. share = Fitting(turns, turns, el)
    BY <1>1, <1>2, <1>3 DEF Parts
  <2>3. share.kept = turns
    <3>1. Total(turns) <= el
      BY <1>4, <2>1
    <3> QED
      BY <1>4, <2>2, <3>1, ExcerptsFit
  <2>4. ex.kept = share.kept
    <3>1. Total(share.kept) <= xb
      BY <1>12, <2>1, <2>3
    <3> QED
      BY <1>12, <1>13, <3>1, ExcerptsFit
  <2> QED
    BY <1>1, <2>1, <2>3, <2>4 DEF Parts
<1>23. ASSUME ask.corpus # "messages"
       PROVE  /\ 2 * x <= room /\ a.excerpts = share.kept /\ el = room \div 2
              /\ \A u \in Nat : f + u > rb => f + x + u > room
  <2>1. room = Left(Left(B, c), s) /\ el = room \div 2
    <3>1. Left(B, c + s) = Left(Left(B, c), s)
      BY <1>1, <1>2 DEF Left
    <3> QED
      BY <1>4, <1>16, <1>23, <3>1
  <2>2. /\ t <= xb /\ 2 * t <= room
        /\ \A u \in Nat : f + u > rb => f + t + u > room
    <3>1. PICK b \in Nat : b = Left(B, c)
      BY <1>1, <1>2 DEF Left
    <3>2. room \in Nat /\ t <= room \div 2
      BY <1>1, <1>4, <1>5, <1>6, <2>1, <3>1 DEF Left
    <3>3. 2 * t <= room
      BY <3>2
    <3>4. t <= b /\ f <= Left(b - t, s) /\ 2 * t <= Left(b, s) /\ s \in Nat
      BY <1>1, <1>6, <1>7, <1>9, <1>10, <2>1, <3>1, <3>3
    <3>5. /\ t <= Left(b, f + s)
          /\ \A u \in Nat : f + u > Left(b - t, s) => f + t + u > Left(b, s)
      BY <3>4, HalfStays
    <3> QED
      BY <1>7, <1>11, <2>1, <3>1, <3>3, <3>5
  <2>3. Total(share.kept) <= xb
    BY <1>5, <1>6, <2>2
  <2>4. ex.kept = share.kept /\ ex.used = t
    BY <1>5, <1>6, <1>12, <1>13, <2>3, ExcerptsFit
  <2> QED
    <3>1. a.excerpts = ex.kept
      BY <1>1 DEF Parts
    <3>2. x = t
      BY <1>15, <2>4
    <3> QED
      BY <2>1, <2>2, <2>4, <3>1, <3>2
<1>24. ASSUME ask.corpus # "messages", NEW u \in Range(ask.records) \ Range(a.records)
       PROVE  f + x + u.tokens > room
  <2>1. u \in Range(ranked) /\ u \notin Range(fits.kept) /\ ranked \in Seq(StoredRecords)
    BY <1>1, <1>24 DEF Parts, Chosen
  <2>2. f + u.tokens > rb
    BY <1>9, <1>10, <2>1
  <2>3. PICK i \in DOMAIN ranked : u = ranked[i]
    BY <2>1 DEF Range
  <2>4. u \in StoredRecords
    BY <2>1, <2>3, ElementOfSeq, LenProperties
  <2>5. u.tokens \in Nat
    BY <2>4 DEF StoredRecords
  <2> QED
    BY <1>23, <1>24, <2>2, <2>5
<1>25. room = IF ask.budget < c + s THEN 0 ELSE ask.budget - (c + s)
  BY <1>2, <1>16 DEF Left
<1>26. share.kept = Fitting(turns, turns, el).kept
  BY <1>1, <1>2, <1>3 DEF Parts
<1>27. ask.corpus = "all" => 2 * x <= room /\ a.excerpts = Fitting(turns, turns, room \div 2).kept
  BY <1>23, <1>26
<1> HIDE DEF Left, ShareOf
<1> QED
  BY <1>17, <1>18, <1>19, <1>20, <1>21, <1>22, <1>24, <1>25, <1>27


\* Everything that hinges on a named entity is in the answer.
LEMMA AnswerComplete ==
    ASSUME NEW ask \in Asks, NEW cards, NEW turns, NEW a, a = Assembled(ask, cards, turns)
    PROVE  /\ a.around = BuildEntityContext(FindQueryEntities(ask.query), ask.graph)
           /\ a.impact = AnalyzeImpact(FindQueryEntities(ask.query), ask.graph)
<1>1. PICK named : named = FindQueryEntities(ask.query)
  OBVIOUS
<1>2. PICK around : around = BuildEntityContext(named, ask.graph)
  OBVIOUS
<1>3. PICK impact : impact = AnalyzeImpact(named, ask.graph)
  OBVIOUS
<1>4. PICK budget, share, records : a =
         AddCards(AddExcerpts(AssembleRecords(ask.query, ask.graph, records,
                     RecordsBudget(budget, share.used)), share.kept, budget), cards)
  BY DEF Assembled
<1>5. PICK ctx : ctx = AssembleRecords(ask.query, ask.graph, records, RecordsBudget(budget, share.used))
  OBVIOUS
<1>6. ctx.around = around /\ ctx.impact = impact
  BY <1>1, <1>2, <1>3, <1>5 DEF AssembleRecords, NoAnswer
<1>7. DOMAIN ctx = DOMAIN NoAnswer
  BY <1>5 DEF AssembleRecords
<1>8. a.around = ctx.around /\ a.impact = ctx.impact
  BY <1>4, <1>5, <1>7 DEF AddCards, AddExcerpts, NoAnswer
<1> QED
  BY <1>1, <1>2, <1>3, <1>6, <1>8

LEMMA CompleteFollows == ContextInv => ContextComplete
<1> SUFFICES ASSUME ContextInv, caStage = "answered" PROVE ContextComplete
  BY DEF ContextComplete, AnsweredContext
<1>1. PICK ask \in Asks : ask = caAsk
  BY DEF ContextInv
<1>2. PICK query, graph : query = ask.query /\ graph = ask.graph
  OBVIOUS
<1>3. graph \in SUBSET CaEdges
  BY <1>1, <1>2, AskTypes
<1>4. PICK q : q = FindQueryEntities(query)
  OBVIOUS
<1>5. PICK named : named = Range(q)
  OBVIOUS
<1>6. PICK around, impact : around = caAnswer.around /\ impact = caAnswer.impact
  OBVIOUS
<1>7. around = BuildEntityContext(q, graph) /\ impact = AnalyzeImpact(q, graph)
  BY <1>1, <1>2, <1>4, <1>6, AnswerComplete DEF ContextInv
<1>8. PICK beside : beside = (UNION {FindRelated(graph, x) : x \in named}) \ named
  OBVIOUS
<1>9. DOMAIN around = named \cup beside
      /\ \A x \in named \cup beside : around[x].rels = TouchingEdges(graph, x)
  BY <1>5, <1>7, <1>8 DEF BuildEntityContext
<1>10. ASSUME NEW x \in named PROVE TouchingEdges(graph, x) \subseteq around[x].rels
  BY <1>9
<1>11. ASSUME NEW r \in graph, {r[1], r[3]} \cap named # {}, NEW x \in {r[1], r[3]}
       PROVE  x \in DOMAIN around
  <2>1. CASE x \in named
    BY <1>9, <2>1
  <2>2. CASE x \notin named
    <3>1. PICK y \in named : y \in {r[1], r[3]}
      BY <1>11
    <3>2. x \in FindRelated(graph, y)
      BY <1>11, <2>2, <3>1 DEF FindRelated
    <3> QED
      BY <1>8, <1>9, <2>2, <3>1, <3>2
  <2> QED
    BY <2>1, <2>2
<1>12. ASSUME NEW x \in CaEntities, NEW y \in named, x # y, DependsUpon(graph, x, y)
       PROVE  <<x, y>> \in impact
  <2>1. impact = {<<r[1], r[3]>> : r \in {e \in {r \in graph : r[1] # r[3]} :
                        /\ e[2] \in {"DependsOn", "RequiredBy", "Implements"} /\ e[3] \in named}}
               \cup {<<r[3], r[1]>> : r \in {e \in {r \in graph : r[1] # r[3]} :
                        e[2] = "RequiredBy" /\ e[1] \in named}}
    BY <1>5, <1>7 DEF AnalyzeImpact
  <2>2. CASE <<x, "DependsOn", y>> \in graph
    <3>1. PICK e : e = <<x, "DependsOn", y>>
      OBVIOUS
    <3>2. e \in graph /\ e[1] = x /\ e[2] = "DependsOn" /\ e[3] = y
      BY <2>2, <3>1
    <3> QED
      BY <1>12, <2>1, <3>2
  <2>3. CASE <<x, "Implements", y>> \in graph
    <3>1. PICK e : e = <<x, "Implements", y>>
      OBVIOUS
    <3>2. e \in graph /\ e[1] = x /\ e[2] = "Implements" /\ e[3] = y
      BY <2>3, <3>1
    <3> QED
      BY <1>12, <2>1, <3>2
  <2>4. CASE <<y, "RequiredBy", x>> \in graph
    <3>1. PICK e : e = <<y, "RequiredBy", x>>
      OBVIOUS
    <3>2. e \in graph /\ e[1] = y /\ e[2] = "RequiredBy" /\ e[3] = x
      BY <2>4, <3>1
    <3> QED
      BY <1>12, <2>1, <3>2
  <2> QED
    BY <1>12, <2>2, <2>3, <2>4 DEF DependsUpon
<1> QED
  BY <1>1, <1>2, <1>4, <1>5, <1>6, <1>10, <1>11, <1>12 DEF ContextComplete, AnsweredContext

LEMMA BudgetFollows == ContextInv => BudgetShared
<1> SUFFICES ASSUME ContextInv, caStage = "answered" PROVE BudgetShared
  BY DEF BudgetShared, AnsweredContext
<1>1. PICK ask \in Asks : ask = caAsk
  BY DEF ContextInv
<1>2. PICK turns \in Seq(Nat) : turns = caTurns
  BY DEF ContextInv
<1>3. PICK a : a = caAnswer
  OBVIOUS
<1>4. HasParts(ask, turns, a)
  BY <1>1, <1>2, <1>3, AnswerParts DEF ContextInv
<1>5. ask.corpus = "records" => turns = <<>>
  BY <1>1, <1>2 DEF ContextInv
<1> QED
  BY <1>1, <1>2, <1>3, <1>4, <1>5, PartsShare DEF BudgetShared, AnsweredContext

LEMMA ContextInvHolds == ContextSpec => []ContextInv
<1>1. ContextInit => ContextInv
  <2>1. <<>> \in Seq(Nat)
    BY EmptySeq
  <2> QED
    BY <2>1 DEF ContextInit, ContextInv
<1>2. ContextInv /\ [ContextNext]_contextVars => ContextInv'
  <2> SUFFICES ASSUME ContextInv, [ContextNext]_contextVars PROVE ContextInv'
    OBVIOUS
  <2>1. CASE AskContext
    <3>1. caAsk' \in Asks
      BY <2>1 DEF AskContext, Asks
    <3> QED
      BY <2>1, <3>1 DEF AskContext, ContextInv
  <2>2. CASE ReadCard
    <3>1. caRead' \in Seq(Nat)
      <4>1. PICK t \in CaCards : caRead' = Append(caRead, t)
        BY <2>2 DEF ReadCard
      <4>2. t \in Nat
        BY <4>1, ContextAssemblyAssumption
      <4> QED
        BY <4>1, <4>2, AppendProperties DEF ContextInv
    <3> QED
      BY <2>2, <3>1 DEF ReadCard, ContextInv
  <2>3. CASE NoCard
    BY <2>3 DEF NoCard, ContextInv
  <2>4. CASE FindExcerpts
    <3>1. PICK turns \in CaExcerpts \cup {<<>>} :
             (caAsk.corpus = "records" => turns = <<>>) /\ caTurns' = turns
      BY <2>4 DEF FindExcerpts
    <3>2. caTurns' \in Seq(Nat)
      BY <3>1, EmptySeq, ContextAssemblyAssumption
    <3> QED
      BY <2>4, <3>1, <3>2 DEF FindExcerpts, ContextInv
  <2>5. CASE Assemble
    BY <2>5 DEF Assemble, ContextInv
  <2>6. CASE UNCHANGED contextVars
    BY <2>6 DEF contextVars, ContextInv
  <2> QED
    BY <2>1, <2>2, <2>3, <2>4, <2>5, <2>6 DEF ContextNext
<1> QED
  BY <1>1, <1>2, PTL DEF ContextSpec

\* ContextSound in every state: an assembled context holds what its total says,
\* shares the budget as promised and leaves nothing out that would still fit,
\* and has all of a named entity's relations, neighbours and dependants
\* (assembly_scope::assemble and context_assembly::assemble_context).
THEOREM ContextIsSound == ContextSpec => []ContextSound
<1>1. ContextInv => ContextSound
  BY BudgetFollows, CompleteFollows DEF ContextSound
<1> QED
  BY <1>1, ContextInvHolds, PTL

(***************************************************************************)
(* The views of a session's graph and the validity they rest on: records   *)
(* succeed each other without a gap, since whatever ends a record begins   *)
(* where it ends; and the hops of a view find each entity at its distance. *)
(***************************************************************************)

\* Counting up to N.
LEMMA UpTo ==
    ASSUME NEW N \in Nat, NEW T, 0 \in T, \A n \in 1..N : n - 1 \in T => n \in T
    PROVE  \A n \in 0..N : n \in T
<1> DEFINE Bad == {n \in 0..N : n \notin T}
<1> SUFFICES ASSUME Bad # {} PROVE FALSE
  OBVIOUS
<1>1. Bad \in SUBSET Nat
  OBVIOUS
<1>2. PICK n \in Bad : \A m \in Bad : n <= m
  <2> HIDE DEF Bad
  <2> QED
    BY <1>1, LeastNat
<1>3. n \in 1..N /\ n - 1 \in 0..N /\ ~(n <= n - 1)
  BY <1>2
<1>4. n - 1 \in T
  BY <1>2, <1>3
<1> QED
  BY <1>2, <1>3, <1>4

\* What follows the first p elements of a sequence.
Rest(S, s, p, N, c) ==
    c \in Seq(S) /\ Len(c) = N - p /\ \A i \in 1..(N - p) : c[i] = s[p + i]

LEMMA RestIs ==
    ASSUME NEW S, NEW N \in Nat, NEW s \in [1..N -> S], NEW p \in 0..N,
           NEW c, c = SubSeq(s, p + 1, N)
    PROVE  Rest(S, s, p, N, c)
<1>1. PICK m \in Int : m = p + 1
  OBVIOUS
<1>2. \A i \in m..N : s[i] \in S
  BY <1>1
<1>3. c = SubSeq(s, m, N) /\ N \in Int
  BY <1>1
<1>4. /\ c \in Seq(S) /\ Len(c) = (IF m <= N THEN N - m + 1 ELSE 0)
      /\ \A i \in 1..(N - m + 1) : c[i] = s[m + i - 1]
  <2>1. /\ SubSeq(s, m, N) \in Seq(S)
        /\ Len(SubSeq(s, m, N)) = IF m <= N THEN N - m + 1 ELSE 0
        /\ \A i \in 1..(N - m + 1) : SubSeq(s, m, N)[i] = s[m + i - 1]
    BY <1>2, <1>3, SubSeqProperties
  <2> QED
    BY <1>3, <2>1
<1>5. N - m + 1 = N - p /\ (IF m <= N THEN N - m + 1 ELSE 0) = N - p
  BY <1>1
<1>6. ASSUME NEW i \in 1..(N - p) PROVE i \in 1..(N - m + 1) /\ m + i - 1 = p + i
  BY <1>1, <1>5
<1> QED
  BY <1>4, <1>5, <1>6 DEF Rest

\* What putting an element at a place of a sequence does.
Inserted(S, s, p, e, t) ==
    /\ t \in Seq(S) /\ Len(t) = Len(s) + 1 /\ DOMAIN t = 1..(Len(s) + 1)
    /\ t[p + 1] = e
    /\ \A k \in 1..p : t[k] = s[k]
    /\ \A k \in (p + 1)..Len(s) : t[k + 1] = s[k]

LEMMA InsertIs ==
    ASSUME NEW S, NEW s \in Seq(S), NEW p \in 0..Len(s), NEW e \in S,
           NEW q, q = p + 1, NEW t, t = InsertAt(s, q, e)
    PROVE  Inserted(S, s, p, e, t)
<1>1. PICK N \in Nat : N = Len(s) /\ s \in [1..N -> S] /\ DOMAIN s = 1..N
  BY LenProperties
<1>2. p \in Nat /\ p <= N
  BY <1>1
<1>3. PICK a, b, c : a = SubSeq(s, 1, p) /\ b = <<e>> /\ c = SubSeq(s, p + 1, N)
  OBVIOUS
<1>4. a \in Seq(S) /\ Len(a) = p /\ \A i \in 1..p : a[i] = s[i]
  <2>1. \A i \in 1..p : s[i] \in S
    BY <1>1, <1>2
  <2>2. /\ SubSeq(s, 1, p) \in Seq(S)
        /\ Len(SubSeq(s, 1, p)) = IF 1 <= p THEN p - 1 + 1 ELSE 0
        /\ \A i \in 1..(p - 1 + 1) : SubSeq(s, 1, p)[i] = s[1 + i - 1]
    BY <1>2, <2>1, SubSeqProperties
  <2> QED
    BY <1>2, <1>3, <2>2
<1>5. c \in Seq(S) /\ Len(c) = N - p /\ \A i \in 1..(N - p) : c[i] = s[p + i]
  <2>1. p \in 0..N /\ s \in [1..N -> S] /\ c = SubSeq(s, p + 1, N)
    BY <1>1, <1>2, <1>3
  <2>2. Rest(S, s, p, N, c)
    BY <1>1, <2>1, RestIs
  <2> QED
    BY <2>2 DEF Rest
<1>6. b \in Seq(S) /\ Len(b) = 1 /\ b[1] = e
  BY <1>3
<1>7. PICK d : d = a \o b
  OBVIOUS
<1>8. d \in Seq(S) /\ Len(d) = p + 1 /\ \A i \in 1..(p + 1) : d[i] = IF i <= p THEN a[i] ELSE b[i - p]
  <2>1. /\ a \o b \in Seq(S) /\ Len(a \o b) = Len(a) + Len(b)
        /\ \A i \in 1..(Len(a) + Len(b)) : (a \o b)[i] = IF i <= Len(a) THEN a[i] ELSE b[i - Len(a)]
    BY <1>4, <1>6, ConcatProperties
  <2> QED
    BY <1>4, <1>6, <1>7, <2>1
<1>9. t = d \o c
  <2>1. (p + 1) - 1 = p
    BY <1>2
  <2> QED
    BY <1>1, <1>3, <1>7, <2>1 DEF InsertAt
<1>10. t \in Seq(S) /\ Len(t) = (p + 1) + (N - p)
       /\ \A i \in 1..((p + 1) + (N - p)) : t[i] = IF i <= p + 1 THEN d[i] ELSE c[i - (p + 1)]
  <2>1. /\ d \o c \in Seq(S) /\ Len(d \o c) = Len(d) + Len(c)
        /\ \A i \in 1..(Len(d) + Len(c)) : (d \o c)[i] = IF i <= Len(d) THEN d[i] ELSE c[i - Len(d)]
    BY <1>5, <1>8, ConcatProperties
  <2> QED
    BY <1>5, <1>8, <1>9, <2>1
<1>11. Len(t) = N + 1 /\ DOMAIN t = 1..(N + 1)
  <2>1. (p + 1) + (N - p) = N + 1
    BY <1>2
  <2> QED
    BY <1>10, <2>1, LenProperties
<1>12. t[p + 1] = e
  BY <1>2, <1>6, <1>8, <1>10
<1>13. ASSUME NEW k \in 1..p PROVE t[k] = s[k]
  BY <1>2, <1>4, <1>8, <1>10
<1>14. ASSUME NEW k \in (p + 1)..N PROVE t[k + 1] = s[k]
  <2>1. k + 1 \in 1..((p + 1) + (N - p)) /\ ~(k + 1 <= p + 1) /\ (k + 1) - (p + 1) = k - p
        /\ k - p \in 1..(N - p) /\ p + (k - p) = k
    BY <1>2
  <2> QED
    BY <1>5, <1>10, <2>1
<1> QED
  BY <1>1, <1>10, <1>11, <1>12, <1>13, <1>14 DEF Inserted

\* And taking one out.
LEMMA RemoveIs ==
    ASSUME NEW S, NEW s \in Seq(S), NEW p \in 1..Len(s), NEW t, t = RemoveAt(s, p)
    PROVE  /\ t \in Seq(S) /\ Len(t) = Len(s) - 1 /\ DOMAIN t = 1..(Len(s) - 1)
           /\ \A k \in 1..(Len(s) - 1) : t[k] = IF k < p THEN s[k] ELSE s[k + 1]
<1>1. PICK N \in Nat : N = Len(s) /\ s \in [1..N -> S] /\ DOMAIN s = 1..N
  BY LenProperties
<1>2. p \in Nat /\ p <= N /\ 1 <= p
  BY <1>1
<1>3. PICK a, c : a = SubSeq(s, 1, p - 1) /\ c = SubSeq(s, p + 1, N)
  OBVIOUS
<1>4. a \in Seq(S) /\ Len(a) = p - 1 /\ \A i \in 1..(p - 1) : a[i] = s[i]
  <2>1. \A i \in 1..(p - 1) : s[i] \in S
    BY <1>1, <1>2
  <2>2. /\ SubSeq(s, 1, p - 1) \in Seq(S)
        /\ Len(SubSeq(s, 1, p - 1)) = IF 1 <= p - 1 THEN (p - 1) - 1 + 1 ELSE 0
        /\ \A i \in 1..((p - 1) - 1 + 1) : SubSeq(s, 1, p - 1)[i] = s[1 + i - 1]
    BY <1>2, <2>1, SubSeqProperties
  <2> QED
    BY <1>2, <1>3, <2>2
<1>5. c \in Seq(S) /\ Len(c) = N - p /\ \A i \in 1..(N - p) : c[i] = s[p + i]
  <2>1. p \in 0..N /\ s \in [1..N -> S] /\ c = SubSeq(s, p + 1, N)
    BY <1>1, <1>2, <1>3
  <2>2. Rest(S, s, p, N, c)
    BY <1>1, <2>1, RestIs
  <2> QED
    BY <2>2 DEF Rest
<1>6. t = a \o c
  BY <1>1, <1>3 DEF RemoveAt
<1>7. t \in Seq(S) /\ Len(t) = (p - 1) + (N - p)
      /\ \A i \in 1..((p - 1) + (N - p)) : t[i] = IF i <= p - 1 THEN a[i] ELSE c[i - (p - 1)]
  <2>1. /\ a \o c \in Seq(S) /\ Len(a \o c) = Len(a) + Len(c)
        /\ \A i \in 1..(Len(a) + Len(c)) : (a \o c)[i] = IF i <= Len(a) THEN a[i] ELSE c[i - Len(a)]
    BY <1>4, <1>5, ConcatProperties
  <2> QED
    BY <1>4, <1>5, <1>6, <2>1
<1>8. Len(t) = N - 1 /\ DOMAIN t = 1..(N - 1)
  <2>1. (p - 1) + (N - p) = N - 1
    BY <1>2
  <2> QED
    BY <1>7, <2>1, LenProperties
<1>9. ASSUME NEW k \in 1..(N - 1) PROVE t[k] = IF k < p THEN s[k] ELSE s[k + 1]
  <2>1. k \in 1..((p - 1) + (N - p)) /\ (k <= p - 1 <=> k < p)
    BY <1>2
  <2>2. CASE k < p
    BY <1>2, <1>4, <1>7, <2>1, <2>2
  <2>3. CASE ~(k < p)
    <3>1. k - (p - 1) \in 1..(N - p) /\ p + (k - (p - 1)) = k + 1
      BY <1>2, <2>3
    <3> QED
      BY <1>5, <1>7, <2>1, <2>3, <3>1
  <2> QED
    BY <2>2, <2>3
<1> QED
  BY <1>1, <1>7, <1>8, <1>9

\* The types of the log's records.
LEMMA LogTypes ==
    ASSUME ViewsInv
    PROVE  /\ Len(gvLog) \in Nat /\ DOMAIN gvLog = 1..Len(gvLog) /\ Len(gvLog) <= MaxDrafts
           /\ gvLog \in [1..Len(gvLog) -> LoggedRecords]
           /\ gvNext \in Nat /\ gvClock \in Nat /\ GvMaxTime \in Nat /\ MaxDrafts \in Nat
           /\ \A i \in DOMAIN gvLog :
                /\ gvLog[i].id \in 1..(gvNext - 1) /\ gvLog[i].id \in 1..MaxDrafts
                /\ gvLog[i].time \in 1..gvClock /\ gvLog[i].time \in 1..GvMaxTime
                /\ gvLog[i].retired \in 0..gvClock /\ gvLog[i].retired \in 0..GvMaxTime
                /\ gvLog[i].from \in 0..GvMaxTime
                /\ gvLog[i].names \in SUBSET GvNames /\ gvLog[i].rels \in SUBSET GvRelations
                /\ gvLog[i].supersedes \in SUBSET (1..(gvNext - 1))
<1>1. gvLog \in Seq(LoggedRecords) /\ gvNext \in 1..(MaxDrafts + 1) /\ gvClock \in 1..GvMaxTime
      /\ Len(gvLog) < gvNext
  BY DEF ViewsInv
<1>2. Len(gvLog) \in Nat /\ DOMAIN gvLog = 1..Len(gvLog) /\ gvLog \in [1..Len(gvLog) -> LoggedRecords]
  BY <1>1, LenProperties
<1>3. GvMaxTime \in Nat /\ MaxDrafts \in Nat
  BY GraphViewsAssumption
<1>4. ASSUME NEW i \in DOMAIN gvLog
      PROVE  /\ gvLog[i].id \in 1..(gvNext - 1)
             /\ gvLog[i].time \in 1..gvClock
             /\ gvLog[i].retired \in 0..gvClock
             /\ gvLog[i].from \in 0..GvMaxTime
             /\ gvLog[i].names \in SUBSET GvNames /\ gvLog[i].rels \in SUBSET GvRelations
             /\ gvLog[i].supersedes \in SUBSET (1..(gvNext - 1))
  <2>1. gvLog[i] \in LoggedRecords
    BY <1>2
  <2> QED
    BY <2>1 DEF LoggedRecords
<1> QED
  BY <1>1, <1>2, <1>3, <1>4

\* Later clocks and ids allow more records.
LEMMA LogGrows ==
    ASSUME ViewsInv, gvClock' \in 1..GvMaxTime, gvNext' \in 1..(MaxDrafts + 1),
           gvClock' >= gvClock, gvNext' >= gvNext
    PROVE  gvLog \in Seq(LoggedRecords') /\ \A u \in LoggedRecords : u \in LoggedRecords'
<1>1. gvNext \in Nat /\ gvClock \in Nat /\ gvNext' \in Nat /\ gvClock' \in Nat
  BY LogTypes, GraphViewsAssumption
<1>2. 1..gvClock \subseteq 1..gvClock' /\ 0..gvClock \subseteq 0..gvClock'
      /\ 1..(gvNext - 1) \subseteq 1..(gvNext' - 1)
  <2>1. PICK a, b, c, d : a = gvClock /\ b = gvClock' /\ c = gvNext /\ d = gvNext'
    OBVIOUS
  <2>2. a \in Nat /\ b \in Nat /\ c \in Nat /\ d \in Nat /\ a <= b /\ c <= d
    BY <1>1, <2>1
  <2>3. 1..a \subseteq 1..b /\ 0..a \subseteq 0..b /\ 1..(c - 1) \subseteq 1..(d - 1)
    BY ONLY <2>2
  <2> QED
    BY <2>1, <2>3
<1>3. ASSUME NEW u \in LoggedRecords PROVE u \in LoggedRecords'
  BY <1>2 DEF LoggedRecords
<1>4. gvLog \in Seq(LoggedRecords)
  BY DEF ViewsInv
<1> QED
  BY <1>3, <1>4, SeqMonotonic

\* A record is put behind those it supersedes, and is the first with its id.
LEMMA WriteKeeps ==
    ASSUME ViewsInv, NEW d \in GvDrafts, NEW old \in SUBSET LogIdsOf, WriteRecord(d, old)
    PROVE  ViewsInv'
<1>1. PICK p \in 0..Len(gvLog) :
        /\ \A i \in (p + 1)..Len(gvLog) : gvLog[i].time = gvClock
        /\ gvLog' = InsertAt(gvLog, p + 1,
              [kind |-> d.kind, title |-> d.title, names |-> d.names, rels |-> d.rels,
               from |-> d.from, file |-> d.file, id |-> gvNext, time |-> gvClock,
               supersedes |-> old, retired |-> 0])
  BY DEF WriteRecord
<1>2. PICK e : e = [kind |-> d.kind, title |-> d.title, names |-> d.names, rels |-> d.rels,
                    from |-> d.from, file |-> d.file, id |-> gvNext, time |-> gvClock,
                    supersedes |-> old, retired |-> 0]
  OBVIOUS
<1>3. PICK N \in Nat : N = Len(gvLog) /\ DOMAIN gvLog = 1..N /\ N < gvNext
  BY LogTypes DEF ViewsInv
<1>4. /\ gvNext \in Nat /\ gvNext <= MaxDrafts /\ gvNext' = gvNext + 1
      /\ gvClock' = gvClock /\ gvInto' = gvInto
      /\ gvClock \in 1..GvMaxTime /\ gvNext \in 1..(MaxDrafts + 1) /\ MaxDrafts \in Nat /\ GvMaxTime \in Nat
      /\ \A i \in 1..N : gvLog[i].id \in old => gvLog[i].time < gvClock
  BY <1>3, LogTypes DEF WriteRecord, ViewsInv
<1>5. gvNext' \in 1..(MaxDrafts + 1) /\ gvClock' \in 1..GvMaxTime /\ gvNext' >= gvNext /\ gvClock' >= gvClock
  BY <1>4
<1>6. gvLog \in Seq(LoggedRecords')
  BY <1>5, LogGrows
<1>7. old \subseteq 1..(gvNext - 1)
  BY LogTypes DEF LogIdsOf
<1>8. e \in LoggedRecords'
  <2>1. d.names \in SUBSET GvNames /\ d.from \in 0..GvMaxTime
    BY GraphViewsAssumption
  <2>2. d.rels \in SUBSET GvRelations
    BY DEF GvRelations
  <2>3. gvNext \in 1..(gvNext' - 1) /\ gvClock \in 1..gvClock' /\ 0 \in 0..gvClock'
    BY <1>4
  <2>4. old \in SUBSET (1..(gvNext' - 1))
    BY <1>4, <1>7
  <2> QED
    BY <1>2, <2>1, <2>2, <2>3, <2>4 DEF LoggedRecords
<1>9. p \in 0..N /\ gvLog' = InsertAt(gvLog, p + 1, e)
  BY <1>1, <1>2, <1>3
<1>10. /\ gvLog' \in Seq(LoggedRecords') /\ Len(gvLog') = N + 1 /\ DOMAIN gvLog' = 1..(N + 1)
       /\ gvLog'[p + 1] = e
       /\ \A k \in 1..p : gvLog'[k] = gvLog[k]
       /\ \A k \in (p + 1)..N : gvLog'[k + 1] = gvLog[k]
  <2>1. PICK S, s, t, k, u : S = LoggedRecords' /\ s = gvLog /\ t = gvLog' /\ k = p /\ u = e
    OBVIOUS
  <2>2. s \in Seq(S) /\ k \in 0..Len(s) /\ u \in S /\ t = InsertAt(s, k + 1, u)
    BY <1>3, <1>6, <1>8, <1>9, <2>1
  <2>3. Inserted(S, s, k, u, t)
    <3>1. PICK q : q = k + 1
      OBVIOUS
    <3>2. s \in Seq(S) /\ k \in 0..Len(s) /\ u \in S /\ q = k + 1 /\ t = InsertAt(s, q, u)
      BY <2>2, <3>1
    <3> QED
      BY ONLY <3>2, InsertIs
  <2> QED
    BY <1>3, <2>1, <2>3 DEF Inserted
\* Where a record was before.
<1>11. ASSUME NEW k \in 1..(N + 1), k # p + 1
       PROVE  \E i \in 1..N : gvLog'[k] = gvLog[i] /\ (IF k < p + 1 THEN i = k ELSE k = i + 1)
  <2>1. CASE k < p + 1
    BY <1>9, <1>10, <2>1
  <2>2. CASE ~(k < p + 1)
    <3>1. k - 1 \in (p + 1)..N /\ k - 1 \in 1..N /\ (k - 1) + 1 = k
      BY <1>9, <1>11, <2>2
    <3> QED
      BY <1>10, <2>2, <3>1
  <2> QED
    BY <2>1, <2>2
<1>12. ASSUME NEW i \in 1..N
       PROVE  /\ gvLog[i].id \in 1..(gvNext - 1) /\ gvLog[i].time \in 1..gvClock
              /\ gvLog[i].supersedes \subseteq 1..(gvNext - 1)
              /\ i > p => gvLog[i].time = gvClock
  <2>1. i > p => i \in (p + 1)..Len(gvLog)
    BY <1>3, <1>9
  <2> QED
    BY <1>1, <1>3, <2>1, LogTypes
<1>13. LogOrdered(gvLog)
  BY DEF ViewsInv
<1>14. e.id = gvNext /\ e.time = gvClock /\ e.supersedes = old
  BY <1>2
<1>15. ASSUME NEW i \in 1..(N + 1), NEW j \in 1..(N + 1), i < j
       PROVE  gvLog'[i].id # gvLog'[j].id /\ gvLog'[i].time <= gvLog'[j].time
  <2>1. CASE i = p + 1
    <3>0. j # p + 1 /\ ~(j < p + 1)
      BY <1>9, <1>15, <2>1
    <3>1. PICK k \in 1..N : gvLog'[j] = gvLog[k] /\ j = k + 1
      BY <1>11, <3>0
    <3>2. k > p
      BY <1>9, <1>15, <2>1, <3>1
    <3> QED
      BY <1>4, <1>10, <1>12, <1>14, <2>1, <3>1, <3>2
  <2>2. CASE j = p + 1
    <3>1. PICK k \in 1..N : gvLog'[i] = gvLog[k]
      BY <1>11, <1>15, <2>2
    <3> QED
      BY <1>4, <1>10, <1>12, <1>14, <2>2, <3>1
  <2>3. CASE i # p + 1 /\ j # p + 1
    <3>1. PICK k \in 1..N : gvLog'[i] = gvLog[k] /\ (IF i < p + 1 THEN k = i ELSE i = k + 1)
      BY <1>11, <2>3
    <3>2. PICK l \in 1..N : gvLog'[j] = gvLog[l] /\ (IF j < p + 1 THEN l = j ELSE j = l + 1)
      BY <1>11, <2>3
    <3>3. k < l
      BY <1>9, <1>15, <2>3, <3>1, <3>2
    <3> QED
      BY <1>3, <1>13, <3>1, <3>2, <3>3 DEF LogOrdered
  <2> QED
    BY <2>1, <2>2, <2>3
<1>16. ASSUME NEW i \in 1..(N + 1), NEW j \in 1..(N + 1), gvLog'[j].id \in gvLog'[i].supersedes
       PROVE  j < i
  <2>1. CASE i = p + 1 /\ j = p + 1
    BY <1>4, <1>7, <1>10, <1>14, <1>16, <2>1
  <2>2. CASE i = p + 1 /\ j # p + 1
    <3>1. PICK k \in 1..N : gvLog'[j] = gvLog[k] /\ (IF j < p + 1 THEN k = j ELSE j = k + 1)
      BY <1>11, <2>2
    <3>2. gvLog[k].time < gvClock
      BY <1>4, <1>10, <1>14, <1>16, <2>2, <3>1
    <3>3. ~(k > p)
      BY <1>4, <1>12, <3>2
    <3> QED
      BY <1>9, <2>2, <3>1, <3>3
  <2>3. CASE i # p + 1 /\ j = p + 1
    <3>1. PICK k \in 1..N : gvLog'[i] = gvLog[k]
      BY <1>11, <2>3
    <3>2. gvLog'[i].supersedes \subseteq 1..(gvNext - 1)
      BY <1>12, <3>1
    <3>3. gvLog'[j].id = gvNext /\ gvNext \notin 1..(gvNext - 1)
      BY <1>4, <1>10, <1>14, <2>3
    <3> QED
      BY <1>16, <3>2, <3>3
  <2>4. CASE i # p + 1 /\ j # p + 1
    <3>1. PICK k \in 1..N : gvLog'[i] = gvLog[k] /\ (IF i < p + 1 THEN k = i ELSE i = k + 1)
      BY <1>11, <2>4
    <3>2. PICK l \in 1..N : gvLog'[j] = gvLog[l] /\ (IF j < p + 1 THEN l = j ELSE j = l + 1)
      BY <1>11, <2>4
    <3>3. l < k
      BY <1>3, <1>13, <1>16, <3>1, <3>2 DEF LogOrdered
    <3> QED
      BY <1>9, <2>4, <3>1, <3>2, <3>3
  <2> QED
    BY <2>1, <2>2, <2>3, <2>4
<1>17. LogOrdered(gvLog')
  BY <1>10, <1>15, <1>16 DEF LogOrdered
<1>18. gvInto' \in [GvNames -> GvNames] /\ Len(gvLog') < gvNext'
  BY <1>3, <1>4, <1>10 DEF ViewsInv
<1> QED
  BY <1>5, <1>10, <1>17, <1>18 DEF ViewsInv, LogOrdered

\* Forgetting a record only stamps it.
LEMMA ForgetKeeps ==
    ASSUME ViewsInv, NEW i \in DOMAIN gvLog, ForgetRecord(i)
    PROVE  ViewsInv'
<1>1. PICK N \in Nat : N = Len(gvLog) /\ DOMAIN gvLog = 1..N /\ gvLog \in [1..N -> LoggedRecords]
  BY LogTypes
<1>2. PICK e : e = [gvLog[i] EXCEPT !.retired = gvClock]
  OBVIOUS
<1>3. gvLog' = [gvLog EXCEPT ![i] = e] /\ gvInto' = gvInto /\ gvClock' = gvClock /\ gvNext' = gvNext
  BY <1>2 DEF ForgetRecord
<1>4. LoggedRecords' = LoggedRecords
  BY <1>3 DEF LoggedRecords
<1>5. gvClock \in 0..gvClock /\ gvLog[i] \in LoggedRecords
  <2>1. gvClock \in Nat
    BY LogTypes
  <2>2. i \in 1..N
    BY <1>1
  <2> QED
    BY <1>1, <2>1, <2>2
<1>6. e \in LoggedRecords /\ e.id = gvLog[i].id /\ e.time = gvLog[i].time /\ e.supersedes = gvLog[i].supersedes
  BY <1>2, <1>5 DEF LoggedRecords
<1>7. /\ gvLog' \in Seq(LoggedRecords) /\ Len(gvLog') = N /\ DOMAIN gvLog' = 1..N
      /\ \A j \in 1..N : gvLog'[j] = IF j = i THEN e ELSE gvLog[j]
  <2>1. gvLog' \in [1..N -> LoggedRecords]
    BY <1>1, <1>3, <1>6
  <2>2. gvLog' \in Seq(LoggedRecords) /\ Len(gvLog') = N
    BY <1>1, <1>3, <1>6, ExceptSeq DEF ViewsInv
  <2> QED
    BY <1>1, <1>3, <2>1, <2>2
<1>8. \A j \in 1..N : gvLog'[j].id = gvLog[j].id /\ gvLog'[j].time = gvLog[j].time
                      /\ gvLog'[j].supersedes = gvLog[j].supersedes
  BY <1>6, <1>7
<1>9. LogOrdered(gvLog')
  BY <1>1, <1>7, <1>8 DEF ViewsInv, LogOrdered
<1> QED
  BY <1>1, <1>3, <1>4, <1>7, <1>9 DEF ViewsInv, LogOrdered

\* Erasing one leaves the others in their order.
LEMMA EraseKeeps ==
    ASSUME ViewsInv, NEW p \in DOMAIN gvLog, EraseRecord(p)
    PROVE  ViewsInv'
<1>1. PICK N \in Nat : N = Len(gvLog) /\ DOMAIN gvLog = 1..N /\ gvLog \in Seq(LoggedRecords)
  BY LogTypes DEF ViewsInv
<1>2. gvLog' = RemoveAt(gvLog, p) /\ gvInto' = gvInto /\ gvClock' = gvClock /\ gvNext' = gvNext
  BY DEF EraseRecord
<1>3. LoggedRecords' = LoggedRecords
  BY <1>2 DEF LoggedRecords
<1>4. /\ gvLog' \in Seq(LoggedRecords) /\ Len(gvLog') = N - 1 /\ DOMAIN gvLog' = 1..(N - 1)
      /\ \A k \in 1..(N - 1) : gvLog'[k] = IF k < p THEN gvLog[k] ELSE gvLog[k + 1]
  <2>1. PICK S, s, t : S = LoggedRecords /\ s = gvLog /\ t = gvLog'
    OBVIOUS
  <2>2. s \in Seq(S) /\ p \in 1..Len(s) /\ t = RemoveAt(s, p)
    BY <1>1, <1>2, <2>1
  <2>3. /\ t \in Seq(S) /\ Len(t) = Len(s) - 1 /\ DOMAIN t = 1..(Len(s) - 1)
        /\ \A k \in 1..(Len(s) - 1) : t[k] = IF k < p THEN s[k] ELSE s[k + 1]
    BY <2>2, RemoveIs
  <2> QED
    BY <1>1, <2>1, <2>3
<1>5. ASSUME NEW i \in 1..(N - 1)
      PROVE  \E k \in 1..N : gvLog'[i] = gvLog[k] /\ k = IF i < p THEN i ELSE i + 1
  <2>1. i \in 1..N /\ i + 1 \in 1..N
    BY <1>1
  <2> QED
    BY <1>4, <2>1
<1>6. ASSUME NEW i \in 1..(N - 1), NEW j \in 1..(N - 1)
      PROVE  /\ i < j => gvLog'[i].id # gvLog'[j].id /\ gvLog'[i].time <= gvLog'[j].time
             /\ gvLog'[j].id \in gvLog'[i].supersedes => j < i
  <2>1. PICK k \in 1..N : gvLog'[i] = gvLog[k] /\ k = IF i < p THEN i ELSE i + 1
    BY <1>5
  <2>2. PICK l \in 1..N : gvLog'[j] = gvLog[l] /\ l = IF j < p THEN j ELSE j + 1
    BY <1>5
  <2>3. p \in 1..N /\ (i < j => k < l) /\ (l < k => j < i)
    BY <1>1, <2>1, <2>2
  <2> QED
    BY <1>1, <2>1, <2>2, <2>3 DEF ViewsInv, LogOrdered
<1>7. LogOrdered(gvLog')
  BY <1>4, <1>6 DEF LogOrdered
<1>8. Len(gvLog') < gvNext
  BY <1>1, <1>4, LogTypes DEF ViewsInv
<1> QED
  BY <1>2, <1>3, <1>4, <1>7, <1>8 DEF ViewsInv, LogOrdered

\* Every step keeps the log in order.
LEMMA ViewsStepInv == ViewsInv /\ [ViewsNext]_viewVars => ViewsInv'
<1> SUFFICES ASSUME ViewsInv, [ViewsNext]_viewVars PROVE ViewsInv'
  OBVIOUS
<1>1. ASSUME NEW d \in GvDrafts, NEW old \in SUBSET LogIdsOf, WriteRecord(d, old) PROVE ViewsInv'
  BY <1>1, WriteKeeps
<1>2. ASSUME NEW i \in DOMAIN gvLog, ForgetRecord(i) PROVE ViewsInv'
  BY <1>2, ForgetKeeps
<1>3. ASSUME NEW i \in DOMAIN gvLog, EraseRecord(i) PROVE ViewsInv'
  BY <1>3, EraseKeeps
<1>4. ASSUME NEW m \in GvMerges, AliasNames(m[1], m[2]) PROVE ViewsInv'
  <2>1. m[1] \in GvNames /\ m[2] \in GvNames
    BY GraphViewsAssumption
  <2>2. gvInto' \in [GvNames -> GvNames]
    BY <1>4, <2>1 DEF AliasNames, ViewsInv
  <2>3. LoggedRecords' = LoggedRecords
    BY <1>4 DEF LoggedRecords, AliasNames
  <2> QED
    BY <1>4, <2>2, <2>3 DEF ViewsInv, LogOrdered, AliasNames
<1>5. ASSUME ClockTicks PROVE ViewsInv'
  <2>1. gvClock \in 1..GvMaxTime /\ GvMaxTime \in Nat
    BY LogTypes DEF ViewsInv
  <2>2. gvClock' \in 1..GvMaxTime /\ gvClock' >= gvClock /\ gvNext' = gvNext /\ gvLog' = gvLog /\ gvInto' = gvInto
    BY <1>5, <2>1 DEF ClockTicks
  <2>3. gvNext' >= gvNext /\ gvNext' \in 1..(MaxDrafts + 1)
    BY <2>2, LogTypes DEF ViewsInv
  <2>4. gvLog \in Seq(LoggedRecords')
    BY <2>2, <2>3, LogGrows
  <2> QED
    BY <2>2, <2>3, <2>4 DEF ViewsInv, LogOrdered
<1>6. ASSUME UNCHANGED viewVars PROVE ViewsInv'
  BY <1>6 DEF viewVars, ViewsInv, LoggedRecords, LogOrdered
<1> QED
  BY <1>1, <1>2, <1>3, <1>4, <1>5, <1>6 DEF ViewsNext

LEMMA ViewsInitInv == ViewsInit => ViewsInv
<1> SUFFICES ASSUME ViewsInit PROVE ViewsInv
  OBVIOUS
<1>1. gvLog = <<>> /\ gvInto = [n \in GvNames |-> n] /\ gvClock = 1 /\ gvNext = 1
  BY DEF ViewsInit
<1>2. gvLog \in Seq(LoggedRecords) /\ Len(gvLog) = 0 /\ DOMAIN gvLog = {}
  <2>1. <<>> \in Seq(LoggedRecords) /\ Len(<<>>) = 0
    BY EmptySeq
  <2> QED
    BY <1>1, <2>1
<1>3. GvMaxTime \in Nat \ {0} /\ MaxDrafts \in Nat
  BY GraphViewsAssumption
<1> QED
  BY <1>1, <1>2, <1>3 DEF ViewsInv, LogOrdered

\* The values a loop takes whose turns are alike.
Loops(N, V, first, next, f) ==
    f \in [0..N -> V] /\ f[0] = first /\ \A n \in 1..N : f[n] = next[f[n - 1]]

LEMMA LoopExists ==
    ASSUME NEW N \in Nat, NEW V, NEW first \in V, NEW next \in [V -> V]
    PROVE  \E f : Loops(N, V, first, next, f)
<1>1. PICK turn : turn = [x \in (1..N) \X V |-> next[x[2]]]
  OBVIOUS
<1>2. turn \in [(1..N) \X V -> V]
  BY <1>1
<1>3. PICK f : Runs(N, V, first, turn, f)
  BY <1>2, LoopRuns
<1>4. f \in [0..N -> V] /\ f[0] = first /\ \A n \in 1..N : f[n] = turn[<<n, f[n - 1]>>]
  BY <1>3 DEF Runs
<1>5. ASSUME NEW n \in 1..N PROVE f[n] = next[f[n - 1]]
  <2>1. n - 1 \in 0..N
    OBVIOUS
  <2>2. <<n, f[n - 1]>> \in (1..N) \X V
    BY <1>4, <2>1
  <2> QED
    BY <1>1, <1>4, <2>2
<1> QED
  BY <1>4, <1>5 DEF Loops

-----------------------------------------------------------------------------

\* The interval of a record as the proofs use it: within the times there are,
\* and ended, unless forgotten, by a later record that held by then.
EndedBy(v, k) ==
    \E i \in DOMAIN gvLog : i > k /\ v.by = gvLog[i].id /\ ValidFrom(gvLog[i]) <= v.to
IntervalOf(v, k) ==
    /\ v.from = ValidFrom(gvLog[k]) /\ v.from \in 1..GvMaxTime /\ v.to \in 0..GvMaxTime
    /\ Enders(gvLog, k) # {} => v.to # 0
    /\ v.to # 0 => v.reason = "Forgotten" \/ EndedBy(v, k)
    /\ v.by # 0 => EndedBy(v, k)

LEMMA LargerIs ==
    ASSUME NEW a \in Int, NEW b \in Int
    PROVE  /\ Larger(a, b) >= a /\ Larger(a, b) >= b /\ Larger(a, b) \in {a, b}
  BY DEF Larger

LEMMA FromIs ==
    ASSUME ViewsInv, NEW k \in DOMAIN gvLog
    PROVE  ValidFrom(gvLog[k]) \in 1..GvMaxTime
<1>1. gvLog[k].from \in 0..GvMaxTime /\ gvLog[k].time \in 1..GvMaxTime /\ GvMaxTime \in Nat
  BY LogTypes
<1> QED
  BY <1>1 DEF ValidFrom

\* Only a later record ends another.
LEMMA EndersLater ==
    ASSUME ViewsInv, NEW k \in DOMAIN gvLog, NEW i \in Enders(gvLog, k)
    PROVE  i \in DOMAIN gvLog /\ k < i
<1>1. i \in DOMAIN gvLog /\ (Superseded(gvLog, i, k) \/ k < i)
  BY DEF Enders, Contradicted, Restated
<1>2. Superseded(gvLog, i, k) => k < i
  BY <1>1 DEF Superseded, ViewsInv, LogOrdered
<1> QED
  BY <1>1, <1>2

LEMMA IntervalIs ==
    ASSUME ViewsInv, NEW k \in DOMAIN gvLog, NEW v, v = Interval(gvLog, k)
    PROVE  IntervalOf(v, k)
<1>1. PICK u, first, end :
        /\ u = gvLog[k]
        /\ first = CHOOSE i \in Enders(gvLog, k) : \A j \in Enders(gvLog, k) : i <= j
        /\ end = EndAt(u, gvLog[first])
  OBVIOUS
<1>2. v = IF u.retired # 0 /\ (Enders(gvLog, k) = {} \/ u.retired < end)
          THEN [from |-> ValidFrom(u), to |-> Larger(u.retired, ValidFrom(u)), by |-> 0,
                reason |-> "Forgotten"]
          ELSE IF Enders(gvLog, k) = {}
          THEN [from |-> ValidFrom(u), to |-> 0, by |-> 0, reason |-> "none"]
          ELSE [from |-> ValidFrom(u), to |-> end, by |-> gvLog[first].id,
                reason |-> Reason(gvLog, first, k)]
  BY <1>1 DEF Interval
<1>3. u.retired \in 0..GvMaxTime /\ ValidFrom(u) \in 1..GvMaxTime /\ GvMaxTime \in Nat
  BY <1>1, LogTypes, FromIs
<1>4. ASSUME Enders(gvLog, k) # {}
      PROVE  /\ first \in DOMAIN gvLog /\ first > k
             /\ end \in 1..GvMaxTime /\ ValidFrom(gvLog[first]) <= end
  <2>1. PICK E : E = Enders(gvLog, k)
    OBVIOUS
  <2>2. \A i \in E : i \in DOMAIN gvLog /\ k < i
    BY <2>1, EndersLater
  <2>3. E \in SUBSET Nat
    BY <2>2, LogTypes
  <2>4. \E i \in E : \A j \in E : i <= j
    BY <1>4, <2>1, <2>3, LeastNat
  <2>5. first \in E
    BY <1>1, <2>1, <2>4
  <2>6. first \in DOMAIN gvLog /\ first > k
    BY <2>2, <2>3, <2>5, LogTypes
  <2>7. ValidFrom(gvLog[first]) \in 1..GvMaxTime
    BY <2>6, FromIs
  <2>8. end = Larger(ValidFrom(gvLog[first]), ValidFrom(u))
    BY <1>1 DEF EndAt
  <2>9. end \in 1..GvMaxTime /\ ValidFrom(gvLog[first]) <= end
    BY <1>3, <2>7, <2>8 DEF Larger
  <2> QED
    BY <2>6, <2>9
<1>5. CASE u.retired # 0 /\ (Enders(gvLog, k) = {} \/ u.retired < end)
  <2>1. v = [from |-> ValidFrom(u), to |-> Larger(u.retired, ValidFrom(u)), by |-> 0,
             reason |-> "Forgotten"]
    BY <1>2, <1>5
  <2>2. Larger(u.retired, ValidFrom(u)) \in 1..GvMaxTime
    BY <1>3 DEF Larger
  <2>3. v.from = ValidFrom(u) /\ v.to \in 1..GvMaxTime /\ v.by = 0 /\ v.reason = "Forgotten"
    BY <2>1, <2>2
  <2> QED
    BY <1>1, <1>3, <2>3 DEF IntervalOf
<1>6. CASE ~(u.retired # 0 /\ (Enders(gvLog, k) = {} \/ u.retired < end)) /\ Enders(gvLog, k) = {}
  <2>1. v = [from |-> ValidFrom(u), to |-> 0, by |-> 0, reason |-> "none"]
    BY <1>2, <1>6
  <2>2. v.from = ValidFrom(u) /\ v.to = 0 /\ v.by = 0
    BY <2>1
  <2> QED
    BY <1>1, <1>3, <1>6, <2>2 DEF IntervalOf
<1>7. CASE ~(u.retired # 0 /\ (Enders(gvLog, k) = {} \/ u.retired < end)) /\ Enders(gvLog, k) # {}
  <2>1. v = [from |-> ValidFrom(u), to |-> end, by |-> gvLog[first].id,
             reason |-> Reason(gvLog, first, k)]
    BY <1>2, <1>7
  <2>2. v.from = ValidFrom(u) /\ v.to = end /\ v.by = gvLog[first].id
    BY <2>1
  <2>3. end \in 0..GvMaxTime /\ end # 0
    BY <1>3, <1>4, <1>7
  <2>4. EndedBy(v, k)
    BY <1>4, <1>7, <2>2 DEF EndedBy
  <2> QED
    BY <1>1, <1>3, <2>2, <2>3, <2>4 DEF IntervalOf
<1> QED
  BY <1>5, <1>6, <1>7

\* Every record has its interval.
LEMMA ValidityIs ==
    ASSUME ViewsInv, NEW valid, valid = Validity(gvLog)
    PROVE  /\ DOMAIN valid = LogIdsOf
           /\ \A k \in DOMAIN gvLog : IntervalOf(valid[gvLog[k].id], k)
<1>1. valid = [x \in LogIdsOf |-> Interval(gvLog, PlaceIn(gvLog, x))]
  BY DEF Validity, LogIdsOf
<1>2. ASSUME NEW k \in DOMAIN gvLog PROVE IntervalOf(valid[gvLog[k].id], k)
  <2>1. PICK p : p = PlaceIn(gvLog, gvLog[k].id)
    OBVIOUS
  <2>2. p \in DOMAIN gvLog /\ gvLog[p].id = gvLog[k].id
    BY <2>1 DEF PlaceIn
  <2>3. p = k
    <3>1. p \in Nat /\ k \in Nat
      BY <2>2, LogTypes
    <3>2. ~(p < k) /\ ~(k < p)
      BY <2>2 DEF ViewsInv, LogOrdered
    <3> QED
      BY <3>1, <3>2
  <2>4. gvLog[k].id \in LogIdsOf
    BY DEF LogIdsOf
  <2> QED
    BY <1>1, <2>1, <2>3, <2>4, IntervalIs
<1> QED
  BY <1>1, <1>2

\* Records by their ids.
LEMMA IdsAre ==
    ASSUME ViewsInv, NEW x \in LogIdsOf
    PROVE  \E k \in DOMAIN gvLog : gvLog[k].id = x /\ x \in 1..MaxDrafts
  BY LogTypes DEF LogIdsOf

\* The steps of a chain of endings.
ChainOf(valid, x, to) ==
    /\ to[0] = {x}
    /\ \A n \in 1..MaxDrafts : to[n] = {valid[y].by : y \in to[n - 1] \cap DOMAIN valid}
    /\ Successors(valid, x) = (UNION {to[n] : n \in 1..MaxDrafts}) \ {0}

LEMMA ChainIs ==
    ASSUME NEW valid, NEW x
    PROVE  \E to : ChainOf(valid, x, to)
<1> DEFINE Chain(f) == f = [n \in 0..MaxDrafts |-> IF n = 0 THEN {x}
                              ELSE {valid[y].by : y \in f[n - 1] \cap DOMAIN valid}]
<1>1. MaxDrafts \in Nat
  BY GraphViewsAssumption
<1>2. PICK V, first, next :
        /\ V = SUBSET ({x} \cup {valid[y].by : y \in DOMAIN valid}) /\ first = {x}
        /\ next = [S \in V |-> {valid[y].by : y \in S \cap DOMAIN valid}]
  OBVIOUS
<1>3. first \in V /\ next \in [V -> V]
  BY <1>2
<1>4. PICK N : N = MaxDrafts /\ N \in Nat
  BY <1>1
<1>5. PICK f : Loops(N, V, first, next, f)
  BY <1>3, <1>4, LoopExists
<1>6. f \in [0..N -> V] /\ f[0] = {x} /\ \A n \in 1..N : f[n] = next[f[n - 1]]
  BY <1>2, <1>5 DEF Loops
<1>7. ASSUME NEW n \in 1..N PROVE f[n] = {valid[y].by : y \in f[n - 1] \cap DOMAIN valid}
  <2>1. n - 1 \in 0..N
    BY <1>4
  <2>2. f[n - 1] \in V
    BY <1>6, <2>1
  <2> QED
    BY <1>2, <1>6, <2>2
<1>8. Chain(f)
  BY <1>4, <1>6, <1>7
<1>9. PICK to : Chain(to) /\ Successors(valid, x) = (UNION {to[n] : n \in 1..MaxDrafts}) \ {0}
  <2>1. PICK t : t = CHOOSE g : Chain(g)
    OBVIOUS
  <2>2. Chain(t)
    <3> HIDE DEF Chain
    <3> QED
      BY <1>8, <2>1
  <2>3. Successors(valid, x) = (UNION {t[n] : n \in 1..MaxDrafts}) \ {0}
    BY <2>1 DEF Successors
  <2> QED
    BY <2>2, <2>3
<1>10. to[0] = {x}
  BY <1>1, <1>9
<1>11. ASSUME NEW n \in 1..MaxDrafts PROVE to[n] = {valid[y].by : y \in to[n - 1] \cap DOMAIN valid}
  <2>1. n \in 0..MaxDrafts /\ n # 0
    BY <1>1
  <2> QED
    BY <1>9, <2>1
<1>12. ChainOf(valid, x, to)
  <2> HIDE DEF Chain
  <2> QED
    BY <1>9, <1>10, <1>11 DEF ChainOf
<1> QED
  BY <1>12

\* A chain of endings runs out of records, so some record on it holds when the
\* first ends, or was forgotten.
LEMMA ChainHolds ==
    ASSUME ViewsInv, NEW valid, valid = Validity(gvLog), NEW x \in DOMAIN valid, valid[x].by # 0
    PROVE  \E y \in Successors(valid, x) :
              HoldsAt(valid[y], valid[x].to) \/ valid[y].reason = "Forgotten"
<1> SUFFICES ASSUME \A y \in Successors(valid, x) :
                ~HoldsAt(valid[y], valid[x].to) /\ valid[y].reason # "Forgotten"
             PROVE  FALSE
  OBVIOUS
<1>1. PICK to :
        /\ to[0] = {x}
        /\ \A n \in 1..MaxDrafts : to[n] = {valid[y].by : y \in to[n - 1] \cap DOMAIN valid}
        /\ Successors(valid, x) = (UNION {to[n] : n \in 1..MaxDrafts}) \ {0}
  <2>1. PICK to : ChainOf(valid, x, to)
    BY ChainIs
  <2> QED
    BY <2>1 DEF ChainOf
<1>2. DOMAIN valid = LogIdsOf /\ \A k \in DOMAIN gvLog : IntervalOf(valid[gvLog[k].id], k)
  BY ValidityIs
<1>3. PICK N \in Nat : N = Len(gvLog) /\ DOMAIN gvLog = 1..N /\ N <= MaxDrafts /\ MaxDrafts \in Nat
  BY LogTypes
<1>4. PICK T : T = valid[x].to
  OBVIOUS
<1>5. PICK a \in 1..N : gvLog[a].id = x
  BY <1>2, <1>3 DEF LogIdsOf
<1>6. IntervalOf(valid[x], a)
  BY <1>2, <1>3, <1>5
<1>7. EndedBy(valid[x], a) /\ T \in 0..GvMaxTime
  BY <1>4, <1>6 DEF IntervalOf
\* After n steps there is a record at least n places on that held by then.
<1> DEFINE Far == {n \in 0..N : n # 0 =>
                     \E m \in 1..N : m > n /\ gvLog[m].id \in to[n] /\ ValidFrom(gvLog[m]) <= T}
<1>8. 0 \in Far
  BY <1>3
<1>9. ASSUME NEW n \in 1..N, n - 1 \in Far PROVE n \in Far
  <2>1. n \in 1..MaxDrafts /\ n \in 0..N
    BY <1>3
  <2>2. CASE n = 1
    <3>1. PICK i \in 1..N : i > a /\ valid[x].by = gvLog[i].id /\ ValidFrom(gvLog[i]) <= T
      BY <1>3, <1>4, <1>7 DEF EndedBy
    <3>2. to[1] = {valid[y].by : y \in to[0] \cap DOMAIN valid}
      BY <1>1, <2>1, <2>2
    <3>3. gvLog[i].id \in to[1]
      BY <1>1, <3>1, <3>2
    <3>4. i > 1
      BY <1>5, <3>1
    <3> QED
      BY <2>1, <2>2, <3>1, <3>3, <3>4
  <2>3. CASE n # 1
    <3>1. n - 1 # 0 /\ n - 1 \in 1..MaxDrafts
      BY <1>3, <2>1, <2>3
    <3>2. PICK m \in 1..N : m > n - 1 /\ gvLog[m].id \in to[n - 1] /\ ValidFrom(gvLog[m]) <= T
      BY <1>9, <3>1
    <3>3. PICK y : y = gvLog[m].id
      OBVIOUS
    <3>4. y \in DOMAIN valid /\ IntervalOf(valid[y], m)
      BY <1>2, <1>3, <3>3 DEF LogIdsOf
    <3>5. y \in 1..MaxDrafts
      BY <1>3, <3>3, LogTypes
    <3>6. y \in Successors(valid, x)
      BY <1>1, <3>1, <3>2, <3>3, <3>5
    <3>7. ~HoldsAt(valid[y], T) /\ valid[y].reason # "Forgotten"
      BY <1>4, <3>6
    <3>8. valid[y].from <= T
      BY <3>2, <3>3, <3>4 DEF IntervalOf
    <3>9. valid[y].to \in 0..GvMaxTime /\ valid[y].to # 0 /\ ~(T < valid[y].to)
      BY <3>4, <3>7, <3>8 DEF HoldsAt, IntervalOf
    <3>10. EndedBy(valid[y], m)
      BY <3>4, <3>7, <3>9 DEF IntervalOf
    <3>11. PICK i \in 1..N : i > m /\ valid[y].by = gvLog[i].id /\ ValidFrom(gvLog[i]) <= valid[y].to
      BY <1>3, <3>10 DEF EndedBy
    <3>12. ValidFrom(gvLog[i]) \in 1..GvMaxTime /\ GvMaxTime \in Nat
      BY <1>3, FromIs, LogTypes
    <3>13. ValidFrom(gvLog[i]) <= T
      BY <1>7, <3>9, <3>11, <3>12
    <3>14. gvLog[i].id \in to[n]
      BY <1>1, <2>1, <3>2, <3>3, <3>4, <3>11
    <3>15. i > n
      BY <3>2, <3>11
    <3> QED
      BY <2>1, <3>13, <3>14, <3>15
  <2> QED
    BY <2>2, <2>3
<1>10. N \in Far
  <2> HIDE DEF Far
  <2>1. \A n \in 0..N : n \in Far
    BY <1>8, <1>9, UpTo
  <2> QED
    BY <2>1
<1>11. N # 0
  BY <1>5
<1> QED
  BY <1>10, <1>11

\* Records succeed each other without a gap.
LEMMA RecordsSucceed ==
    ASSUME ViewsInv, NEW valid, valid = Validity(gvLog)
    PROVE  Succeeds(valid)
<1>1. \A k \in DOMAIN gvLog : IntervalOf(valid[gvLog[k].id], k)
  BY ValidityIs
<1>2. ASSUME NEW i \in DOMAIN gvLog, NEW j \in DOMAIN gvLog,
             i < j, Restatable(gvLog[j]), gvLog[i].kind = gvLog[j].kind,
             Subject(gvLog[j]) # {}, Subject(gvLog[i]) = Subject(gvLog[j]),
             {gvLog[i].title, gvLog[j].title} \in GvRestates
      PROVE  ~IsCurrent(valid[gvLog[i].id])
  <2>1. i # j
    BY <1>2, LogTypes
  <2>2. j \in Enders(gvLog, i)
    BY <1>2, <2>1 DEF Enders, Restated
  <2> QED
    BY <1>1, <2>2 DEF IntervalOf, IsCurrent
<1>3. \A x \in DOMAIN valid : valid[x].by # 0 =>
        \E y \in Successors(valid, x) : HoldsAt(valid[y], valid[x].to) \/ valid[y].reason = "Forgotten"
  BY ChainHolds
<1> QED
  BY <1>2, <1>3 DEF Succeeds

-----------------------------------------------------------------------------

\* A finite set as a sequence has its elements.
LEMMA SequenceOfSet ==
    ASSUME NEW S, IsFiniteSet(S), NEW q, q = SetToSeq(S)
    PROVE  q \in Seq(S) /\ Range(q) = S
<1>1. PICK n : n = Cardinality(S) /\ n \in Nat
  BY FS_CardinalityType
<1>2. \E p \in [1..n -> S] : \A i, j \in 1..n : i # j => p[i] # p[j]
  <2>1. PICK R : R = {}
    OBVIOUS
  <2>2. R \in SUBSET (S \X S) /\ \A x \in S : <<x, x>> \notin R
    BY <2>1
  <2>3. \A x, y, z \in S : <<x, y>> \in R /\ <<y, z>> \in R => <<x, z>> \in R
    BY <2>1
  <2>4. \E p \in [1..Cardinality(S) -> S] :
            /\ \A i, j \in 1..Cardinality(S) : i # j => p[i] # p[j]
            /\ \A i, j \in 1..Cardinality(S) : <<p[i], p[j]>> \in R => i < j
    BY <2>2, <2>3, SortExists
  <2> QED
    BY <1>1, <2>4
<1>3. \E p \in [1..n -> S] : IsInjective(p)
  BY <1>2 DEF IsInjective
<1>4. q \in [1..n -> S] /\ IsInjective(q)
  BY <1>1, <1>3 DEF SetToSeq
<1>5. \A i, j \in 1..n : i # j => q[i] # q[j]
  BY <1>4 DEF IsInjective
<1>6. \A x \in S : \E i \in 1..n : q[i] = x
  BY <1>1, <1>4, <1>5, FillsSet
<1>7. q \in Seq(S)
  <2>1. q = [i \in 1..n |-> q[i]] /\ \A i \in 1..n : q[i] \in S
    BY <1>4
  <2> QED
    BY <1>1, <1>4, <2>1
<1> QED
  BY <1>4, <1>6, <1>7 DEF Range

\* An entity that depends on another over one relation, and all that depend on
\* one of some.
Direct(graph, a, b) ==
    \E r \in graph :
        /\ r[1] # r[3]
        /\ \/ r[2] \in {"DependsOn", "RequiredBy", "Implements"} /\ r[1] = a /\ r[3] = b
           \/ r[2] = "RequiredBy" /\ r[3] = a /\ r[1] = b
Impacts(graph, S) == AnalyzeImpact(SetToSeq(S), graph)
Behind(graph, S) == {i[1] : i \in Impacts(graph, S)}

LEMMA ImpactsAre ==
    ASSUME NEW S, IsFiniteSet(S), NEW graph, NEW items, items = Impacts(graph, S)
    PROVE  /\ \A i \in items : i = <<i[1], i[2]>> /\ i[2] \in S /\ Direct(graph, i[1], i[2])
           /\ \A b \in S : \A a : Direct(graph, a, b) => <<a, b>> \in items
<1>1. Range(SetToSeq(S)) = S
  BY SequenceOfSet
<1>2. PICK edges : edges = {r \in graph : r[1] # r[3]}
  OBVIOUS
<1>3. items = {<<r[1], r[3]>> : r \in {q \in edges :
                  q[2] \in {"DependsOn", "RequiredBy", "Implements"} /\ q[3] \in S}}
              \cup {<<r[3], r[1]>> : r \in {q \in edges : q[2] = "RequiredBy" /\ q[1] \in S}}
  BY <1>1, <1>2 DEF Impacts, AnalyzeImpact
<1>4. ASSUME NEW i \in items
      PROVE  i = <<i[1], i[2]>> /\ i[2] \in S /\ Direct(graph, i[1], i[2])
  <2>1. CASE \E r \in edges : /\ r[2] \in {"DependsOn", "RequiredBy", "Implements"} /\ r[3] \in S
                              /\ i = <<r[1], r[3]>>
    BY <1>2, <2>1 DEF Direct
  <2>2. CASE \E r \in edges : r[2] = "RequiredBy" /\ r[1] \in S /\ i = <<r[3], r[1]>>
    BY <1>2, <2>2 DEF Direct
  <2> QED
    BY <1>3, <2>1, <2>2
<1>5. ASSUME NEW b \in S, NEW a, Direct(graph, a, b) PROVE <<a, b>> \in items
  <2>1. PICK r \in graph :
          /\ r[1] # r[3]
          /\ \/ r[2] \in {"DependsOn", "RequiredBy", "Implements"} /\ r[1] = a /\ r[3] = b
             \/ r[2] = "RequiredBy" /\ r[3] = a /\ r[1] = b
    BY <1>5 DEF Direct
  <2> QED
    BY <1>2, <1>3, <2>1
<1> QED
  BY <1>4, <1>5

LEMMA BehindIs ==
    ASSUME NEW S, IsFiniteSet(S), NEW graph
    PROVE  \A y : y \in Behind(graph, S) <=> \E b \in S : Direct(graph, y, b)
<1>1. PICK items : items = Impacts(graph, S)
  OBVIOUS
<1>2. /\ \A i \in items : i = <<i[1], i[2]>> /\ i[2] \in S /\ Direct(graph, i[1], i[2])
      /\ \A b \in S : \A a : Direct(graph, a, b) => <<a, b>> \in items
  BY <1>1, ImpactsAre
<1>3. ASSUME NEW y, NEW b \in S, Direct(graph, y, b) PROVE y \in {i[1] : i \in items}
  <2>1. <<y, b>> \in items
    BY <1>2, <1>3
  <2> QED
    BY <2>1
<1>4. ASSUME NEW y \in {i[1] : i \in items} PROVE \E b \in S : Direct(graph, y, b)
  BY <1>2
<1> QED
  BY <1>1, <1>3, <1>4 DEF Behind

\* A graph of the names there are.
GraphNames(graph) == \A r \in graph : r[1] \in GvNames /\ r[3] \in GvNames

LEMMA NamesFinite == \A S \in SUBSET GvNames : IsFiniteSet(S)
  BY GraphViewsAssumption, FS_Subset

LEMMA BehindNames ==
    ASSUME NEW graph, GraphNames(graph), NEW S \in SUBSET GvNames
    PROVE  Behind(graph, S) \in SUBSET GvNames
<1>1. IsFiniteSet(S)
  BY NamesFinite
<1>2. ASSUME NEW y \in Behind(graph, S) PROVE y \in GvNames
  <2>1. PICK b \in S : Direct(graph, y, b)
    BY <1>1, BehindIs
  <2> QED
    BY <2>1 DEF Direct, GraphNames
<1> QED
  BY <1>2

\* The entities at each number of relations.
OverOf(graph, xs, over) ==
    /\ over[0] = xs
    /\ \A n \in 1..GvHops : over[n] = Behind(graph, over[n - 1])
    /\ \A n \in 0..GvHops : over[n] \in SUBSET GvNames

LEMMA DependOverIs ==
    ASSUME NEW graph, GraphNames(graph), NEW xs \in SUBSET GvNames,
           NEW over, over = DependOver(graph, xs)
    PROVE  OverOf(graph, xs, over)
<1> DEFINE After(f) == f = [n \in 0..GvHops |-> IF n = 0 THEN xs
                              ELSE {i[1] : i \in AnalyzeImpact(SetToSeq(f[n - 1]), graph)}]
<1>1. PICK N \in Nat : N = GvHops
  BY GraphViewsAssumption
<1>2. PICK V, next : V = SUBSET GvNames /\ next = [S \in V |-> Behind(graph, S)]
  OBVIOUS
<1>3. xs \in V /\ next \in [V -> V]
  BY <1>2, BehindNames
<1>4. PICK f : Loops(N, V, xs, next, f)
  BY <1>3, LoopExists
<1>5. f \in [0..N -> V] /\ f[0] = xs /\ \A n \in 1..N : f[n] = next[f[n - 1]]
  BY <1>4 DEF Loops
<1>6. ASSUME NEW n \in 1..N
      PROVE  f[n] = {i[1] : i \in AnalyzeImpact(SetToSeq(f[n - 1]), graph)}
  <2>1. n - 1 \in 0..N
    OBVIOUS
  <2>2. f[n - 1] \in V
    BY <1>5, <2>1
  <2>3. f[n] = Behind(graph, f[n - 1])
    BY <1>2, <1>5, <2>2
  <2> QED
    BY <2>3 DEF Behind, Impacts
<1>7. After(f)
  BY <1>1, <1>5, <1>6
<1>8. After(over)
  BY <1>7 DEF DependOver
<1>9. over[0] = xs
  BY <1>1, <1>8
<1>10. ASSUME NEW n \in 1..N PROVE over[n] = Behind(graph, over[n - 1])
  <2>1. n \in 0..N /\ n # 0
    OBVIOUS
  <2> QED
    BY <1>1, <1>8, <2>1 DEF Behind, Impacts
<1> HIDE DEF After
<1>11. \A n \in 0..N : n \in {m \in 0..N : over[m] \in SUBSET GvNames}
  <2>1. PICK G : G = {m \in 0..N : over[m] \in SUBSET GvNames}
    OBVIOUS
  <2>2. 0 \in G
    BY <1>9, <2>1
  <2>3. ASSUME NEW n \in 1..N, n - 1 \in G PROVE n \in G
    <3>1. over[n] \in SUBSET GvNames /\ n \in 0..N
      BY <1>10, <2>1, <2>3, BehindNames
    <3> QED
      BY <2>1, <3>1
  <2>4. \A n \in 0..N : n \in G
    BY <2>2, <2>3, UpTo
  <2> QED
    BY <2>1, <2>4
<1> QED
  BY <1>1, <1>9, <1>10, <1>11 DEF OverOf

\* One hop of the impact analysis, and the hops it takes.
Through(graph, S, x) == (CHOOSE i \in Impacts(graph, S) : i[1] = x)[2]
Found(graph, S, new, h) == {[entity |-> x, via |-> Through(graph, S, x), depth |-> h] : x \in new}
HopOf(graph, h, p) ==
    [new |-> Behind(graph, p.new) \ p.seen,
     seen |-> p.seen \cup (Behind(graph, p.new) \ p.seen),
     found |-> p.found \cup Found(graph, p.new, Behind(graph, p.new) \ p.seen, h)]
HopsOf(graph, sources, N, hop) ==
    /\ hop[0] = [new |-> sources, seen |-> sources, found |-> {}]
    /\ \A n \in 1..N : hop[n] = HopOf(graph, n, hop[n - 1])

LEMMA ThroughIs ==
    ASSUME NEW graph, NEW S, IsFiniteSet(S), NEW x \in Behind(graph, S)
    PROVE  Through(graph, S, x) \in S /\ Direct(graph, x, Through(graph, S, x))
<1>1. PICK items : items = Impacts(graph, S)
  OBVIOUS
<1>2. PICK i : i = CHOOSE j \in items : j[1] = x
  OBVIOUS
<1>3. i \in items /\ i[1] = x
  BY <1>1, <1>2 DEF Behind
<1>4. i[2] \in S /\ Direct(graph, i[1], i[2])
  BY <1>1, <1>3, ImpactsAre
<1> QED
  BY <1>1, <1>2, <1>3, <1>4 DEF Through

DependentSets == SUBSET [entity : GvNames, via : GvNames, depth : Nat]
HopSets == [new : SUBSET GvNames, seen : SUBSET GvNames, found : DependentSets]

LEMMA HopIs ==
    ASSUME NEW graph, GraphNames(graph), NEW p \in HopSets, NEW h \in Nat
    PROVE  HopOf(graph, h, p) \in HopSets
<1>1. p.new \in SUBSET GvNames /\ p.seen \in SUBSET GvNames /\ p.found \in DependentSets
  BY DEF HopSets
<1>2. PICK new : new = Behind(graph, p.new) \ p.seen
  OBVIOUS
<1>3. new \in SUBSET GvNames
  BY <1>1, <1>2, BehindNames
<1>4. Found(graph, p.new, new, h) \in DependentSets
  <2>1. ASSUME NEW x \in new PROVE Through(graph, p.new, x) \in GvNames
    BY <1>1, <1>2, NamesFinite, ThroughIs
  <2>2. ASSUME NEW x \in new
        PROVE  [entity |-> x, via |-> Through(graph, p.new, x), depth |-> h]
                 \in [entity : GvNames, via : GvNames, depth : Nat]
    BY <1>3, <2>1
  <2> QED
    BY <2>2 DEF Found, DependentSets
<1>5. p.found \cup Found(graph, p.new, new, h) \in DependentSets
  BY <1>1, <1>4 DEF DependentSets
<1> QED
  BY <1>1, <1>2, <1>3, <1>5 DEF HopOf, HopSets

LEMMA DependentsAre ==
    ASSUME NEW graph, GraphNames(graph), NEW sources \in SUBSET GvNames, NEW N \in Nat
    PROVE  \E hop : HopsOf(graph, sources, N, hop) /\ Dependents(graph, sources, N) = hop[N].found
<1> DEFINE Hop(f, h) ==
        IF h = 0 THEN [new |-> sources, seen |-> sources, found |-> {}]
        ELSE LET items == AnalyzeImpact(SetToSeq(f[h - 1].new), graph)
                 new == {i[1] : i \in items} \ f[h - 1].seen
                 one(x) == CHOOSE i \in items : i[1] = x
             IN  [new |-> new, seen |-> f[h - 1].seen \cup new,
                  found |-> f[h - 1].found
                    \cup {[entity |-> x, via |-> one(x)[2], depth |-> h] : x \in new}]
           Hops(f) == f = [h \in 0..N |-> Hop(f, h)]
<1>1. PICK V, first, next :
        /\ V = HopSets /\ first = [new |-> sources, seen |-> sources, found |-> {}]
        /\ next = [x \in (1..N) \X V |-> HopOf(graph, x[1], x[2])]
  OBVIOUS
<1>2. first \in V
  BY <1>1 DEF HopSets, DependentSets
<1>3. next \in [(1..N) \X V -> V]
  <2>1. ASSUME NEW x \in (1..N) \X V PROVE HopOf(graph, x[1], x[2]) \in V
    BY <1>1, HopIs
  <2> QED
    BY <1>1, <2>1
<1>4. PICK f : Runs(N, V, first, next, f)
  BY <1>2, <1>3, LoopRuns
<1>5. f \in [0..N -> V] /\ f[0] = first /\ \A n \in 1..N : f[n] = next[<<n, f[n - 1]>>]
  BY <1>4 DEF Runs
<1>6. ASSUME NEW n \in 1..N PROVE f[n] = HopOf(graph, n, f[n - 1])
  <2>1. n - 1 \in 0..N
    OBVIOUS
  <2>2. <<n, f[n - 1]>> \in (1..N) \X V
    BY <1>5, <2>1
  <2> QED
    BY <1>1, <1>5, <2>2
<1>7. ASSUME NEW g, NEW n \in 1..N PROVE Hop(g, n) = HopOf(graph, n, g[n - 1])
  <2>1. n # 0
    OBVIOUS
  <2> QED
    BY <2>1 DEF HopOf, Behind, Impacts, Found, Through
<1>8. ASSUME NEW g PROVE Hop(g, 0) = [new |-> sources, seen |-> sources, found |-> {}]
  OBVIOUS
<1>9. PICK hop : hop = CHOOSE g : Hops(g)
  OBVIOUS
<1>10. Dependents(graph, sources, N) = hop[N].found
  BY <1>9 DEF Dependents
<1> HIDE DEF Hop
<1>11. Hops(f)
  <2>1. ASSUME NEW n \in 0..N PROVE f[n] = Hop(f, n)
    <3>1. CASE n = 0
      BY <1>1, <1>5, <1>8, <3>1
    <3>2. CASE n # 0
      <4>1. n \in 1..N
        BY <3>2
      <4> QED
        BY <1>6, <1>7, <4>1
    <3> QED
      BY <3>1, <3>2
  <2> QED
    BY <1>5, <2>1
<1>12. Hops(hop)
  <2> HIDE DEF Hops
  <2> QED
    BY <1>9, <1>11
<1>13. hop[0] = [new |-> sources, seen |-> sources, found |-> {}]
  <2>1. hop[0] = Hop(hop, 0)
    BY <1>12
  <2> QED
    BY <1>8, <2>1
<1>14. ASSUME NEW n \in 1..N PROVE hop[n] = HopOf(graph, n, hop[n - 1])
  <2>1. hop[n] = Hop(hop, n)
    BY <1>12
  <2> QED
    BY <1>7, <2>1
<1> HIDE DEF Hops
<1>15. HopsOf(graph, sources, N, hop)
  BY <1>13, <1>14 DEF HopsOf
<1> QED
  BY <1>10, <1>15

\* What the analysis knows after h hops: the entities at that distance, those
\* met so far, and for each of these its distance and one it depends on.
FoundTill(over, found, h) ==
    /\ \A i \in found : \E n \in 1..h :
         i.depth = n /\ Nearest(over, i.entity, n) /\ Nearest(over, i.via, n - 1)
    /\ \A y \in GvNames, n \in 1..h : Nearest(over, y, n) =>
         \E i \in found : i.entity = y /\ i.depth = n
    /\ \A i, j \in found : i.entity = j.entity => i = j
HopKnows(over, p, h) ==
    /\ p.new \in SUBSET GvNames /\ \A y \in GvNames : y \in p.new <=> Nearest(over, y, h)
    /\ \A y \in GvNames : y \in p.seen <=> \E m \in 0..h : y \in over[m]
    /\ FoundTill(over, p.found, h)

\* An entity has one least distance.
LEMMA OneDistance ==
    ASSUME NEW over, NEW y, NEW m \in Nat, NEW n \in Nat, Nearest(over, y, m), Nearest(over, y, n)
    PROVE  m = n
<1>1. m < n => m \in 0..(n - 1)
  OBVIOUS
<1>2. n < m => n \in 0..(m - 1)
  OBVIOUS
<1> QED
  BY <1>1, <1>2 DEF Nearest

\* Whoever depends on an entity at distance h is at most one further, and at
\* distance h + 1 is who depends on one at distance h and is not nearer.
LEMMA NextNearest ==
    ASSUME NEW graph, NEW xs, NEW over, OverOf(graph, xs, over), NEW h \in 1..GvHops, NEW y
    PROVE  Nearest(over, y, h) <=>
             /\ \E b \in GvNames : Nearest(over, b, h - 1) /\ Direct(graph, y, b)
             /\ \A m \in 0..(h - 1) : y \notin over[m]
<1>0. GvHops \in Nat
  BY GraphViewsAssumption
<1>1. ASSUME NEW n \in 1..GvHops
      PROVE  \A z : z \in over[n] <=> \E b \in over[n - 1] : Direct(graph, z, b)
  <2>1. n - 1 \in 0..GvHops
    BY <1>0
  <2>2. over[n] = Behind(graph, over[n - 1]) /\ over[n - 1] \in SUBSET GvNames
    BY <2>1 DEF OverOf
  <2> QED
    BY <2>2, NamesFinite, BehindIs
<1>2. ASSUME Nearest(over, y, h)
      PROVE  \E b \in GvNames : Nearest(over, b, h - 1) /\ Direct(graph, y, b)
  <2>1. PICK b \in over[h - 1] : Direct(graph, y, b)
    BY <1>1, <1>2 DEF Nearest
  <2>2. ASSUME NEW m \in 0..((h - 1) - 1), b \in over[m] PROVE FALSE
    <3>1. m + 1 \in 1..GvHops /\ (m + 1) - 1 = m /\ m + 1 \in 0..(h - 1)
      BY <1>0
    <3>2. y \in over[m + 1]
      BY <1>1, <2>1, <2>2, <3>1
    <3> QED
      BY <1>2, <3>1, <3>2 DEF Nearest
  <2>3. b \in GvNames
    <3>1. h - 1 \in 0..GvHops
      BY <1>0
    <3> QED
      BY <2>1, <3>1 DEF OverOf
  <2> QED
    BY <2>1, <2>2, <2>3 DEF Nearest
<1>3. ASSUME NEW b \in GvNames, Nearest(over, b, h - 1), Direct(graph, y, b),
             \A m \in 0..(h - 1) : y \notin over[m]
      PROVE  Nearest(over, y, h)
  BY <1>1, <1>3 DEF Nearest
<1> QED
  BY <1>2, <1>3 DEF Nearest

\* So the analysis lists every dependent once, at its least distance.
LEMMA HopsKnow ==
    ASSUME NEW graph, GraphNames(graph), NEW sources \in SUBSET GvNames,
           NEW over, OverOf(graph, sources, over),
           NEW hop, HopsOf(graph, sources, GvHops, hop)
    PROVE  \A h \in 0..GvHops : HopKnows(over, hop[h], h)
<1>1. PICK N \in Nat : N = GvHops
  BY GraphViewsAssumption
<1>2. PICK G : G = {h \in 0..N : HopKnows(over, hop[h], h)}
  OBVIOUS
<1>3. 0 \in G
  <2>1. hop[0].new = sources /\ hop[0].seen = sources /\ hop[0].found = {} /\ over[0] = sources
    BY DEF HopsOf, OverOf
  <2>2. \A y : Nearest(over, y, 0) <=> y \in sources
    BY <2>1 DEF Nearest
  <2>3. FoundTill(over, {}, 0)
    BY DEF FoundTill
  <2>4. HopKnows(over, hop[0], 0)
    <3>1. \A y \in GvNames : y \in sources <=> \E m \in 0..0 : y \in over[m]
      BY <2>1
    <3> QED
      BY <2>1, <2>2, <2>3, <3>1 DEF HopKnows
  <2> QED
    BY <1>1, <1>2, <2>4
<1>4. ASSUME NEW h \in 1..N, h - 1 \in G PROVE h \in G
  <2>1. PICK p, q, new :
          p = hop[h - 1] /\ q = hop[h] /\ new = Behind(graph, p.new) \ p.seen
    OBVIOUS
  <2>2. HopKnows(over, p, h - 1) /\ h \in 0..N /\ h \in 1..GvHops /\ h \in Nat
    BY <1>1, <1>2, <1>4, <2>1
  <2>3. q = HopOf(graph, h, p)
    BY <2>1, <2>2 DEF HopsOf
  <2>4. q.new = new /\ q.seen = p.seen \cup new /\ q.found = p.found \cup Found(graph, p.new, new, h)
    BY <2>1, <2>3 DEF HopOf
  <2>5. p.new \in SUBSET GvNames /\ IsFiniteSet(p.new)
    BY <2>2, NamesFinite DEF HopKnows
  <2>6. new \in SUBSET GvNames
    BY <2>1, <2>5, BehindNames
  <2>7. ASSUME NEW y \in GvNames PROVE y \in new <=> Nearest(over, y, h)
    <3>1. y \in p.seen <=> \E m \in 0..(h - 1) : y \in over[m]
      BY <2>2 DEF HopKnows
    <3>2. y \in Behind(graph, p.new) <=> \E b \in p.new : Direct(graph, y, b)
      BY <2>5, BehindIs
    <3>3. (\E b \in p.new : Direct(graph, y, b)) <=>
             \E b \in GvNames : Nearest(over, b, h - 1) /\ Direct(graph, y, b)
      BY <2>2, <2>5 DEF HopKnows
    <3>4. Nearest(over, y, h) <=>
             /\ \E b \in GvNames : Nearest(over, b, h - 1) /\ Direct(graph, y, b)
             /\ \A m \in 0..(h - 1) : y \notin over[m]
      BY <2>2, NextNearest
    <3> QED
      BY <2>1, <3>1, <3>2, <3>3, <3>4
  <2>8. ASSUME NEW y \in GvNames PROVE y \in q.seen <=> \E m \in 0..h : y \in over[m]
    <3>1. y \in p.seen <=> \E m \in 0..(h - 1) : y \in over[m]
      BY <2>2 DEF HopKnows
    <3>2. \A m \in 0..h : m \in 0..(h - 1) \/ m = h
      OBVIOUS
    <3>3. \A m \in 0..(h - 1) : m \in 0..h
      OBVIOUS
    <3>4. y \in new => y \in over[h]
      BY <2>7 DEF Nearest
    <3>5. y \in over[h] => y \in new \/ \E m \in 0..(h - 1) : y \in over[m]
      BY <2>7 DEF Nearest
    <3>6. h \in 0..h
      OBVIOUS
    <3> QED
      BY <2>4, <3>1, <3>2, <3>3, <3>4, <3>5, <3>6
  <2>9. ASSUME NEW i \in Found(graph, p.new, new, h)
        PROVE  /\ i.depth = h /\ i.entity \in new /\ Nearest(over, i.entity, h)
               /\ Nearest(over, i.via, h - 1)
               /\ i = [entity |-> i.entity, via |-> Through(graph, p.new, i.entity), depth |-> h]
    <3>1. PICK x \in new : i = [entity |-> x, via |-> Through(graph, p.new, x), depth |-> h]
      BY DEF Found
    <3>2. Through(graph, p.new, x) \in p.new
      BY <2>1, <2>5, ThroughIs
    <3>3. Nearest(over, Through(graph, p.new, x), h - 1)
      BY <2>2, <2>5, <3>2 DEF HopKnows
    <3>4. Nearest(over, x, h)
      BY <2>6, <2>7
    <3> QED
      BY <3>1, <3>3, <3>4
  <2>10. FoundTill(over, p.found, h - 1)
    BY <2>2 DEF HopKnows
  <2>11. ASSUME NEW i \in q.found
         PROVE  \E n \in 1..h : /\ i.depth = n /\ Nearest(over, i.entity, n)
                                /\ Nearest(over, i.via, n - 1)
                                /\ i \in p.found <=> n # h
    <3>1. CASE i \in p.found
      <4>1. PICK n \in 1..(h - 1) : i.depth = n /\ Nearest(over, i.entity, n) /\ Nearest(over, i.via, n - 1)
        BY <2>10, <3>1 DEF FoundTill
      <4>2. n \in 1..h /\ n # h
        OBVIOUS
      <4> QED
        BY <3>1, <4>1, <4>2
    <3>2. CASE i \notin p.found
      <4>1. h \in 1..h
        OBVIOUS
      <4>2. i \in Found(graph, p.new, new, h)
        BY <2>4, <3>2
      <4> QED
        BY <2>9, <3>2, <4>1, <4>2
    <3> QED
      BY <3>1, <3>2
  <2>12. ASSUME NEW y \in GvNames, NEW n \in 1..h, Nearest(over, y, n)
         PROVE  \E i \in q.found : i.entity = y /\ i.depth = n
    <3>1. CASE n = h
      <4>1. y \in new
        BY <2>7, <2>12, <3>1
      <4>2. [entity |-> y, via |-> Through(graph, p.new, y), depth |-> h] \in Found(graph, p.new, new, h)
        BY <4>1 DEF Found
      <4> QED
        BY <2>4, <3>1, <4>2
    <3>2. CASE n # h
      <4>1. n \in 1..(h - 1)
        BY <3>2
      <4> QED
        BY <2>4, <2>10, <2>12, <4>1 DEF FoundTill
    <3> QED
      BY <3>1, <3>2
  <2>13. ASSUME NEW i \in q.found, NEW j \in q.found, i.entity = j.entity PROVE i = j
    <3>1. PICK m \in 1..h : i.depth = m /\ Nearest(over, i.entity, m) /\ (i \in p.found <=> m # h)
      BY <2>11
    <3>2. PICK n \in 1..h : j.depth = n /\ Nearest(over, j.entity, n) /\ (j \in p.found <=> n # h)
      BY <2>11
    <3>3. m = n
      BY <2>13, <3>1, <3>2, OneDistance
    <3>4. CASE i \in p.found
      BY <2>10, <2>13, <3>1, <3>2, <3>3, <3>4 DEF FoundTill
    <3>5. CASE i \notin p.found
      <4>1. i \in Found(graph, p.new, new, h) /\ j \in Found(graph, p.new, new, h)
        BY <2>4, <3>1, <3>2, <3>3, <3>5
      <4> QED
        BY <2>9, <2>13, <4>1
    <3> QED
      BY <3>4, <3>5
  <2>14. FoundTill(over, q.found, h)
    BY <2>11, <2>12, <2>13 DEF FoundTill
  <2>15. HopKnows(over, q, h)
    BY <2>4, <2>6, <2>7, <2>8, <2>14 DEF HopKnows
  <2> QED
    BY <1>2, <2>1, <2>2, <2>15
<1>5. \A h \in 0..N : h \in G
  BY <1>3, <1>4, UpTo
<1> QED
  BY <1>1, <1>2, <1>5

LEMMA DependentsKnown ==
    ASSUME NEW graph, GraphNames(graph), NEW sources \in SUBSET GvNames,
           NEW over, over = DependOver(graph, sources)
    PROVE  over[0] = sources /\ FoundTill(over, Dependents(graph, sources, GvHops), GvHops)
<1>1. PICK N \in Nat : N = GvHops
  BY GraphViewsAssumption
<1>2. OverOf(graph, sources, over)
  BY DependOverIs
<1>3. PICK hop : HopsOf(graph, sources, N, hop) /\ Dependents(graph, sources, N) = hop[N].found
  BY DependentsAre
<1>4. HopKnows(over, hop[N], N)
  BY <1>1, <1>2, <1>3, HopsKnow
<1> QED
  BY <1>1, <1>2, <1>3, <1>4 DEF HopKnows, OverOf

\* The graph of a session is one of its names.
LEMMA SessionNames ==
    ASSUME ViewsInv
    PROVE  /\ GraphNames(SessionGraph(gvLog)) /\ SessionEntities(gvLog) \in SUBSET GvNames
           /\ \A u \in ToSet(gvLog) : \A r \in u.rels : Resolved(r)[1] \in GvNames /\ Resolved(r)[3] \in GvNames
<1>1. gvInto \in [GvNames -> GvNames]
  BY DEF ViewsInv
<1>2. ASSUME NEW u \in ToSet(gvLog) PROVE u.names \in SUBSET GvNames /\ u.rels \in SUBSET GvRelations
  BY LogTypes DEF ToSet
<1>3. ASSUME NEW r \in GvRelations PROVE Resolved(r)[1] \in GvNames /\ Resolved(r)[3] \in GvNames
  <2>1. r[1] \in GvNames /\ r[3] \in GvNames
    BY GraphViewsAssumption DEF GvRelations
  <2> QED
    BY <1>1, <2>1 DEF Resolved
<1>4. \A u \in ToSet(gvLog) : \A r \in u.rels : Resolved(r)[1] \in GvNames /\ Resolved(r)[3] \in GvNames
  BY <1>2, <1>3
<1>5. GraphNames(SessionGraph(gvLog))
  BY <1>4 DEF GraphNames, SessionGraph
<1>6. SessionEntities(gvLog) \in SUBSET GvNames
  BY <1>1, <1>2 DEF SessionEntities, Subject
<1> QED
  BY <1>4, <1>5, <1>6

\* The impact view is exact.
LEMMA ImpactIsExact ==
    ASSUME ViewsInv, NEW valid, NEW x \in SessionEntities(gvLog), NEW graph, graph = SessionGraph(gvLog)
    PROVE  ImpactExact(ImpactView(gvLog, valid, x, GvHops), DependOver(graph, {x}), valid)
<1>1. PICK over, found, view :
        /\ over = DependOver(graph, {x}) /\ found = Dependents(graph, {x}, GvHops)
        /\ view = ImpactView(gvLog, valid, x, GvHops)
  OBVIOUS
<1>2. GraphNames(graph) /\ {x} \in SUBSET GvNames /\ SessionEntities(gvLog) \in SUBSET GvNames
  BY SessionNames
<1>3. FoundTill(over, found, GvHops)
  BY <1>1, <1>2, DependentsKnown
<1>4. view = ImpactOf(gvLog, valid, x, found)
  BY <1>1 DEF ImpactView
<1>5. /\ view.dependents = found
      /\ view.risks = Risks(gvLog, valid, {x} \cup {i.entity : i \in found})
  BY <1>4 DEF ImpactOf
<1>6. \A y \in SessionEntities(gvLog), n \in 1..GvHops : Nearest(over, y, n) <=>
        \E i \in found : i.entity = y /\ i.depth = n /\ Nearest(over, i.via, n - 1)
  <2> SUFFICES ASSUME NEW y \in SessionEntities(gvLog), NEW n \in 1..GvHops
               PROVE  Nearest(over, y, n) <=>
                        \E i \in found : i.entity = y /\ i.depth = n /\ Nearest(over, i.via, n - 1)
    OBVIOUS
  <2>1. ASSUME Nearest(over, y, n)
        PROVE  \E i \in found : i.entity = y /\ i.depth = n /\ Nearest(over, i.via, n - 1)
    <3>1. PICK i \in found : i.entity = y /\ i.depth = n
      BY <1>2, <1>3, <2>1 DEF FoundTill
    <3> QED
      BY <1>3, <3>1 DEF FoundTill
  <2>2. ASSUME NEW i \in found, i.entity = y, i.depth = n PROVE Nearest(over, y, n)
    BY <1>3, <2>2 DEF FoundTill
  <2> QED
    BY <2>1, <2>2
<1>7. \A i, j \in found : i.entity = j.entity => i = j
  BY <1>3 DEF FoundTill
<1>8. \A u \in view.risks : valid[u.id].to = 0
  BY <1>5 DEF Risks, IsCurrent
<1> QED
  BY <1>1, <1>5, <1>6, <1>7, <1>8 DEF ImpactExact

\* So is the file view.
LEMMA FileIsExact ==
    ASSUME ViewsInv
    PROVE  FileExact(FileView(gvLog, GvHops))
<1>1. PICK naming, graph, file, over :
        /\ naming = {x \in SessionEntities(gvLog) : \E n \in GvFileNames : gvInto[n] = x}
        /\ graph = SessionGraph(gvLog)
        /\ file = FileView(gvLog, GvHops) /\ over = DependOver(graph, naming)
  OBVIOUS
<1>2. GraphNames(graph) /\ naming \in SUBSET GvNames
  BY <1>1, SessionNames
<1>3. over[0] = naming /\ FoundTill(over, Dependents(graph, naming, GvHops), GvHops)
  BY <1>1, <1>2, DependentsKnown
<1>4. file.entities = naming /\ file.dependents = Dependents(graph, naming, GvHops)
  BY <1>1 DEF FileView, FileOf
<1>5. ASSUME NEW i \in file.dependents PROVE i.entity \notin file.entities
  <2>1. PICK n \in 1..GvHops : Nearest(over, i.entity, n)
    BY <1>3, <1>4 DEF FoundTill
  <2>2. 0 \in 0..(n - 1)
    BY GraphViewsAssumption
  <2> QED
    BY <1>3, <1>4, <2>1, <2>2 DEF Nearest
<1> QED
  BY <1>1, <1>5 DEF FileExact

\* A part of the log is in its order.
LEMMA LogPartIs ==
    ASSUME ViewsInv, NEW at \in SUBSET DOMAIN gvLog, NEW steps, steps = LogPart(gvLog, at)
    PROVE  /\ \A i, j \in DOMAIN steps : i < j => steps[i].time <= steps[j].time
           /\ \A k \in at : gvLog[k] \in ToSet(steps)
<1>1. PICK N \in Nat : DOMAIN gvLog = 1..N
  BY LogTypes
<1>2. IsFiniteSet(1..N)
  BY <1>1, FS_Interval
<1>3. at \in SUBSET Nat /\ IsFiniteSet(at)
  BY <1>1, <1>2, FS_Subset
<1>4. PICK c : c = Cardinality(at) /\ c \in Nat
  BY <1>3, FS_CardinalityType
<1>5. \E s \in [1..c -> at] : \A j, k \in DOMAIN s : j < k => s[j] < s[k]
  BY <1>3, <1>4, AscendingExists
<1>6. PICK order : order = CHOOSE s \in [1..Cardinality(at) -> at] : \A j, k \in DOMAIN s : j < k => s[j] < s[k]
  OBVIOUS
<1>7. order \in [1..c -> at] /\ \A j, k \in DOMAIN order : j < k => order[j] < order[k]
  BY <1>4, <1>5, <1>6
<1>8. steps = [k \in 1..c |-> gvLog[order[k]]] /\ DOMAIN steps = 1..c
  BY <1>6, <1>7 DEF LogPart
<1>9. ASSUME NEW i \in 1..c, NEW j \in 1..c, i < j PROVE steps[i].time <= steps[j].time
  <2>1. order[i] \in DOMAIN gvLog /\ order[j] \in DOMAIN gvLog /\ order[i] < order[j]
    BY <1>7, <1>9
  <2> QED
    BY <1>8, <2>1 DEF ViewsInv, LogOrdered
<1>10. \A k \in at : \E i \in 1..c : order[i] = k
  <2>1. ASSUME NEW i \in 1..c, NEW j \in 1..c, i # j PROVE order[i] # order[j]
    <3>1. order[i] \in Nat /\ order[j] \in Nat /\ (i < j \/ j < i)
      BY <1>3, <1>7, <2>1
    <3> QED
      BY <1>7, <3>1
  <2> QED
    BY <1>3, <1>4, <1>7, <2>1, FillsSet
<1>11. ASSUME NEW k \in at PROVE gvLog[k] \in ToSet(steps)
  <2>1. PICK i \in 1..c : order[i] = k
    BY <1>10
  <2> QED
    BY <1>8, <2>1 DEF ToSet
<1> QED
  BY <1>8, <1>9, <1>11

\* The rings of the causal chain keep the entity they are about.
RingOf(graph, x, ring) ==
    /\ ring[0] = {x}
    /\ \A h \in 1..GvHops : ring[h] = ring[h - 1] \cup UNION {FindRelated(graph, y) : y \in ring[h - 1]}

LEMMA RingKeeps ==
    ASSUME NEW graph, NEW x, NEW ring, RingOf(graph, x, ring)
    PROVE  \A h \in 0..GvHops : x \in ring[h]
<1>1. PICK N \in Nat : N = GvHops
  BY GraphViewsAssumption
<1>2. PICK G : G = {h \in 0..N : x \in ring[h]}
  OBVIOUS
<1>3. 0 \in G
  BY <1>1, <1>2 DEF RingOf
<1>4. ASSUME NEW h \in 1..N, h - 1 \in G PROVE h \in G
  BY <1>1, <1>2, <1>4 DEF RingOf
<1>5. \A h \in 0..N : h \in G
  BY <1>3, <1>4, UpTo
<1> QED
  BY <1>1, <1>2, <1>5

CausalGraph(log) == {r \in SessionGraph(log) : r[2] \in Causal}
LineagePlaces(log, x, ring) ==
    {k \in DOMAIN log :
        \/ \E r \in UNION {TouchingEdges(CausalGraph(log), y) : y \in ring[GvHops - 1]} :
              log[k].id \in EdgeRecords(log, r)
        \/ x \in Subject(log[k]) /\ log[k].kind \in {"ProblemSolved", "DecisionMade"}}

LEMMA LineageIs ==
    ASSUME NEW log, NEW x
    PROVE  \E ring : /\ RingOf(CausalGraph(log), x, ring)
                     /\ LineageView(log, x, GvHops).steps = LogPart(log, LineagePlaces(log, x, ring))
<1> DEFINE graph == CausalGraph(log)
           Ring(f, h) == IF h = 0 THEN {x}
                         ELSE f[h - 1] \cup UNION {FindRelated(graph, y) : y \in f[h - 1]}
           Rings(f) == f = [h \in 0..GvHops |-> Ring(f, h)]
<1>1. PICK N \in Nat : N = GvHops
  BY GraphViewsAssumption
<1>2. PICK U, V, next :
        /\ U = {x} \cup {r[1] : r \in graph} \cup {r[3] : r \in graph} /\ V = SUBSET U
        /\ next = [S \in V |-> S \cup UNION {FindRelated(graph, y) : y \in S}]
  OBVIOUS
<1>3. {x} \in V /\ next \in [V -> V]
  <2>1. \A y : FindRelated(graph, y) \subseteq U
    <3> HIDE DEF graph
    <3> QED
      BY <1>2 DEF FindRelated
  <2> HIDE DEF graph
  <2>2. ASSUME NEW S \in V PROVE S \cup UNION {FindRelated(graph, y) : y \in S} \in V
    BY <1>2, <2>1
  <2> QED
    BY <1>2, <2>2
<1>4. PICK f : Loops(N, V, {x}, next, f)
  BY <1>3, LoopExists
<1>5. f \in [0..N -> V] /\ f[0] = {x} /\ \A n \in 1..N : f[n] = next[f[n - 1]]
  BY <1>4 DEF Loops
<1>6. PICK ring : ring = CHOOSE g : Rings(g)
  OBVIOUS
<1>7. LineageView(log, x, GvHops).steps = LogPart(log, LineagePlaces(log, x, ring))
  BY <1>6 DEF LineageView, LineagePlaces, CausalGraph
<1>8. Rings(f)
  <2> HIDE DEF graph
  <2>1. ASSUME NEW n \in 0..N PROVE f[n] = Ring(f, n)
    <3>1. CASE n = 0
      BY <1>5, <3>1
    <3>2. CASE n # 0
      <4>1. n \in 1..N /\ n - 1 \in 0..N
        BY <3>2
      <4>2. f[n - 1] \in V
        BY <1>5, <4>1
      <4> QED
        BY <1>2, <1>5, <3>2, <4>1, <4>2
    <3> QED
      BY <3>1, <3>2
  <2> HIDE DEF Ring
  <2> QED
    BY <1>1, <1>5, <2>1
<1>9. Rings(ring)
  <2> HIDE DEF Rings
  <2> QED
    BY <1>6, <1>8
<1>10. RingOf(graph, x, ring)
  <2> HIDE DEF graph
  <2>1. ring[0] = {x}
    BY <1>1, <1>9
  <2>2. ASSUME NEW h \in 1..N
        PROVE  ring[h] = ring[h - 1] \cup UNION {FindRelated(graph, y) : y \in ring[h - 1]}
    <3>1. h \in 0..N /\ h # 0
      OBVIOUS
    <3> QED
      BY <1>1, <1>9, <3>1
  <2> QED
    BY <1>1, <2>1, <2>2 DEF RingOf
<1> QED
  BY <1>7, <1>10

\* The lineage is exact.
LEMMA LineageIsExact ==
    ASSUME ViewsInv, NEW x, NEW graph, graph = SessionGraph(gvLog)
    PROVE  LineageExact(x, graph, LineageView(gvLog, x, GvHops).steps)
<1>1. PICK ring : /\ RingOf(CausalGraph(gvLog), x, ring)
                  /\ LineageView(gvLog, x, GvHops).steps = LogPart(gvLog, LineagePlaces(gvLog, x, ring))
  BY LineageIs
<1>2. PICK steps, at : steps = LineageView(gvLog, x, GvHops).steps /\ at = LineagePlaces(gvLog, x, ring)
  OBVIOUS
<1>3. at \in SUBSET DOMAIN gvLog
  BY <1>2 DEF LineagePlaces
<1>4. /\ \A i, j \in DOMAIN steps : i < j => steps[i].time <= steps[j].time
      /\ \A k \in at : gvLog[k] \in ToSet(steps)
  BY <1>1, <1>2, <1>3, LogPartIs
<1>5. ASSUME NEW u \in ToSet(gvLog), NEW r \in u.rels, r[2] \in Causal,
             x \in {gvInto[r[1]], gvInto[r[3]]}, Resolved(r) \in graph
      PROVE  u \in ToSet(steps)
  <2>1. PICK k \in DOMAIN gvLog : u = gvLog[k]
    BY DEF ToSet
  <2>2. PICK e : e = Resolved(r)
    OBVIOUS
  <2>3. e \in TouchingEdges(CausalGraph(gvLog), x)
    <3>1. e[1] = gvInto[r[1]] /\ e[2] = r[2] /\ e[3] = gvInto[r[3]]
      BY <2>2 DEF Resolved
    <3> QED
      BY <1>5, <2>2, <3>1 DEF TouchingEdges, CausalGraph
  <2>4. GvHops - 1 \in 0..GvHops
    BY GraphViewsAssumption
  <2>5. x \in ring[GvHops - 1]
    BY <1>1, <2>4, RingKeeps
  <2>6. u.id \in EdgeRecords(gvLog, e)
    BY <2>2 DEF EdgeRecords
  <2>7. k \in at
    BY <1>2, <2>1, <2>3, <2>5, <2>6 DEF LineagePlaces
  <2> QED
    BY <1>4, <2>1, <2>7
<1> QED
  BY <1>2, <1>4, <1>5 DEF LineageExact

-----------------------------------------------------------------------------

\* A sequence of events in which none comes before an earlier place.
Ordered(s) == \A i, j \in DOMAIN s : i < j => ~Before(s[j], s[i])
Timed(E) == \A e \in E : e.at \in Nat /\ e.kind \in Nat

LEMMA BeforeIs ==
    ASSUME NEW E, Timed(E), NEW a \in E, NEW b \in E, NEW c \in E
    PROVE  /\ Before(a, b) => ~Before(b, a)
           /\ ~Before(a, b) /\ ~Before(b, c) => ~Before(a, c)
<1>1. a.at \in Nat /\ a.kind \in Nat /\ b.at \in Nat /\ b.kind \in Nat /\ c.at \in Nat /\ c.kind \in Nat
  BY DEF Timed
<1> QED
  BY <1>1 DEF Before

\* A last event of those left: none comes after it.
LEMMA LastIs ==
    ASSUME NEW E, Timed(E), NEW T \in SUBSET E, IsFiniteSet(T), T # {}
    PROVE  LastEvent(T) \in T /\ \A x \in T : ~Before(LastEvent(T), x)
<1>1. PICK n \in Nat : n = Cardinality(T) /\ n # 0
  BY FS_CardinalityType, FS_EmptySet
<1>2. PICK R : R = {p \in T \X T : Before(p[1], p[2])}
  OBVIOUS
<1>3. R \in SUBSET (T \X T) /\ \A x, y \in T : <<x, y>> \in R <=> Before(x, y)
  BY <1>2
<1>4. \A x \in T : <<x, x>> \notin R
  <2>1. \A x \in T : ~Before(x, x)
    BY BeforeIs
  <2> QED
    BY <1>3, <2>1
<1>5. \A x, y, z \in T : <<x, y>> \in R /\ <<y, z>> \in R => <<x, z>> \in R
  <2>1. ASSUME NEW x \in T, NEW y \in T, NEW z \in T, Before(x, y), Before(y, z)
        PROVE  Before(x, z)
    <3>1. x.at \in Nat /\ x.kind \in Nat /\ y.at \in Nat /\ y.kind \in Nat /\ z.at \in Nat /\ z.kind \in Nat
      BY DEF Timed
    <3> QED
      BY <2>1, <3>1 DEF Before
  <2> QED
    BY <1>3, <2>1
<1>6. PICK q \in [1..n -> T] :
        /\ \A i, j \in 1..n : i # j => q[i] # q[j]
        /\ \A i, j \in 1..n : <<q[i], q[j]>> \in R => i < j
  <2>1. \E q \in [1..Cardinality(T) -> T] :
            /\ \A i, j \in 1..Cardinality(T) : i # j => q[i] # q[j]
            /\ \A i, j \in 1..Cardinality(T) : <<q[i], q[j]>> \in R => i < j
    BY <1>3, <1>4, <1>5, SortExists
  <2> QED
    BY <1>1, <2>1
<1>7. n \in 1..n /\ \A i \in 1..n : ~(n < i)
  BY <1>1
<1>8. q[n] \in T
  BY <1>6, <1>7
<1>9. ASSUME NEW x \in T PROVE ~Before(q[n], x)
  <2>1. \A y \in T : \E i \in 1..n : q[i] = y
    BY <1>1, <1>6, FillsSet
  <2>2. PICK i \in 1..n : q[i] = x
    BY <2>1
  <2>3. <<q[n], q[i]>> \notin R
    BY <1>6, <1>7
  <2> QED
    BY <1>3, <1>8, <2>2, <2>3
<1> QED
  BY <1>8, <1>9 DEF LastEvent

\* Part of the events in order, of which no other event is later.
Behindmost(E, s, left) ==
    /\ s \in Seq(E) /\ Ordered(s) /\ left = E \ ToSet(s)
    /\ \A i \in DOMAIN s, x \in left : ~Before(s[i], x)

\* The last event of those left goes in front.
LEMMA FrontIs ==
    ASSUME NEW E, Timed(E), IsFiniteSet(E), NEW s, NEW left, Behindmost(E, s, left), left # {},
           NEW t, t = Cons(LastEvent(left), s)
    PROVE  Behindmost(E, t, left \ {LastEvent(left)}) /\ LastEvent(left) \in left
<1>1. PICK N \in Nat : N = Len(s) /\ DOMAIN s = 1..N /\ s \in [1..N -> E]
  BY LenProperties DEF Behindmost
<1>2. left \in SUBSET E /\ left = E \ ToSet(s) /\ Ordered(s) /\ s \in Seq(E)
      /\ \A i \in 1..N, x \in left : ~Before(s[i], x)
  BY <1>1 DEF Behindmost
<1>3. IsFiniteSet(left)
  BY <1>2, FS_Subset
<1>4. PICK e \in left : e = LastEvent(left) /\ \A x \in left : ~Before(e, x)
  BY <1>2, <1>3, LastIs
<1>5. PICK a : a = <<e>>
  OBVIOUS
<1>6. a \in Seq(E) /\ Len(a) = 1 /\ a[1] = e
  BY <1>2, <1>5
<1>7. t \in Seq(E) /\ Len(t) = 1 + N /\ DOMAIN t = 1..(1 + N)
      /\ \A i \in 1..(1 + N) : t[i] = IF i <= 1 THEN a[i] ELSE s[i - 1]
  <2>1. /\ a \o s \in Seq(E) /\ Len(a \o s) = Len(a) + Len(s)
        /\ \A i \in 1..(Len(a) + Len(s)) : (a \o s)[i] = IF i <= Len(a) THEN a[i] ELSE s[i - Len(a)]
    BY <1>2, <1>6, ConcatProperties
  <2>2. t = a \o s
    BY <1>4, <1>5 DEF Cons
  <2>3. t \in Seq(E) /\ Len(t) = 1 + N
    BY <1>1, <1>6, <2>1, <2>2
  <2> QED
    BY <1>1, <1>6, <2>1, <2>2, <2>3, LenProperties
<1>8. t[1] = e
  BY <1>6, <1>7
<1>9. ASSUME NEW i \in 1..N PROVE i + 1 \in 1..(1 + N) /\ t[i + 1] = s[i]
  BY <1>7
<1>10. ASSUME NEW i \in 1..(1 + N), i # 1 PROVE i - 1 \in 1..N /\ t[i] = s[i - 1]
  BY <1>7, <1>10
<1>11. ToSet(t) = ToSet(s) \cup {e}
  <2>1. ASSUME NEW x \in ToSet(t) PROVE x \in ToSet(s) \cup {e}
    <3>1. PICK i \in 1..(1 + N) : x = t[i]
      BY <1>7 DEF ToSet
    <3>2. CASE i = 1
      BY <1>8, <3>1, <3>2
    <3>3. CASE i # 1
      BY <1>1, <1>10, <3>1, <3>3 DEF ToSet
    <3> QED
      BY <3>2, <3>3
  <2>2. ASSUME NEW x \in ToSet(s) PROVE x \in ToSet(t)
    <3>1. PICK i \in 1..N : x = s[i]
      BY <1>1 DEF ToSet
    <3> QED
      BY <1>7, <1>9, <3>1 DEF ToSet
  <2>3. e \in ToSet(t)
    <3>1. 1 \in 1..(1 + N)
      OBVIOUS
    <3> QED
      BY <1>7, <1>8, <3>1 DEF ToSet
  <2> QED
    BY <2>1, <2>2, <2>3
<1>12. left \ {e} = E \ ToSet(t)
  BY <1>2, <1>11
<1>13. ASSUME NEW i \in 1..(1 + N), NEW x \in left \ {e} PROVE ~Before(t[i], x)
  <2>1. CASE i = 1
    BY <1>4, <1>8, <2>1
  <2>2. CASE i # 1
    BY <1>2, <1>10, <2>2
  <2> QED
    BY <2>1, <2>2
<1>14. ASSUME NEW i \in 1..(1 + N), NEW j \in 1..(1 + N), i < j PROVE ~Before(t[j], t[i])
  <2>1. j # 1
    BY <1>14
  <2>2. j - 1 \in 1..N /\ t[j] = s[j - 1]
    BY <1>10, <2>1
  <2>3. CASE i = 1
    BY <1>2, <1>8, <2>2, <2>3
  <2>4. CASE i # 1
    <3>1. i - 1 \in 1..N /\ t[i] = s[i - 1] /\ i - 1 < j - 1
      BY <1>10, <1>14, <2>4
    <3> QED
      BY <1>1, <1>2, <2>2, <3>1 DEF Ordered
  <2> QED
    BY <2>3, <2>4
<1>15. Ordered(t)
  BY <1>7, <1>14 DEF Ordered
<1>16. Behindmost(E, t, left \ {e})
  BY <1>7, <1>12, <1>13, <1>15 DEF Behindmost
<1> QED
  BY <1>4, <1>16

\* So the events get sorted.
LEMMA ChronologicalIs ==
    ASSUME NEW E, Timed(E), IsFiniteSet(E), NEW t, t = Chronological(E)
    PROVE  t \in Seq(E) /\ Ordered(t) /\ ToSet(t) = E
<1>1. PICK N \in Nat : N = Cardinality(E)
  BY FS_CardinalityType
<1> DEFINE Sorted(f, n) ==
              IF n = 0 THEN <<>>
              ELSE LET later == f[n - 1] IN Cons(LastEvent(E \ ToSet(later)), later)
           Steps(f) == f = [n \in 0..Cardinality(E) |-> Sorted(f, n)]
\* Even if nothing were left, something would be taken.
<1>2. PICK F : F = E \cup {LastEvent({})}
  OBVIOUS
<1>3. PICK V, next : V = Seq(F) /\ next = [s \in V |-> Cons(LastEvent(E \ ToSet(s)), s)]
  OBVIOUS
<1>4. next \in [V -> V]
  <2>1. ASSUME NEW s \in V PROVE Cons(LastEvent(E \ ToSet(s)), s) \in V
    <3>1. PICK T : T = E \ ToSet(s)
      OBVIOUS
    <3>2. LastEvent(T) \in F
      <4>1. CASE T = {}
        BY <1>2, <4>1
      <4>2. CASE T # {}
        <5>1. T \in SUBSET E /\ IsFiniteSet(T)
          BY <3>1, FS_Subset
        <5>2. LastEvent(T) \in T
          BY <4>2, <5>1, LastIs
        <5> QED
          BY <1>2, <5>1, <5>2
      <4> QED
        BY <4>1, <4>2
    <3>3. <<LastEvent(T)>> \in Seq(F) /\ s \in Seq(F)
      BY <1>3, <3>2
    <3>4. <<LastEvent(T)>> \o s \in Seq(F)
      BY <3>3, ConcatProperties
    <3> QED
      BY <1>3, <3>1, <3>4 DEF Cons
  <2> QED
    BY <1>3, <2>1
<1>5. <<>> \in V
  BY <1>3, EmptySeq
<1>6. PICK f : Loops(N, V, <<>>, next, f)
  BY <1>4, <1>5, LoopExists
<1>7. f \in [0..N -> V] /\ f[0] = <<>> /\ \A n \in 1..N : f[n] = next[f[n - 1]]
  BY <1>6 DEF Loops
<1>8. ASSUME NEW n \in 0..N PROVE f[n] = Sorted(f, n)
  <2>1. CASE n = 0
    BY <1>7, <2>1
  <2>2. CASE n # 0
    <3>1. n \in 1..N /\ n - 1 \in 0..N
      BY <2>2
    <3>2. f[n - 1] \in V
      BY <1>7, <3>1
    <3> QED
      BY <1>3, <1>7, <2>2, <3>1, <3>2
  <2> QED
    BY <2>1, <2>2
<1>9. PICK g : g = CHOOSE h : Steps(h)
  OBVIOUS
<1>10. t = g[N]
  BY <1>1, <1>9 DEF Chronological
<1>11. Steps(f)
  <2> HIDE DEF Sorted
  <2> QED
    BY <1>1, <1>7, <1>8
<1>12. Steps(g)
  <2> HIDE DEF Steps
  <2> QED
    BY <1>9, <1>11
<1>13. g[0] = <<>> /\ \A n \in 1..N : g[n] = Cons(LastEvent(E \ ToSet(g[n - 1])), g[n - 1])
  <2>1. g[0] = <<>>
    BY <1>1, <1>12
  <2>2. ASSUME NEW n \in 1..N PROVE g[n] = Cons(LastEvent(E \ ToSet(g[n - 1])), g[n - 1])
    <3>1. n \in 0..N /\ n # 0
      OBVIOUS
    <3> QED
      BY <1>1, <1>12, <3>1
  <2> QED
    BY <2>1, <2>2
<1> HIDE DEF Steps, Sorted
<1>14. PICK G : G = {n \in 0..N : /\ Behindmost(E, g[n], E \ ToSet(g[n]))
                                  /\ Cardinality(E \ ToSet(g[n])) = N - n}
  OBVIOUS
<1>15. 0 \in G
  <2>1. <<>> \in Seq(E) /\ DOMAIN <<>> = {}
    BY EmptySeq
  <2>2. ToSet(<<>>) = {} /\ Ordered(<<>>)
    BY <2>1 DEF ToSet, Ordered
  <2>3. E \ ToSet(g[0]) = E /\ Behindmost(E, g[0], E)
    BY <1>13, <2>1, <2>2 DEF Behindmost
  <2>4. PICK T : T = E \ ToSet(g[0])
    OBVIOUS
  <2>5. Cardinality(T) = N /\ N - 0 = N /\ 0 \in 0..N
    BY <1>1, <2>3, <2>4
  <2>6. Behindmost(E, g[0], T) /\ Cardinality(T) = N - 0
    BY <2>3, <2>4, <2>5
  <2> QED
    BY <1>14, <2>4, <2>5, <2>6
<1>16. ASSUME NEW n \in 1..N, n - 1 \in G PROVE n \in G
  <2>1. PICK s, left : s = g[n - 1] /\ left = E \ ToSet(s)
    OBVIOUS
  <2>2. Behindmost(E, s, left) /\ Cardinality(left) = N - (n - 1) /\ IsFiniteSet(left)
    BY <1>14, <1>16, <2>1, FS_Subset
  <2>3. left # {}
    BY <2>2, FS_EmptySet
  <2>4. PICK u, e : u = g[n] /\ e = LastEvent(left)
    OBVIOUS
  <2>5. u = Cons(LastEvent(left), s)
    BY <1>13, <2>1, <2>4
  <2>6. Behindmost(E, u, left \ {LastEvent(left)}) /\ LastEvent(left) \in left
    BY <2>2, <2>3, <2>5, FrontIs
  <2>7. left \ {e} = E \ ToSet(u) /\ Behindmost(E, u, E \ ToSet(u)) /\ e \in left
    BY <2>4, <2>6 DEF Behindmost
  <2>8. Cardinality(left \ {e}) = Cardinality(left) - 1
    BY <2>2, <2>7, FS_RemoveElement
  <2>9. Cardinality(E \ ToSet(u)) = N - n
    <3>1. (N - (n - 1)) - 1 = N - n
      OBVIOUS
    <3>2. Cardinality(left \ {e}) = (N - (n - 1)) - 1
      BY <2>2, <2>8
    <3> QED
      BY <2>7, <3>1, <3>2
  <2> QED
    BY <1>14, <2>4, <2>7, <2>9
<1>17. N \in G
  <2>1. \A n \in 0..N : n \in G
    BY <1>15, <1>16, UpTo
  <2> QED
    BY <2>1
<1>18. Behindmost(E, t, E \ ToSet(t)) /\ Cardinality(E \ ToSet(t)) = 0
  BY <1>10, <1>14, <1>17
<1>19. E \ ToSet(t) = {}
  <2>1. IsFiniteSet(E \ ToSet(t))
    BY FS_Subset
  <2> QED
    BY <1>18, <2>1, FS_EmptySet
<1>20. t \in Seq(E) /\ Ordered(t)
  BY <1>18 DEF Behindmost
<1>21. ToSet(t) \subseteq E
  <2>1. t \in [1..Len(t) -> E] /\ DOMAIN t = 1..Len(t)
    BY <1>20, LenProperties
  <2> QED
    BY <2>1 DEF ToSet
<1> QED
  BY <1>19, <1>20, <1>21

\* Its last places are the latest events.
LEMMA LatestIs ==
    ASSUME NEW E, Timed(E), NEW s \in Seq(E), Ordered(s), NEW shown, shown = Latest(s, GvLimit),
           NEW e \in ToSet(s) \ ToSet(shown)
    PROVE  Len(shown) = GvLimit /\ \A i \in DOMAIN shown : ~Before(shown[i], e)
<1>1. PICK N \in Nat : N = Len(s) /\ DOMAIN s = 1..N /\ s \in [1..N -> E]
  BY LenProperties
<1>2. GvLimit \in Nat
  BY GraphViewsAssumption
<1>3. PICK m : m = Larger(1, (N + 1) - GvLimit) /\ m \in Int /\ m >= 1
  BY <1>2 DEF Larger
<1>4. shown = SubSeq(s, m, N)
  BY <1>1, <1>3 DEF Latest
<1>5. /\ shown \in Seq(E) /\ Len(shown) = (IF m <= N THEN N - m + 1 ELSE 0)
      /\ \A i \in 1..(N - m + 1) : shown[i] = s[m + i - 1]
  <2>1. \A i \in m..N : s[i] \in E
    BY <1>1, <1>3
  <2> QED
    BY <1>3, <1>4, <2>1, SubSeqProperties
<1>6. DOMAIN shown = 1..(N - m + 1)
  <2>1. DOMAIN shown = 1..Len(shown)
    BY <1>5, LenProperties
  <2> QED
    BY <1>3, <1>5, <2>1
<1>7. PICK k \in 1..N : e = s[k]
  BY <1>1 DEF ToSet
<1>8. k < m
  <2> SUFFICES ASSUME ~(k < m) PROVE FALSE
    BY <1>3
  <2>1. k - m + 1 \in 1..(N - m + 1) /\ m + (k - m + 1) - 1 = k
    BY <1>3
  <2>2. e = shown[k - m + 1]
    BY <1>5, <1>7, <2>1
  <2> QED
    BY <1>6, <2>1, <2>2 DEF ToSet
<1>9. m = (N + 1) - GvLimit
  BY <1>2, <1>3, <1>8 DEF Larger
<1>10. Len(shown) = GvLimit
  BY <1>2, <1>5, <1>9
<1>11. ASSUME NEW i \in 1..(N - m + 1) PROVE ~Before(shown[i], e)
  <2>1. m + i - 1 \in 1..N /\ k < m + i - 1
    BY <1>3, <1>8
  <2> QED
    BY <1>1, <1>5, <1>7, <2>1 DEF Ordered
<1> QED
  BY <1>6, <1>10, <1>11

\* The span of a relation: from the first record that asserts it, and ended only
\* when every one has, with the last.
LEMMA SpanIs ==
    ASSUME ViewsInv, NEW valid, valid = Validity(gvLog), NEW r, NEW id \in EdgeRecords(gvLog, r),
           NEW span, span = EdgeValidity(gvLog, valid, r)
    PROVE  /\ span.from \in 0..GvMaxTime /\ span.to \in 0..GvMaxTime
           /\ span.from <= valid[id].from
           /\ span.to # 0 => valid[id].to # 0 /\ valid[id].to <= span.to
<1>1. PICK R, spans : R = EdgeRecords(gvLog, r) /\ spans = {valid[x] : x \in R}
  OBVIOUS
<1>2. ASSUME NEW x \in R PROVE valid[x].from \in 0..GvMaxTime /\ valid[x].to \in 0..GvMaxTime
  <2>1. PICK k \in DOMAIN gvLog : x = gvLog[k].id
    BY <1>1 DEF EdgeRecords, ToSet
  <2>2. IntervalOf(valid[x], k)
    BY <2>1, ValidityIs
  <2> QED
    BY <2>2, LogTypes DEF IntervalOf
<1>3. PICK F, T : F = {v.from : v \in spans} /\ T = {v.to : v \in spans}
  OBVIOUS
<1>4. F \in SUBSET (0..GvMaxTime) /\ T \in SUBSET (0..GvMaxTime) /\ GvMaxTime \in Nat
  BY <1>1, <1>2, <1>3, LogTypes
<1>5. valid[id] \in spans /\ valid[id].from \in F /\ valid[id].to \in T
  BY <1>1, <1>3
<1>6. PICK least : least = CHOOSE t \in F : \A v \in spans : t <= v.from
  OBVIOUS
<1>7. least \in F /\ \A v \in spans : least <= v.from
  <2>1. F \in SUBSET Nat /\ F # {}
    BY <1>4, <1>5
  <2>2. \E t \in F : \A y \in F : t <= y
    BY <2>1, LeastNat
  <2>3. \E t \in F : \A v \in spans : t <= v.from
    BY <1>3, <2>2
  <2> QED
    BY <1>6, <2>3
<1>8. PICK last : last = CHOOSE t \in T : \A v \in spans : t >= v.to
  OBVIOUS
<1>9. last \in T /\ \A v \in spans : last >= v.to
  <2>1. T \in SUBSET Nat /\ T # {} /\ \A t \in T : t <= GvMaxTime
    BY <1>4, <1>5
  <2>2. \E t \in T : \A y \in T : y <= t
    BY <1>4, <2>1, GreatestNat
  <2>3. \E t \in T : \A v \in spans : t >= v.to
    <3>1. PICK t \in T : \A y \in T : y <= t
      BY <2>2
    <3>2. ASSUME NEW v \in spans PROVE t >= v.to
      <4>1. v.to \in T
        BY <1>3
      <4>2. v.to <= t /\ v.to \in Nat /\ t \in Nat
        BY <2>1, <3>1, <4>1
      <4> QED
        BY <4>2
    <3> QED
      BY <3>2
  <2> QED
    BY <1>8, <2>3
<1>10. span = [from |-> least, to |-> IF \E v \in spans : IsCurrent(v) THEN 0 ELSE last]
  BY <1>1, <1>3, <1>6, <1>8 DEF EdgeValidity
<1>11. span.from = least /\ span.to = (IF \E v \in spans : IsCurrent(v) THEN 0 ELSE last)
  BY <1>10
<1>12. span.from <= valid[id].from /\ least \in 0..GvMaxTime /\ last \in 0..GvMaxTime
  BY <1>4, <1>5, <1>7, <1>9, <1>11
<1>13. ASSUME span.to # 0 PROVE valid[id].to # 0 /\ valid[id].to <= span.to
  <2>1. ~IsCurrent(valid[id]) /\ span.to = last
    BY <1>5, <1>11, <1>13
  <2>2. last >= valid[id].to
    BY <1>5, <1>9
  <2>3. last \in Nat /\ valid[id].to \in Nat
    <3>1. last \in 0..GvMaxTime /\ valid[id].to \in 0..GvMaxTime
      BY <1>4, <1>5, <1>9
    <3> QED
      BY <3>1
  <2> QED
    BY <2>1, <2>2, <2>3 DEF IsCurrent
<1>14. span.to \in 0..GvMaxTime
  BY <1>4, <1>11, <1>12
<1> QED
  BY <1>11, <1>12, <1>13, <1>14

\* The relations the log asserts, and their spans.
Asserted(log) == UNION {{Resolved(q) : q \in u.rels} : u \in ToSet(log)}
SpansOf(log, valid) == [r \in Asserted(log) |-> EdgeValidity(log, valid, r)]

LEMMA SpansAre ==
    ASSUME ViewsInv, NEW valid, valid = Validity(gvLog), NEW spans, spans = SpansOf(gvLog, valid)
    PROVE  /\ DOMAIN spans = Asserted(gvLog)
           /\ \A r \in Asserted(gvLog) : spans[r].from \in 0..GvMaxTime /\ spans[r].to \in 0..GvMaxTime
           /\ \A r \in Asserted(gvLog) : \A id \in EdgeRecords(gvLog, r) :
                /\ spans[r].from <= valid[id].from
                /\ spans[r].to # 0 => valid[id].to # 0 /\ valid[id].to <= spans[r].to
<1>1. DOMAIN spans = Asserted(gvLog) /\ \A r \in Asserted(gvLog) : spans[r] = EdgeValidity(gvLog, valid, r)
  BY DEF SpansOf
<1>2. ASSUME NEW r \in Asserted(gvLog) PROVE \E id : id \in EdgeRecords(gvLog, r)
  <2>1. PICK u \in ToSet(gvLog) : \E q \in u.rels : r = Resolved(q)
    BY DEF Asserted
  <2>2. u.id \in EdgeRecords(gvLog, r)
    BY <2>1 DEF EdgeRecords
  <2> QED
    BY <2>2
<1>3. ASSUME NEW r \in Asserted(gvLog), NEW id \in EdgeRecords(gvLog, r)
      PROVE  /\ spans[r].from \in 0..GvMaxTime /\ spans[r].to \in 0..GvMaxTime
             /\ spans[r].from <= valid[id].from
             /\ spans[r].to # 0 => valid[id].to # 0 /\ valid[id].to <= spans[r].to
  BY <1>1, SpanIs
<1> QED
  BY <1>1, <1>2, <1>3

LEMMA EventsParts ==
    ASSUME NEW log, NEW valid
    PROVE  Events(log, valid) = RecordEvents(log, valid) \cup RelationEvents(SpansOf(log, valid))
  BY DEF Events, SpansOf, Asserted

\* There are finitely many events, each at a time there is.
LEMMA EventsAre ==
    ASSUME ViewsInv, NEW valid, valid = Validity(gvLog), NEW events, events = Events(gvLog, valid)
    PROVE  IsFiniteSet(events) /\ Timed(events) /\ \A e \in events : e.at <= GvMaxTime
<1>1. PICK spans : spans = SpansOf(gvLog, valid)
  OBVIOUS
<1>2. events = RecordEvents(gvLog, valid) \cup RelationEvents(spans)
  BY <1>1, EventsParts
<1>3. PICK A, B, C, D, X, Y :
        /\ A = {[at |-> u.time, kind |-> 2, of |-> <<u.id>>] : u \in ToSet(gvLog)}
        /\ X = {y \in DOMAIN valid : ~IsCurrent(valid[y])}
        /\ B = {[at |-> valid[x].to, kind |-> 0, of |-> <<x>>] : x \in X}
        /\ C = {[at |-> spans[r].from, kind |-> 3, of |-> r] : r \in DOMAIN spans}
        /\ Y = {q \in DOMAIN spans : ~IsCurrent(spans[q])}
        /\ D = {[at |-> spans[r].to, kind |-> 1, of |-> r] : r \in Y}
  OBVIOUS
<1>4. events = A \cup B \cup C \cup D
  BY <1>2, <1>3 DEF RecordEvents, RelationEvents
<1>5. PICK N \in Nat : DOMAIN gvLog = 1..N
  BY LogTypes
<1>6. IsFiniteSet(ToSet(gvLog)) /\ IsFiniteSet(LogIdsOf)
  <2>1. IsFiniteSet(1..N)
    BY <1>5, FS_Interval
  <2>2. PICK F : F = [k \in 1..N |-> gvLog[k]]
    OBVIOUS
  <2>3. IsFiniteSet({F[k] : k \in 1..N})
    BY <2>1, <2>2, ImageFinite
  <2>4. ToSet(gvLog) = {F[k] : k \in 1..N}
    BY <1>5, <2>2 DEF ToSet
  <2>5. PICK H : H = [k \in 1..N |-> gvLog[k].id]
    OBVIOUS
  <2>6. IsFiniteSet({H[k] : k \in 1..N})
    BY <2>1, <2>5, ImageFinite
  <2>7. LogIdsOf = {H[k] : k \in 1..N}
    BY <1>5, <2>5 DEF LogIdsOf
  <2> QED
    BY <2>3, <2>4, <2>6, <2>7
<1>7. DOMAIN valid = LogIdsOf /\ \A k \in DOMAIN gvLog : IntervalOf(valid[gvLog[k].id], k)
  BY ValidityIs
<1>8. IsFiniteSet(X) /\ IsFiniteSet(DOMAIN spans) /\ IsFiniteSet(Y)
  <2>1. IsFiniteSet(X)
    BY <1>3, <1>6, <1>7, FS_Subset
  <2>2. PICK F, W : F = [r \in GvRelations |-> Resolved(r)] /\ W = {F[r] : r \in GvRelations}
    OBVIOUS
  <2>3. IsFiniteSet(W)
    BY <2>2, GraphViewsAssumption, ImageFinite
  <2>4. Asserted(gvLog) \in SUBSET W
    <3>1. ASSUME NEW u \in ToSet(gvLog), NEW q \in u.rels PROVE Resolved(q) \in W
      <4>1. q \in GvRelations
        BY <3>1, LogTypes DEF ToSet
      <4> QED
        BY <2>2, <4>1
    <3> QED
      BY <3>1 DEF Asserted
  <2>5. IsFiniteSet(DOMAIN spans)
    BY <1>1, <2>3, <2>4, SpansAre, FS_Subset
  <2> QED
    BY <1>3, <2>1, <2>5, FS_Subset
<1>9. IsFiniteSet(A) /\ IsFiniteSet(B) /\ IsFiniteSet(C) /\ IsFiniteSet(D)
  <2>1. PICK F : F = [u \in ToSet(gvLog) |-> [at |-> u.time, kind |-> 2, of |-> <<u.id>>]]
    OBVIOUS
  <2>2. A = {F[u] : u \in ToSet(gvLog)}
    BY <1>3, <2>1
  <2>3. PICK H : H = [x \in X |-> [at |-> valid[x].to, kind |-> 0, of |-> <<x>>]]
    OBVIOUS
  <2>4. B = {H[x] : x \in X}
    BY <1>3, <2>3
  <2>5. PICK I : I = [r \in DOMAIN spans |-> [at |-> spans[r].from, kind |-> 3, of |-> r]]
    OBVIOUS
  <2>6. C = {I[r] : r \in DOMAIN spans}
    BY <1>3, <2>5
  <2>7. PICK J : J = [r \in Y |-> [at |-> spans[r].to, kind |-> 1, of |-> r]]
    OBVIOUS
  <2>8. D = {J[r] : r \in Y}
    BY <1>3, <2>7
  <2>9. IsFiniteSet({F[u] : u \in ToSet(gvLog)})
    BY <1>6, <2>1, ImageFinite
  <2>10. IsFiniteSet({H[x] : x \in X})
    BY <1>8, <2>3, ImageFinite
  <2>11. IsFiniteSet({I[r] : r \in DOMAIN spans})
    BY <1>8, <2>5, ImageFinite
  <2>12. IsFiniteSet({J[r] : r \in Y})
    BY <1>8, <2>7, ImageFinite
  <2> QED
    BY <2>2, <2>4, <2>6, <2>8, <2>9, <2>10, <2>11, <2>12
<1>10. IsFiniteSet(events)
  BY <1>4, <1>9, FS_Union
<1>11. ASSUME NEW e \in events PROVE e.at \in 0..GvMaxTime /\ e.kind \in Nat
  <2>1. CASE e \in A
    <3>1. PICK u \in ToSet(gvLog) : e = [at |-> u.time, kind |-> 2, of |-> <<u.id>>]
      BY <1>3, <2>1
    <3>2. e.at = u.time /\ e.kind = 2
      BY <3>1
    <3>3. u.time \in 1..GvMaxTime /\ GvMaxTime \in Nat
      BY LogTypes DEF ToSet
    <3> QED
      BY <3>2, <3>3
  <2>2. CASE e \in B
    <3>1. PICK x \in X : e = [at |-> valid[x].to, kind |-> 0, of |-> <<x>>]
      BY <1>3, <2>2
    <3>2. PICK k \in DOMAIN gvLog : x = gvLog[k].id
      BY <1>3, <1>7 DEF LogIdsOf
    <3>3. IntervalOf(valid[x], k) /\ e.at = valid[x].to /\ e.kind = 0
      BY <1>7, <3>1, <3>2
    <3> QED
      BY <3>3 DEF IntervalOf
  <2>3. CASE e \in C
    <3>1. PICK r \in DOMAIN spans : e = [at |-> spans[r].from, kind |-> 3, of |-> r]
      BY <1>3, <2>3
    <3>2. e.at = spans[r].from /\ e.kind = 3
      BY <3>1
    <3> QED
      BY <1>1, <3>2, SpansAre
  <2>4. CASE e \in D
    <3>1. PICK r \in Y : e = [at |-> spans[r].to, kind |-> 1, of |-> r]
      BY <1>3, <2>4
    <3>2. e.at = spans[r].to /\ e.kind = 1 /\ r \in DOMAIN spans
      BY <1>3, <3>1
    <3> QED
      BY <1>1, <3>2, SpansAre
  <2> QED
    BY <1>4, <2>1, <2>2, <2>3, <2>4
<1>12. GvMaxTime \in Nat
  BY LogTypes
<1> QED
  BY <1>10, <1>11, <1>12 DEF Timed

\* A record's event is not a relation's.
LEMMA OneIsNotThree ==
    ASSUME NEW x, NEW a, NEW b, NEW c
    PROVE  <<x>> # <<a, b, c>>
<1>1. Len(<<x>>) = 1 /\ Len(<<a, b, c>>) = 3
  OBVIOUS
<1> QED
  BY <1>1

\* The timeline is exact.
LEMMA TimelineIsSound ==
    ASSUME ViewsInv, NEW valid, valid = Validity(gvLog), NEW graph, graph = SessionGraph(gvLog),
           NEW events, events = Events(gvLog, valid)
    PROVE  TimelineSound(graph, valid, events)
<1>1. PICK shown : shown = TimelineView(events, 0, 0, GvLimit)
  OBVIOUS
<1>2. IsFiniteSet(events) /\ Timed(events) /\ \A e \in events : e.at <= GvMaxTime
  BY EventsAre
<1>3. PICK all : all = Chronological(events) /\ shown = Latest(all, GvLimit)
  <2>1. {x \in events : 0 <= x.at /\ (0 # 0 => x.at <= 0)} = events
    BY <1>2 DEF Timed
  <2> QED
    BY <1>1, <2>1 DEF TimelineView
<1>4. all \in Seq(events) /\ Ordered(all) /\ ToSet(all) = events
  BY <1>2, <1>3, ChronologicalIs
<1>5. \A e \in events \ ToSet(shown) : Len(shown) = GvLimit /\ \A i \in DOMAIN shown : ~Before(shown[i], e)
  BY <1>2, <1>3, <1>4, LatestIs
<1>6. PICK spans : spans = SpansOf(gvLog, valid)
  OBVIOUS
<1>7. events = RecordEvents(gvLog, valid) \cup RelationEvents(spans)
  BY <1>6, EventsParts
<1>8. ASSUME NEW r \in graph, NEW id \in EdgeRecords(gvLog, r), NEW e \in events, e.of = r,
             NEW t \in 1..(GvMaxTime + 1), HoldsAt(valid[id], t)
      PROVE  IF e.kind = 3 THEN e.at <= t ELSE t < e.at
  <2>1. r \in Asserted(gvLog)
    BY DEF SessionGraph, Asserted
  <2>2. PICK q : r = <<gvInto[q[1]], q[2], gvInto[q[3]]>>
    BY DEF SessionGraph, Resolved
  <2>3. e \in RelationEvents(spans)
    <3>1. ASSUME e \in RecordEvents(gvLog, valid) PROVE FALSE
      <4>1. PICK x : e.of = <<x>>
        BY <3>1 DEF RecordEvents
      <4> QED
        BY <1>8, <2>2, <4>1, OneIsNotThree
    <3> QED
      BY <1>7, <3>1
  <2>4. /\ spans[r].from \in 0..GvMaxTime /\ spans[r].to \in 0..GvMaxTime
        /\ spans[r].from <= valid[id].from
        /\ spans[r].to # 0 => valid[id].to # 0 /\ valid[id].to <= spans[r].to
    BY <1>6, <2>1, SpansAre
  <2>5. PICK k \in DOMAIN gvLog : id = gvLog[k].id
    BY DEF EdgeRecords, ToSet
  <2>6. IntervalOf(valid[id], k)
    BY <2>5, ValidityIs
  <2>7. valid[id].from \in 1..GvMaxTime /\ valid[id].to \in 0..GvMaxTime /\ GvMaxTime \in Nat
    BY <2>6, LogTypes DEF IntervalOf
  <2>8. valid[id].from <= t /\ (valid[id].to # 0 => t < valid[id].to)
    BY <1>8 DEF HoldsAt
  <2>9. CASE e \in {[at |-> spans[p].from, kind |-> 3, of |-> p] : p \in DOMAIN spans}
    <3>1. PICK p \in DOMAIN spans : e = [at |-> spans[p].from, kind |-> 3, of |-> p]
      BY <2>9
    <3>2. e.kind = 3 /\ e.at = spans[r].from
      BY <1>8, <3>1
    <3> QED
      BY <2>4, <2>7, <2>8, <3>2
  <2>10. CASE e \in {[at |-> spans[p].to, kind |-> 1, of |-> p] :
                       p \in {y \in DOMAIN spans : ~IsCurrent(spans[y])}}
    <3>1. PICK p \in {y \in DOMAIN spans : ~IsCurrent(spans[y])} :
            e = [at |-> spans[p].to, kind |-> 1, of |-> p]
      BY <2>10
    <3>2. e.kind = 1 /\ e.at = spans[r].to /\ spans[r].to # 0
      BY <1>8, <3>1 DEF IsCurrent
    <3> QED
      BY <2>4, <2>7, <2>8, <3>2
  <2> QED
    BY <2>3, <2>9, <2>10 DEF RelationEvents
<1> QED
  BY <1>1, <1>5, <1>8 DEF TimelineSound, TimelineExact

\* Whatever was written, superseded, contradicted, forgotten, purged and merged,
\* records succeed each other without a gap, and the impact, lineage, file and
\* timeline views show just what holds (temporal.rs; graph_views.rs).
THEOREM ViewsAreSound == ViewsSpec => []ViewsSound
<1>1. ViewsInv => ViewsSound
  <2> SUFFICES ASSUME ViewsInv PROVE ViewsSound
    OBVIOUS
  <2>1. PICK graph, valid : graph = SessionGraph(gvLog) /\ valid = Validity(gvLog)
    OBVIOUS
  <2>2. Succeeds(valid)
    BY <2>1, RecordsSucceed
  <2>3. \A x \in SessionEntities(gvLog) :
          ImpactExact(ImpactView(gvLog, valid, x, GvHops), DependOver(graph, {x}), valid)
    BY <2>1, ImpactIsExact
  <2>4. \A x \in SessionEntities(gvLog) : LineageExact(x, graph, LineageView(gvLog, x, GvHops).steps)
    BY <2>1, LineageIsExact
  <2>5. TimelineSound(graph, valid, Events(gvLog, valid))
    BY <2>1, TimelineIsSound
  <2>6. ViewsExact(graph, valid)
    BY <2>3, <2>4, <2>5, FileIsExact DEF ViewsExact
  <2> QED
    BY <2>1, <2>2, <2>6 DEF ViewsSound, ViewsHold
<1> QED
  BY <1>1, ViewsInitInv, ViewsStepInv, PTL DEF ViewsSpec

=============================================================================
