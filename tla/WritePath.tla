------------------------------ MODULE WritePath ------------------------------
(***************************************************************************)
(* add_incremental_update_with of memory_system/system.rs: a write asks    *)
(* the circuit breaker, commits its update to the session handle with the  *)
(* compare-and-swap loop, and records the outcome.  Other operations       *)
(* (delete_update, purge_update, merge_entities, the graph worker, ...)    *)
(* compete for the same handle without asking the breaker.                 *)
(*                                                                         *)
(* Persisting the committed update comes after the commit and its failure  *)
(* is reported as "not durable", not as a failed request; see Persister.   *)
(***************************************************************************)
EXTENDS SessionCas, CircuitBreaker

CONSTANT Editors   \* the writers that bypass the breaker

ASSUME EditorAssumption == Editors \subseteq Writers /\ Tasks = Writers \ Editors

\* is_open, step by step: it lets the request through or rejects it.
AskBreaker(w) ==
    /\ LoadFlag(w) \/ LoadTimestamp(w) \/ ClearFlag(w) \/ ClearCount(w)
    /\ UNCHANGED vars

\* The compare-and-swap loop of an admitted request.  add_context_update always
\* has something to change.
Attempt(w) ==
    /\ bpc[w] = "work"
    /\ Load(w) \/ Swap(w) \/ Lose(w)
    /\ UNCHANGED breakerVars

\* cas_update_session of an operation that does not ask the breaker.
Edit(w) ==
    /\ Load(w) \/ Noop(w) \/ Swap(w) \/ Lose(w)
    /\ UNCHANGED breakerVars

\* Mutant of Fail: an update that was committed but not stored is a failure.
Fail_notDurable(w) ==
    /\ \/ pc[w] \in {"loaded", "failed", "done"}
       \/ pc[w] = "load" /\ attempts[w] = 0
    /\ CountFailure(w)
    /\ UNCHANGED vars

\* The session cannot be loaded, the update is invalid, or the attempts are
\* used up: the failure is recorded.
Fail(w) ==
    /\ \/ pc[w] \in {"loaded", "failed"}
       \/ pc[w] = "load" /\ attempts[w] = 0
    /\ CountFailure(w)
    /\ UNCHANGED vars

Succeed(w) ==
    /\ pc[w] = "done"
    /\ LoadCount(w)
    /\ UNCHANGED vars

Record(w) ==
    /\ StampFailure(w) \/ Trip(w) \/ Decrement(w)
    /\ UNCHANGED vars

WPInit == Init /\ BreakerInit

WPNext ==
    \/ \E w \in Tasks :
         AskBreaker(w) \/ Attempt(w) \/ Fail(w) \/ Succeed(w) \/ Record(w)
    \/ \E w \in Editors : Edit(w)
    \/ Tick /\ UNCHANGED vars

WPSpec == WPInit /\ [][WPNext]_<<vars, breakerVars>>

-----------------------------------------------------------------------------
(* Properties. *)

\* The caller is told the truth: a request that was rejected, or whose failure
\* is being recorded, left no change in the session, and one recorded as a
\* success did, whoever else wrote the session meanwhile.
OutcomeMatchesSession ==
    \A w \in Tasks :
        /\ bpc[w] \in {"rejected", "stamp", "stampOpen", "trip", "erred"} => w \notin value
        /\ bpc[w] \in {"decrement", "ok"} => w \in value

(* The inductive invariant behind the theorem of WritePathProofs. *)

\* How far a request is with the breaker tells how far it is with the session.
StagesAgree ==
    \A w \in Tasks :
        /\ bpc[w] \in {"idle", "open", "reset", "clear", "rejected"} => pc[w] = "load"
        /\ bpc[w] \in {"stamp", "stampOpen", "trip", "erred"} => pc[w] # "done"
        /\ bpc[w] \in {"decrement", "ok"} => pc[w] = "done"

WPInv == IInv /\ bpc \in [Tasks -> Labels] /\ StagesAgree

=============================================================================
