------------------------------ MODULE SessionCas ------------------------------
(***************************************************************************)
(* The optimistic update of a session handle (ArcSwap<ActiveSession>) of   *)
(* memory_system/system.rs: cas_update_session, and the same loop in       *)
(* add_incremental_update_internal and apply_entity_graph_update_now.  A   *)
(* writer loads the current version, copies and changes it, and swaps it   *)
(* in if the handle still holds the version it loaded; else it backs off   *)
(* and retries, MaxAttempts times at most.                                 *)
(*                                                                         *)
(* Versions are compared by address.  The writer keeps the Arc it loaded,  *)
(* so an address is not reused meanwhile: versions are numbered.           *)
(***************************************************************************)
EXTENDS Integers, FiniteSets

CONSTANTS
    Writers,      \* concurrent operations on the session
    MaxAttempts   \* MAX_CAS_ATTEMPTS

ASSUME AttemptsAssumption == MaxAttempts \in Nat \ {0}

VARIABLES
    version,   \* number of the published version
    value,     \* the writers whose change is in the published version
    pc,        \* per writer: "load", "loaded", "done", "noop" or "failed"
    base, copy,  \* per writer: the version it loaded, the changes in it
    attempts   \* per writer: lost swaps

vars == <<version, value, pc, base, copy, attempts>>

Load(w) ==
    /\ pc[w] = "load"
    /\ base' = [base EXCEPT ![w] = version]
    /\ copy' = [copy EXCEPT ![w] = value]
    /\ pc' = [pc EXCEPT ![w] = "loaded"]
    /\ UNCHANGED <<version, value, attempts>>

\* mutate finds nothing to change: Ok(None).
Noop(w) ==
    /\ pc[w] = "loaded"
    /\ pc' = [pc EXCEPT ![w] = "noop"]
    /\ UNCHANGED <<version, value, base, copy, attempts>>

\* Mutant of Swap: a plain store instead of the compare-and-swap.
Swap_blind(w) ==
    /\ pc[w] = "loaded"
    /\ version' = version + 1
    /\ value' = copy[w] \cup {w}
    /\ pc' = [pc EXCEPT ![w] = "done"]
    /\ UNCHANGED <<base, copy, attempts>>

\* The handle still holds the loaded version: the changed copy is published.
Swap(w) ==
    /\ pc[w] = "loaded" /\ base[w] = version
    /\ version' = version + 1
    /\ value' = copy[w] \cup {w}
    /\ pc' = [pc EXCEPT ![w] = "done"]
    /\ UNCHANGED <<base, copy, attempts>>

\* Mutant of Lose: one attempt too few.
Lose_early(w) ==
    /\ pc[w] = "loaded" /\ base[w] # version
    /\ attempts' = [attempts EXCEPT ![w] = @ + 1]
    /\ pc' = [pc EXCEPT ![w] = IF attempts[w] + 2 >= MaxAttempts THEN "failed" ELSE "load"]
    /\ UNCHANGED <<version, value, base, copy>>

\* Another writer won: retry, or give up after the last attempt.
Lose(w) ==
    /\ pc[w] = "loaded" /\ base[w] # version
    /\ attempts' = [attempts EXCEPT ![w] = @ + 1]
    /\ pc' = [pc EXCEPT ![w] = IF attempts[w] + 1 = MaxAttempts THEN "failed" ELSE "load"]
    /\ UNCHANGED <<version, value, base, copy>>

Init ==
    /\ version = 0 /\ value = {}
    /\ pc = [w \in Writers |-> "load"]
    /\ base = [w \in Writers |-> 0] /\ copy = [w \in Writers |-> {}]
    /\ attempts = [w \in Writers |-> 0]

Next == \E w \in Writers : Load(w) \/ Noop(w) \/ Swap(w) \/ Lose(w)

Spec == Init /\ [][Next]_vars

-----------------------------------------------------------------------------
(* Properties. *)

Ended == {"done", "noop", "failed"}

\* Type invariant.
TypeOK ==
    /\ version \in Nat
    /\ value \subseteq Writers
    /\ pc \in [Writers -> {"load", "loaded"} \cup Ended]
    /\ base \in [Writers -> Nat]
    /\ copy \in [Writers -> SUBSET Writers]
    /\ attempts \in [Writers -> 0 .. MaxAttempts]

\* No lost update: the published session holds exactly the changes of the
\* writers that were told they succeeded.
NoLostUpdate == value = {w \in Writers : pc[w] = "done"}

\* A writer fails only under real contention: others published at least
\* MaxAttempts versions ("high contention").
FailsOnlyUnderContention ==
    \A w \in Writers : pc[w] = "failed" => version >= MaxAttempts

\* The loop is sound: it loses no change, and gives up only when it must.
CasSound == NoLostUpdate /\ FailsOnlyUnderContention

(* The inductive invariant behind the theorems of WritePathProofs. *)

\* A writer that loaded the published version has all its changes.
CopiesFaithful ==
    \A w \in Writers :
        pc[w] = "loaded" => /\ base[w] <= version
                            /\ base[w] = version => copy[w] = value

\* Every lost swap is paid for by a version published meanwhile.
AttemptsPaid ==
    \A w \in Writers : /\ attempts[w] <= version
                       /\ pc[w] = "loaded" => attempts[w] <= base[w]
                       /\ pc[w] \in {"load", "loaded"} => attempts[w] < MaxAttempts
                       /\ pc[w] = "failed" => attempts[w] = MaxAttempts

IInv == TypeOK /\ NoLostUpdate /\ CopiesFaithful /\ AttemptsPaid

=============================================================================
