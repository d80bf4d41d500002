---------------------------- MODULE CircuitBreaker ----------------------------
(***************************************************************************)
(* The CircuitBreaker of memory_system/circuit_breaker.rs.  A request asks *)
(* is_open, runs, and records its outcome; WritePath joins these steps to  *)
(* the write they guard.  Each atomic is accessed with Relaxed loads and   *)
(* read-modify-writes of its own, so every access is a step.               *)
(* success_count and last_success_timestamp are statistics nothing reads   *)
(* back and are left out.                                                  *)
(***************************************************************************)
EXTENDS Integers, FiniteSets

CONSTANTS
    Tasks,       \* requests, each served by a task of its own
    Threshold,   \* failure_threshold
    Timeout,     \* timeout_seconds
    Word,        \* the counters are unsigned integers modulo Word (2^64)
    MaxTime      \* bound: seconds that pass in a behaviour

ASSUME BreakerAssumption ==
    /\ Threshold \in Nat \ {0} /\ Timeout \in Nat
    /\ Word \in Nat /\ Word > Threshold + 1
    /\ MaxTime \in Nat

VARIABLES
    isOpen, failureCount, lastFailure,  \* the atomics
    now,        \* the clock
    bpc, seen,  \* per task: its next step, the time record_failure read
    recorded,   \* history: failures counted since the last reset
    rank        \* history, per task: recorded, when it counted its failure

breakerVars == <<isOpen, failureCount, lastFailure, now, bpc, seen, recorded, rank>>
atomics == <<isOpen, failureCount, lastFailure>>

Goto(t, l) == bpc' = [bpc EXCEPT ![t] = l]

-----------------------------------------------------------------------------
(* is_open. *)

\* A request enters and loads the flag; a closed circuit lets it through.
LoadFlag(t) ==
    /\ bpc[t] = "idle"
    /\ Goto(t, IF isOpen THEN "open" ELSE "work")
    /\ UNCHANGED <<atomics, now, seen, recorded, rank>>

\* The time since the last failure decides: rejected, or the circuit is reset.
LoadTimestamp(t) ==
    /\ bpc[t] = "open"
    /\ Goto(t, IF now - lastFailure > Timeout THEN "reset" ELSE "rejected")
    /\ UNCHANGED <<atomics, now, seen, recorded, rank>>

\* A reset clears the flag, then the count.
ClearFlag(t) ==
    /\ bpc[t] = "reset"
    /\ isOpen' = FALSE
    /\ Goto(t, "clear")
    /\ UNCHANGED <<failureCount, lastFailure, now, seen, recorded, rank>>

ClearCount(t) ==
    /\ bpc[t] = "clear"
    /\ failureCount' = 0 /\ recorded' = 0
    /\ Goto(t, "work")
    /\ UNCHANGED <<isOpen, lastFailure, now, seen, rank>>

-----------------------------------------------------------------------------
(* record_failure. *)

\* Mutants of CountFailure: off by one at the threshold, either way.
CountFailure_late(t) ==
    /\ bpc[t] = "work"
    /\ seen' = [seen EXCEPT ![t] = now]
    /\ failureCount' = (failureCount + 1) % Word
    /\ recorded' = recorded + 1
    /\ rank' = [rank EXCEPT ![t] = recorded + 1]
    /\ Goto(t, IF failureCount' > Threshold THEN "stampOpen" ELSE "stamp")
    /\ UNCHANGED <<isOpen, lastFailure, now>>

CountFailure_early(t) ==
    /\ bpc[t] = "work"
    /\ seen' = [seen EXCEPT ![t] = now]
    /\ failureCount' = (failureCount + 1) % Word
    /\ recorded' = recorded + 1
    /\ rank' = [rank EXCEPT ![t] = recorded + 1]
    /\ Goto(t, IF failureCount' >= Threshold - 1 THEN "stampOpen" ELSE "stamp")
    /\ UNCHANGED <<isOpen, lastFailure, now>>

\* The request failed: the time is read, the failure counted.
CountFailure(t) ==
    /\ bpc[t] = "work"
    /\ seen' = [seen EXCEPT ![t] = now]
    /\ failureCount' = (failureCount + 1) % Word
    /\ recorded' = recorded + 1
    /\ rank' = [rank EXCEPT ![t] = recorded + 1]
    /\ Goto(t, IF failureCount' >= Threshold THEN "stampOpen" ELSE "stamp")
    /\ UNCHANGED <<isOpen, lastFailure, now>>

StampFailure(t) ==
    /\ bpc[t] \in {"stamp", "stampOpen"}
    /\ lastFailure' = seen[t]
    /\ Goto(t, IF bpc[t] = "stampOpen" THEN "trip" ELSE "erred")
    /\ seen' = [seen EXCEPT ![t] = 0]
    /\ UNCHANGED <<isOpen, failureCount, now, recorded, rank>>

Trip(t) ==
    /\ bpc[t] = "trip"
    /\ isOpen' = TRUE
    /\ Goto(t, "erred")
    /\ UNCHANGED <<failureCount, lastFailure, now, seen, recorded, rank>>

-----------------------------------------------------------------------------
(* record_success. *)

\* The request succeeded: the count is loaded, and decremented if positive.
LoadCount(t) ==
    /\ bpc[t] = "work"
    /\ Goto(t, IF failureCount > 0 THEN "decrement" ELSE "ok")
    /\ UNCHANGED <<atomics, now, seen, recorded, rank>>

Decrement(t) ==
    /\ bpc[t] = "decrement"
    /\ failureCount' = (failureCount + Word - 1) % Word
    /\ Goto(t, "ok")
    /\ UNCHANGED <<isOpen, lastFailure, now, seen, recorded, rank>>

-----------------------------------------------------------------------------
Tick ==
    /\ now < MaxTime
    /\ now' = now + 1
    /\ UNCHANGED <<atomics, bpc, seen, recorded, rank>>

BreakerInit ==
    /\ isOpen = FALSE /\ failureCount = 0 /\ lastFailure = 0
    /\ now = 0
    /\ bpc = [t \in Tasks |-> "idle"] /\ seen = [t \in Tasks |-> 0]
    /\ recorded = 0 /\ rank = [t \in Tasks |-> 0]

-----------------------------------------------------------------------------
(* Properties. *)

Labels == {"idle", "open", "reset", "clear", "work", "stamp", "stampOpen", "trip",
           "decrement", "rejected", "erred", "ok"}

\* Type invariant of the breaker.
BreakerTypeOK ==
    /\ isOpen \in BOOLEAN
    /\ failureCount \in 0 .. Word - 1
    /\ lastFailure \in 0 .. MaxTime /\ now \in 0 .. MaxTime
    /\ bpc \in [Tasks -> Labels]
    /\ seen \in [Tasks -> 0 .. MaxTime]
    /\ recorded \in 0 .. Cardinality(Tasks) /\ rank \in [Tasks -> 0 .. Cardinality(Tasks)]

\* Enough failures open the circuit: with no request between two steps of a
\* record, a count at the threshold (and not wrapped below zero) means the
\* circuit is open, whichever way the records of other requests and a reset by
\* is_open were interleaved (record_failure, record_success, is_open).
TripsWhenDue ==
    (\A t \in Tasks : bpc[t] \in {"idle", "open", "work", "rejected", "erred", "ok"})
        /\ failureCount \in Threshold .. Cardinality(Tasks)
        => isOpen

\* The requests that counted a failure, and those that may have taken one back.
Counted == {t \in Tasks : bpc[t] \in {"stamp", "stampOpen", "trip", "erred"}}
TookBack == {t \in Tasks : bpc[t] = "ok"}

\* The counter is above zero by the failures counted at most, and below, where
\* it wraps, by those taken back.
CountBounded ==
    \/ failureCount <= Cardinality(Counted)
    \/ failureCount >= Word - Cardinality(TookBack)

\* The inductive invariant behind TripsWhenDue: a count at the threshold is
\* followed by the step that opens the circuit, or by one that clears the count.
TripInv ==
    /\ bpc \in [Tasks -> Labels] /\ failureCount \in 0 .. Word - 1
    /\ CountBounded
    /\ failureCount \in Threshold .. Cardinality(Tasks)
         => isOpen \/ \E t \in Tasks : bpc[t] \in {"stampOpen", "trip", "clear"}

-----------------------------------------------------------------------------
(* What the repository says and the model refutes: these do not hold.     *)

\* failure_threshold is the "number of failures required to open the circuit":
\* the failure that opens it was at least the Threshold-th since the last reset.
OpensOnlyOnThreshold ==
    [][~isOpen /\ isOpen'
       => \E t \in Tasks : bpc[t] = "trip" /\ rank[t] >= Threshold]_breakerVars

=============================================================================
