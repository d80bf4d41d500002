----------------------------- MODULE MCBackground -----------------------------
(* Background work that must end.  The derived work of an update and the     *)
(* storage actor's tasks share no state, so a behaviour exercises one of     *)
(* them, its part, and the other stays as it was.                            *)
EXTENDS DerivedWork, StorageActor

VARIABLE part   \* the part this behaviour is about

backgroundVars == <<part, vars, actorVars>>

BackgroundInit == part \in {"derived", "actor"} /\ Init /\ ActorInit

BackgroundNext ==
    \/ part = "derived" /\ Next /\ UNCHANGED <<part, actorVars>>
    \/ part = "actor" /\ ActorNext /\ UNCHANGED <<part, vars>>

\* Nothing is enabled in the part that stays as it was, so its fairness asks
\* for nothing.
BackgroundSpec ==
    BackgroundInit /\ [][BackgroundNext]_backgroundVars /\ Fairness /\ ActorFairness

=============================================================================
