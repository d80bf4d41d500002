--------------------------- MODULE MCSessionManager ---------------------------
(* Small instances of SessionManager for TLC. *)
EXTENDS SessionManager, TLC

\* A client adds one update.
AddOne == {[upd |-> {u}, rem |-> {}] : u \in Updates}

\* A client adds or removes one update.
AddOrRemove == AddOne \cup {[upd |-> {}, rem |-> {u}] : u \in Updates}

Symmetry == Permutations(Clients) \cup Permutations(Slots) \cup Permutations(Updates)
=============================================================================
