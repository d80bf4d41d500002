----------------------------- MODULE MCDerivedWork -----------------------------
(* Small instances of DerivedWork for TLC. *)
EXTENDS DerivedWork, TLC

Symmetry == Permutations(Updates)
=============================================================================
