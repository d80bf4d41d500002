----------------------------- MODULE MCPersister -----------------------------
(* A small instance of Persister for TLC. *)
EXTENDS Persister
=============================================================================
