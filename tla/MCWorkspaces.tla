----------------------------- MODULE MCWorkspaces -----------------------------
(* A small instance of Workspaces for TLC. *)
EXTENDS Workspaces, TLC

Symmetry == Permutations(WsIds)
=============================================================================
