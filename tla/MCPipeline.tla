------------------------------ MODULE MCPipeline ------------------------------
(* Small instances of Pipeline for TLC. *)
EXTENDS Pipeline, TLC

\* Every queue holds one item.
One == [k \in Kinds |-> 1]

=============================================================================
