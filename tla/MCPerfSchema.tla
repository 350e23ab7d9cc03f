---------------------------- MODULE MCPerfSchema ----------------------------
(* Two rows, so that one is in a snapshot and the other is not. *)
EXTENDS PerfSchema, TLC

Symmetry == Permutations(Rows)
=============================================================================
