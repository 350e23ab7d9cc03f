----------------------------- MODULE MCAnalyzer -----------------------------
(***************************************************************************)
(* Analyzer for TLC: two restarts of MySQL and one fault, so that one can  *)
(* happen while the other is dealt with.  Ticks need no bound.             *)
(***************************************************************************)
EXTENDS Analyzer
=============================================================================
