----------------------------- MODULE MCLogRelay -----------------------------
(* LogRelay on small instances. *)
EXTENDS LogRelay
=============================================================================
