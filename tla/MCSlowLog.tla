----------------------------- MODULE MCSlowLog -----------------------------
(* Two rotations of a log that is rotated at two events. *)
EXTENDS SlowLog
=============================================================================
