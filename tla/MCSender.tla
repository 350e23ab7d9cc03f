------------------------------ MODULE MCSender ------------------------------
(* Small instances of Sender. *)
EXTENDS Sender
=============================================================================
