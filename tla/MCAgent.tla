------------------------------ MODULE MCAgent ------------------------------
(***************************************************************************)
(* One slot, queues of one element: three commands fill each of them.      *)
(***************************************************************************)
EXTENDS Agent
=============================================================================
