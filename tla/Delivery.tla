------------------------------ MODULE Delivery ------------------------------
(***************************************************************************)
(* What the data path promises for every report, whatever happens to the   *)
(* connection: it stays in the spool until the API has given a verdict on  *)
(* it (2xx: stored, 4xx: refused), unless the spool limits purge it, or it *)
(* is discarded unsent because it is empty or the sender is a black hole.  *)
(* A report may reach the API more than once; it is never put back.        *)
(***************************************************************************)
EXTENDS Integers

CONSTANTS Files,     \* the reports
          Unsendable \* those the sender may drop without sending them

VARIABLE status

Init == status = [f \in Files |-> "new"]

Move(f, from, to) == status[f] \in from /\ status' = [status EXCEPT ![f] = to]

Write(f)   == Move(f, {"new"}, "spooled")
Settle(f)  == Move(f, {"spooled"}, "settled")
Remove(f)  == Move(f, {"settled"}, "removed")
Discard(f) == f \in Unsendable /\ Move(f, {"spooled"}, "removed")
Purge(f)   == Move(f, {"spooled", "settled"}, "purged")

Next == \E f \in Files : Write(f) \/ Settle(f) \/ Remove(f) \/ Discard(f) \/ Purge(f)

Spec == Init /\ [][Next]_status
=============================================================================
