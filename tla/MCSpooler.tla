----------------------------- MODULE MCSpooler -----------------------------
(***************************************************************************)
(* Small instances of Spooler: runs in which the disk fails, runs in which *)
(* the encoding changes to gzip, runs in which a report outlives MaxAge,   *)
(* each with a file that an earlier run may have left; and runs with gzip  *)
(* and two reports to be written.                                          *)
(***************************************************************************)
EXTENDS Spooler

MCSizeOf == [k \in Keys |-> k]
MCLimits == [MaxAge |-> 1, MaxSize |-> 4, MaxFiles |-> 1]

Failing == [old |-> {1}, concurrent |-> TRUE, faults |-> TRUE, restarts |-> 0, expired |-> 0]
Encoded == [old |-> {1}, concurrent |-> TRUE, faults |-> FALSE, restarts |-> 1, expired |-> 0]
Aging   == [old |-> {1}, concurrent |-> TRUE, faults |-> FALSE, restarts |-> 0, expired |-> 1]
Gzip    == [old |-> {}, concurrent |-> FALSE, faults |-> FALSE, restarts |-> 0, expired |-> 0]
OneOld  == [old |-> {1}, concurrent |-> TRUE, faults |-> FALSE, restarts |-> 0, expired |-> 0]

MCBounds == {Failing, Encoded, Aging, Gzip}
CrashBounds == {OneOld}
=============================================================================
