--------------------------- MODULE MCToolManager ---------------------------
(***************************************************************************)
(* Two instances and three configs, one of them invalid, in runs of three  *)
(* kinds: commands and kills while MySQL stays up, restarts of MySQL, and  *)
(* a command while MySQL restarts.                                         *)
(***************************************************************************)
EXTENDS ToolManager

CONSTANTS u1, u2, c1, c2, bad

MCUuids == {u1, u2}
MCConfigs == {c1, c2, bad}
MCIntervalOf == [c \in MCConfigs |-> IF c = c2 THEN 5 ELSE 1]

Tools(U) == [u \in MCUuids |-> IF u \in U THEN c1 ELSE NoConf]

Commands == [conf |-> Tools({}), cmds |-> 3, kills |-> 2, faults |-> 1,
             seconds |-> 0, restarts |-> 0, checks |-> 0]
Restarts(U, s, r, f) == [conf |-> Tools(U), cmds |-> 0, kills |-> 0, faults |-> f,
                         seconds |-> s, restarts |-> r, checks |-> 1]
Both == [conf |-> Tools({u1}), cmds |-> 1, kills |-> 0, faults |-> 0,
         seconds |-> 0, restarts |-> 1, checks |-> 1]
MCBounds == {Commands, Restarts({u1}, 2, 2, 1), Restarts({u1, u2}, 1, 1, 0),
             Restarts({u1, u2}, 0, 2, 0), Both}
=============================================================================
