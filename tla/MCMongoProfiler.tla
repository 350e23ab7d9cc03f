-------------------------- MODULE MCMongoProfiler --------------------------
(***************************************************************************)
(* Two databases and intervals of two instants, in runs of two kinds: two  *)
(* documents over three intervals while nothing fails, and one document    *)
(* while the databases change, the server fails or both.                   *)
(***************************************************************************)
EXTENDS MongoProfiler

CONSTANTS d1, d2

MCDbs == {d1, d2}

Quiet == [now |-> 1, dbs |-> {d1, d2}, time |-> 3, docs |-> 2, events |-> 0]
Eventful(D, n) == [now |-> 1, dbs |-> D, time |-> 2, docs |-> 1, events |-> n]
MCBounds == {Quiet, Eventful({d1}, 2), Eventful({d1, d2}, 1)}
=============================================================================
