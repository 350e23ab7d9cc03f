----------------------------- MODULE PerfSchema -----------------------------
(***************************************************************************)
(* The performance schema worker (qan/analyzer/mysql/worker/perfschema):   *)
(* Setup, Run and Cleanup of one interval after the other, over a table    *)
(* events_statements_summary_by_digest that goes on counting while it is   *)
(* read, and that may be truncated.                                        *)
(*                                                                         *)
(* A row is a digest in a schema.  COUNT_STAR stands for all of its sums:  *)
(* the code subtracts each of them in the same way and looks at no other.  *)
(* A Snapshot is a function on the rows it holds.                          *)
(***************************************************************************)
EXTENDS Integers, Functions

CONSTANTS Rows,
          MaxCount,      \* bound: executions of a row since the last truncate
          MaxTruncates,  \* bound: TRUNCATE TABLE, or a restart of MySQL
          MaxFaults      \* bound: failed connections, queries and reads

ASSUME PerfSchemaAssumption == MaxCount \in Nat \ {0} /\ MaxTruncates \in Nat /\ MaxFaults \in Nat

VARIABLES
  count,      \* COUNT_STAR of each row; 0: MySQL has no such row
  recent,     \* rows that the condition on LAST_SEEN is sure to select
  All, Curr,  \* digests
  iter,       \* w.iter # nil
  pc,         \* where the worker is in the interval
  todo,       \* rows the query has still to return
  since,      \* history: executions of each row since the baseline saw it,
  reported,   \* and how many of them were reported
  torn,       \* history: a failed read or a truncate since the baseline
  partial,    \* history: the baseline is not a whole snapshot
  truncates, faults

vars   == <<count, recent, All, Curr, iter, pc, todo, since, reported, torn, partial, truncates, faults>>
table  == <<count, recent, truncates>>
ghosts == <<since, reported, torn, partial>>

Empty   == [r \in {} |-> 0]
Prev(r) == IF r \in DOMAIN All THEN All[r] ELSE 0
Zero    == [r \in Rows |-> 0]
\* Digests.MergeCurr: rows are added, or replaced by their current values.
MergeCurr == [r \in DOMAIN All \cup DOMAIN Curr |-> IF r \in DOMAIN Curr THEN Curr[r] ELSE All[r]]
-----------------------------------------------------------------------------
(***************************************************************************)
(* MySQL.  NOW(), LAST_SEEN and the width of the window are in whole       *)
(* seconds, and the window begins when the last fetch ended: an execution  *)
(* close to that moment may miss it.                                       *)
(***************************************************************************)
Execute(r) ==
  /\ count[r] < MaxCount
  /\ count' = [count EXCEPT ![r] = @ + 1]
  /\ since' = [since EXCEPT ![r] = @ + 1]
  /\ recent' \in {recent, recent \cup {r}}
  /\ UNCHANGED <<All, Curr, iter, pc, todo, reported, torn, partial, truncates, faults>>

Truncate ==
  /\ truncates < MaxTruncates /\ truncates' = truncates + 1
  /\ count' = Zero /\ recent' = {} /\ torn' = TRUE
  /\ UNCHANGED <<All, Curr, iter, pc, todo, since, reported, partial, faults>>
-----------------------------------------------------------------------------
(***************************************************************************)
(* Setup.  An interval was lost, the iterator began to count again after a *)
(* restart of MySQL, or the clock went back: reset().  Digests.Reset       *)
(* clears All, and not Curr.                                               *)
(***************************************************************************)
Setup(inSequence) ==
  /\ pc = "idle" /\ pc' = "connect"
  /\ All' = IF iter /\ ~inSequence THEN Empty ELSE All
  /\ iter' = TRUE
  /\ UNCHANGED <<table, Curr, todo, ghosts, faults>>

Connect ==
  /\ pc = "connect" /\ pc' = "query"
  /\ UNCHANGED <<table, All, Curr, iter, todo, ghosts, faults>>

\* "not an error to caller": Run returns, and Cleanup follows.
ConnectFails ==
  /\ pc = "connect" /\ pc' = "cleanup"
  /\ faults < MaxFaults /\ faults' = faults + 1
  /\ partial' = (partial \/ (All = Empty /\ Curr # Empty))
  /\ UNCHANGED <<table, All, Curr, iter, todo, since, reported, torn>>

(***************************************************************************)
(* getSnapshot sends the query: the first time, and after a reset, for     *)
(* every row, otherwise for those seen since the last fetch.  Nobody looks *)
(* at Curr until the snapshot is complete, so it is filled in place.  The  *)
(* accounts of the history begin with each baseline.                       *)
(***************************************************************************)
Query ==
  /\ pc = "query" /\ pc' = "fetch"
  /\ LET present == {r \in Rows : count[r] > 0}
     IN IF All = Empty THEN todo' = present
                       ELSE \E old \in SUBSET (present \ recent) : todo' = recent \cup old
  /\ Curr' = Empty
  /\ IF All = Empty THEN since' = Zero /\ reported' = Zero /\ torn' = FALSE /\ partial' = FALSE
                    ELSE UNCHANGED ghosts
  /\ UNCHANGED <<table, All, iter, faults>>

\* lastFetchTime is set when getSnapshot returns, also with an error.
QueryFails ==
  /\ pc = "query" /\ pc' = "cleanup"
  /\ faults < MaxFaults /\ faults' = faults + 1
  /\ Curr' = Empty /\ recent' = {}
  /\ UNCHANGED <<count, truncates, All, iter, todo, ghosts>>

\* A row arrives with its count of this moment, unless it is gone.
FetchRow(r) ==
  /\ pc = "fetch" /\ r \in todo /\ todo' = todo \ {r}
  /\ Curr' = IF count[r] > 0 THEN [x \in DOMAIN Curr \cup {r} |-> IF x = r THEN count[r] ELSE Curr[x]]
                             ELSE Curr
  /\ since' = IF All = Empty THEN [since EXCEPT ![r] = 0] ELSE since
  /\ UNCHANGED <<table, All, iter, pc, reported, torn, partial, faults>>

FetchEnd ==
  /\ pc = "fetch" /\ todo = {} /\ pc' = "prepare"
  /\ recent' = {}
  /\ UNCHANGED <<count, truncates, All, Curr, iter, todo, ghosts, faults>>

\* An error from doneChan; the rows that came before it stay in Curr.
FetchFails ==
  /\ pc = "fetch" /\ pc' = "cleanup"
  /\ faults < MaxFaults /\ faults' = faults + 1
  /\ recent' = {} /\ todo' = {}
  /\ torn' = TRUE /\ partial' = (partial \/ (All = Empty))
  /\ UNCHANGED <<count, truncates, All, Curr, iter, since, reported>>

(***************************************************************************)
(* The first snapshot has no result.  prepareResult reports, per class,    *)
(* the sum over its rows of what each one grew by; a row that shrank says  *)
(* that the table was truncated: reset(), and no result.                   *)
(***************************************************************************)
Prepare ==
  /\ pc = "prepare" /\ pc' = "cleanup"
  /\ LET shrank == \E r \in DOMAIN Curr : Curr[r] < Prev(r)
     IN IF shrank THEN All' = Empty /\ iter' = FALSE /\ UNCHANGED reported
        ELSE /\ reported' = IF All = Empty THEN reported
                            ELSE [r \in Rows |-> reported[r] + IF r \in DOMAIN Curr THEN Curr[r] - Prev(r) ELSE 0]
             /\ UNCHANGED <<All, iter>>
  /\ UNCHANGED <<table, Curr, todo, since, torn, partial, faults>>

\* Mutant: rows of a class that All has are not replaced.
CleanupKeepsOld ==
  /\ pc = "cleanup" /\ pc' = "idle"
  /\ All' = IF iter THEN [r \in DOMAIN All \cup DOMAIN Curr |-> IF r \in DOMAIN All THEN All[r] ELSE Curr[r]]
                    ELSE All
  /\ UNCHANGED <<table, Curr, iter, todo, ghosts, faults>>

(***************************************************************************)
(* Cleanup, whatever Run returned: MergeCurr.  Without w.iter its first    *)
(* line panics, which runWorker recovers, and nothing is merged.           *)
(***************************************************************************)
Cleanup ==
  /\ pc = "cleanup" /\ pc' = "idle"
  /\ All' = IF iter THEN MergeCurr ELSE All
  /\ UNCHANGED <<table, Curr, iter, todo, ghosts, faults>>
-----------------------------------------------------------------------------
\* The table has a history when the worker is made.
Init ==
  /\ count \in [Rows -> 0..1] /\ recent = {}
  /\ All = Empty /\ Curr = Empty /\ iter = FALSE /\ pc = "idle" /\ todo = {}
  /\ since = Zero /\ reported = Zero /\ torn = FALSE /\ partial = FALSE
  /\ truncates = 0 /\ faults = 0

Next ==
  \/ \E r \in Rows : Execute(r) \/ FetchRow(r)
  \/ Truncate
  \/ \E inSequence \in BOOLEAN : Setup(inSequence)
  \/ Connect \/ ConnectFails \/ Query \/ QueryFails \/ FetchEnd \/ FetchFails
  \/ Prepare \/ Cleanup

Spec == Init /\ [][Next]_vars
-----------------------------------------------------------------------------
\* The type invariant; in particular no difference is ever negative.
TypeOK ==
  /\ count \in [Rows -> 0..MaxCount] /\ recent \subseteq Rows /\ todo \subseteq Rows
  /\ All \in UNION {[R -> 1..MaxCount] : R \in SUBSET Rows}
  /\ Curr \in UNION {[R -> 1..MaxCount] : R \in SUBSET Rows}
  /\ iter \in BOOLEAN /\ torn \in BOOLEAN /\ partial \in BOOLEAN
  /\ pc \in {"idle", "connect", "query", "fetch", "prepare", "cleanup"}
  /\ since \in [Rows -> Nat] /\ reported \in [Rows -> Nat]
  /\ truncates \in 0..MaxTruncates /\ faults \in 0..MaxFaults

(***************************************************************************)
(* Differences add up: between two intervals, what was reported of a row   *)
(* since the baseline, and what it has grown by since All last saw it, are *)
(* together all of its executions since the baseline: none is reported     *)
(* twice and none forgotten, though MySQL counts on during the fetch and   *)
(* the fetch sees only part of the table.  After a read that failed        *)
(* half-way, or a truncate, this holds again from the next baseline on;    *)
(* until then never more executions are reported than there were.          *)
(*                                                                         *)
(* Neither holds when the baseline is itself not a whole snapshot: the     *)
(* first read failed half-way, or MergeCurr brought back the Curr that     *)
(* Reset had left.  Then the whole history of a row can be reported as     *)
(* executed in one interval.  A difference is never negative (TypeOK).     *)
(***************************************************************************)
ExactlyReported ==
  /\ TypeOK
  /\ ~partial => \A r \in Rows :
       /\ reported[r] <= since[r]
       /\ pc = "idle" /\ All # Empty /\ ~torn => reported[r] + (count[r] - Prev(r)) = since[r]
=============================================================================
