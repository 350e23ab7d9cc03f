------------------------------ MODULE SlowLog ------------------------------
(***************************************************************************)
(* How the slow log is cut into intervals and parsed: the iterator         *)
(* (worker/slowlog/iter.go), the analyzer's run() as far as it hands       *)
(* intervals to the worker, and the worker's Setup, with the rotation of   *)
(* the log, and Run (worker/slowlog/worker.go).                            *)
(*                                                                         *)
(* Files are numbered in the order MySQL creates them.  An offset is a     *)
(* number of events, so that an event is a file and an offset.  A file is  *)
(* opened by its name: Live is the name in slow_query_log_file, a rotated  *)
(* file has a name of its own.                                             *)
(***************************************************************************)
EXTENDS Integers, Sequences, FiniteSets

CONSTANTS MaxFiles,        \* bound: slow logs created
          MaxSize,         \* bound: events in a file
          MaxTicks,        \* bound: ticks of the clock
          MaxSlowLogSize,  \* size at which the log is rotated
          RetainSlowLogs,  \* rotated logs to keep
          MaxFaults        \* bound: errors

ASSUME SlowLogAssumption ==
  /\ {MaxFiles, MaxSize, MaxSlowLogSize} \subseteq Nat \ {0}
  /\ {MaxTicks, MaxFaults, RetainSlowLogs} \subseteq Nat

VARIABLES
  size,      \* events in each file, in the order of creation
  live,      \* the file that has the name Live
  fd,        \* the file MySQL writes to
  removed,   \* rotated files that were removed
  iter,      \* the iterator's cur and prevFileInfo
  intervals, \* intervalChan
  working,   \* run()'s workerRunning
  worker,    \* where the worker is, its interval, and the log it has renamed
  parsed,    \* history: the events in results
  begin,     \* history: the first event that is owed
  gap,       \* history: an interval was lost, skipped or cut short
  astray,    \* history: an interval was parsed in another file than its own
  ticks, faults

vars == <<size, live, fd, removed, iter, intervals, working, worker, parsed, begin, gap, astray,
          ticks, faults>>
log  == <<size, live, fd, removed>>
rest == <<iter, intervals, working, parsed, begin, gap, astray, ticks>>

Files  == DOMAIN size
None   == 0        \* no file: the log is off, or nothing has the name Live
Live   == 0        \* as the name in an interval
NoJob  == [name |-> Live, start |-> 0, end |-> 0, of |-> None]
Idle   == [pc |-> "idle", job |-> NoJob, old |-> None]
At(pc) == worker.pc = pc
Goto(pc) == worker' = [worker EXCEPT !.pc = pc]
\* Names that glob finds after the rotation, and those beyond RetainSlowLogs.
Rotated == (Files \ removed) \ {live}
Surplus == {f \in Rotated : Cardinality({g \in Rotated : g > f}) >= RetainSlowLogs}
Lesser(a, b) == IF a < b THEN a ELSE b
Fault  == faults < MaxFaults /\ faults' = faults + 1
-----------------------------------------------------------------------------
\* MySQL logs a slow query.
Log ==
  /\ fd # None /\ size[fd] < MaxSize
  /\ size' = [size EXCEPT ![fd] = @ + 1]
  /\ UNCHANGED <<live, fd, removed, iter, intervals, working, worker, parsed, begin, gap, astray, ticks, faults>>

(***************************************************************************)
(* A tick.  The first one, and the first one after an error, only notes    *)
(* where the next interval starts; any other one ends an interval, which   *)
(* is lost when nobody takes it within a second.  In a new file an         *)
(* interval starts from the beginning.                                     *)
(***************************************************************************)
Tick ==
  /\ ticks < MaxTicks /\ ticks' = ticks + 1 /\ live # None
  /\ LET changed  == iter.file # live
         interval == [name |-> Live, start |-> IF changed THEN 0 ELSE iter.start, end |-> size[live], of |-> live]
     IN IF ~iter.started THEN begin' = <<live, size[live]>> /\ UNCHANGED <<intervals, gap>>
        ELSE /\ UNCHANGED begin
             /\ IF intervals = <<>> THEN intervals' = <<interval>> /\ UNCHANGED gap
                                    ELSE gap' = TRUE /\ UNCHANGED intervals
  /\ iter' = [started |-> TRUE, start |-> size[live], file |-> live]
  /\ UNCHANGED <<log, working, worker, parsed, astray, faults>>

\* The name is not known, or no file has it: start anew at the next tick.
TickFails ==
  /\ ticks < MaxTicks /\ ticks' = ticks + 1
  /\ IF live = None THEN UNCHANGED faults ELSE Fault
  /\ iter' = [iter EXCEPT !.started = FALSE] /\ gap' = TRUE
  /\ UNCHANGED <<log, intervals, working, worker, parsed, begin, astray>>
-----------------------------------------------------------------------------
\* run(): an interval that comes while the worker is running is skipped.
TakeInterval ==
  /\ intervals # <<>> /\ intervals' = <<>>
  /\ IF working THEN gap' = TRUE /\ UNCHANGED <<working, worker>>
     ELSE working' = TRUE /\ worker' = [pc |-> "setup", job |-> Head(intervals), old |-> None] /\ UNCHANGED gap
  /\ UNCHANGED <<log, iter, parsed, begin, astray, ticks, faults>>

WorkerDone ==
  /\ At("done") /\ working' = FALSE /\ worker' = Idle
  /\ UNCHANGED <<log, iter, intervals, parsed, begin, gap, astray, ticks, faults>>
-----------------------------------------------------------------------------
Setup ==
  /\ At("setup") /\ Goto(IF worker.job.end >= MaxSlowLogSize THEN "stopLog" ELSE "open")
  /\ UNCHANGED <<log, iter, intervals, working, parsed, begin, gap, astray, ticks, faults>>

(***************************************************************************)
(* rotateSlowLog: stop the slow log, rename it, start it again, flush.  An *)
(* error ends the rotation where it is and is only logged: the worker goes *)
(* on with the interval as it came.                                        *)
(***************************************************************************)
StopLog ==
  /\ At("stopLog") /\ Goto("rename") /\ fd' = None
  /\ UNCHANGED <<size, live, removed, rest, faults>>

Rename ==
  /\ At("rename") /\ live # None
  /\ worker' = [worker EXCEPT !.pc = "startLog", !.old = live] /\ live' = None
  /\ UNCHANGED <<size, fd, removed, rest, faults>>

\* Mutant: the log is not started again.
StartLogForgotten ==
  /\ At("startLog") /\ Goto("flush")
  /\ UNCHANGED <<log, rest, faults>>

StartLog ==
  /\ At("startLog") /\ Goto("flush") /\ Len(size) < MaxFiles
  /\ size' = Append(size, 0) /\ live' = Len(size) + 1 /\ fd' = Len(size) + 1
  /\ UNCHANGED <<removed, rest, faults>>

\* The step fails; what was done before it stays done.
RotateFails ==
  /\ worker.pc \in {"stopLog", "rename", "startLog", "flush"} /\ Goto("open")
  /\ IF At("rename") /\ live = None THEN UNCHANGED faults ELSE Fault
  /\ UNCHANGED <<log, rest>>

\* Mutant: the interval ends where the tick saw the end of the log.
FlushKeepsEnd ==
  /\ At("flush")
  /\ worker' = [worker EXCEPT !.pc = "open", !.job.name = worker.old]
  /\ removed' = removed \cup Surplus
  /\ UNCHANGED <<size, live, fd, rest, faults>>

(***************************************************************************)
(* The last step: the interval becomes the rest of the old log, and old    *)
(* logs are removed but for the newest RetainSlowLogs, the one just        *)
(* renamed among them.                                                     *)
(***************************************************************************)
Flush ==
  /\ At("flush")
  /\ worker' = [worker EXCEPT !.pc = "open", !.job.name = worker.old, !.job.end = size[worker.old]]
  /\ removed' = removed \cup Surplus
  /\ UNCHANGED <<size, live, fd, rest, faults>>
-----------------------------------------------------------------------------
\* The file that is opened, by its name.
Target == IF worker.job.name = Live THEN live ELSE worker.job.name
Slice  == {<<Target, k>> : k \in worker.job.start..(Lesser(worker.job.end, size[Target]) - 1)}

Open ==
  /\ At("open") /\ Target # None /\ Target \notin removed /\ Goto("parse")
  /\ astray' = (astray \/ Target # worker.job.of)
  /\ UNCHANGED <<log, iter, intervals, working, parsed, begin, gap, ticks, faults>>

OpenFails ==
  /\ At("open") /\ Goto("done") /\ gap' = TRUE
  /\ IF Target = None \/ Target \in removed THEN UNCHANGED faults ELSE Fault
  /\ UNCHANGED <<log, iter, intervals, working, parsed, begin, astray, ticks>>

\* The event loop, to the end offset or the end of the file.
Parse ==
  /\ At("parse") /\ Goto("done") /\ parsed' = parsed \cup Slice
  /\ UNCHANGED <<log, iter, intervals, working, begin, gap, astray, ticks, faults>>

\* It may end early: timeout, mixed rate limits, a parser that crashed.
ParseCut ==
  /\ At("parse") /\ Goto("done") /\ Fault /\ gap' = TRUE
  /\ \E n \in 0..MaxSize : parsed' = parsed \cup {e \in Slice : e[2] < n}
  /\ UNCHANGED <<log, iter, intervals, working, begin, astray, ticks>>
-----------------------------------------------------------------------------
\* MySQL is configured: the slow log is on, perhaps with events from before.
Init ==
  /\ \E n \in 0..1 : size = <<n>>
  /\ live = 1 /\ fd = 1 /\ removed = {}
  /\ iter = [started |-> FALSE, start |-> 0, file |-> None]
  /\ intervals = <<>> /\ working = FALSE /\ worker = Idle
  /\ parsed = {} /\ begin = <<1, 0>> /\ gap = FALSE /\ astray = FALSE
  /\ ticks = 0 /\ faults = 0

Next ==
  \/ Log \/ Tick \/ TickFails \/ TakeInterval \/ WorkerDone
  \/ Setup \/ StopLog \/ Rename \/ StartLog \/ Flush \/ RotateFails
  \/ Open \/ OpenFails \/ Parse \/ ParseCut

Spec == Init /\ [][Next]_vars
-----------------------------------------------------------------------------
\* The type invariant.
TypeOK ==
  LET interval == [name : 0..MaxFiles, start : 0..MaxSize, end : 0..MaxSize, of : 0..MaxFiles]
  IN /\ size \in Seq(0..MaxSize) /\ Len(size) \in 1..MaxFiles
     /\ live \in 0..Len(size) /\ fd \in 0..Len(size) /\ removed \subseteq Files
     /\ iter \in [started : BOOLEAN, start : 0..MaxSize, file : 0..Len(size)]
     /\ intervals \in Seq(interval) /\ Len(intervals) <= 1
     /\ worker \in [pc : {"idle", "setup", "stopLog", "rename", "startLog", "flush", "open", "parse", "done"},
                     job : interval, old : 0..Len(size)]
     /\ working = (worker.pc # "idle")
     /\ parsed \subseteq Files \X (0..MaxSize - 1)
     /\ gap \in BOOLEAN /\ astray \in BOOLEAN
     /\ ticks \in 0..MaxTicks /\ faults \in 0..MaxFaults

\* Before the iterator's current interval, and not before the first one.
Owed(e) == /\ e[1] < iter.file \/ (e[1] = iter.file /\ e[2] < iter.start)
           /\ e[1] > begin[1] \/ (e[1] = begin[1] /\ e[2] >= begin[2])

(***************************************************************************)
(* Every event is parsed exactly once.  The intervals are disjoint: what   *)
(* the worker is about to parse was not parsed before, though a rotation   *)
(* stretches an interval behind the back of the iterator, which has        *)
(* already begun the next one.  And they leave nothing out: between two    *)
(* intervals every event that the iterator has put behind it was parsed,   *)
(* also those that MySQL wrote to the old log between the tick and the     *)
(* rotation.  The exceptions: an interval was ever parsed in another file  *)
(* than the one it was cut from, was lost, skipped or cut short.  Also,    *)
(* there is one worker and one pending interval (TypeOK).                  *)
(***************************************************************************)
ParsedExactlyOnce ==
  /\ TypeOK
  /\ At("parse") /\ ~astray => Slice \cap parsed = {}
  /\ iter.started /\ intervals = <<>> /\ At("idle") /\ ~gap /\ ~astray =>
       \A f \in Files : \A k \in 0..(size[f] - 1) : Owed(<<f, k>>) => <<f, k>> \in parsed

(***************************************************************************)
(* A rotation leaves the log as it found it: when the worker is idle and   *)
(* no step of a rotation has failed, MySQL writes to the file that has the *)
(* name the iterator looks up; and the log that the interval now names is  *)
(* not among those removed, if at least one is retained.                   *)
(***************************************************************************)
LogsSurviveRotation ==
  /\ At("idle") /\ faults = 0 => live # None /\ fd = live
  /\ At("open") /\ RetainSlowLogs > 0 => worker.job.name \notin removed
=============================================================================
