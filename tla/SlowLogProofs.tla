--------------------------- MODULE SlowLogProofs ---------------------------
(***************************************************************************)
(* For any number of logs of any size, of ticks and of faults: the slow    *)
(* log is parsed exactly once, though it is rotated, and a rotation leaves *)
(* the log as it found it.                                                 *)
(***************************************************************************)
EXTENDS SlowLog, FiniteSetTheorems, TLAPS

USE DEF vars, log, rest, None, Live, At, Goto

job == worker.job

\* The worker has an interval that is not parsed yet.
Rotating == {"stopLog", "rename", "startLog", "flush"}
Busy == worker.pc \in Rotating \cup {"setup", "open", "parse"}

\* The interval is going to be parsed in the file it was cut from, as far as
\* the worker has come.
Own ==
  /\ worker.pc \in {"setup", "stopLog", "rename"} => job.of = live
  /\ worker.pc \in {"startLog", "flush"} => job.of = worker.old
  /\ worker.pc \in {"open", "parse"} => job.of = Target

\* Where the names and the descriptor point to at each step of a rotation.
Names ==
  /\ live \in {None, Len(size)} /\ fd \in {None, live} /\ live \notin removed
  /\ intervals # <<>> => intervals[1].name = Live /\ intervals[1].of \in 1..Len(size)
  /\ Busy => job.of \in 1..Len(size)
  /\ worker.pc \in Rotating \cup {"setup"} => job.name = Live
  /\ At("rename") => fd = None
  /\ At("startLog") => live = None /\ worker.old = Len(size) /\ worker.old \notin removed
  /\ At("flush") => /\ live = Len(size) /\ worker.old = live - 1 /\ worker.old # None
                    /\ worker.old \notin removed /\ job.of < live
  /\ worker.pc \in {"open", "parse"} /\ job.name # Live => job.name < Len(size)
  /\ At("parse") => Target # None
  /\ At("open") /\ RetainSlowLogs > 0 => job.name \notin removed

\* Without a fault the log is off only during a rotation.
Healthy ==
  faults = 0 => /\ ~At("startLog") => live # None
                /\ worker.pc \notin {"rename", "startLog"} => fd = live

\* The iterator is in a file, and not beyond its end.
Iterator ==
  /\ iter.started => iter.file # None
  /\ iter.file # None => iter.start <= size[iter.file]

\* Nothing is parsed in the live log beyond the iterator,
BehindIterator ==
  \A e \in parsed : e[1] = live => iter.file = live /\ e[2] < iter.start

\* nor beyond the start of the interval that waits, unless its log was renamed,
WaitingIsNew ==
  intervals # <<>> /\ intervals[1].of = live =>
    /\ iter.file = live /\ intervals[1].start <= intervals[1].end /\ intervals[1].end <= iter.start
    /\ \A e \in parsed : e[1] = live => e[2] < intervals[1].start

\* nor beyond the start of the interval that the worker has.
JobIsNew ==
  Busy /\ Own =>
    /\ \A e \in parsed : e[1] = job.of => e[2] < job.start
    /\ job.of = live =>
         /\ iter.file = live /\ job.start <= job.end /\ job.end <= iter.start
         /\ intervals # <<>> /\ intervals[1].of = live => job.end <= intervals[1].start
    /\ At("startLog") => iter.file = job.of /\ job.start <= iter.start

\* What is behind the iterator, or will be when it looks at the live log again.
Due(f, k) ==
  /\ IF live \notin {None, iter.file} THEN f < live ELSE f < iter.file \/ (f = iter.file /\ k < iter.start)
  /\ f > begin[1] \/ (f = begin[1] /\ k >= begin[2])

\* An event is parsed, or is in an interval that is going to be; one that is
\* going to be parsed elsewhere, which the history is going to show, has all.
Covered(f, k) ==
  \/ <<f, k>> \in parsed
  \/ /\ intervals # <<>>
     /\ intervals[1].of # live \/ (f = live /\ intervals[1].start <= k /\ k < intervals[1].end)
  \/ /\ Busy
     /\ ~Own \/ (f = job.of /\ job.start <= k /\ (k < job.end \/ At("flush")))

NothingLeftOut ==
  iter.started /\ ~gap => \A f \in Files : \A k \in 0..(size[f] - 1) : Due(f, k) => Covered(f, k)

Disjoint == BehindIterator /\ WaitingIsNew /\ JobIsNew /\ (At("parse") => Own)

Inv == TypeOK /\ Names /\ Healthy /\ Iterator /\ (~astray => Disjoint /\ NothingLeftOut)
-----------------------------------------------------------------------------
Interval == [name : 0..MaxFiles, start : 0..MaxSize, end : 0..MaxSize, of : 0..MaxFiles]
Pcs      == {"idle", "setup", "stopLog", "rename", "startLog", "flush", "open", "parse", "done"}
Iter     == [started : BOOLEAN, start : 0..MaxSize, file : 0..Len(size)]
Worker   == [pc : Pcs, job : Interval, old : 0..Len(size)]

\* What TypeOK says of the parts that the proofs look at.
Parts ==
  /\ MaxSize \in Nat /\ Len(size) \in Nat \ {0} /\ Files = 1..Len(size)
  /\ \A f \in 1..Len(size) : size[f] \in 0..MaxSize
  /\ live \in 0..Len(size) /\ fd \in 0..Len(size)
  /\ iter.started \in BOOLEAN /\ iter.start \in 0..MaxSize /\ iter.file \in 0..Len(size)
  /\ intervals # <<>> => /\ intervals[1] = Head(intervals) /\ intervals[1] \in Interval
                         /\ intervals[1].start \in Nat /\ intervals[1].end \in Nat
                         /\ intervals[1].of \in Nat
  /\ worker.pc \in Pcs /\ worker.old \in 0..Len(size) /\ job \in Interval
  /\ job.name \in Nat /\ job.start \in Nat /\ job.end \in Nat /\ job.of \in Nat
  /\ \A e \in parsed : e[1] \in 1..Len(size) /\ e[2] \in Nat

\* The parts of a state, and of the next one.
LEMMA TypeParts == (TypeOK => Parts) /\ (TypeOK' => Parts')
<1>1. TypeOK => Parts
  <2> SUFFICES ASSUME TypeOK PROVE Parts
    OBVIOUS
  <2>1. /\ size \in Seq(0..MaxSize) /\ Len(size) \in 1..MaxFiles
        /\ live \in 0..Len(size) /\ fd \in 0..Len(size)
        /\ iter \in Iter /\ worker \in Worker /\ intervals \in Seq(Interval)
        /\ parsed \subseteq Files \X (0..(MaxSize - 1))
    BY Zenon DEF TypeOK, Interval, Worker, Iter, Pcs
  <2>2. Len(size) \in Nat \ {0} /\ Files = 1..Len(size) /\ \A f \in 1..Len(size) : size[f] \in 0..MaxSize
    BY <2>1, SlowLogAssumption, SMTT(30) DEF Files
  <2>3. intervals # <<>> => intervals[1] = Head(intervals) /\ intervals[1] \in Interval
    BY <2>1
  <2>4. worker.pc \in Pcs /\ worker.old \in 0..Len(size) /\ job \in Interval
    BY <2>1 DEF Worker, job
  <2>5. \A i \in Interval : i.name \in Nat /\ i.start \in Nat /\ i.end \in Nat /\ i.of \in Nat
    BY SlowLogAssumption DEF Interval
  <2>6. \A e \in parsed : e[1] \in 1..Len(size) /\ e[2] \in Nat
    BY <2>1, <2>2, SlowLogAssumption, SMTT(30)
  <2>7. iter.started \in BOOLEAN /\ iter.start \in 0..MaxSize /\ iter.file \in 0..Len(size)
    BY <2>1 DEF Iter
  <2>8. MaxSize \in Nat
    BY SlowLogAssumption
  <2> QED
    BY <2>1, <2>2, <2>3, <2>4, <2>5, <2>6, <2>7, <2>8 DEF Parts
<1>2. TypeOK' => Parts'
  BY <1>1, PTL
<1> QED
  BY <1>1, <1>2

\* TypeOK, in terms of the sets above.
Types ==
  /\ size \in Seq(0..MaxSize) /\ Len(size) \in 1..MaxFiles
  /\ live \in 0..Len(size) /\ fd \in 0..Len(size) /\ removed \subseteq Files
  /\ iter \in Iter /\ intervals \in Seq(Interval) /\ Len(intervals) <= 1
  /\ worker \in Worker /\ working = (worker.pc # "idle")
  /\ parsed \subseteq Files \X (0..(MaxSize - 1))
  /\ gap \in BOOLEAN /\ astray \in BOOLEAN
  /\ ticks \in 0..MaxTicks /\ faults \in 0..MaxFaults

\* It says the same, of a state and of the next one.
LEMMA TypesAre == (TypeOK <=> Types) /\ (TypeOK' <=> Types')
<1>1. TypeOK <=> Types
  BY Zenon DEF TypeOK, Types, Interval, Iter, Worker, Pcs
<1>2. TypeOK' <=> Types'
  BY <1>1, PTL
<1> QED
  BY <1>1, <1>2

\* The worker after each of its assignments.
LEMMA Workers ==
  ASSUME TypeOK
  PROVE  /\ \A pc \in Pcs : /\ [worker EXCEPT !.pc = pc] \in Worker
                            /\ [worker EXCEPT !.pc = pc].pc = pc
                            /\ [worker EXCEPT !.pc = pc].job = job
                            /\ [worker EXCEPT !.pc = pc].old = worker.old
         /\ Idle \in Worker
<1>1. worker \in Worker /\ Len(size) \in Nat
  BY TypesAre, TypeParts DEF Types, Parts
<1>2. NoJob \in Interval
  BY SlowLogAssumption DEF NoJob, Interval
<1> QED
  BY <1>1, <1>2 DEF Worker, Idle, Pcs, job

\* What the worker parses: its interval, as far as the file goes.
LEMMA Slices ==
  ASSUME TypeOK, Names, At("parse")
  PROVE  /\ Target \in Files
         /\ Slice \subseteq Files \X (0..(MaxSize - 1))
         /\ \A e \in Slice : e[1] = Target /\ e[2] >= job.start /\ e[2] < job.end
         /\ \A k \in 0..(size[Target] - 1) : k >= job.start /\ k < job.end => <<Target, k>> \in Slice
<1>1. Parts
  BY TypeParts
<1>2. Target \in 1..Len(size)
  BY <1>1 DEF Parts, Names, Target, job
<1>3. size[Target] \in 0..MaxSize /\ job.start \in Nat /\ job.end \in Nat /\ MaxSize \in Nat
  BY <1>1, <1>2 DEF Parts
<1>4. Slice = {<<Target, k>> : k \in job.start..(Lesser(job.end, size[Target]) - 1)}
  BY DEF Slice, job
<1>5. Lesser(job.end, size[Target]) \in Nat /\ Lesser(job.end, size[Target]) <= job.end
      /\ Lesser(job.end, size[Target]) <= size[Target]
      /\ \A k \in Nat : k < job.end /\ k < size[Target] => k < Lesser(job.end, size[Target])
  BY <1>3 DEF Lesser
<1> HIDE DEF Slice
<1>6. Slice \subseteq Files \X (0..(MaxSize - 1))
  <2>1. Target \in Files
    BY <1>1, <1>2 DEF Parts
  <2>2. \A k \in job.start..(Lesser(job.end, size[Target]) - 1) : k \in 0..(MaxSize - 1)
    BY <1>3, <1>5
  <2> SUFFICES ASSUME NEW e \in Slice PROVE e \in Files \X (0..(MaxSize - 1))
    OBVIOUS
  <2>3. PICK k \in job.start..(Lesser(job.end, size[Target]) - 1) : e = <<Target, k>>
    BY <1>4, Zenon
  <2> QED
    BY <2>1, <2>2, <2>3
<1>7. \A e \in Slice : e[1] = Target /\ e[2] >= job.start /\ e[2] < job.end
  BY <1>3, <1>4, <1>5
<1>8. \A k \in 0..(size[Target] - 1) : k >= job.start /\ k < job.end => <<Target, k>> \in Slice
  BY <1>3, <1>4, <1>5
<1> QED
  BY <1>1, <1>2, <1>6, <1>7, <1>8, SMTT(30) DEF Parts

\* Every step keeps the types.
LEMMA TypeNext == TypeOK /\ Names /\ Next => TypeOK'
<1> SUFFICES ASSUME TypeOK, Names, Next PROVE Types'
  BY TypesAre
<1>0. Types /\ Parts
  BY TypesAre, TypeParts
<1>a. worker \in Worker /\ iter \in Iter /\ intervals \in Seq(Interval) /\ Len(intervals) <= 1
  BY <1>0 DEF Types
<1>b. /\ size \in Seq(0..MaxSize) /\ Len(size) \in Nat /\ 0 < Len(size) /\ Len(size) <= MaxFiles
      /\ Files = 1..Len(size) /\ MaxFiles \in Nat /\ MaxSize \in Nat
  BY <1>0, SlowLogAssumption DEF Types, Parts
<1>c. ticks \in 0..MaxTicks /\ faults \in 0..MaxFaults /\ MaxTicks \in Nat /\ MaxFaults \in Nat
  BY <1>0, SlowLogAssumption DEF Types
<1>1. CASE Log
  <2>1. size' \in Seq(0..MaxSize) /\ Len(size') = Len(size) /\ Files' = Files
    BY <1>0, <1>1, <1>b, SMTT(30) DEF Log, Parts, Files
  <2> QED
    BY <1>0, <1>1, <2>1 DEF Log, Types, Iter, Worker
<1>2. CASE Tick
  <2>1. iter' \in Iter'
    BY <1>0, <1>2 DEF Tick, Types, Parts, Iter
  <2>2. intervals' \in Seq(Interval) /\ Len(intervals') <= 1
    <3> DEFINE new == [name |-> Live, start |-> IF iter.file # live THEN 0 ELSE iter.start,
                       end |-> size[live], of |-> live]
    <3>1. new \in Interval
      BY <1>0, <1>2, <1>b, SMTT(30) DEF Tick, Parts, Interval
    <3>2. intervals' = intervals \/ intervals' = <<new>>
      BY <1>2, Zenon DEF Tick
    <3> HIDE DEF new
    <3>3. <<new>> \in Seq(Interval) /\ Len(<<new>>) <= 1
      BY <3>1
    <3> QED
      BY <1>a, <3>2, <3>3, Zenon
  <2>3. gap' \in BOOLEAN
    BY <1>0, <1>2, Zenon DEF Tick, Types
  <2>4. ticks' \in 0..MaxTicks
    BY <1>2, <1>c DEF Tick
  <2> QED
    BY <1>0, <1>2, <2>1, <2>2, <2>3, <2>4 DEF Tick, Types, Files, Worker
<1>3. CASE TickFails
  <2>1. iter' \in Iter'
    BY <1>0, <1>3, Zenon DEF TickFails, Types, Iter
  <2>2. gap' \in BOOLEAN
    BY <1>3, Zenon DEF TickFails
  <2>3. ticks' \in 0..MaxTicks /\ faults' \in 0..MaxFaults
    BY <1>3, <1>c DEF TickFails, Fault
  <2> QED
    BY <1>0, <1>3, <2>1, <2>2, <2>3 DEF TickFails, Types, Files, Worker
<1>4. CASE TakeInterval
  <2>1. gap' \in BOOLEAN
    BY <1>0, <1>4, Zenon DEF TakeInterval, Types
  <2>2. CASE working
    BY <1>0, <1>4, <2>1, <2>2 DEF TakeInterval, Types, Files, Worker, Iter
  <2>3. CASE ~working
    <3>0. worker' = [pc |-> "setup", job |-> Head(intervals), old |-> None] /\ Head(intervals) \in Interval
      BY <1>4, <1>a, <2>3 DEF TakeInterval
    <3>1. worker' \in Worker /\ worker'.pc = "setup" /\ working' = TRUE
      BY <1>4, <1>b, <2>3, <3>0 DEF TakeInterval, Worker, Pcs
    <3>2. intervals' \in Seq(Interval) /\ Len(intervals') <= 1
      BY <1>4 DEF TakeInterval
    <3> QED
      BY <1>0, <1>4, <2>1, <3>1, <3>2, Zenon DEF TakeInterval, Types, Files, Worker, Iter
  <2> QED
    BY <1>0, <2>2, <2>3 DEF Types
<1>5. CASE WorkerDone
  BY <1>0, <1>5, Workers, Zenon DEF WorkerDone, Types, Files, Iter, Worker, Idle
<1>6. CASE Setup \/ StopLog
  <2>1. worker' \in Worker /\ worker'.pc # "idle" /\ worker.pc # "idle"
    BY <1>6, Workers, Zenon DEF Setup, StopLog, Pcs
  <2>2. fd' \in 0..Len(size) /\ size' = size /\ live' = live /\ removed' = removed /\ iter' = iter
        /\ parsed' = parsed
    BY <1>0, <1>6 DEF Setup, StopLog, Parts
  <2> QED
    BY <1>0, <1>6, <2>1, <2>2 DEF Setup, StopLog, Types, Files, Iter, Worker
<1>7. CASE Rename
  <2>1. worker' \in Worker /\ worker'.pc # "idle" /\ worker.pc # "idle"
    BY <1>0, <1>7, <1>a, Zenon DEF Rename, Parts, Worker, Pcs
  <2>2. live' \in 0..Len(size) /\ size' = size /\ iter' = iter
    BY <1>0, <1>7 DEF Rename, Parts
  <2> QED
    BY <1>0, <1>7, <2>1, <2>2 DEF Rename, Types, Files, Iter, Worker
<1>8. CASE StartLog
  <2>1. size' \in Seq(0..MaxSize) /\ Len(size') = Len(size) + 1
    BY <1>8, <1>b DEF StartLog
  <2>2. Files' = 1..(Len(size) + 1) /\ Files \subseteq Files'
    BY <1>0, <2>1 DEF Files, Parts
  <2>3. worker' \in Worker /\ worker'.pc # "idle" /\ worker.pc # "idle"
    BY <1>8, Workers DEF StartLog, Pcs
  <2>4. worker' \in Worker' /\ iter' \in Iter'
    BY <1>8, <1>a, <1>b, <2>1, <2>3 DEF StartLog, Worker, Iter
  <2>5. parsed' \subseteq Files' \X (0..(MaxSize - 1)) /\ removed' \subseteq Files'
    BY <1>0, <1>8, <2>2 DEF StartLog, Types
  <2>6. Len(size') \in 1..MaxFiles /\ live' \in 0..Len(size') /\ fd' \in 0..Len(size')
    BY <1>8, <1>b, <2>1 DEF StartLog
  <2> QED
    BY <1>0, <1>8, <2>1, <2>3, <2>4, <2>5, <2>6 DEF StartLog, Types
<1>9. CASE Flush
  <2>1. size[worker.old] \in 0..MaxSize /\ worker.old \in 0..MaxFiles
    BY <1>0, <1>9, <1>b, SMTT(30) DEF Flush, Parts, Names
  <2>2. worker' \in Worker /\ worker'.pc # "idle" /\ worker.pc # "idle"
    BY <1>9, <1>a, <2>1, Zenon DEF Flush, Worker, Interval, Pcs
  <2>3. removed' \subseteq Files
    BY <1>0, <1>9 DEF Flush, Types, Surplus, Rotated
  <2> QED
    BY <1>0, <1>9, <2>2, <2>3, Zenon DEF Flush, Types, Parts, Files, Iter, Worker
<1>10. CASE RotateFails
  <2>1. worker' \in Worker /\ worker'.pc # "idle" /\ worker.pc # "idle"
    BY <1>10, Workers DEF RotateFails, Pcs
  <2>2. faults' \in 0..MaxFaults
    BY <1>10, <1>c DEF RotateFails, Fault
  <2> QED
    BY <1>0, <1>10, <2>1, <2>2, Zenon DEF RotateFails, Types, Parts, Files, Iter, Worker
<1>11. CASE Open
  <2>1. worker' \in Worker /\ worker'.pc # "idle" /\ worker.pc # "idle"
    BY <1>11, Workers DEF Open, Pcs
  <2>2. astray' \in BOOLEAN
    BY <1>11, Zenon DEF Open
  <2> QED
    BY <1>0, <1>11, <2>1, <2>2, Zenon DEF Open, Types, Parts, Files, Iter, Worker
<1>12. CASE OpenFails
  <2>1. worker' \in Worker /\ worker'.pc # "idle" /\ worker.pc # "idle"
    BY <1>12, Workers DEF OpenFails, Pcs
  <2>2. gap' \in BOOLEAN
    BY <1>12, Zenon DEF OpenFails
  <2>3. faults' \in 0..MaxFaults
    BY <1>12, <1>c DEF OpenFails, Fault
  <2> QED
    BY <1>0, <1>12, <2>1, <2>2, <2>3, Zenon DEF OpenFails, Types, Parts, Files, Iter, Worker
<1>13. CASE Parse \/ ParseCut
  <2>1. worker' \in Worker /\ worker'.pc # "idle" /\ worker.pc # "idle"
    BY <1>13, Workers, Zenon DEF Parse, ParseCut, Pcs
  <2>2. parsed' \subseteq Files \X (0..(MaxSize - 1))
    BY <1>0, <1>13, Slices DEF Parse, ParseCut, Types
  <2>3. gap' \in BOOLEAN
    BY <1>0, <1>13, Zenon DEF Parse, ParseCut, Types
  <2>4. faults' \in 0..MaxFaults
    BY <1>13, <1>c DEF Parse, ParseCut, Fault
  <2> QED
    BY <1>0, <1>13, <2>1, <2>2, <2>3, <2>4, Zenon DEF Parse, ParseCut, Types, Parts, Files, Iter, Worker
<1> QED
  BY <1>1, <1>2, <1>3, <1>4, <1>5, <1>6, <1>7, <1>8, <1>9, <1>10, <1>11, <1>12, <1>13 DEF Next

\* Every step of a rotation leaves the names as the next one expects them.
LEMMA NamesNext == TypeOK /\ Names /\ Next => Names'
<1> SUFFICES ASSUME TypeOK, Names, Next PROVE Names'
  OBVIOUS
<1>0. Parts
  BY TypeParts, Zenon
<1>1. CASE Log
  <2>1. Len(size') = Len(size)
    BY <1>1, TypesAre DEF Log, Types
  <2> QED
    BY <1>1, <2>1, Zenon DEF Log, Names, Busy, Rotating, Target, job
<1>2. CASE Tick
  <2> DEFINE new == [name |-> Live, start |-> IF iter.file # live THEN 0 ELSE iter.start,
                     end |-> size[live], of |-> live]
  <2>0. live \in 1..Len(size)
    BY <1>0, <1>2 DEF Tick, Parts
  <2>1. intervals' = intervals \/ intervals' = <<new>>
    BY <1>2, Zenon DEF Tick
  <2>2. <<new>>[1].name = Live /\ <<new>>[1].of = live
    OBVIOUS
  <2> HIDE DEF new
  <2>3. intervals' # <<>> => intervals'[1].name = Live /\ intervals'[1].of \in 1..Len(size)
    BY <1>0, <1>2, <2>0, <2>1, <2>2, Zenon DEF Tick, Names
  <2> QED
    BY <1>2, <2>3 DEF Tick, Names, Busy, Rotating, Target, job
<1>3. CASE TickFails
  BY <1>3 DEF TickFails, Names, Busy, Rotating, Target, job
<1>4. CASE TakeInterval
  <2>1. CASE working
    BY <1>4, <2>1 DEF TakeInterval, Names, Busy, Rotating, Target, job
  <2>2. CASE ~working
    BY <1>0, <1>4, <2>2, SMTT(30) DEF TakeInterval, Names, Parts, Busy, Rotating, Target, job
  <2> QED
    BY <2>1, <2>2
<1>5. CASE WorkerDone
  BY <1>5 DEF WorkerDone, Idle, Names, Busy, Rotating, Target, job
<1>6. CASE Setup
  <2>1. job' = job /\ worker'.old = worker.old /\ worker'.pc \in {"stopLog", "open"}
    BY <1>6, Workers DEF Setup, Pcs, job
  <2>2. UNCHANGED <<size, live, fd, removed, intervals>> /\ worker.pc = "setup"
    BY <1>6 DEF Setup
  <2>3. 0 \notin removed
    BY <1>0, TypesAre DEF Types, Parts
  <2> QED
    BY <2>1, <2>2, <2>3 DEF Names, Busy, Rotating
<1>7. CASE StopLog
  <2>1. job' = job /\ worker'.old = worker.old /\ worker'.pc = "rename"
    BY <1>7, Workers DEF StopLog, Pcs, job
  <2> QED
    BY <1>7, <2>1 DEF StopLog, Names, Busy, Rotating
<1>8. CASE Rename
  <2>1. job' = job /\ worker'.old = live /\ worker'.pc = "startLog"
    <3>1. worker \in Worker
      BY TypesAre DEF Types
    <3> QED
      BY <1>8, <3>1 DEF Rename, Worker, job
  <2>2. 0 \notin removed
    BY <1>0, TypesAre DEF Types, Parts
  <2> QED
    BY <1>0, <1>8, <2>1, <2>2 DEF Rename, Names, Parts, Busy, Rotating
<1>9. CASE StartLog
  <2>1. job' = job /\ worker'.old = worker.old /\ worker'.pc = "flush"
    BY <1>9, Workers DEF StartLog, Pcs, job
  <2>2. Len(size') = Len(size) + 1
    BY <1>9, TypesAre DEF StartLog, Types
  <2>3. live' = Len(size) + 1 /\ fd' = live' /\ live' \notin removed'
    BY <1>0, <1>9, TypesAre DEF StartLog, Types, Parts
  <2> QED
    BY <1>0, <1>9, <2>1, <2>2, <2>3 DEF StartLog, Names, Parts, Busy, Rotating
<1>10. CASE Flush
  <2>1. /\ worker'.job.name = worker.old /\ worker'.job.of = job.of
        /\ worker'.old = worker.old /\ worker'.pc = "open"
    <3>1. worker \in Worker
      BY TypesAre DEF Types
    <3> QED
      BY <1>10, <3>1, Zenon DEF Flush, Worker, Interval, job
  <2>2. live' \notin removed'
    BY <1>10 DEF Flush, Names, Surplus, Rotated
  <2>3. ASSUME RetainSlowLogs > 0 PROVE worker.old \notin removed'
    <3>1. \A g \in Rotated : ~(g > worker.old)
      BY <1>0, <1>10 DEF Flush, Names, Parts, Rotated
    <3>2. {g \in Rotated : g > worker.old} = {}
      BY <3>1
    <3>3. ~(Cardinality({g \in Rotated : g > worker.old}) >= RetainSlowLogs)
      BY <2>3, <3>2, FS_EmptySet, SlowLogAssumption
    <3>4. worker.old \notin Surplus
      BY <3>3, Zenon DEF Surplus
    <3> QED
      BY <1>10, <3>4 DEF Flush, Names
  <2> QED
    BY <1>0, <1>10, <2>1, <2>2, <2>3 DEF Flush, Names, Parts, Busy, Rotating, job
<1>11. CASE RotateFails
  <2>1. job' = job /\ worker'.old = worker.old /\ worker'.pc = "open"
    BY <1>11, Workers DEF RotateFails, Pcs, job
  <2>2. 0 \notin removed
    BY <1>0, TypesAre DEF Types, Parts
  <2> QED
    BY <1>11, <2>1, <2>2 DEF RotateFails, Names, Busy, Rotating
<1>12. CASE Open
  <2>1. job' = job /\ worker'.old = worker.old /\ worker'.pc = "parse"
    BY <1>12, Workers DEF Open, Pcs, job
  <2> QED
    BY <1>12, <2>1 DEF Open, Names, Busy, Rotating, Target, job
<1>13. CASE OpenFails \/ Parse \/ ParseCut
  <2>1. job' = job /\ worker'.old = worker.old /\ worker'.pc = "done"
    BY <1>13, Workers, Zenon DEF OpenFails, Parse, ParseCut, Pcs, job
  <2>2. UNCHANGED <<size, live, fd, removed, intervals>>
    BY <1>13 DEF OpenFails, Parse, ParseCut
  <2> QED
    BY <2>1, <2>2 DEF Names, Busy, Rotating
<1> QED
  BY <1>1, <1>2, <1>3, <1>4, <1>5, <1>6, <1>7, <1>8, <1>9, <1>10, <1>11, <1>12, <1>13 DEF Next

\* Every step keeps the log on, but for a rotation and a fault.
LEMMA HealthyNext == TypeOK /\ Names /\ Healthy /\ Next => Healthy'
<1> SUFFICES ASSUME TypeOK, Names, Healthy, Next PROVE Healthy'
  OBVIOUS
<1>0. faults \in Nat
  BY TypesAre, SlowLogAssumption DEF Types
<1>1. CASE Log \/ Tick \/ TickFails
  BY <1>0, <1>1 DEF Log, Tick, TickFails, Fault, Healthy
<1>2. CASE TakeInterval \/ WorkerDone
  BY <1>2, TypesAre, Zenon DEF TakeInterval, WorkerDone, Idle, Types, Healthy
<1>3. CASE Setup
  <2>1. worker'.pc \in {"stopLog", "open"}
    BY <1>3, Workers DEF Setup, Pcs
  <2> QED
    BY <1>3, <2>1 DEF Setup, Healthy
<1>4. CASE StopLog
  <2>1. worker'.pc = "rename"
    BY <1>4, Workers DEF StopLog, Pcs
  <2> QED
    BY <1>4, <2>1 DEF StopLog, Healthy
<1>5. CASE Rename
  <2>1. worker'.pc = "startLog"
    BY <1>5, TypesAre DEF Rename, Types, Worker
  <2> QED
    BY <1>5, <2>1 DEF Rename, Healthy
<1>6. CASE StartLog
  <2>1. worker'.pc = "flush" /\ Len(size) \in Nat
    BY <1>6, TypeParts, Workers DEF StartLog, Pcs, Parts
  <2> QED
    BY <1>6, <2>1 DEF StartLog, Healthy
<1>7. CASE Flush
  <2>1. worker'.pc = "open"
    BY <1>7, TypesAre DEF Flush, Types, Worker
  <2> QED
    BY <1>7, <2>1 DEF Flush, Healthy
<1>8. CASE RotateFails
  BY <1>0, <1>8 DEF RotateFails, Fault, Healthy
<1>9. CASE Open \/ OpenFails \/ Parse \/ ParseCut
  BY <1>0, <1>9, Workers DEF Open, OpenFails, Parse, ParseCut, Fault, Pcs, Healthy
<1> QED
  BY <1>1, <1>2, <1>3, <1>4, <1>5, <1>6, <1>7, <1>8, <1>9 DEF Next

\* Every step keeps the iterator in its file, which only grows.
LEMMA IteratorNext == TypeOK /\ Iterator /\ Next => Iterator'
<1> SUFFICES ASSUME TypeOK, Iterator, Next PROVE Iterator'
  OBVIOUS
<1>0. Parts /\ size \in Seq(0..MaxSize)
  BY TypeParts, TypesAre DEF Types
<1>1. CASE Log
  <2>1. \A f \in 1..Len(size) : size[f] <= size'[f] /\ size[f] \in Nat /\ size'[f] \in Nat
    <3>1. fd \in 1..Len(size) /\ \A f \in 1..Len(size) : size[f] \in Nat
      BY <1>0, <1>1, SMTT(30) DEF Log, Parts
    <3>2. \A f \in 1..Len(size) : size'[f] = IF f = fd THEN size[f] + 1 ELSE size[f]
      BY <1>0, <1>1, <3>1 DEF Log
    <3> QED
      BY <3>1, <3>2
  <2>2. iter' = iter /\ iter.start \in Nat /\ (iter.file # None => iter.file \in 1..Len(size))
    BY <1>0, <1>1, SMTT(30) DEF Log, Parts
  <2> QED
    BY <2>1, <2>2 DEF Iterator
<1>2. CASE Tick
  BY <1>0, <1>2 DEF Tick, Parts, Iterator
<1>3. CASE TickFails
  <2>1. iter'.started = FALSE /\ iter'.start = iter.start /\ iter'.file = iter.file
    BY <1>3, TypesAre DEF TickFails, Types, Iter
  <2> QED
    BY <1>3, <2>1 DEF TickFails, Iterator
<1>4. CASE StartLog
  BY <1>0, <1>4 DEF StartLog, Parts, Iterator
<1>5. CASE UNCHANGED <<size, iter>>
  BY <1>5 DEF Iterator
<1> QED
  BY <1>1, <1>2, <1>3, <1>4, <1>5 DEF Next, TakeInterval, WorkerDone, Setup, StopLog, Rename, Flush,
     RotateFails, Open, OpenFails, Parse, ParseCut

\* Every step keeps what is to be parsed apart from what was parsed.
LEMMA DisjointNext == TypeOK /\ Names /\ Iterator /\ Disjoint /\ Next /\ ~astray' => Disjoint'
<1> SUFFICES ASSUME TypeOK, Names, Iterator, Disjoint, Next, ~astray' PROVE Disjoint'
  OBVIOUS
<1> USE DEF Busy, Rotating, Own, Target
<1>0. Parts
  BY TypeParts
<1>1. CASE Log
  BY <1>1 DEF Log, Disjoint, BehindIterator, WaitingIsNew, JobIsNew, job
<1>2. CASE Tick
  <2> DEFINE new == [name |-> Live, start |-> IF iter.file # live THEN 0 ELSE iter.start,
                     end |-> size[live], of |-> live]
  <2>1. live \in 1..Len(size) /\ iter'.file = live /\ iter'.start = size[live]
    BY <1>0, <1>2 DEF Tick, Parts
  <2>2. iter.file = live => iter.start <= size[live]
    BY <2>1 DEF Iterator
  <2>3. UNCHANGED <<live, worker, parsed, size>>
    BY <1>2 DEF Tick
  <2>4. job' = job /\ (Busy' <=> Busy) /\ (Own' <=> Own)
    BY <2>3 DEF job
  <2> HIDE DEF Busy, Own, Target
  <2>5. ~At("startLog") /\ ~At("startLog")'
    BY <2>1, <2>3 DEF Names
  <2>6. BehindIterator'
    BY <1>0, <2>1, <2>2, <2>3, SMTT(30) DEF Disjoint, BehindIterator, Parts
  <2>7. CASE intervals' = intervals
    <3>1. WaitingIsNew'
      BY <1>0, <2>1, <2>2, <2>3, <2>7, SMTT(30) DEF Disjoint, WaitingIsNew, Parts
    <3>2. JobIsNew'
      BY <1>0, <2>4, <2>1, <2>2, <2>3, <2>7, <2>5, SMTT(30) DEF Disjoint, JobIsNew, Parts
    <3> QED
      BY <2>4, <2>3, <2>6, <3>1, <3>2 DEF Disjoint
  <2>8. CASE intervals' = <<new>>
    <3>1. /\ intervals'[1].start = (IF iter.file # live THEN 0 ELSE iter.start)
          /\ intervals'[1].end = size[live] /\ intervals'[1].of = live
      BY <2>8
    <3>2. WaitingIsNew'
      BY <1>0, <2>1, <2>2, <2>3, <3>1, SMTT(30) DEF Disjoint, BehindIterator, WaitingIsNew, Parts
    <3>3. JobIsNew'
      BY <1>0, <2>4, <2>1, <2>2, <2>3, <2>5, <3>1, SMTT(30) DEF Disjoint, JobIsNew, Parts
    <3> QED
      BY <2>4, <2>3, <2>6, <3>2, <3>3 DEF Disjoint
  <2> QED
    BY <1>2, <2>7, <2>8, Zenon DEF Tick
<1>3. CASE TickFails
  <2>1. iter'.start = iter.start /\ iter'.file = iter.file
    BY <1>3, TypesAre DEF TickFails, Types, Iter
  <2> QED
    BY <1>3, <2>1 DEF TickFails, Disjoint, BehindIterator, WaitingIsNew, JobIsNew, job
<1>4. CASE TakeInterval
  <2>1. intervals' = <<>> /\ UNCHANGED <<live, iter, parsed>>
    BY <1>4 DEF TakeInterval
  <2>2. BehindIterator' /\ WaitingIsNew'
    BY <2>1 DEF Disjoint, BehindIterator, WaitingIsNew
  <2>3. CASE UNCHANGED worker
    BY <2>1, <2>2, <2>3 DEF Disjoint, JobIsNew, job
  <2>4. CASE worker' = [pc |-> "setup", job |-> Head(intervals), old |-> None]
    <3>1. worker'.pc = "setup" /\ job' = intervals[1]
      BY <1>0, <1>4, <2>4 DEF TakeInterval, Parts, job
    <3>2. JobIsNew'
      BY <1>4, <2>1, <3>1 DEF TakeInterval, Disjoint, WaitingIsNew, JobIsNew
    <3> QED
      BY <2>2, <3>1, <3>2 DEF Disjoint
  <2> QED
    BY <1>4, <2>3, <2>4 DEF TakeInterval
<1>5. CASE WorkerDone
  BY <1>5 DEF WorkerDone, Idle, Disjoint, BehindIterator, WaitingIsNew, JobIsNew
<1>6. CASE Setup
  <2>1. job' = job /\ worker'.old = worker.old /\ worker'.pc \in {"stopLog", "open"}
    BY <1>6, Workers DEF Setup, Pcs, job
  <2> QED
    BY <1>6, <2>1 DEF Setup, Names, Disjoint, BehindIterator, WaitingIsNew, JobIsNew, job
<1>7. CASE StopLog
  <2>1. job' = job /\ worker'.old = worker.old /\ worker'.pc = "rename"
    BY <1>7, Workers DEF StopLog, Pcs, job
  <2> QED
    BY <1>7, <2>1 DEF StopLog, Disjoint, BehindIterator, WaitingIsNew, JobIsNew
<1>8. CASE Rename
  <2>1. job' = job /\ worker'.old = live /\ worker'.pc = "startLog"
    <3>1. worker \in Worker
      BY TypesAre DEF Types
    <3> QED
      BY <1>8, <3>1 DEF Rename, Worker, job
  <2>2. live' = 0 /\ live # 0 /\ UNCHANGED <<iter, intervals, parsed>> /\ worker.pc = "rename"
    BY <1>8 DEF Rename
  <2>3. BehindIterator' /\ WaitingIsNew'
    BY <1>0, <2>2 DEF Parts, Names, BehindIterator, WaitingIsNew
  <2>4. JobIsNew'
    BY <1>0, <2>1, <2>2 DEF Parts, Names, Disjoint, JobIsNew
  <2> QED
    BY <2>1, <2>3, <2>4 DEF Disjoint
<1>9. CASE StartLog
  <2>1. job' = job /\ worker'.old = worker.old /\ worker'.pc = "flush"
    BY <1>9, Workers DEF StartLog, Pcs, job
  <2>2. /\ live' = Len(size) + 1 /\ UNCHANGED <<iter, intervals, parsed>>
        /\ worker.pc = "startLog" /\ live = None
    BY <1>9 DEF StartLog, Names
  <2>3. BehindIterator' /\ WaitingIsNew'
    BY <1>0, <2>2, SMTT(30) DEF Parts, Names, BehindIterator, WaitingIsNew
  <2>4. JobIsNew'
    BY <1>0, <2>1, <2>2, SMTT(30) DEF Parts, Names, Disjoint, JobIsNew
  <2> QED
    BY <2>1, <2>3, <2>4 DEF Disjoint
<1>10. CASE Flush
  <2>1. /\ job'.name = worker.old /\ job'.of = job.of /\ job'.start = job.start
        /\ worker'.pc = "open"
    <3>1. worker \in Worker
      BY TypesAre DEF Types
    <3> QED
      BY <1>10, <3>1, Zenon DEF Flush, Worker, Interval, job
  <2>2. UNCHANGED <<live, iter, intervals, parsed>> /\ worker.pc = "flush"
    BY <1>10 DEF Flush
  <2>3. JobIsNew'
    BY <1>0, <2>1, <2>2, SMTT(30) DEF Parts, Names, Disjoint, JobIsNew, job
  <2> QED
    BY <2>1, <2>2, <2>3 DEF Disjoint, BehindIterator, WaitingIsNew
<1>11. CASE RotateFails
  <2>1. job' = job /\ worker'.old = worker.old /\ worker'.pc = "open"
    BY <1>11, Workers DEF RotateFails, Pcs, job
  <2>2. UNCHANGED <<live, iter, intervals, parsed>> /\ worker.pc \in {"stopLog", "rename", "startLog", "flush"}
    BY <1>11, Zenon DEF RotateFails
  <2>3. JobIsNew'
    BY <1>0, <2>1, <2>2 DEF Parts, Names, Disjoint, JobIsNew, job
  <2> QED
    BY <2>1, <2>2, <2>3 DEF Disjoint, BehindIterator, WaitingIsNew
<1>12. CASE Open
  <2>1. job' = job /\ worker'.old = worker.old /\ worker'.pc = "parse"
    BY <1>12, Workers DEF Open, Pcs, job
  <2>2. UNCHANGED <<live, iter, intervals, parsed>> /\ worker.pc = "open" /\ job.of = Target
    BY <1>12, Zenon DEF Open, job
  <2>3. JobIsNew'
    BY <2>1, <2>2 DEF Disjoint, JobIsNew, job
  <2> QED
    BY <2>1, <2>2, <2>3 DEF Disjoint, BehindIterator, WaitingIsNew, job
<1>13. CASE OpenFails \/ Parse \/ ParseCut
  <2>1. worker'.pc = "done" /\ UNCHANGED <<live, iter, intervals, astray>>
    BY <1>13, Workers, Zenon DEF OpenFails, Parse, ParseCut, Pcs
  <2>2. JobIsNew'
    BY <2>1 DEF JobIsNew
  <2>3. CASE parsed' = parsed
    BY <2>1, <2>2, <2>3 DEF Disjoint, BehindIterator, WaitingIsNew
  <2>4. CASE parsed' # parsed
    <3>1. At("parse") /\ parsed' \subseteq parsed \cup Slice
      BY <1>13, <2>4 DEF OpenFails, Parse, ParseCut
    <3>2. \A e \in parsed' \ parsed : e[1] = job.of /\ e[2] < job.end /\ e[2] \in Nat
      <4>1. job.of = Target
        BY <3>1 DEF Disjoint
      <4> QED
        BY <3>1, <4>1, Slices, SlowLogAssumption
    <3>3. JobIsNew /\ Busy /\ Own
      BY <3>1, SMTT(30) DEF Disjoint
    <3>4. BehindIterator'
      BY <1>0, <2>1, <3>2, <3>3, SMTT(30) DEF Disjoint, BehindIterator, JobIsNew, Parts
    <3>5. WaitingIsNew'
      BY <1>0, <2>1, <3>2, <3>3, SMTT(30) DEF Disjoint, WaitingIsNew, JobIsNew, Parts
    <3> QED
      BY <2>1, <2>2, <3>4, <3>5 DEF Disjoint
  <2> QED
    BY <2>3, <2>4
<1> QED
  BY <1>1, <1>2, <1>3, <1>4, <1>5, <1>6, <1>7, <1>8, <1>9, <1>10, <1>11, <1>12, <1>13 DEF Next

\* Every step keeps what is behind the iterator parsed or in an interval.
LEMMA NothingLeftOutNext ==
  TypeOK /\ Names /\ Iterator /\ Disjoint /\ NothingLeftOut /\ Next /\ ~astray' => NothingLeftOut'
<1> SUFFICES ASSUME TypeOK, Names, Iterator, Disjoint, NothingLeftOut, Next, ~astray',
                    iter'.started, ~gap', NEW f \in Files', NEW k \in 0..(size'[f] - 1), Due(f, k)'
             PROVE  Covered(f, k)'
  BY DEF NothingLeftOut
<1>0. Parts /\ size \in Seq(0..MaxSize)
  BY TypeParts, TypesAre DEF Types
<1>a. ~gap
  BY Zenon DEF Next, Log, Tick, TickFails, TakeInterval, WorkerDone, Setup, StopLog, Rename, StartLog, Flush,
     RotateFails, Open, OpenFails, Parse, ParseCut
<1>b. Len(size) \in Nat /\ (intervals # <<>> => intervals[1].of \in 1..Len(size))
  BY <1>0, Zenon DEF Parts, Names
<1>c. ASSUME iter.started, f \in Files, k \in 0..(size[f] - 1), Due(f, k) PROVE Covered(f, k)
  BY <1>a, <1>c DEF NothingLeftOut
<1>1. CASE Log
  <2>1. UNCHANGED <<live, iter, intervals, worker, parsed, begin>> /\ fd \in 1..Len(size) /\ fd = live
    BY <1>0, <1>1 DEF Log, Parts, Names
  <2>2. Due(f, k)
    BY <2>1 DEF Due
  <2>3. Covered(f, k) => Covered(f, k)'
    BY <2>1 DEF Covered, Busy, Own, Target, job
  <2>4. f \in 1..Len(size) /\ size'[f] = IF f = fd THEN size[f] + 1 ELSE size[f]
    BY <1>0, <1>1, <2>1 DEF Log, Files
  <2>5. ~(f = fd /\ k = size[f])
    BY <1>0, <2>1, <2>2, <2>4, SMTT(30) DEF Due, Iterator, Parts
  <2>6. k \in 0..(size[f] - 1)
    BY <1>0, <2>4, <2>5 DEF Parts
  <2> QED
    BY <1>0, <1>c, <2>1, <2>2, <2>3, <2>4, <2>6, SMTT(30) DEF Parts
<1>2. CASE Tick
  <2> DEFINE new == [name |-> Live, start |-> IF iter.file # live THEN 0 ELSE iter.start,
                     end |-> size[live], of |-> live]
  <2>1. /\ live \in 1..Len(size) /\ iter'.file = live /\ iter'.start = size[live]
        /\ UNCHANGED <<live, size, worker, parsed>>
    BY <1>0, <1>2 DEF Tick, Parts
  <2>2. f < live \/ (f = live /\ k < size[live])
    BY <2>1 DEF Due
  <2>3. iter.started
    <3> SUFFICES ASSUME ~iter.started PROVE FALSE
      OBVIOUS
    <3>1. begin'[1] = live /\ begin'[2] = size[live]
      BY <1>2 DEF Tick
    <3>2. f > live \/ (f = live /\ k >= size[live])
      BY <3>1, Zenon DEF Due
    <3>3. f \in Nat /\ k \in Nat /\ live \in Nat /\ size[live] \in Nat
      BY <1>0, <2>1 DEF Parts, Files
    <3> QED
      BY <2>2, <3>2, <3>3
  <2>4. intervals = <<>> /\ intervals' = <<new>> /\ begin' = begin
    BY <1>2, <2>3, Zenon DEF Tick
  <2>5. CASE Due(f, k)
    BY <1>c, <2>1, <2>3, <2>4, <2>5 DEF Covered, Busy, Own, Target, job, Files
  <2>6. CASE ~Due(f, k)
    <3>1. f = live /\ k < size[live] /\ (iter.file = live => ~(k < iter.start))
      BY <1>0, <2>1, <2>2, <2>4, <2>6 DEF Due
    <3>2. /\ intervals' # <<>> /\ intervals'[1].of = live /\ intervals'[1].end = size[live]
          /\ intervals'[1].start = IF iter.file # live THEN 0 ELSE iter.start
      BY <2>4
    <3>3. k \in Nat /\ iter.start \in Nat
      BY <1>0, <2>1, SMTT(30) DEF Parts, Files
    <3> QED
      BY <2>1, <3>1, <3>2, <3>3 DEF Covered
  <2> QED
    BY <2>5, <2>6, Zenon
<1>3. CASE TickFails \/ OpenFails \/ ParseCut
  BY <1>3, Zenon DEF TickFails, OpenFails, ParseCut
<1>d. ASSUME UNCHANGED <<size, live, iter, begin>> PROVE Covered(f, k)
  BY <1>c, <1>d DEF Due, Files
<1>4. CASE TakeInterval
  <2>1. Covered(f, k)
    BY <1>4, <1>d DEF TakeInterval
  <2>2. /\ worker.pc = "idle" /\ UNCHANGED <<live, parsed>>
        /\ worker' = [pc |-> "setup", job |-> Head(intervals), old |-> None]
    BY <1>4, TypesAre, Zenon DEF TakeInterval, Types
  <2>3. worker'.pc = "setup" /\ job' = intervals[1]
    BY <1>0, <1>4, <2>2 DEF TakeInterval, Parts, job
  <2> QED
    BY <2>1, <2>2, <2>3 DEF Covered, Busy, Rotating, Own
<1>5. CASE WorkerDone
  <2>1. Covered(f, k) /\ worker.pc = "done" /\ UNCHANGED <<live, intervals, parsed>>
    BY <1>5, <1>d, SMTT(30) DEF WorkerDone
  <2> QED
    BY <2>1 DEF Covered, Busy, Rotating
<1>6. CASE Setup
  <2>1. job' = job /\ worker'.old = worker.old /\ worker'.pc \in {"stopLog", "open"}
    BY <1>6, Workers DEF Setup, Pcs, job
  <2>2. Covered(f, k) /\ worker.pc = "setup" /\ UNCHANGED <<live, intervals, parsed>>
    BY <1>6, <1>d, Zenon DEF Setup
  <2> QED
    BY <2>1, <2>2 DEF Names, Covered, Busy, Rotating, Own, Target, job
<1>7. CASE StopLog
  <2>1. job' = job /\ worker'.old = worker.old /\ worker'.pc = "rename"
    BY <1>7, Workers DEF StopLog, Pcs, job
  <2>2. Covered(f, k) /\ worker.pc = "stopLog" /\ UNCHANGED <<live, intervals, parsed>>
    BY <1>7, <1>d DEF StopLog
  <2> QED
    BY <2>1, <2>2 DEF Covered, Busy, Rotating, Own
<1>8. CASE Rename
  <2>1. job' = job /\ worker'.old = live /\ worker'.pc = "startLog"
    <3>1. worker \in Worker
      BY TypesAre DEF Types
    <3> QED
      BY <1>8, <3>1 DEF Rename, Worker, job
  <2>2. /\ live' = None /\ live = Len(size) /\ worker.pc = "rename"
        /\ UNCHANGED <<size, iter, intervals, parsed, begin>>
    BY <1>8, Zenon DEF Rename, Names
  <2>3. Due(f, k)
    BY <1>0, <2>2, SMTT(30) DEF Due, Parts, Files
  <2>4. Covered(f, k)
    BY <1>c, <2>2, <2>3 DEF Files
  <2>5. intervals # <<>> => intervals[1].of # None
    BY <1>b
  <2> QED
    BY <2>1, <2>2, <2>4, <2>5 DEF Covered, Busy, Rotating, Own
<1>9. CASE StartLog
  <2>1. job' = job /\ worker'.old = worker.old /\ worker'.pc = "flush"
    BY <1>9, Workers DEF StartLog, Pcs, job
  <2>2. /\ live' = Len(size) + 1 /\ worker.pc = "startLog" /\ live = None /\ worker.old = Len(size)
        /\ UNCHANGED <<iter, intervals, parsed, begin>>
    BY <1>9 DEF StartLog, Names
  <2>3. f \in 1..Len(size) /\ k \in 0..(size[f] - 1)
    <3>1. live' # None /\ live' # iter'.file
      BY <1>0, <2>2, SMTT(30) DEF Parts
    <3>2. Len(size') = Len(size) + 1 /\ \A g \in 1..Len(size) : size'[g] = size[g]
      BY <1>0, <1>9 DEF StartLog
    <3>3. f \in 1..Len(size)
      BY <1>0, <1>9, <2>2, <3>1, <3>2 DEF Due, Files, StartLog, Parts
    <3> QED
      BY <3>2, <3>3
  <2>4. CASE ~Own
    BY <2>1, <2>2, <2>4 DEF Covered, Busy, Rotating, Own
  <2>5. CASE Own /\ Due(f, k)
    <3>1. Covered(f, k)
      BY <1>0, <1>c, <2>2, <2>3, <2>5 DEF Parts
    <3>2. intervals # <<>> => intervals[1].of # live'
      BY <1>b, <2>2
    <3> QED
      BY <2>1, <2>2, <3>1, <3>2 DEF Covered, Busy, Rotating, Own
  <2>6. CASE Own /\ ~Due(f, k)
    <3>1. iter.file = job.of /\ job.start <= iter.start /\ job.of = Len(size)
      BY <2>2, <2>6 DEF Disjoint, JobIsNew, Busy, Rotating, Own
    <3>2. f = job.of /\ k >= iter.start
      <4>1. f > begin[1] \/ (f = begin[1] /\ k >= begin[2])
        BY <2>2 DEF Due
      <4>2. ~(f < iter.file \/ (f = iter.file /\ k < iter.start))
        BY <2>2, <2>6, <4>1 DEF Due
      <4> QED
        BY <1>0, <2>3, <3>1, <4>2 DEF Parts
    <3>3. job.start <= k
      BY <1>0, <2>3, <3>1, <3>2 DEF Parts
    <3> QED
      BY <2>1, <3>2, <3>3 DEF Covered, Busy, Rotating
  <2> QED
    BY <2>4, <2>5, <2>6
<1>10. CASE Flush
  <2>1. /\ job'.name = worker.old /\ job'.of = job.of /\ job'.start = job.start
        /\ job'.end = size[worker.old] /\ worker'.pc = "open"
    <3>1. worker \in Worker
      BY TypesAre DEF Types
    <3> QED
      BY <1>10, <3>1, Zenon DEF Flush, Worker, Interval, job
  <2>2. /\ Covered(f, k) /\ worker.pc = "flush" /\ worker.old # None
        /\ UNCHANGED <<size, live, intervals, parsed>>
    BY <1>10, <1>d, SMTT(30) DEF Flush, Names
  <2>3. Own' <=> Own
    BY <2>1, <2>2, SMTT(30) DEF Own, Target, job
  <2>4. Own /\ f = job.of => k < job'.end
    BY <1>0, <2>1, <2>2, SMTT(30) DEF Own, Parts, Files
  <2> QED
    BY <2>1, <2>2, <2>3, <2>4 DEF Covered, Busy, Rotating
<1>11. CASE RotateFails
  <2>1. job' = job /\ worker'.old = worker.old /\ worker'.pc = "open"
    BY <1>11, Workers DEF RotateFails, Pcs, job
  <2>2. Covered(f, k) /\ worker.pc \in Rotating /\ UNCHANGED <<live, intervals, parsed>>
    BY <1>11, <1>d, Zenon DEF RotateFails, Rotating
  <2>3. Own' => Own /\ ~At("flush")
    <3>1. job.name = Live /\ (At("startLog") => live = None) /\ (At("flush") => job.of < live /\ live \in Nat)
      BY <1>0, <2>2, Zenon DEF Names, Parts, Rotating
    <3>2. job.of # None /\ job.of \in Nat
      BY <1>0, <2>2, SMTT(30) DEF Names, Parts, Busy
    <3> QED
      BY <2>1, <2>2, <3>1, <3>2 DEF Own, Target, Rotating, job
  <2> QED
    BY <2>1, <2>2, <2>3 DEF Covered, Busy, Rotating
<1>12. CASE Open
  <2>1. job' = job /\ worker'.old = worker.old /\ worker'.pc = "parse"
    BY <1>12, Workers DEF Open, Pcs, job
  <2>2. Covered(f, k) /\ worker.pc = "open" /\ UNCHANGED <<live, intervals, parsed>>
    BY <1>12, <1>d DEF Open
  <2> QED
    BY <2>1, <2>2, Zenon DEF Covered, Busy, Rotating, Own, Target, job
<1>13. CASE Parse
  <2>1. worker'.pc = "done" /\ At("parse") /\ parsed' = parsed \cup Slice
        /\ UNCHANGED <<size, live, intervals>>
    BY <1>13, Workers DEF Parse, Pcs
  <2>2. Covered(f, k)
    BY <1>13, <1>d, SMTT(30) DEF Parse
  <2>3. job.of = Target /\ Own
    BY <2>1, SMTT(30) DEF Disjoint, Own
  <2>4. f = job.of /\ job.start <= k /\ k < job.end => <<f, k>> \in Slice
    <3>1. \A n \in 0..(size[Target] - 1) : n >= job.start /\ n < job.end => <<Target, n>> \in Slice
      BY <2>1, Slices
    <3> QED
      BY <1>0, <2>1, <2>3, <3>1, SMTT(30) DEF Parts, Files
  <2> QED
    BY <2>1, <2>2, <2>3, <2>4 DEF Covered
<1> QED
  BY <1>1, <1>2, <1>3, <1>4, <1>5, <1>6, <1>7, <1>8, <1>9, <1>10, <1>11, <1>12, <1>13 DEF Next

\* A slow log that is on, and an iterator that has not started, satisfy Inv.
LEMMA InvInit == Init => Inv
<1> SUFFICES ASSUME Init PROVE Inv
  OBVIOUS
<1>1. PICK n \in 0..1 : size = <<n>>
  BY DEF Init
<1>2. size \in Seq(0..MaxSize) /\ Len(size) = 1 /\ Files = {1} /\ size[1] = n
  BY <1>1, SlowLogAssumption DEF Files
<1>3. /\ working = FALSE /\ gap = FALSE /\ astray = FALSE /\ gap \in BOOLEAN /\ astray \in BOOLEAN
      /\ worker.pc = "idle" /\ iter.started = FALSE
  BY Zenon DEF Init, Idle
<1>4. worker \in Worker /\ iter \in Iter
  <2>1. NoJob \in Interval
    BY SlowLogAssumption DEF NoJob, Interval
  <2> QED
    BY <1>2, <2>1, SlowLogAssumption DEF Init, Idle, Worker, Pcs, Iter
<1>5. TypeOK
  <2>1. Types
    <3>1. working = (worker.pc # "idle")
      BY <1>3, Zenon
    <3>2. /\ live = 1 /\ fd = 1 /\ removed = {} /\ intervals = <<>> /\ parsed = {} /\ ticks = 0 /\ faults = 0
      BY Zenon DEF Init
    <3>3. intervals \in Seq(Interval) /\ Len(intervals) <= 1
      BY <3>2
    <3> QED
      BY <1>2, <1>3, <1>4, <3>1, <3>2, <3>3, SlowLogAssumption DEF Types
  <2> QED
    BY <2>1, TypesAre
<1>6. Names /\ Healthy /\ Iterator
  BY <1>2, <1>3 DEF Init, Names, Healthy, Iterator, Busy, Rotating
<1>7. Disjoint /\ NothingLeftOut
  BY <1>2, <1>3 DEF Init, Disjoint, BehindIterator, WaitingIsNew, JobIsNew, NothingLeftOut, Busy, Rotating
<1> QED
  BY <1>5, <1>6, <1>7 DEF Inv

\* Every step of MySQL, the iterator, run() and the worker keeps Inv.
LEMMA InvNext == Inv /\ [Next]_vars => Inv'
<1> SUFFICES ASSUME Inv, [Next]_vars PROVE Inv'
  OBVIOUS
<1>1. CASE Next
  <2>1. ~astray' => ~astray
    BY <1>1, Zenon DEF Next, Log, Tick, TickFails, TakeInterval, WorkerDone, Setup, StopLog, Rename, StartLog,
       Flush, RotateFails, Open, OpenFails, Parse, ParseCut
  <2> QED
    BY <1>1, <2>1, TypeNext, NamesNext, HealthyNext, IteratorNext, DisjointNext, NothingLeftOutNext DEF Inv
<1>2. CASE UNCHANGED vars
  <2>1. TypeOK' <=> TypeOK
    BY <1>2, Zenon DEF TypeOK, Files
  <2>2. (Names' <=> Names) /\ (Healthy' <=> Healthy) /\ (Iterator' <=> Iterator)
    BY <1>2, Zenon DEF Names, Healthy, Iterator, Busy, Target, job
  <2>3. Disjoint' <=> Disjoint
    BY <1>2, Zenon DEF Disjoint, BehindIterator, WaitingIsNew, JobIsNew, Busy, Own, Target, job
  <2>4. NothingLeftOut' <=> NothingLeftOut
    <3>1. \A f, k : Due(f, k)' <=> Due(f, k)
      BY <1>2, Zenon DEF Due
    <3>2. \A f, k : Covered(f, k)' <=> Covered(f, k)
      <4>1. (Busy' <=> Busy) /\ (Own' <=> Own) /\ job' = job
        BY <1>2, Zenon DEF Busy, Own, Target, job
      <4> QED
        BY <1>2, <4>1, Zenon DEF Covered
    <3> QED
      BY <1>2, <3>1, <3>2, Zenon DEF NothingLeftOut, Files
  <2> QED
    BY <1>2, <2>1, <2>2, <2>3, <2>4 DEF Inv
<1> QED
  BY <1>1, <1>2

\* Every reachable state satisfies Inv.
LEMMA InvAlways == Spec => []Inv
  BY InvInit, InvNext, PTL DEF Spec

(***************************************************************************)
(* Every event of the slow log is parsed exactly once: an interval that    *)
(* Run is about to parse has no event that was parsed before, though       *)
(* rotateSlowLog has stretched it, and between two intervals nothing that  *)
(* the iterator has put behind it is left out, but for the named           *)
(* exceptions.                                                             *)
(***************************************************************************)
THEOREM EveryEventOnce == Spec => []ParsedExactlyOnce
<1>1. Inv => ParsedExactlyOnce
  <2> SUFFICES ASSUME Inv PROVE ParsedExactlyOnce
    OBVIOUS
  <2>1. ASSUME At("parse"), ~astray PROVE Slice \cap parsed = {}
    <3>1. \A e \in Slice : e[1] = job.of /\ e[2] >= job.start /\ e[2] \in Nat
      BY <2>1, Slices, SlowLogAssumption DEF Inv, Disjoint, Own
    <3>2. \A e \in parsed : e[1] = job.of => e[2] < job.start
      BY <2>1 DEF Inv, Disjoint, JobIsNew, Busy
    <3>3. job.start \in Nat
      BY TypeParts DEF Inv, Parts
    <3> QED
      BY <3>1, <3>2, <3>3
  <2>2. ASSUME iter.started, intervals = <<>>, At("idle"), ~gap, ~astray,
               NEW f \in Files, NEW k \in 0..(size[f] - 1), Owed(<<f, k>>)
        PROVE  <<f, k>> \in parsed
    <3>1. Due(f, k)
      <4>1. live \in {None, Len(size)} /\ iter.file \in 0..Len(size) /\ Len(size) \in Nat /\ f \in 1..Len(size)
        BY <2>2, TypeParts DEF Inv, Names, Parts
      <4>2. live \notin {None, iter.file} => iter.file < live
        BY <4>1
      <4>3. f < iter.file \/ (f = iter.file /\ k < iter.start)
        BY <2>2 DEF Owed
      <4>4. f > begin[1] \/ (f = begin[1] /\ k >= begin[2])
        BY <2>2 DEF Owed
      <4>5. iter.file < live => f < live
        BY <4>1, <4>3
      <4> QED
        BY <4>2, <4>3, <4>4, <4>5, Zenon DEF Due
    <3>2. Covered(f, k)
      BY <2>2, <3>1 DEF Inv, NothingLeftOut
    <3> QED
      BY <2>2, <3>2 DEF Covered, Busy, Rotating
  <2> QED
    BY <2>1, <2>2 DEF Inv, ParsedExactlyOnce
<1> QED
  BY <1>1, InvAlways, PTL

(***************************************************************************)
(* A rotation without a fault leaves the log on, under the name that the   *)
(* iterator looks up, and the purge spares the log it has just renamed.     *)
(***************************************************************************)
THEOREM RotationKeepsLogs == Spec => []LogsSurviveRotation
<1>1. Inv => LogsSurviveRotation
  BY DEF Inv, Names, Healthy, LogsSurviveRotation, job
<1> QED
  BY <1>1, InvAlways, PTL
=============================================================================
