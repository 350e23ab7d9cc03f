--------------------------- MODULE MongoProfiler ---------------------------
(***************************************************************************)
(* The MongoDB analyzer of qan/analyzer/mongo and the goroutines of one    *)
(* lifetime of it:                                                         *)
(*   - the caller of Start and Stop (the QAN manager) and one of Status,   *)
(*   - start() of profiler.go, which refreshes the monitors, one for each  *)
(*     database of the server,                                             *)
(*   - for each monitor a collector, which tails system.profile into       *)
(*     docsChan, and a parser, which passes each document to the           *)
(*     aggregator,                                                         *)
(*   - the aggregator's own goroutine, which flushes a quiet interval,     *)
(*   - the sender, which writes the reports to the spool.                  *)
(* A document is the number of its place in `written`; of what it holds    *)
(* only its database and its time stamp matter.  The agent and the server  *)
(* share one clock.                                                        *)
(***************************************************************************)
EXTENDS Integers, Sequences, Functions

CONSTANTS Dbs,               \* the names databases may have
          Interval,          \* d, the length of an interval, in units of the clock
          DocsBuffer,        \* capacity of docsChan
          ReportChanBuffer,  \* capacity of reportChan
          Bounds,            \* where runs may begin, and what is to happen in them
          MaxTime, MaxDocs,  \* the last instant and the most documents of a run
          NoDb               \* no database

\* A run begins at .now with the databases .dbs; .time instants pass, .docs
\* documents are collected and .events times something fails (the server, the
\* spool, a fingerprint) or a database is created or dropped.
\* Neither channel fills up with so few documents: a report carries at least
\* one, and a collector that finds docsChan full only reads its next document
\* later, as it may anyway.
ASSUME MongoAssumption ==
  /\ Interval \in Nat \ {0} /\ NoDb \notin Dbs
  /\ Bounds \subseteq [now : Nat, dbs : SUBSET Dbs, time : Nat, docs : Nat, events : Nat]
  /\ MaxTime \in Nat /\ MaxDocs \in Nat
  /\ MaxDocs <= DocsBuffer /\ MaxDocs <= ReportChanBuffer
  /\ \A b \in Bounds : b.now + b.time <= MaxTime /\ b.docs <= MaxDocs

VARIABLES now,      \* the clock
          dbs,      \* the databases of the server
          written,  \* the documents of system.profile, of all databases
          svc,      \* where Start and Stop of the analyzer are
          mons,     \* start() of profiler.go and the monitors map
          mon,      \* the monitor of each database
          agg,      \* the aggregator
          reports,  \* reportChan
          spooled,  \* the reports in the spool
          status,   \* the caller of Status
          crash,    \* svc when a concurrent map access killed the process
          left,     \* what is left of the bounds
          hist      \* what became of the documents
vars == <<now, dbs, written, svc, mons, mon, agg, reports, spooled,
          status, crash, left, hist>>

None == MaxTime + Interval + 1   \* the deadline of a timer that is not set

NoMonitor == [collector |-> "off", ready |-> FALSE, docsChan |-> <<>>,
              parser |-> "off"]

TypeOK ==
  /\ now \in 0..MaxTime /\ dbs \subseteq Dbs
  /\ written \in Seq([db : Dbs, ts : 0..MaxTime]) /\ Len(written) <= MaxDocs
  /\ svc \in {"new", "starting", "running", "stopping", "stoppingAggregator",
              "stoppingSender", "stopped"}
  /\ mons \in [pc : {"off", "list", "each", "starting", "stoppingCollector",
                     "stoppingParser", "idle", "all"},
               list : SUBSET Dbs, map : SUBSET Dbs, db : Dbs \union {NoDb},
               ready : BOOLEAN, stopAll : BOOLEAN]
  /\ mon \in [Dbs -> [collector : {"off", "connect", "tail", "wait"}, ready : BOOLEAN,
                      docsChan : Seq(1..MaxDocs), parser : {"off", "run"}]]
  /\ agg \in [pc : {"off", "select", "flush"}, timeStart : 0..MaxTime,
              stats : SUBSET (1..MaxDocs), timer : 0..None, tick : BOOLEAN]
  /\ reports \in Seq([start : 0..MaxTime, docs : SUBSET (1..MaxDocs)])
  /\ status \in {"none", "reading"}
  /\ crash \in {"none", "starting", "running", "stopping"}

Event == left.events > 0 /\ left' = [left EXCEPT !.events = @ - 1]

\* ts.Truncate(d) of newInterval.
Truncate(t) == (t \div Interval) * Interval
-----------------------------------------------------------------------------
(***************************************************************************)
(* The aggregator.                                                         *)
(***************************************************************************)
\* Mutant: newInterval does not reset mongostats.
FlushedAggKeepsStats(ts) == [agg EXCEPT !.timeStart = Truncate(ts)]
\* interval() and newInterval(): what flush leaves of the aggregator and of
\* reportChan.
FlushedAgg(ts) == [agg EXCEPT !.timeStart = Truncate(ts), !.stats = {}]
FlushedReports ==
  IF agg.stats = {} THEN reports
  ELSE Append(reports, [start |-> agg.timeStart, docs |-> agg.stats])

\* Mutant: the end of the interval belongs to it.
InLaterIntervalByOne(ts) == ts > agg.timeStart + Interval
\* !ts.Before(timeEnd)
InLaterInterval(ts) == ts >= agg.timeStart + Interval

\* Mutant: the timer is not reset.
NotReset(a) == a
\* t.Reset(d)
Reset(a) == [a EXCEPT !.timer = now + Interval]

\* Aggregator.Add, with a document that mongostats can fingerprint or not.  One
\* that arrives while a tick of the timer waits for the lock is remembered in
\* hist: that tick is stale.
Add(doc, good) ==
  LET ts    == written[doc].ts
      isNew == InLaterInterval(ts)
      base  == IF isNew THEN FlushedAgg(ts) ELSE agg
  IN  IF ts < agg.timeStart
      THEN /\ hist' = [hist EXCEPT !.skipped = @ \union {doc}]
           /\ UNCHANGED <<agg, reports>>
      ELSE /\ reports' = IF isNew THEN FlushedReports ELSE reports
           /\ agg' = [Reset(base) EXCEPT !.stats = @ \union {x \in {doc} : good}]
           /\ hist' = [hist EXCEPT
                !.bad = @ \union {x \in {doc} : ~good},
                !.raced = IF agg.tick \/ agg.pc = "flush"
                          THEN @ \union {base.timeStart} ELSE @]

\* The runtime's timer: Reset in Add leaves a tick that is already in t.C.
TimerFires ==
  /\ agg.timer <= now
  /\ agg' = [agg EXCEPT !.timer = None, !.tick = TRUE]
  /\ UNCHANGED <<now, dbs, written, svc, mons, mon, reports, spooled,
                 status, crash, left, hist>>

\* start() of aggregator.go: the select takes a tick.
AggTick ==
  /\ agg.pc = "select" /\ agg.tick
  /\ agg' = [agg EXCEPT !.pc = "flush", !.tick = FALSE]
  /\ UNCHANGED <<now, dbs, written, svc, mons, mon, reports, spooled,
                 status, crash, left, hist>>
\* It ends, and Aggregator.Stop returns.
AggDone ==
  /\ agg.pc = "select" /\ svc = "stoppingAggregator"
  /\ agg' = [agg EXCEPT !.pc = "off"] /\ svc' = "stoppingSender"
  /\ UNCHANGED <<now, dbs, written, mons, mon, reports, spooled,
                 status, crash, left, hist>>

\* Flush(), which needs the lock that Stop holds while it waits.
AggFlush ==
  /\ agg.pc = "flush" /\ svc # "stoppingAggregator"
  /\ agg' = [FlushedAgg(now) EXCEPT !.pc = "select"]
  /\ reports' = FlushedReports
  /\ hist' = [hist EXCEPT !.flushed = now]
  /\ UNCHANGED <<now, dbs, written, svc, mons, mon, spooled, status,
                 crash, left>>
-----------------------------------------------------------------------------
(***************************************************************************)
(* The collector and the parser of a monitor.                              *)
(***************************************************************************)
MonVars == <<now, dbs, svc, mons, spooled, status, crash>>

\* monitor.Stop has closed the doneChan of d's collector or parser.
Stopping(pc, d) == mons.pc = pc /\ mons.db = d

\* connectAndCollect: a new iterator, which sees what is written from now on.
Connect(d) ==
  /\ mon[d].collector = "connect"
  /\ mon' = [mon EXCEPT ![d].collector = "tail", ![d].ready = TRUE]
  /\ UNCHANGED <<MonVars, written, agg, reports, left, hist>>

\* A query is profiled, and the iterator returns the document, which is pushed.
\* A document that is read later than it is written is one that stays in
\* docsChan for longer; one that is never read is left out.
Collect(d) ==
  /\ d \in dbs /\ left.docs > 0 /\ left' = [left EXCEPT !.docs = @ - 1]
  /\ mon[d].collector = "tail" /\ ~Stopping("stoppingCollector", d)
  /\ written' = Append(written, [db |-> d, ts |-> now])
  /\ mon' = [mon EXCEPT ![d].docsChan = Append(@, Len(written'))]
  /\ UNCHANGED <<MonVars, agg, reports, hist>>

\* The iterator fails, or is no longer valid because the database is gone.
CollectBreaks(d) ==
  /\ mon[d].collector = "tail"
  /\ IF d \in dbs THEN Event ELSE UNCHANGED left
  /\ mon' = [mon EXCEPT ![d].collector = "wait"]
  /\ UNCHANGED <<MonVars, written, agg, reports, hist>>

\* One second later.
Reconnect(d) ==
  /\ mon[d].collector = "wait" /\ ~Stopping("stoppingCollector", d)
  /\ mon' = [mon EXCEPT ![d].collector = "connect", ![d].ready = TRUE]
  /\ UNCHANGED <<MonVars, written, agg, reports, left, hist>>

\* The parser takes a document and calls Add.
Parse(d) ==
  /\ mon[d].parser = "run" /\ ~Stopping("stoppingParser", d)
  /\ mon[d].docsChan # <<>> /\ svc # "stoppingAggregator"
  /\ \/ Add(Head(mon[d].docsChan), TRUE) /\ UNCHANGED left
     \/ Add(Head(mon[d].docsChan), FALSE) /\ Event
  /\ mon' = [mon EXCEPT ![d].docsChan = Tail(@)]
  /\ UNCHANGED <<MonVars, written>>
-----------------------------------------------------------------------------
(***************************************************************************)
(* monitors.go.  MonitorAll changes the map without the lock that GetAll   *)
(* takes to read it: a Status that is reading it then may kill the process.*)
(***************************************************************************)
MonsVars == <<now, dbs, written, svc, agg, reports, spooled, status>>

UnlockedMapWrite ==
  \/ UNCHANGED crash
  \/ status = "reading" /\ crash' = svc
LockedMapWrite == status # "reading" /\ UNCHANGED crash

\* Mutant: start() ends when MonitorAll returns an error.
MonitorAllOnce ==
  /\ mons.pc = "list"
  /\ \/ /\ mons' = [mons EXCEPT !.pc = "each", !.list = dbs]
        /\ UNCHANGED left
     \/ /\ Event
        /\ mons' = [mons EXCEPT !.pc = "off", !.ready = TRUE]
  /\ UNCHANGED <<MonsVars, mon, crash, hist>>
\* MonitorAll lists the databases, or returns the error; start() goes on to
\* its select either way.
MonitorAll ==
  /\ mons.pc = "list"
  /\ \/ /\ mons' = [mons EXCEPT !.pc = "each", !.list = dbs]
        /\ UNCHANGED left
     \/ /\ Event
        /\ mons' = [mons EXCEPT !.pc = "idle", !.ready = TRUE]
  /\ UNCHANGED <<MonsVars, mon, crash, hist>>

\* Collector.Start, which waits for the collector to be ready, and Parser.Start.
StartCollector(m) == [m EXCEPT !.collector = "connect"]
StartParser(m) == [m EXCEPT !.parser = "run"]

\* monitor.Start: the collector first, and then, once it is ready, the parser.
StartMonitor(d) ==
  /\ mons.pc = "each" /\ d \in mons.list \ mons.map
  /\ mon' = [mon EXCEPT ![d] = StartCollector(NoMonitor)]
  /\ mons' = [mons EXCEPT !.pc = "starting", !.db = d]
  /\ UNCHANGED <<MonsVars, crash, left, hist>>
MonitorStarted ==
  /\ mons.pc = "starting" /\ mon[mons.db].ready
  /\ mon' = [mon EXCEPT ![mons.db] = StartParser(@)]
  /\ mons' = [mons EXCEPT !.pc = "each", !.db = NoDb,
                          !.map = @ \union {mons.db}]
  /\ UnlockedMapWrite
  /\ UNCHANGED <<MonsVars, left, hist>>

\* monitor.Stop, of MonitorAll for a database that is gone and of StopAll.  The
\* collector ends, and then the parser; what docsChan still holds is dropped.
StopMonitor(d) ==
  /\ d \in mons.map
  /\ \/ mons.pc = "each" /\ mons.list \subseteq mons.map /\ d \notin mons.list
     \/ mons.pc = "all"
  /\ mons' = [mons EXCEPT !.pc = "stoppingCollector", !.db = d]
  /\ UNCHANGED <<MonsVars, mon, crash, left, hist>>
CollectorEnds(d) ==
  /\ mon[d].collector \in {"tail", "wait"} /\ Stopping("stoppingCollector", d)
  /\ mon' = [mon EXCEPT ![d].collector = "off"]
  /\ mons' = [mons EXCEPT !.pc = "stoppingParser"]
  /\ UNCHANGED <<MonsVars, crash, left, hist>>
ParserEnds(d) ==
  /\ mon[d].parser = "run" /\ Stopping("stoppingParser", d)
  /\ hist' = [hist EXCEPT !.dropped = @ \union Range(mon[d].docsChan)]
  /\ mon' = [mon EXCEPT ![d] = NoMonitor]
  /\ mons' = [mons EXCEPT !.pc = IF mons.stopAll THEN "all" ELSE "each",
                          !.db = NoDb, !.map = @ \ {d}]
  /\ IF mons.stopAll THEN LockedMapWrite ELSE UnlockedMapWrite
  /\ UNCHANGED <<MonsVars, left>>

\* Mutant: start() does not call signalReady.
MonitorsReadyUnsaid ==
  /\ mons.pc = "each" /\ mons.map = mons.list
  /\ mons' = [mons EXCEPT !.pc = "idle", !.list = {}]
  /\ UNCHANGED <<MonsVars, mon, crash, left, hist>>
\* start() of profiler.go: it reports that it is ready, and every minute calls
\* MonitorAll again, which matters only if the databases have changed, until it
\* is told to end.
MonitorsReady ==
  /\ mons.pc = "each" /\ mons.map = mons.list
  /\ mons' = [mons EXCEPT !.pc = "idle", !.list = {}, !.ready = TRUE]
  /\ UNCHANGED <<MonsVars, mon, crash, left, hist>>
Refresh ==
  /\ mons.pc = "idle" /\ mons.map # dbs
  /\ mons' = [mons EXCEPT !.pc = "list"]
  /\ UNCHANGED <<MonsVars, mon, crash, left, hist>>
StopAll ==
  /\ mons.pc = "idle" /\ svc = "stopping"
  /\ mons' = [mons EXCEPT !.pc = "all", !.stopAll = TRUE]
  /\ UNCHANGED <<MonsVars, mon, crash, left, hist>>
-----------------------------------------------------------------------------
(***************************************************************************)
(* The sender.                                                             *)
(***************************************************************************)
Send ==
  /\ svc \notin {"new", "stopped"} /\ reports # <<>>
  /\ reports' = Tail(reports)
  /\ \/ spooled' = Append(spooled, Head(reports)) /\ UNCHANGED <<left, hist>>
     \/ /\ Event
        /\ hist' = [hist EXCEPT !.lost = @ \union Head(reports).docs]
        /\ UNCHANGED spooled
  /\ UNCHANGED <<now, dbs, written, svc, mons, mon, agg, status, crash>>

\* It ends, with the reports it has not taken, and Stop returns.
SenderEnds ==
  /\ svc = "stoppingSender" /\ svc' = "stopped"
  /\ UNCHANGED <<now, dbs, written, mons, mon, agg, reports, spooled, status,
                 crash, left, hist>>
-----------------------------------------------------------------------------
(***************************************************************************)
(* Start, Stop and Status of MongoAnalyzer and of profiler.  Start and Stop*)
(* hold the write lock of both until they return, Status the read lock.  A *)
(* Start that gets no session to the server changes nothing.               *)
(***************************************************************************)
\* New and Start of aggregator.go.
NewAggregator == [pc |-> "off", tick |-> FALSE, timeStart |-> Truncate(now),
                  stats |-> {}, timer |-> None]
StartAggregator(a) == [a EXCEPT !.pc = "select", !.timer = now + Interval]

Start ==
  /\ svc = "new"
  /\ svc' = "starting"
  /\ agg' = StartAggregator(NewAggregator)
  /\ mons' = [mons EXCEPT !.pc = "list"]
  /\ UNCHANGED <<now, dbs, written, mon, reports, spooled, status, crash, left, hist>>
Started ==
  /\ svc = "starting" /\ mons.ready
  /\ svc' = "running"
  /\ UNCHANGED <<now, dbs, written, mons, mon, agg, reports, spooled, status,
                 crash, left, hist>>
Stop ==
  /\ svc = "running" /\ status = "none"
  /\ svc' = "stopping"
  /\ UNCHANGED <<now, dbs, written, mons, mon, agg, reports, spooled, status,
                 crash, left, hist>>

\* start() has ended; Aggregator.Stop takes the lock and keeps it while it waits.
StopAggregator ==
  /\ svc = "stopping" /\ mons.pc = "all" /\ mons.map = {}
  /\ svc' = "stoppingAggregator" /\ mons' = [mons EXCEPT !.pc = "off"]
  /\ UNCHANGED <<now, dbs, written, mon, agg, reports, spooled, status, crash,
                 left, hist>>

\* Mutant: Status does not take the lock of the profiler.
StatusBeginsUnlocked ==
  /\ svc \in {"starting", "running"} /\ status = "none" /\ mons.pc # "idle"
  /\ status' = "reading"
  /\ UNCHANGED <<now, dbs, written, svc, mons, mon, agg, reports, spooled,
                 crash, left, hist>>
\* Status: GetAll reads the map, which meets nobody while start() sits in its
\* select.  What it then asks the services only keeps Stop waiting a little
\* longer.
StatusBegins ==
  /\ svc = "running" /\ status = "none" /\ mons.pc # "idle"
  /\ status' = "reading"
  /\ UNCHANGED <<now, dbs, written, svc, mons, mon, agg, reports, spooled,
                 crash, left, hist>>
StatusEnds ==
  /\ status = "reading" /\ status' = "none"
  /\ UNCHANGED <<now, dbs, written, svc, mons, mon, agg, reports, spooled,
                 crash, left, hist>>
-----------------------------------------------------------------------------
(***************************************************************************)
(* The world: time passes, databases come and go.  The clock stands still  *)
(* during Start and Stop, which take a moment of an interval; a timer that *)
(* is due may still fire then.                                             *)
(***************************************************************************)
WorldVars == <<svc, mons, agg, reports, spooled, status, crash, hist>>

TimePasses ==
  /\ svc = "running" /\ left.time > 0 /\ left' = [left EXCEPT !.time = @ - 1]
  /\ now' = now + 1
  /\ UNCHANGED <<WorldVars, dbs, written, mon>>
ChangeDatabases ==
  /\ Event
  /\ \E d \in Dbs : dbs' = IF d \in dbs THEN dbs \ {d} ELSE dbs \union {d}
  /\ UNCHANGED <<WorldVars, now, written, mon>>
-----------------------------------------------------------------------------
Init ==
  /\ \E b \in Bounds :
       /\ now = b.now /\ dbs = b.dbs
       /\ left = [time |-> b.time, docs |-> b.docs, events |-> b.events]
  /\ written = <<>>
  /\ svc = "new"
  /\ mons = [pc |-> "off", list |-> {}, map |-> {}, db |-> NoDb,
             ready |-> FALSE, stopAll |-> FALSE]
  /\ mon = [d \in Dbs |-> NoMonitor]
  /\ agg = [pc |-> "off", tick |-> FALSE, timeStart |-> 0, stats |-> {},
            timer |-> None]
  /\ reports = <<>> /\ spooled = <<>>
  /\ status = "none" /\ crash = "none"
  /\ hist = [skipped |-> {}, bad |-> {}, lost |-> {}, dropped |-> {},
             raced |-> {}, flushed |-> 0]

Collector(d) == Connect(d) \/ Collect(d) \/ CollectBreaks(d) \/ Reconnect(d)
                \/ CollectorEnds(d)
Parser(d) == Parse(d) \/ ParserEnds(d)
Monitors == MonitorAll \/ MonitorStarted \/ MonitorsReady \/ Refresh \/ StopAll
            \/ \E d \in Dbs : StartMonitor(d) \/ StopMonitor(d)
Aggregator == AggTick \/ AggDone \/ AggFlush
Sender == Send \/ SenderEnds
Returns == Started \/ StopAggregator

Step ==
  \/ TimerFires \/ Aggregator \/ Monitors \/ Sender
  \/ Start \/ Returns \/ Stop \/ StatusBegins \/ StatusEnds
  \/ TimePasses \/ ChangeDatabases
  \/ \E d \in Dbs : Collector(d) \/ Parser(d)
Next == crash = "none" /\ Step

\* Every goroutine runs on, calls to the server time out, and time passes.
\* Nobody has to call Start or Stop.
Fairness ==
  /\ WF_vars(crash = "none" /\ (TimePasses \/ TimerFires))
  /\ WF_vars(crash = "none" /\ Aggregator)
  /\ WF_vars(crash = "none" /\ Monitors)
  /\ WF_vars(crash = "none" /\ Sender)
  /\ WF_vars(crash = "none" /\ (Returns \/ StatusEnds))
  /\ \A d \in Dbs : /\ WF_vars(crash = "none" /\ Collector(d))
                    /\ WF_vars(crash = "none" /\ Parser(d))
Spec == Init /\ [][Next]_vars /\ Fairness
-----------------------------------------------------------------------------
(***************************************************************************)
(* Properties.                                                             *)
(***************************************************************************)
Made == reports \o spooled
InReports == UNION {r.docs : r \in Range(Made)}

\* A document that a collector has pushed is, at any time, in exactly one
\* place, and there once: in the docsChan of its database, in the interval being
\* aggregated, in one report, or among the documents the code knowingly gives
\* up (too old, unparsable, in a report the spool refused, in the docsChan of a
\* monitor that was stopped).
Places == <<InReports, agg.stats, hist.skipped, hist.bad, hist.lost, hist.dropped>>
DocsOnce ==
  /\ TypeOK
  /\ 1..Len(written) =
       (UNION Range(Places)) \union (UNION {Range(mon[d].docsChan) : d \in Dbs})
  /\ \A i, j \in DOMAIN Places : i # j => Places[i] \intersect Places[j] = {}
  /\ \A d \in Dbs :
       /\ IsInjective(mon[d].docsChan)
       /\ \A doc \in Range(mon[d].docsChan) :
            written[doc].db = d /\ \A i \in DOMAIN Places : doc \notin Places[i]
  /\ \A i, j \in DOMAIN Made : i # j => Made[i].docs \intersect Made[j].docs = {}

\* A report holds only documents of its own interval, and an interval is
\* reported once: intervals are cut by the time stamps of documents of several
\* databases and by the aggregator's timer, and only a document that slips in
\* between a tick and the Flush it causes may have its interval cut in two.
\* A document is skipped as old only if it was overtaken: by a document of
\* another database from a later interval, or by a Flush after its interval.
OwnInterval ==
  /\ \A r \in Range(Made) \union {[start |-> agg.timeStart, docs |-> agg.stats]} :
       \A doc \in r.docs : Truncate(written[doc].ts) = r.start
  /\ \A i, j \in DOMAIN Made :
       i # j /\ Made[i].start = Made[j].start => Made[i].start \in hist.raced
  /\ \A doc \in hist.skipped :
       \/ \E e \in DOMAIN written : /\ written[e].db # written[doc].db
                                    /\ Truncate(written[e].ts) > Truncate(written[doc].ts)
       \/ hist.flushed >= Truncate(written[doc].ts) + Interval

\* The process dies of a concurrent map access only when a Status overlaps a
\* one-minute refresh: never during Start and never during Stop.
DiesOnlyInRefresh == crash \in {"none", "running"}

\* Start returns, and so does Stop, unless the aggregator's goroutine has
\* taken a tick and waits in Flush for the lock that Aggregator.Stop holds.
StartStopReturn ==
  /\ svc = "starting" ~> svc = "running"
  /\ svc = "stopping" ~> \/ svc = "stopped"
                         \/ svc = "stoppingAggregator" /\ agg.pc = "flush"

\* A database that is created gets a monitor and one that is dropped loses it,
\* whatever listing or connecting failed before: start() tries again.
MonitorsFollow == []<>(mons.map = dbs \/ svc # "running" \/ crash # "none")

\* The documents of an interval reach the spool, or are refused by it, even if
\* no later document closes the interval (the timeout of aggregator.go).
\* A timer set beyond the model's last instant cannot fire.
QuietIntervalFlushed ==
  \A doc \in 1..MaxDocs :
    doc \in agg.stats ~> \/ doc \in hist.lost \union UNION {r.docs : r \in Range(spooled)}
                         \/ svc # "running" \/ crash # "none"
                         \/ agg.timer > now + left.time /\ agg.timer # None
=============================================================================
