------------------------ MODULE MongoProfilerProofs ------------------------
(***************************************************************************)
(* Proofs about MongoProfiler, for any databases, intervals, documents and *)
(* failures: where each document is (DocsOnce), which interval it is       *)
(* reported in (OwnInterval), and when the process can die of the map of   *)
(* monitors (DiesOnlyInRefresh).                                           *)
(***************************************************************************)
EXTENDS MongoProfiler, TLAPS

Report  == [start : 0..MaxTime, docs : SUBSET (1..MaxDocs)]
Monitor == [collector : {"off", "connect", "tail", "wait"}, ready : BOOLEAN,
            docsChan : Seq(1..MaxDocs), parser : {"off", "run"}]
Fate    == [skipped : SUBSET (1..MaxDocs), bad : SUBSET (1..MaxDocs),
            lost : SUBSET (1..MaxDocs), dropped : SUBSET (1..MaxDocs),
            raced : SUBSET Nat, flushed : Nat]

\* The types of all variables, and the bounds.
ClockType ==
  /\ now \in 0..MaxTime /\ dbs \subseteq Dbs
  /\ left \in [time : Nat, docs : Nat, events : Nat] /\ now + left.time <= MaxTime
DocsType ==
  /\ written \in Seq([db : Dbs, ts : 0..MaxTime]) /\ Len(written) + left.docs <= MaxDocs
SvcType ==
  svc \in {"new", "starting", "running", "stopping", "stoppingAggregator",
           "stoppingSender", "stopped"}
MonsType ==
  mons \in [pc : {"off", "list", "each", "starting", "stoppingCollector",
                  "stoppingParser", "idle", "all"},
            list : SUBSET Dbs, map : SUBSET Dbs, db : Dbs \union {NoDb},
            ready : BOOLEAN, stopAll : BOOLEAN]
MonType == mon \in [Dbs -> Monitor]
AggType ==
  agg \in [pc : {"off", "select", "flush"}, timeStart : 0..MaxTime,
           stats : SUBSET (1..MaxDocs), timer : 0..None, tick : BOOLEAN]
MadeType == reports \in Seq(Report) /\ spooled \in Seq(Report)
FateType == hist \in Fate

Types == /\ ClockType /\ DocsType /\ SvcType /\ MonsType /\ MonType
         /\ AggType /\ MadeType /\ FateType

\* start() of profiler.go has a database in hand while it starts or stops a
\* monitor, and only databases in the map, or about to be, have one.
Monitored ==
  /\ mons.pc \in {"starting", "stoppingCollector", "stoppingParser"} => mons.db \in Dbs
  /\ \A d \in Dbs : \/ d \in mons.map
                    \/ mons.pc = "starting" /\ mons.db = d
                    \/ mon[d] = NoMonitor

\* Before Start nothing has happened.
Unstarted ==
  svc = "new" => /\ mons.pc = "off" /\ mons.map = {} /\ agg.pc = "off"
                 /\ written = <<>> /\ reports = <<>> /\ spooled = <<>>

\* Status holds the read lock, and Start and Stop the write lock.
Reading ==
  /\ status \in {"none", "reading"} /\ (status = "reading" => svc = "running")
  /\ DiesOnlyInRefresh

\* docsChan holds documents of its own database, in the order they are written.
ChanInOrder ==
  \A d \in Dbs :
    /\ \A k \in DOMAIN mon[d].docsChan :
         mon[d].docsChan[k] \in DOMAIN written /\ written[mon[d].docsChan[k]].db = d
    /\ \A k, l \in DOMAIN mon[d].docsChan : k < l => mon[d].docsChan[k] < mon[d].docsChan[l]

\* Documents 1..n are each in exactly one of seven places.
Once(n, waiting, stats, made, skipped, bad, lost, dropped) ==
  /\ 1..n = waiting \union stats \union made \union skipped \union bad \union lost \union dropped
  /\ waiting \intersect (stats \union made \union skipped \union bad \union lost \union dropped) = {}
  /\ stats \intersect (made \union skipped \union bad \union lost \union dropped) = {}
  /\ made \intersect (skipped \union bad \union lost \union dropped) = {}
  /\ skipped \intersect (bad \union lost \union dropped) = {}
  /\ bad \intersect (lost \union dropped) = {}
  /\ lost \intersect dropped = {}

WaitingIn(m) == UNION {Range(m[d].docsChan) : d \in Dbs}
Waiting == WaitingIn(mon)
DocsOf(rs) == UNION {rs[i].docs : i \in DOMAIN rs}
EachOnce ==
  Once(Len(written), Waiting, agg.stats, DocsOf(reports) \union DocsOf(spooled),
       hist.skipped, hist.bad, hist.lost, hist.dropped)

\* Two reports have no document in common, and are of the same interval only
\* if a document raced with a flush of it.
Apart(r, q, raced) ==
  /\ r.docs \intersect q.docs = {}
  /\ r.start = q.start => r.start \in raced
AllApart ==
  /\ \A i, j \in DOMAIN reports : i # j => Apart(reports[i], reports[j], hist.raced)
  /\ \A i, j \in DOMAIN spooled : i # j => Apart(spooled[i], spooled[j], hist.raced)
  /\ \A i \in DOMAIN reports : \A j \in DOMAIN spooled : Apart(reports[i], spooled[j], hist.raced)

\* Time stamps are in the order of the documents, and none is in the future.
Stamps ==
  /\ \A x, y \in DOMAIN written : x <= y => written[x].ts <= written[y].ts
  /\ \A x \in DOMAIN written : written[x].ts <= now

\* The interval being aggregated has begun, and all reports are of earlier
\* intervals, or of one that was cut in two.
OwnDocs(r, docs) == \A x \in r.docs : Truncate(docs[x].ts) = r.start
NotLater(r, start, raced) == r.start <= start /\ (r.start = start => r.start \in raced)
Intervals ==
  /\ agg.timeStart <= now /\ Truncate(agg.timeStart) = agg.timeStart /\ hist.flushed <= now
  /\ OwnDocs([start |-> agg.timeStart, docs |-> agg.stats], written)
  /\ \A i \in DOMAIN reports : /\ OwnDocs(reports[i], written)
                               /\ NotLater(reports[i], agg.timeStart, hist.raced)
  /\ \A i \in DOMAIN spooled : /\ OwnDocs(spooled[i], written)
                               /\ NotLater(spooled[i], agg.timeStart, hist.raced)

\* The timer goes off after the interval's end, and its tick is taken after it,
\* unless a document comes in between.
Timer ==
  agg.stats # {} =>
    /\ agg.timer >= agg.timeStart + Interval
    /\ agg.tick \/ agg.pc = "flush" =>
         agg.timeStart \in hist.raced \/ now >= agg.timeStart + Interval

\* Why the interval being aggregated begins where it does: it is that of Start,
\* that of a document all of whose database's earlier ones are done with, or
\* that of the last flush.
Begun ==
  \/ \A x \in DOMAIN written : agg.timeStart <= written[x].ts
  \/ \E e \in DOMAIN written :
       /\ Truncate(written[e].ts) = agg.timeStart
       /\ \A k \in DOMAIN mon[written[e].db].docsChan : e < mon[written[e].db].docsChan[k]
  \/ Truncate(hist.flushed) = agg.timeStart

\* A document is skipped because another database or a flush overtook it.
Overtaken(x, docs, flushed) ==
  \/ \E e \in DOMAIN docs : /\ docs[e].db # docs[x].db
                            /\ Truncate(docs[e].ts) > Truncate(docs[x].ts)
  \/ flushed >= Truncate(docs[x].ts) + Interval
SkippedLate == \A x \in hist.skipped : Overtaken(x, written, hist.flushed)

Inv ==
  /\ Types /\ Monitored /\ Unstarted /\ Reading
  /\ ChanInOrder /\ EachOnce /\ AllApart
  /\ Stamps /\ Intervals /\ Timer /\ Begun /\ SkippedLate
-----------------------------------------------------------------------------
(***************************************************************************)
(* Facts about time.Truncate.                                              *)
(***************************************************************************)
\* An instant is in the interval it is truncated to the start of.
LEMMA TruncateInterval ==
  ASSUME NEW t \in Nat
  PROVE  Truncate(t) \in Nat /\ Truncate(t) <= t /\ t < Truncate(t) + Interval
<1> DEFINE q == t \div Interval
<1>1. q \in Nat /\ t = Interval * q + (t % Interval) /\ t % Interval \in 0..(Interval - 1)
  BY MongoAssumption
<1>2. q * Interval = Interval * q /\ q * Interval \in Nat
  BY <1>1, MongoAssumption
<1> QED
  BY <1>1, <1>2, MongoAssumption DEF Truncate

\* Of two instants the earlier is in the same interval or in one that ends
\* before the interval of the later begins.
LEMMA TruncateApart ==
  ASSUME NEW t \in Nat, NEW u \in Nat, Truncate(t) # Truncate(u), t <= u
  PROVE  Truncate(t) + Interval <= Truncate(u)
<1> DEFINE p == t \div Interval
           q == u \div Interval
<1>1. p \in Nat /\ q \in Nat
  BY MongoAssumption
<1>2. /\ p * Interval \in Nat /\ p * Interval <= t
      /\ q * Interval \in Nat /\ u < q * Interval + Interval
  BY TruncateInterval, Zenon DEF Truncate
<1>3. p # q
  BY Zenon DEF Truncate
<1> HIDE DEF p, q
<1>4. CASE q < p
  <2>1. p = q + 1 + (p - q - 1) /\ p - q - 1 \in Nat
    BY <1>1, <1>4
  <2>2. p * Interval = q * Interval + Interval + (p - q - 1) * Interval
    BY <1>1, <2>1, MongoAssumption
  <2>3. (p - q - 1) * Interval \in Nat
    BY <2>1, MongoAssumption
  <2> QED
    BY <1>2, <2>2, <2>3, MongoAssumption
<1>5. CASE p < q
  <2>1. q = p + 1 + (q - p - 1) /\ q - p - 1 \in Nat
    BY <1>1, <1>5
  <2>2. q * Interval = p * Interval + Interval + (q - p - 1) * Interval
    BY <1>1, <2>1, MongoAssumption
  <2>3. (q - p - 1) * Interval \in Nat
    BY <2>1, MongoAssumption
  <2> QED
    BY <1>2, <2>2, <2>3, MongoAssumption DEF Truncate, p, q
<1> QED
  BY <1>1, <1>3, <1>4, <1>5

\* The start of an interval is its own truncation.
LEMMA TruncateStart ==
  ASSUME NEW t \in Nat
  PROVE  Truncate(Truncate(t)) = Truncate(t)
<1>1. Truncate(t) \in Nat /\ Truncate(t) <= t /\ t < Truncate(t) + Interval
  BY TruncateInterval, Zenon
<1>2. Truncate(Truncate(t)) \in Nat /\ Truncate(t) < Truncate(Truncate(t)) + Interval
  BY <1>1, TruncateInterval, Zenon
<1>3. Truncate(Truncate(t)) # Truncate(t) => Truncate(Truncate(t)) + Interval <= Truncate(t)
  BY <1>1, TruncateApart, Zenon
<1> QED
  BY <1>1, <1>2, <1>3, MongoAssumption

\* Instants from the start of an interval on, before its end or not.
LEMMA TruncateFrom ==
  ASSUME NEW s \in Nat, Truncate(s) = s, NEW t \in Nat, s <= t
  PROVE  /\ s <= Truncate(t)
         /\ t < s + Interval => Truncate(t) = s
         /\ t >= s + Interval => Truncate(t) >= s + Interval
<1>1. Truncate(t) \in Nat /\ Truncate(t) <= t /\ t < Truncate(t) + Interval
  BY TruncateInterval, Zenon
<1>2. Truncate(t) # s => s + Interval <= Truncate(t)
  BY TruncateApart, Zenon
<1> QED
  BY <1>1, <1>2, MongoAssumption

\* Instants before the start of an interval.
LEMMA TruncateBefore ==
  ASSUME NEW s \in Nat, Truncate(s) = s, NEW t \in Nat, t < s
  PROVE  Truncate(t) + Interval <= s
<1>1. Truncate(t) \in Nat /\ Truncate(t) <= t
  BY TruncateInterval, Zenon
<1>2. Truncate(t) # s
  BY <1>1
<1> QED
  BY <1>2, TruncateApart
-----------------------------------------------------------------------------
(***************************************************************************)
(* Documents on their way from place to place.                             *)
(***************************************************************************)
\* A document that is written waits.
LEMMA OnceWritten ==
  ASSUME NEW n \in Nat, NEW w, NEW a, NEW m, NEW k, NEW b, NEW l, NEW d,
         Once(n, w, a, m, k, b, l, d)
  PROVE  Once(n + 1, w \union {n + 1}, a, m, k, b, l, d)
<1>1. 1..(n + 1) = 1..n \union {n + 1} /\ n + 1 \notin 1..n
  OBVIOUS
<1> QED
  BY <1>1 DEF Once

\* A document that waits is aggregated, skipped, cannot be parsed, or is dropped.
LEMMA OnceTaken ==
  ASSUME NEW n, NEW w, NEW a, NEW m, NEW k, NEW b, NEW l, NEW d,
         Once(n, w, a, m, k, b, l, d), NEW x \in SUBSET w
  PROVE  /\ Once(n, w \ x, a \union x, m, k, b, l, d)
         /\ Once(n, w \ x, a, m, k \union x, b, l, d)
         /\ Once(n, w \ x, a, m, k, b \union x, l, d)
         /\ Once(n, w \ x, a, m, k, b, l, d \union x)
BY Zenon DEF Once

\* The documents being aggregated are reported.
LEMMA OnceFlushed ==
  ASSUME NEW n, NEW w, NEW a, NEW m, NEW k, NEW b, NEW l, NEW d,
         Once(n, w, a, m, k, b, l, d)
  PROVE  Once(n, w, {}, m \union a, k, b, l, d)
BY Zenon DEF Once

\* The spool refuses a report.
LEMMA OnceLost ==
  ASSUME NEW n, NEW w, NEW a, NEW m, NEW k, NEW b, NEW l, NEW d,
         Once(n, w, a, m, k, b, l, d), NEW x \in SUBSET m
  PROVE  Once(n, w, a, m \ x, k, b, l \union x, d)
BY Zenon DEF Once
-----------------------------------------------------------------------------
(***************************************************************************)
(* Facts about the channels.                                               *)
(***************************************************************************)
\* The elements of a sequence.
LEMMA ElementOf ==
  ASSUME NEW S, NEW s \in Seq(S)
  PROVE  /\ Len(s) \in Nat /\ DOMAIN s = 1..Len(s)
         /\ \A k \in DOMAIN s : s[k] \in S
OBVIOUS

\* What is left of a channel of which the first element is taken.
LEMMA TailOf ==
  ASSUME NEW S, NEW s \in Seq(S), s # <<>>
  PROVE  /\ Tail(s) \in Seq(S) /\ Head(s) = s[1] /\ Head(s) \in S
         /\ 1 \in DOMAIN s /\ DOMAIN s = 1..Len(s) /\ Len(s) \in Nat
         /\ DOMAIN Tail(s) = 1..(Len(s) - 1)
         /\ \A k \in DOMAIN Tail(s) : k + 1 \in DOMAIN s /\ Tail(s)[k] = s[k + 1]
OBVIOUS

\* A channel to which an element is sent.
LEMMA AppendOf ==
  ASSUME NEW S, NEW s \in Seq(S), NEW e \in S
  PROVE  /\ Append(s, e) \in Seq(S) /\ Len(s) \in Nat
         /\ DOMAIN s = 1..Len(s) /\ DOMAIN Append(s, e) = 1..(Len(s) + 1)
         /\ Append(s, e)[Len(s) + 1] = e
         /\ \A k \in DOMAIN s : Append(s, e)[k] = s[k]
OBVIOUS
-----------------------------------------------------------------------------
\* Which steps change what.
Changes ==
  /\ now' = now \/ TimePasses
  /\ dbs' = dbs \/ ChangeDatabases
  /\ left' = left \/ Event \/ TimePasses \/ \E d \in Dbs : Collect(d)
  /\ written' = written \/ \E d \in Dbs : Collect(d)
  /\ svc' = svc \/ Start \/ Started \/ Stop \/ StopAggregator \/ AggDone \/ SenderEnds
  /\ \/ mons' = mons \/ Start \/ StopAggregator
     \/ MonitorAll \/ MonitorStarted \/ MonitorsReady \/ Refresh \/ StopAll
     \/ \E d \in Dbs : StartMonitor(d) \/ StopMonitor(d) \/ CollectorEnds(d) \/ ParserEnds(d)
  /\ \/ mon' = mon \/ MonitorStarted
     \/ \E d \in Dbs : \/ StartMonitor(d) \/ Collector(d) \/ Parser(d)
  /\ agg' = agg \/ Start \/ TimerFires \/ Aggregator \/ \E d \in Dbs : Parse(d)
  /\ reports' = reports \/ AggFlush \/ Send \/ \E d \in Dbs : Parse(d)
  /\ spooled' = spooled \/ Send
  /\ status' = status \/ StatusBegins \/ StatusEnds
  /\ crash' = crash \/ (status = "reading" /\ crash' = svc)
  /\ hist' = hist \/ AggFlush \/ Send \/ \E d \in Dbs : Parser(d)

\* Each variable is changed only by the steps that Changes names.
LEMMA NextChanges == [Next]_vars => Changes
<1> SUFFICES ASSUME [Next]_vars PROVE Changes
  OBVIOUS
<1> USE DEF Changes, Aggregator, Collector, Parser
<1>1. CASE TimerFires
  BY <1>1, Zenon DEF TimerFires
<1>2. CASE AggTick
  BY <1>2, Zenon DEF AggTick
<1>3. CASE AggDone
  BY <1>3, Zenon DEF AggDone
<1>4. CASE AggFlush
  BY <1>4, Zenon DEF AggFlush
<1>5. CASE MonitorAll
  BY <1>5, Zenon DEF MonitorAll, MonsVars
<1>6. CASE MonitorStarted
  BY <1>6, Zenon DEF MonitorStarted, MonsVars, UnlockedMapWrite
<1>7. CASE MonitorsReady
  BY <1>7, Zenon DEF MonitorsReady, MonsVars
<1>8. CASE Refresh
  BY <1>8, Zenon DEF Refresh, MonsVars
<1>9. CASE StopAll
  BY <1>9, Zenon DEF StopAll, MonsVars
<1>10. CASE Send
  BY <1>10, Zenon DEF Send
<1>11. CASE SenderEnds
  BY <1>11, Zenon DEF SenderEnds
<1>12. CASE Start
  BY <1>12, Zenon DEF Start
<1>13. CASE Started
  BY <1>13, Zenon DEF Started
<1>14. CASE StopAggregator
  BY <1>14, Zenon DEF StopAggregator
<1>15. CASE Stop
  BY <1>15, Zenon DEF Stop
<1>16. CASE StatusBegins
  BY <1>16, Zenon DEF StatusBegins
<1>17. CASE StatusEnds
  BY <1>17, Zenon DEF StatusEnds
<1>18. CASE TimePasses
  BY <1>18, Zenon DEF TimePasses, WorldVars
<1>19. CASE ChangeDatabases
  BY <1>19, Zenon DEF ChangeDatabases, WorldVars
<1>20. ASSUME NEW d \in Dbs, StartMonitor(d) PROVE Changes
  BY <1>20, Zenon DEF StartMonitor, MonsVars
<1>21. ASSUME NEW d \in Dbs, StopMonitor(d) PROVE Changes
  BY <1>21, Zenon DEF StopMonitor, MonsVars
<1>22. ASSUME NEW d \in Dbs, Connect(d) PROVE Changes
  BY <1>22, Zenon DEF Connect, MonVars
<1>23. ASSUME NEW d \in Dbs, Collect(d) PROVE Changes
  BY <1>23, Zenon DEF Collect, MonVars
<1>24. ASSUME NEW d \in Dbs, CollectBreaks(d) PROVE Changes
  BY <1>24, Zenon DEF CollectBreaks, MonVars
<1>25. ASSUME NEW d \in Dbs, Reconnect(d) PROVE Changes
  BY <1>25, Zenon DEF Reconnect, MonVars
<1>26. ASSUME NEW d \in Dbs, CollectorEnds(d) PROVE Changes
  BY <1>26, Zenon DEF CollectorEnds, MonsVars
<1>27. ASSUME NEW d \in Dbs, Parse(d) PROVE Changes
  BY <1>27, Zenon DEF Parse, MonVars
<1>28. ASSUME NEW d \in Dbs, ParserEnds(d) PROVE Changes
  BY <1>28, Zenon DEF ParserEnds, MonsVars, LockedMapWrite, UnlockedMapWrite
<1>29. CASE UNCHANGED vars
  BY <1>29, Zenon DEF vars
<1> QED
  BY <1>1, <1>2, <1>3, <1>4, <1>5, <1>6, <1>7, <1>8, <1>9, <1>10, <1>11, <1>12, <1>13, <1>14,
     <1>15, <1>16, <1>17, <1>18, <1>19, <1>20, <1>21, <1>22, <1>23, <1>24, <1>25, <1>26, <1>27,
     <1>28, <1>29, Zenon
     DEF Next, Step, Aggregator, Monitors, Sender, Returns, Collector, Parser
-----------------------------------------------------------------------------
(***************************************************************************)
(* Types.                                                                  *)
(***************************************************************************)
LEMMA ClockTypeNext == Inv /\ [Next]_vars => ClockType' /\ DocsType'
<1> SUFFICES ASSUME Inv, [Next]_vars PROVE ClockType' /\ DocsType'
  OBVIOUS
<1>1. Changes /\ ClockType /\ DocsType
  BY NextChanges, Zenon DEF Inv, Types
<1>2. CASE TimePasses
  <2>1. now' = now + 1 /\ left.time > 0 /\ left' = [left EXCEPT !.time = @ - 1] /\ UNCHANGED <<dbs, written>>
    BY <1>2, Zenon DEF TimePasses
  <2>2. left' \in [time : Nat, docs : Nat, events : Nat] /\ left'.time = left.time - 1 /\ left'.docs = left.docs
    BY <1>1, <2>1 DEF ClockType
  <2>3. now \in Nat /\ left.time \in Nat /\ now + left.time <= MaxTime /\ MaxTime \in Nat
    BY <1>1, MongoAssumption DEF ClockType
  <2>4. now' \in 0..MaxTime /\ now' + left'.time <= MaxTime
    BY <2>1, <2>2, <2>3
  <2> QED
    BY <1>1, <2>1, <2>2, <2>4, Zenon DEF ClockType, DocsType
<1>3. CASE \E d \in Dbs : Collect(d)
  <2>1. PICK d \in Dbs : Collect(d)
    BY <1>3, Zenon
  <2>2. /\ left.docs > 0 /\ left' = [left EXCEPT !.docs = @ - 1]
        /\ written' = Append(written, [db |-> d, ts |-> now]) /\ UNCHANGED <<now, dbs>>
    BY <2>1, Zenon DEF Collect, MonVars
  <2>3. left' \in [time : Nat, docs : Nat, events : Nat] /\ left'.time = left.time /\ left'.docs = left.docs - 1
    BY <1>1, <2>2 DEF ClockType
  <2>4. /\ [db |-> d, ts |-> now] \in [db : Dbs, ts : 0..MaxTime]
        /\ written \in Seq([db : Dbs, ts : 0..MaxTime])
    BY <1>1, Zenon DEF ClockType, DocsType
  <2>5. written' \in Seq([db : Dbs, ts : 0..MaxTime]) /\ Len(written') = Len(written) + 1
    BY <2>2, <2>4
  <2>6. Len(written') + left'.docs <= MaxDocs
    BY <1>1, <2>3, <2>5, MongoAssumption DEF ClockType, DocsType
  <2> QED
    BY <1>1, <2>2, <2>3, <2>5, <2>6, Zenon DEF ClockType, DocsType
<1>4. CASE now' = now /\ written' = written /\ (left' = left \/ Event)
  <2>1. dbs' \subseteq Dbs
    BY <1>1, Zenon DEF Changes, ChangeDatabases, ClockType
  <2>2. left' \in [time : Nat, docs : Nat, events : Nat] /\ left'.time = left.time /\ left'.docs = left.docs
    BY <1>1, <1>4 DEF Event, ClockType
  <2> QED
    BY <1>1, <1>4, <2>1, <2>2, Zenon DEF ClockType, DocsType
<1> QED
  BY <1>1, <1>2, <1>3, <1>4, Zenon DEF Changes

\* Start and Stop move through their states; Status reads the map only while
\* the profiler runs, so that is when a map write can kill the process.
LEMMA SvcTypeNext == Inv /\ [Next]_vars => SvcType' /\ Reading'
<1> SUFFICES ASSUME Inv, [Next]_vars PROVE SvcType' /\ Reading'
  OBVIOUS
<1>1. Changes /\ SvcType /\ Reading
  BY NextChanges, Zenon DEF Inv, Types
<1>2. svc' = svc \/ svc # "running" \/ status = "none"
  BY <1>1, Zenon DEF Changes, Start, Started, Stop, StopAggregator, AggDone, SenderEnds
<1>3. SvcType'
  BY <1>1, Zenon DEF Changes, SvcType, Start, Started, Stop, StopAggregator, AggDone, SenderEnds
<1>4. DiesOnlyInRefresh'
  <2>1. crash' = crash \/ (status = "reading" /\ crash' = svc)
    BY <1>1, Zenon DEF Changes
  <2> QED
    BY <1>1, <2>1, Zenon DEF Reading, DiesOnlyInRefresh
<1>5. CASE StatusBegins \/ StatusEnds
  BY <1>3, <1>4, <1>5, Zenon DEF StatusBegins, StatusEnds, Reading
<1>6. CASE status' = status
  BY <1>1, <1>2, <1>3, <1>4, <1>6, Zenon DEF Reading
<1> QED
  BY <1>1, <1>5, <1>6, Zenon DEF Changes

\* The map of monitors and the list of MonitorAll hold databases.
LEMMA MonsTypeNext == Inv /\ [Next]_vars => MonsType'
<1> SUFFICES ASSUME Inv, [Next]_vars PROVE MonsType'
  OBVIOUS
<1>1. Changes /\ MonsType /\ ClockType
  BY NextChanges, Zenon DEF Inv, Types
<1>2. CASE Start \/ StopAggregator \/ MonitorsReady \/ Refresh \/ StopAll
  BY <1>1, <1>2, ZenonT(30) DEF MonsType, Start, StopAggregator, MonitorsReady, Refresh, StopAll
<1>3. CASE MonitorAll
  BY <1>1, <1>3, ZenonT(30) DEF MonsType, ClockType, MonitorAll
<1>4. CASE MonitorStarted
  <2>1. mons' = [mons EXCEPT !.pc = "each", !.db = NoDb, !.map = @ \union {mons.db}] /\ mons.db \in Dbs
    BY <1>4, Zenon DEF MonitorStarted, Inv, Monitored
  <2> QED
    BY <1>1, <2>1, Zenon DEF MonsType
<1>5. ASSUME NEW d \in Dbs, StartMonitor(d) \/ StopMonitor(d) \/ CollectorEnds(d) \/ ParserEnds(d)
      PROVE  MonsType'
  <2>1. CASE StartMonitor(d) \/ StopMonitor(d)
    BY <1>1, <2>1, Zenon DEF MonsType, StartMonitor, StopMonitor
  <2>2. CASE CollectorEnds(d)
    BY <1>1, <2>2, Zenon DEF MonsType, CollectorEnds
  <2>3. CASE ParserEnds(d)
    <3>1. mons' = [mons EXCEPT !.pc = IF mons.stopAll THEN "all" ELSE "each", !.db = NoDb, !.map = @ \ {d}]
      BY <2>3, Zenon DEF ParserEnds
    <3> QED
      BY <1>1, <3>1, Zenon DEF MonsType
  <2> QED
    BY <1>5, <2>1, <2>2, <2>3, Zenon
<1>6. CASE mons' = mons
  BY <1>1, <1>6, Zenon DEF MonsType
<1> QED
  BY <1>1, <1>2, <1>3, <1>4, <1>5, <1>6, Zenon DEF Changes

\* A step that gives one database a monitor of the right type.
LEMMA OneMonitor ==
  ASSUME MonType, NEW d \in Dbs, NEW m \in Monitor, mon' = [mon EXCEPT ![d] = m]
  PROVE  MonType'
BY Zenon DEF MonType

\* Every database's monitor keeps its type; docsChan holds document numbers.
LEMMA MonTypeNext == Inv /\ [Next]_vars => MonType'
<1> SUFFICES ASSUME Inv, [Next]_vars PROVE MonType'
  OBVIOUS
<1>1. Changes /\ MonType /\ DocsType
  BY NextChanges, Zenon DEF Inv, Types
<1>2. ASSUME NEW d \in Dbs
      PROVE  /\ mon[d] \in Monitor /\ mon[d].docsChan \in Seq(1..MaxDocs)
             /\ mon[d].ready \in BOOLEAN
  BY <1>1, Zenon DEF MonType, Monitor
<1>3. NoMonitor \in Monitor
  <2>1. <<>> \in Seq(1..MaxDocs)
    OBVIOUS
  <2> QED
    BY <2>1, Zenon DEF NoMonitor, Monitor
<1>4. CASE MonitorStarted
  <2>1. mon' = [mon EXCEPT ![mons.db] = StartParser(mon[mons.db])] /\ mons.db \in Dbs
    BY <1>4, Zenon DEF MonitorStarted, Inv, Monitored
  <2>2. StartParser(mon[mons.db]) \in Monitor
    BY <1>2, <2>1, ZenonT(30) DEF StartParser, Monitor
  <2> QED
    BY <1>1, <2>1, <2>2, OneMonitor, Zenon
<1>5. ASSUME NEW d \in Dbs, StartMonitor(d) PROVE MonType'
  <2>1. mon' = [mon EXCEPT ![d] = StartCollector(NoMonitor)]
    BY <1>5, Zenon DEF StartMonitor
  <2>2. StartCollector(NoMonitor) \in Monitor
    BY <1>3, Zenon DEF StartCollector, Monitor
  <2> QED
    BY <1>1, <2>1, <2>2, OneMonitor, Zenon
<1>6. ASSUME NEW d \in Dbs, Connect(d) \/ CollectBreaks(d) \/ Reconnect(d) \/ CollectorEnds(d)
      PROVE  MonType'
  <2> DEFINE M(c, r) == [mon[d] EXCEPT !.collector = c, !.ready = r]
  <2>1. \A c \in {"off", "connect", "tail", "wait"}, r \in BOOLEAN : M(c, r) \in Monitor
    BY <1>2, Zenon DEF Monitor
  <2>2. CASE Connect(d)
    <3>1. mon' = [mon EXCEPT ![d] = M("tail", TRUE)]
      BY <2>2, Zenon DEF Connect
    <3> QED
      BY <1>1, <2>1, <3>1, OneMonitor, Zenon
  <2>3. CASE Reconnect(d)
    <3>1. mon' = [mon EXCEPT ![d] = M("connect", TRUE)]
      BY <2>3, Zenon DEF Reconnect
    <3> QED
      BY <1>1, <2>1, <3>1, OneMonitor, Zenon
  <2>4. CASE CollectBreaks(d) \/ CollectorEnds(d)
    <3>1. PICK c \in {"wait", "off"} : mon' = [mon EXCEPT ![d] = [mon[d] EXCEPT !.collector = c]]
      BY <2>4, Zenon DEF CollectBreaks, CollectorEnds
    <3>2. [mon[d] EXCEPT !.collector = c] \in Monitor
      BY <1>2, Zenon DEF Monitor
    <3> QED
      BY <1>1, <3>1, <3>2, OneMonitor, Zenon
  <2> QED
    BY <1>6, <2>2, <2>3, <2>4, Zenon
<1>7. ASSUME NEW d \in Dbs, Collect(d) PROVE MonType'
  <2>1. /\ mon' = [mon EXCEPT ![d] = [mon[d] EXCEPT !.docsChan = Append(mon[d].docsChan, Len(written'))]]
        /\ Len(written') = Len(written) + 1
    BY <1>1, <1>7 DEF Collect, DocsType
  <2>2. Len(written') \in 1..MaxDocs
    BY <1>1, <2>1, MongoAssumption, ClockTypeNext DEF DocsType, ClockType
  <2>3. Append(mon[d].docsChan, Len(written')) \in Seq(1..MaxDocs)
    BY <1>2, <2>2
  <2>4. [mon[d] EXCEPT !.docsChan = Append(mon[d].docsChan, Len(written'))] \in Monitor
    BY <1>2, <2>3, Zenon DEF Monitor
  <2> QED
    BY <1>1, <2>1, <2>4, OneMonitor, Zenon
<1>8. ASSUME NEW d \in Dbs, Parse(d) PROVE MonType'
  <2>1. /\ mon' = [mon EXCEPT ![d] = [mon[d] EXCEPT !.docsChan = Tail(mon[d].docsChan)]]
        /\ mon[d].docsChan # <<>>
    BY <1>8, Zenon DEF Parse
  <2>2. Tail(mon[d].docsChan) \in Seq(1..MaxDocs)
    BY <1>2, <2>1, TailOf, Zenon
  <2>3. [mon[d] EXCEPT !.docsChan = Tail(mon[d].docsChan)] \in Monitor
    BY <1>2, <2>2, Zenon DEF Monitor
  <2> QED
    BY <1>1, <2>1, <2>3, OneMonitor, Zenon
<1>9. ASSUME NEW d \in Dbs, ParserEnds(d) PROVE MonType'
  BY <1>1, <1>3, <1>9, OneMonitor, Zenon DEF ParserEnds
<1>10. CASE mon' = mon
  BY <1>1, <1>10, Zenon DEF MonType
<1> QED
  BY <1>1, <1>4, <1>5, <1>6, <1>7, <1>8, <1>9, <1>10, Zenon DEF Changes, Collector, Parser

\* What Add makes of the aggregator and of hist with a document that is not too
\* old: start is that of its interval, kept what is already aggregated in it, good
\* and bad the document, as it can be fingerprinted or not.
Takes(start, kept, good, bad) ==
  /\ agg' = [agg EXCEPT !.timeStart = start, !.stats = kept \union good,
                        !.timer = now + Interval]
  /\ hist' = [hist EXCEPT !.bad = @ \union bad,
                          !.raced = IF agg.tick \/ agg.pc = "flush"
                                    THEN @ \union {start} ELSE @]

\* The three ways of Add: the document is skipped, is of the interval being
\* aggregated, or is of a later one.
Adds(doc) ==
  LET ts == written[doc].ts
  IN  \/ /\ ts < agg.timeStart
         /\ hist' = [hist EXCEPT !.skipped = @ \union {doc}]
         /\ UNCHANGED <<agg, reports>>
      \/ /\ ts >= agg.timeStart
         /\ \E good, bad \in SUBSET {doc} :
              /\ good \union bad = {doc} /\ good \intersect bad = {}
              /\ \/ /\ ts < agg.timeStart + Interval /\ reports' = reports
                    /\ Takes(agg.timeStart, agg.stats, good, bad)
                 \/ /\ ts >= agg.timeStart + Interval /\ reports' = FlushedReports
                    /\ Takes(Truncate(ts), {}, good, bad)

\* Parse is Add, in one of its three ways, with the first document of docsChan.
LEMMA ParseAdds ==
  ASSUME Inv, NEW d \in Dbs, Parse(d)
  PROVE  /\ mon[d].docsChan \in Seq(1..MaxDocs) /\ mon[d].docsChan # <<>>
         /\ Head(mon[d].docsChan) \in DOMAIN written
         /\ written[Head(mon[d].docsChan)] \in [db : Dbs, ts : 0..MaxTime]
         /\ written[Head(mon[d].docsChan)].db = d
         /\ Adds(Head(mon[d].docsChan))
         /\ mon' = [mon EXCEPT ![d].docsChan = Tail(@)]
         /\ UNCHANGED <<now, dbs, written, svc, mons, spooled, status, crash>>
<1> DEFINE doc == Head(mon[d].docsChan)
           ts  == written[doc].ts
<1>1. MonType /\ DocsType /\ AggType /\ ChanInOrder
  BY Zenon DEF Inv, Types
<1>2. mon[d].docsChan \in Seq(1..MaxDocs) /\ mon[d].docsChan # <<>>
  BY <1>1, Zenon DEF MonType, Monitor, Parse
<1>3. doc \in DOMAIN written /\ written[doc].db = d
  BY <1>1, <1>2, TailOf DEF ChanInOrder
<1>4. written[doc] \in [db : Dbs, ts : 0..MaxTime]
  <2>1. \A x \in DOMAIN written : written[x] \in [db : Dbs, ts : 0..MaxTime]
    BY <1>1, ElementOf, Zenon DEF DocsType
  <2> QED
    BY <1>3, <2>1, Zenon
<1>5. ts \in Nat /\ agg.timeStart \in Nat /\ agg.timeStart + Interval \in Nat
  BY <1>1, <1>4, MongoAssumption DEF AggType
<1>6. ASSUME NEW g \in BOOLEAN, Add(doc, g), ts >= agg.timeStart
      PROVE  Adds(doc)
  <2> DEFINE good == {x \in {doc} : g}
             bad  == {x \in {doc} : ~g}
  <2>1. good \in SUBSET {doc} /\ bad \in SUBSET {doc} /\ good \union bad = {doc} /\ good \intersect bad = {}
    BY Zenon
  <2>2. ~(ts < agg.timeStart)
    BY <1>5, <1>6
  <2>3. CASE InLaterInterval(ts)
    <3>1. FlushedAgg(ts).timeStart = Truncate(ts) /\ FlushedAgg(ts).stats = {}
      BY <1>1, Zenon DEF FlushedAgg, AggType
    <3>2. agg' = [Reset(FlushedAgg(ts)) EXCEPT !.stats = @ \union good]
      BY <1>6, <2>2, <2>3, Zenon DEF Add
    <3>3. agg' = [agg EXCEPT !.timeStart = Truncate(ts), !.stats = {} \union good, !.timer = now + Interval]
      BY <1>1, <3>2, Zenon DEF Reset, FlushedAgg, AggType
    <3>4. hist' = [hist EXCEPT !.bad = @ \union bad,
                               !.raced = IF agg.tick \/ agg.pc = "flush"
                                         THEN @ \union {Truncate(ts)} ELSE @]
      BY <1>6, <2>2, <2>3, <3>1, Zenon DEF Add
    <3>5. Takes(Truncate(ts), {}, good, bad)
      BY <3>3, <3>4, Zenon DEF Takes
    <3>6. ts >= agg.timeStart + Interval /\ reports' = FlushedReports
      BY <1>6, <2>2, <2>3, Zenon DEF Add, InLaterInterval
    <3> QED
      BY <1>6, <2>1, <3>5, <3>6, Zenon DEF Adds
  <2>4. CASE ~InLaterInterval(ts)
    <3>1. agg' = [Reset(agg) EXCEPT !.stats = @ \union good]
      BY <1>6, <2>2, <2>4, Zenon DEF Add
    <3>2. agg' = [agg EXCEPT !.timeStart = agg.timeStart, !.stats = agg.stats \union good, !.timer = now + Interval]
      BY <1>1, <3>1, Zenon DEF Reset, AggType
    <3>3. hist' = [hist EXCEPT !.bad = @ \union bad,
                               !.raced = IF agg.tick \/ agg.pc = "flush"
                                         THEN @ \union {agg.timeStart} ELSE @]
      BY <1>6, <2>2, <2>4, Zenon DEF Add
    <3>4. Takes(agg.timeStart, agg.stats, good, bad)
      BY <3>2, <3>3, Zenon DEF Takes
    <3>5. ts < agg.timeStart + Interval /\ reports' = reports
      BY <1>5, <1>6, <2>2, <2>4 DEF Add, InLaterInterval
    <3> QED
      BY <1>6, <2>1, <3>4, <3>5, Zenon DEF Adds
  <2> QED
    BY <2>3, <2>4, Zenon
<1>7. ASSUME NEW g \in BOOLEAN, Add(doc, g), ts < agg.timeStart
      PROVE  Adds(doc)
  BY <1>7, Zenon DEF Add, Adds
<1>8. Adds(doc)
  <2>1. PICK g \in BOOLEAN : Add(doc, g)
    BY Zenon DEF Parse
  <2>2. ts < agg.timeStart \/ ts >= agg.timeStart
    BY <1>5
  <2> QED
    BY <1>6, <1>7, <2>1, <2>2, Zenon
<1> QED
  BY <1>2, <1>3, <1>4, <1>8, Zenon DEF Parse, MonVars

\* The start of the interval and the timer stay within the run.
LEMMA AggTypeNext == Inv /\ [Next]_vars => AggType'
<1> SUFFICES ASSUME Inv, [Next]_vars PROVE AggType'
  OBVIOUS
<1>1. Changes /\ AggType /\ now \in 0..MaxTime
  BY NextChanges, Zenon DEF Inv, Types, ClockType
<1>2. ASSUME NEW t \in 0..MaxTime
      PROVE  /\ Truncate(t) \in 0..MaxTime /\ now + Interval \in 0..None /\ None \in 0..None
  BY <1>1, TruncateInterval, MongoAssumption DEF None
<1>3. CASE Start
  BY <1>1, <1>2, <1>3, Zenon DEF AggType, Start, StartAggregator, NewAggregator
<1>4. CASE TimerFires \/ AggTick \/ AggDone
  BY <1>1, <1>2, <1>4, Zenon DEF AggType, TimerFires, AggTick, AggDone
<1>5. CASE AggFlush
  <2>1. agg' = [agg EXCEPT !.timeStart = Truncate(now), !.stats = {}, !.pc = "select"]
    BY <1>5, Zenon DEF AggFlush, FlushedAgg
  <2> QED
    BY <1>1, <1>2, <2>1, Zenon DEF AggType
<1>6. ASSUME NEW d \in Dbs, Parse(d) PROVE AggType'
  <2> DEFINE doc == Head(mon[d].docsChan)
             ts  == written[doc].ts
  <2>1. Adds(doc) /\ doc \in 1..MaxDocs /\ ts \in 0..MaxTime
    BY <1>6, ParseAdds, TailOf, Zenon
  <2>2. ASSUME NEW s \in 0..MaxTime, NEW k \in SUBSET (1..MaxDocs), NEW g \in SUBSET {doc}, NEW b,
               Takes(s, k, g, b)
        PROVE  AggType'
    <3>1. k \union g \in SUBSET (1..MaxDocs) /\ now + Interval \in 0..None
      BY <1>2, <2>1, Zenon
    <3> QED
      BY <1>1, <2>2, <3>1, Zenon DEF AggType, Takes
  <2>3. agg.timeStart \in 0..MaxTime /\ agg.stats \in SUBSET (1..MaxDocs) /\ Truncate(ts) \in 0..MaxTime
    BY <1>1, <1>2, <2>1, Zenon DEF AggType
  <2>4. CASE agg' = agg
    BY <1>1, <2>4, Zenon DEF AggType
  <2> QED
    BY <2>1, <2>2, <2>3, <2>4, Zenon DEF Adds
<1>7. CASE agg' = agg
  BY <1>1, <1>7, Zenon DEF AggType
<1> QED
  BY <1>1, <1>3, <1>4, <1>5, <1>6, <1>7, Zenon DEF Changes, Aggregator

\* reportChan and the spool hold reports.
LEMMA MadeTypeNext == Inv /\ [Next]_vars => MadeType'
<1> SUFFICES ASSUME Inv, [Next]_vars PROVE MadeType'
  OBVIOUS
<1>1. Changes /\ AggType /\ MadeType
  BY NextChanges, Zenon DEF Inv, Types
<1>2. FlushedReports \in Seq(Report)
  <2>1. [start |-> agg.timeStart, docs |-> agg.stats] \in Report
    BY <1>1, Zenon DEF AggType, Report
  <2> QED
    BY <1>1, <2>1, AppendOf, Zenon DEF MadeType, FlushedReports
<1>3. CASE AggFlush
  BY <1>1, <1>2, <1>3, Zenon DEF MadeType, AggFlush
<1>4. CASE Send
  <2>1. /\ reports # <<>> /\ reports' = Tail(reports)
        /\ spooled' = Append(spooled, Head(reports)) \/ spooled' = spooled
    BY <1>4, Zenon DEF Send
  <2> QED
    BY <1>1, <2>1, TailOf, AppendOf, SMTT(30) DEF MadeType
<1>5. ASSUME NEW d \in Dbs, Parse(d) PROVE MadeType'
  <2>1. spooled' = spooled /\ Adds(Head(mon[d].docsChan))
    BY <1>5, ParseAdds, Zenon
  <2>2. reports' = reports \/ reports' = FlushedReports
    BY <2>1, Zenon DEF Adds
  <2> QED
    BY <1>1, <1>2, <2>1, <2>2, Zenon DEF MadeType
<1>6. CASE reports' = reports /\ spooled' = spooled
  BY <1>1, <1>6, Zenon DEF MadeType
<1> QED
  BY <1>1, <1>3, <1>4, <1>5, <1>6, Zenon DEF Changes

\* What becomes of documents is recorded of documents.
LEMMA FateTypeNext == Inv /\ [Next]_vars => FateType'
<1> SUFFICES ASSUME Inv, [Next]_vars PROVE FateType'
  OBVIOUS
<1>1. Changes /\ FateType /\ AggType /\ MadeType /\ MonType /\ now \in Nat
  BY NextChanges DEF Inv, Types, ClockType
<1>2. CASE AggFlush
  BY <1>1, <1>2, Zenon DEF FateType, Fate, AggFlush
<1>3. CASE Send
  <2>1. Head(reports).docs \in SUBSET (1..MaxDocs)
    <3>1. Head(reports) \in Report
      BY <1>1, <1>3, TailOf, Zenon DEF Send, MadeType
    <3> QED
      BY <3>1, Zenon DEF Report
  <2>2. hist' = hist \/ hist' = [hist EXCEPT !.lost = @ \union Head(reports).docs]
    BY <1>3, Zenon DEF Send
  <2> QED
    BY <1>1, <2>1, <2>2, Zenon DEF FateType, Fate
<1>4. ASSUME NEW d \in Dbs, Parse(d) PROVE FateType'
  <2> DEFINE doc == Head(mon[d].docsChan)
             ts  == written[doc].ts
  <2>1. Adds(doc) /\ doc \in 1..MaxDocs /\ ts \in 0..MaxTime
    BY <1>4, ParseAdds, TailOf, Zenon
  <2>2. ASSUME NEW s \in Nat, NEW k, NEW g, NEW b \in SUBSET {doc}, Takes(s, k, g, b)
        PROVE  FateType'
    BY <1>1, <2>1, <2>2, Zenon DEF FateType, Fate, Takes
  <2>3. agg.timeStart \in Nat /\ Truncate(ts) \in Nat
    BY <1>1, <2>1, TruncateInterval DEF AggType
  <2>4. CASE hist' = [hist EXCEPT !.skipped = @ \union {doc}]
    BY <1>1, <2>1, <2>4, Zenon DEF FateType, Fate
  <2> QED
    BY <2>1, <2>2, <2>3, <2>4, Zenon DEF Adds
<1>5. ASSUME NEW d \in Dbs, ParserEnds(d) PROVE FateType'
  <2>1. Range(mon[d].docsChan) \in SUBSET (1..MaxDocs)
    <3>1. mon[d].docsChan \in Seq(1..MaxDocs)
      BY <1>1, Zenon DEF MonType, Monitor
    <3> DEFINE chan == mon[d].docsChan
    <3>2. \A k \in DOMAIN chan : chan[k] \in 1..MaxDocs
      BY <3>1, ElementOf, Zenon
    <3> QED
      BY <3>2, Zenon DEF Range
  <2>2. hist' = [hist EXCEPT !.dropped = @ \union Range(mon[d].docsChan)]
    BY <1>5, Zenon DEF ParserEnds
  <2> QED
    BY <1>1, <2>1, <2>2, Zenon DEF FateType, Fate
<1>6. CASE hist' = hist
  BY <1>1, <1>6, Zenon DEF FateType
<1> QED
  BY <1>1, <1>2, <1>3, <1>4, <1>5, <1>6, Zenon DEF Changes, Parser
-----------------------------------------------------------------------------
(***************************************************************************)
(* Who has a monitor.                                                      *)
(***************************************************************************)
LEMMA UnstartedNext == Inv /\ [Next]_vars => Unstarted'
<1> SUFFICES ASSUME Inv, [Next]_vars, svc' = "new" PROVE Unstarted'
  BY Zenon DEF Unstarted
<1>1. Changes /\ MonsType /\ MonType /\ Monitored /\ Unstarted
  BY NextChanges, Zenon DEF Inv, Types
<1>2. svc = "new" /\ svc' = svc
  BY <1>1, Zenon DEF Changes, Start, Started, Stop, StopAggregator, AggDone, SenderEnds
<1>3. mons.pc = "off" /\ mons.map = {} /\ agg.pc = "off"
  BY <1>1, <1>2, Zenon DEF Unstarted
<1>4. \A d \in Dbs : mon[d] = NoMonitor
  BY <1>1, <1>3, Zenon DEF Monitored
<1>5. mons' = mons
  BY <1>1, <1>2, <1>3, Zenon DEF Changes, Start, StopAggregator, MonitorAll, MonitorStarted, MonitorsReady,
        Refresh, StopAll, StartMonitor, StopMonitor, CollectorEnds, ParserEnds, Stopping
<1>6. ASSUME NEW d \in Dbs PROVE ~Collect(d) /\ ~Parse(d)
  <2>1. mon[d].collector = "off" /\ mon[d].parser = "off"
    BY <1>4 DEF NoMonitor
  <2> QED
    BY <2>1, Zenon DEF Collect, Parse
<1>7. ~Send /\ ~AggFlush /\ ~Start
  BY <1>2, <1>3, Zenon DEF Send, AggFlush, Start
<1>8. written' = written /\ spooled' = spooled /\ reports' = reports
  BY <1>1, <1>6, <1>7, Zenon DEF Changes
<1>9. agg'.pc = "off"
  <2>1. ~AggTick /\ ~AggDone
    BY <1>3, Zenon DEF AggTick, AggDone
  <2>2. agg' = agg \/ TimerFires
    BY <1>1, <1>6, <1>7, <2>1, Zenon DEF Changes, Aggregator
  <2>3. AggType
    BY Zenon DEF Inv, Types
  <2> QED
    BY <1>3, <2>2, <2>3, Zenon DEF TimerFires, AggType
<1> QED
  BY <1>1, <1>2, <1>3, <1>5, <1>8, <1>9, Zenon DEF Unstarted

\* MonitorAll, monitor.Start and monitor.Stop keep the map and the monitors in
\* step: outside the map only the one being started runs.
LEMMA MonitoredNext == Inv /\ [Next]_vars => Monitored'
<1> SUFFICES ASSUME Inv, [Next]_vars PROVE Monitored'
  OBVIOUS
<1>1. Changes /\ MonsType /\ MonType /\ Monitored
  BY NextChanges, Zenon DEF Inv, Types
<1>2. CASE MonitorStarted
  <2>1. /\ mons.pc = "starting" /\ mons'.pc = "each" /\ mons'.map = mons.map \union {mons.db}
        /\ mon' = [mon EXCEPT ![mons.db] = StartParser(@)]
    BY <1>1, <1>2, Zenon DEF MonitorStarted, MonsType
  <2>2. \A d \in Dbs : d # mons.db => mon'[d] = mon[d]
    BY <1>1, <2>1, Zenon DEF MonType
  <2> QED
    BY <1>1, <2>1, <2>2, Zenon DEF Monitored
<1>3. ASSUME NEW e \in Dbs, StartMonitor(e) PROVE Monitored'
  <2>1. /\ mons.pc = "each" /\ mons'.pc = "starting" /\ mons'.map = mons.map /\ mons'.db = e
        /\ mon' = [mon EXCEPT ![e] = StartCollector(NoMonitor)]
    BY <1>1, <1>3, Zenon DEF StartMonitor, MonsType
  <2>2. \A d \in Dbs : d # e => mon'[d] = mon[d]
    BY <1>1, <2>1, Zenon DEF MonType
  <2> QED
    BY <1>1, <2>1, <2>2, Zenon DEF Monitored
<1>4. ASSUME NEW e \in Dbs, ParserEnds(e) PROVE Monitored'
  <2>1. /\ mons.pc = "stoppingParser" /\ mons'.pc \in {"all", "each"} /\ mons'.map = mons.map \ {e}
        /\ mon' = [mon EXCEPT ![e] = NoMonitor]
    BY <1>1, <1>4, Zenon DEF ParserEnds, Stopping, MonsType
  <2>2. mon'[e] = NoMonitor /\ \A d \in Dbs : d # e => mon'[d] = mon[d]
    BY <1>1, <2>1, Zenon DEF MonType
  <2> QED
    BY <1>1, <2>1, <2>2, Zenon DEF Monitored
<1>5. ASSUME NEW e \in Dbs, CollectorEnds(e) PROVE Monitored'
  <2>1. /\ mons.pc = "stoppingCollector" /\ mons.db = e
        /\ mons'.pc = "stoppingParser" /\ mons'.map = mons.map /\ mons'.db = e
        /\ mon[e].collector # "off"
        /\ mon' = [mon EXCEPT ![e].collector = "off"]
    BY <1>1, <1>5, Zenon DEF CollectorEnds, Stopping, MonsType
  <2>2. \A d \in Dbs : d # e => mon'[d] = mon[d]
    BY <1>1, <2>1, Zenon DEF MonType
  <2>3. mon[e] # NoMonitor
    BY <2>1 DEF NoMonitor
  <2> QED
    BY <1>1, <2>1, <2>2, <2>3, Zenon DEF Monitored
<1>6. ASSUME NEW e \in Dbs,
             Connect(e) \/ Collect(e) \/ CollectBreaks(e) \/ Reconnect(e) \/ Parse(e)
      PROVE  Monitored'
  <2>1. /\ mons' = mons /\ (mon[e].collector # "off" \/ mon[e].parser # "off")
        /\ \E m : mon' = [mon EXCEPT ![e] = m]
    BY <1>6, Zenon DEF Connect, Collect, CollectBreaks, Reconnect, Parse, MonVars
  <2>2. \A d \in Dbs : d # e => mon'[d] = mon[d]
    BY <1>1, <2>1, Zenon DEF MonType
  <2>3. mon[e] # NoMonitor
    BY <2>1 DEF NoMonitor
  <2> QED
    BY <1>1, <2>1, <2>2, <2>3, Zenon DEF Monitored
<1>7. CASE mon' = mon /\ (Start \/ StopAggregator \/ MonitorAll \/ MonitorsReady \/ Refresh \/ StopAll)
  <2>1. mons.pc # "starting" /\ mons'.map = mons.map
        /\ mons'.pc \notin {"starting", "stoppingCollector", "stoppingParser"}
    BY <1>1, <1>7, Zenon DEF Start, StopAggregator, MonitorAll, MonitorsReady, Refresh, StopAll, MonsType, Inv, Unstarted
  <2> QED
    BY <1>1, <1>7, <2>1, Zenon DEF Monitored
<1>8. ASSUME mon' = mon, NEW e \in Dbs, StopMonitor(e) PROVE Monitored'
  <2>1. mons.pc # "starting" /\ mons'.map = mons.map /\ mons'.pc = "stoppingCollector" /\ mons'.db = e
    BY <1>1, <1>8, Zenon DEF StopMonitor, MonsType
  <2> QED
    BY <1>1, <1>8, <2>1, Zenon DEF Monitored
<1>9. CASE mon' = mon /\ mons' = mons
  BY <1>1, <1>9, Zenon DEF Monitored
<1> QED
  BY <1>1, <1>2, <1>3, <1>4, <1>5, <1>6, <1>7, <1>8, <1>9, Zenon DEF Changes, Collector, Parser
-----------------------------------------------------------------------------
(***************************************************************************)
(* Where the documents are.                                                *)
(***************************************************************************)
\* A step that moves no document and leaves the interval as it is.
Quiet ==
  /\ UNCHANGED <<written, reports, spooled, hist>> /\ now' \in Nat /\ now <= now'
  /\ agg'.stats = agg.stats /\ agg'.timeStart = agg.timeStart
  /\ agg' = agg \/ TimerFires \/ AggTick \/ AggDone
  /\ \A d \in Dbs : mon'[d].docsChan = mon[d].docsChan

\* All steps but those of the pipeline (collector, parser, flush, sender) and
\* Start are quiet.
LEMMA QuietStep ==
  Inv /\ [Next]_vars => \/ Quiet \/ Start \/ AggFlush \/ Send
                        \/ \E d \in Dbs : Collect(d) \/ Parse(d) \/ ParserEnds(d)
<1> SUFFICES ASSUME Inv, [Next]_vars, ~Start, ~AggFlush, ~Send,
                    \A d \in Dbs : ~Collect(d) /\ ~Parse(d) /\ ~ParserEnds(d)
             PROVE  Quiet
  BY Zenon
<1>1. Changes /\ MonType /\ AggType /\ Monitored /\ now \in Nat
  BY NextChanges DEF Inv, Types, ClockType
<1>2. UNCHANGED <<written, reports, spooled, hist>>
  BY <1>1, Zenon DEF Changes, Parser
<1>3. now' \in Nat /\ now <= now'
  BY <1>1 DEF Changes, TimePasses
<1>4. agg' = agg \/ TimerFires \/ AggTick \/ AggDone
  BY <1>1, Zenon DEF Changes, Aggregator
<1>5. agg'.stats = agg.stats /\ agg'.timeStart = agg.timeStart
  BY <1>1, <1>4, Zenon DEF AggType, TimerFires, AggTick, AggDone
<1>6. ASSUME NEW d \in Dbs PROVE mon'[d].docsChan = mon[d].docsChan
  <2>1. CASE MonitorStarted
    <3>1. mon' = [mon EXCEPT ![mons.db] = StartParser(mon[mons.db])] /\ mons.db \in Dbs
      BY <1>1, <2>1, Zenon DEF MonitorStarted, Monitored
    <3> QED
      BY <1>1, <3>1, Zenon DEF StartParser, MonType, Monitor
  <2>2. ASSUME NEW e \in Dbs, StartMonitor(e) PROVE mon'[d].docsChan = mon[d].docsChan
    <3>1. mon' = [mon EXCEPT ![e] = StartCollector(NoMonitor)] /\ mons.pc = "each" /\ e \notin mons.map
      BY <2>2, Zenon DEF StartMonitor
    <3>2. mon[e] = NoMonitor
      BY <1>1, <3>1, Zenon DEF Monitored
    <3>3. StartCollector(NoMonitor).docsChan = NoMonitor.docsChan
      BY Zenon DEF StartCollector, NoMonitor
    <3> QED
      BY <1>1, <3>1, <3>2, <3>3, Zenon DEF MonType
  <2>3. ASSUME NEW e \in Dbs, Connect(e) \/ CollectBreaks(e) \/ Reconnect(e) \/ CollectorEnds(e)
        PROVE  mon'[d].docsChan = mon[d].docsChan
    BY <1>1, <2>3 DEF MonType, Monitor, Connect, CollectBreaks, Reconnect, CollectorEnds
  <2>4. CASE mon' = mon
    BY <2>4, Zenon
  <2> QED
    BY <1>1, <2>1, <2>2, <2>3, <2>4, Zenon DEF Changes, Collector, Parser
<1> QED
  BY <1>2, <1>3, <1>4, <1>5, <1>6, Zenon DEF Quiet

\* The documents of a docsChan, and those of several reports.
LEMMA InWaiting ==
  ASSUME NEW m
  PROVE  \A x : x \in WaitingIn(m) <=> \E d \in Dbs : \E k \in DOMAIN m[d].docsChan : x = m[d].docsChan[k]
<1>1. \A x : x \in WaitingIn(m) <=> \E d \in Dbs : x \in Range(m[d].docsChan)
  BY Zenon DEF WaitingIn
<1>2. \A f, x : x \in Range(f) <=> \E k \in DOMAIN f : x = f[k]
  BY Zenon DEF Range
<1> QED
  BY <1>1, <1>2

\* The documents of reports are those of one of them.
LEMMA InDocsOf ==
  ASSUME NEW rs
  PROVE  \A x : x \in DocsOf(rs) <=> \E i \in DOMAIN rs : x \in rs[i].docs
BY Zenon DEF DocsOf

\* A step that leaves all docsChans as they are.
LEMMA WaitingSame ==
  ASSUME ChanInOrder, written' = written, \A d \in Dbs : mon'[d].docsChan = mon[d].docsChan
  PROVE  ChanInOrder' /\ Waiting' = Waiting
<1>1. ChanInOrder'
  BY Zenon DEF ChanInOrder
<1>2. \A x : x \in Waiting' <=> x \in Waiting
  BY Zenon DEF Waiting, WaitingIn
<1> QED
  BY <1>1, <1>2, Zenon

\* Quiet steps leave the documents where they are.
LEMMA QuietDocs ==
  ASSUME Inv, Quiet
  PROVE  ChanInOrder' /\ EachOnce' /\ AllApart'
<1>1. ChanInOrder' /\ Waiting' = Waiting
  BY WaitingSame, Zenon DEF Inv, Quiet
<1>2. EachOnce'
  BY <1>1, Zenon DEF Inv, Quiet, EachOnce, DocsOf
<1>3. AllApart'
  BY DEF Inv, Quiet, AllApart, Apart
<1> QED
  BY <1>1, <1>2, <1>3, Zenon

\* Start leaves them there too: there are none yet.
LEMMA StartDocs ==
  ASSUME Inv, Start
  PROVE  ChanInOrder' /\ EachOnce' /\ AllApart'
<1>1. UNCHANGED <<written, mon, reports, spooled, hist>> /\ svc = "new" /\ agg'.stats = {}
  BY Zenon DEF Start, StartAggregator, NewAggregator
<1>2. ChanInOrder' /\ Waiting' = Waiting
  BY <1>1, WaitingSame, Zenon DEF Inv
<1>3. agg.stats = {}
  <2>1. 1..Len(written) = {}
    BY <1>1 DEF Inv, Unstarted
  <2> QED
    BY <2>1, Zenon DEF Inv, EachOnce, Once
<1>4. EachOnce'
  BY <1>1, <1>2, <1>3, Zenon DEF Inv, EachOnce, DocsOf
<1>5. AllApart'
  BY <1>1 DEF Inv, AllApart, Apart
<1> QED
  BY <1>2, <1>4, <1>5, Zenon

\* Collect: the new document is the last of its docsChan.
LEMMA CollectChan ==
  ASSUME Inv, NEW d \in Dbs, Collect(d)
  PROVE  LET n == Len(written) IN
         /\ n \in Nat /\ DOMAIN written = 1..n /\ DOMAIN written' = 1..(n + 1) /\ Len(written') = n + 1
         /\ written'[n + 1] = [db |-> d, ts |-> now]
         /\ \A x \in 1..n : written'[x] = written[x]
         /\ mon[d].docsChan \in Seq(1..MaxDocs)
         /\ mon'[d].docsChan = Append(mon[d].docsChan, n + 1) /\ n + 1 \in 1..MaxDocs
         /\ \A e \in Dbs : e # d => mon'[e].docsChan = mon[e].docsChan
<1> DEFINE n == Len(written)
           R == [db : Dbs, ts : 0..MaxTime]
<1>1. MonType /\ ClockType /\ DocsType
  BY Zenon DEF Inv, Types
<1>2. written' = Append(written, [db |-> d, ts |-> now]) /\ left.docs > 0
  BY Zenon DEF Collect
<1>3. [db |-> d, ts |-> now] \in R /\ written \in Seq(R)
  BY <1>1, Zenon DEF ClockType, DocsType
<1>4. /\ n \in Nat /\ DOMAIN written = 1..n /\ DOMAIN written' = 1..(n + 1) /\ Len(written') = n + 1
      /\ written'[n + 1] = [db |-> d, ts |-> now]
      /\ \A x \in 1..n : written'[x] = written[x]
  <2> HIDE DEF R
  <2>1. /\ n \in Nat /\ DOMAIN written = 1..n /\ DOMAIN written' = 1..(n + 1)
        /\ written'[n + 1] = [db |-> d, ts |-> now]
        /\ \A x \in 1..n : written'[x] = written[x]
    BY <1>2, <1>3, AppendOf
  <2>2. Len(written') = n + 1
    BY <1>2, <1>3
  <2> QED
    BY <2>1, <2>2, Zenon
<1>5. n + 1 \in 1..MaxDocs
  BY <1>1, <1>2, <1>4, MongoAssumption DEF ClockType, DocsType
<1>6. mon' = [mon EXCEPT ![d].docsChan = Append(@, n + 1)]
  BY <1>4, Zenon DEF Collect
<1> QED
  BY <1>1, <1>4, <1>5, <1>6, Zenon DEF MonType, Monitor

\* Collect puts the new document in one place.
LEMMA CollectDocs ==
  ASSUME Inv, NEW d \in Dbs, Collect(d)
  PROVE  ChanInOrder' /\ EachOnce' /\ AllApart'
<1> DEFINE n    == Len(written)
           chan == mon[d].docsChan
<1>1. /\ n \in Nat /\ DOMAIN written = 1..n /\ DOMAIN written' = 1..(n + 1) /\ Len(written') = n + 1
      /\ written'[n + 1] = [db |-> d, ts |-> now]
      /\ \A x \in 1..n : written'[x] = written[x]
      /\ chan \in Seq(1..MaxDocs)
      /\ mon'[d].docsChan = Append(chan, n + 1) /\ n + 1 \in 1..MaxDocs
      /\ \A e \in Dbs : e # d => mon'[e].docsChan = mon[e].docsChan
  BY CollectChan, Zenon
<1>2. UNCHANGED <<agg, reports, spooled, hist>> /\ ChanInOrder /\ EachOnce /\ AllApart
  BY Zenon DEF Collect, MonVars, Inv
<1>3. /\ Len(chan) \in Nat /\ DOMAIN chan = 1..Len(chan) /\ DOMAIN mon'[d].docsChan = 1..(Len(chan) + 1)
      /\ mon'[d].docsChan[Len(chan) + 1] = n + 1
      /\ \A k \in DOMAIN chan : mon'[d].docsChan[k] = chan[k]
  BY <1>1, AppendOf
<1>4. \A k \in DOMAIN chan : chan[k] \in 1..n /\ written[chan[k]].db = d
  BY <1>1, <1>2, Zenon DEF ChanInOrder
<1>5. ChanInOrder'
  <2>1. ASSUME NEW e \in Dbs, e # d
        PROVE  /\ \A k \in DOMAIN mon'[e].docsChan :
                    mon'[e].docsChan[k] \in DOMAIN written' /\ written'[mon'[e].docsChan[k]].db = e
               /\ \A k, l \in DOMAIN mon'[e].docsChan : k < l => mon'[e].docsChan[k] < mon'[e].docsChan[l]
    <3>1. mon'[e].docsChan = mon[e].docsChan
      BY <1>1, <2>1, Zenon
    <3>2. \A k \in DOMAIN mon[e].docsChan : mon[e].docsChan[k] \in 1..n /\ written[mon[e].docsChan[k]].db = e
      BY <1>1, <1>2, Zenon DEF ChanInOrder
    <3> QED
      BY <1>1, <1>2, <3>1, <3>2 DEF ChanInOrder
  <2>2. \A k \in DOMAIN mon'[d].docsChan :
          mon'[d].docsChan[k] \in DOMAIN written' /\ written'[mon'[d].docsChan[k]].db = d
    <3> TAKE k \in DOMAIN mon'[d].docsChan
    <3>1. CASE k \in DOMAIN chan
      BY <1>1, <1>3, <1>4, <3>1
    <3>2. CASE k = Len(chan) + 1
      BY <1>1, <1>3, <3>2
    <3> QED
      BY <1>3, <3>1, <3>2, SMTT(30)
  <2>3. \A k, l \in DOMAIN mon'[d].docsChan : k < l => mon'[d].docsChan[k] < mon'[d].docsChan[l]
    <3> TAKE k, l \in DOMAIN mon'[d].docsChan
    <3>1. HAVE k < l
    <3>2. k \in DOMAIN chan /\ mon'[d].docsChan[k] = chan[k]
      BY <1>3, <3>1, SMTT(30)
    <3>3. CASE l \in DOMAIN chan
      BY <1>2, <1>3, <3>1, <3>2, <3>3, Zenon DEF ChanInOrder
    <3>4. CASE l = Len(chan) + 1
      BY <1>1, <1>3, <1>4, <3>2, <3>4
    <3> QED
      BY <1>3, <3>3, <3>4
  <2> QED
    BY <2>1, <2>2, <2>3, ZenonT(30) DEF ChanInOrder
<1>6. Waiting' = Waiting \union {n + 1}
  <2>1. ASSUME NEW x PROVE x \in Waiting' <=> x \in Waiting \/ x = n + 1
    <3>1. x \in Waiting' <=> \E e \in Dbs : \E k \in DOMAIN mon'[e].docsChan : x = mon'[e].docsChan[k]
      BY InWaiting DEF Waiting
    <3>2. \A e \in Dbs : e # d => ((\E k \in DOMAIN mon'[e].docsChan : x = mon'[e].docsChan[k])
                                   <=> (\E k \in DOMAIN mon[e].docsChan : x = mon[e].docsChan[k]))
      BY <1>1, Zenon
    <3>3. (\E k \in DOMAIN mon'[d].docsChan : x = mon'[d].docsChan[k])
          <=> (\E k \in DOMAIN chan : x = chan[k]) \/ x = n + 1
      <4>1. \A k : k \in DOMAIN mon'[d].docsChan <=> k \in DOMAIN chan \/ k = Len(chan) + 1
        BY <1>3
      <4> QED
        BY <1>3, <4>1, Zenon
    <3> QED
      BY <3>1, <3>2, <3>3, InWaiting DEF Waiting
  <2> QED
    BY <2>1, Zenon
<1>7. EachOnce'
  BY <1>1, <1>2, <1>6, OnceWritten DEF EachOnce, DocsOf
<1>8. AllApart'
  BY <1>2 DEF AllApart, Apart
<1> QED
  BY <1>5, <1>7, <1>8, Zenon

\* Parse: a document that is taken from its docsChan waits in no other.
LEMMA ParseChan ==
  ASSUME Inv, NEW d \in Dbs, Parse(d)
  PROVE  LET doc == Head(mon[d].docsChan) IN
         /\ ChanInOrder' /\ Waiting' = Waiting \ {doc} /\ doc \in Waiting
         /\ \A e \in Dbs : e # d => mon'[e].docsChan = mon[e].docsChan
         /\ \A k \in DOMAIN mon'[d].docsChan : doc < mon'[d].docsChan[k]
<1> DEFINE chan == mon[d].docsChan
           doc  == Head(chan)
<1>1. /\ chan \in Seq(1..MaxDocs) /\ chan # <<>> /\ doc \in DOMAIN written /\ written[doc].db = d
      /\ mon' = [mon EXCEPT ![d].docsChan = Tail(@)] /\ written' = written
  BY ParseAdds, Zenon
<1>2. MonType /\ ChanInOrder
  BY Zenon DEF Inv, Types
<1>3. mon'[d].docsChan = Tail(chan) /\ \A e \in Dbs : e # d => mon'[e].docsChan = mon[e].docsChan
  BY <1>1, <1>2, Zenon DEF MonType, Monitor
<1>4. /\ doc = chan[1] /\ 1 \in DOMAIN chan /\ DOMAIN chan = 1..Len(chan) /\ Len(chan) \in Nat
      /\ DOMAIN Tail(chan) = 1..(Len(chan) - 1)
      /\ \A k \in DOMAIN Tail(chan) : k + 1 \in DOMAIN chan /\ Tail(chan)[k] = chan[k + 1]
  BY <1>1, TailOf, Zenon
<1>5. /\ \A k \in DOMAIN chan : chan[k] \in DOMAIN written /\ written[chan[k]].db = d
      /\ \A k, l \in DOMAIN chan : k < l => chan[k] < chan[l]
      /\ \A k \in DOMAIN chan : chan[k] \in Nat
  <2>1. \A k \in DOMAIN chan : chan[k] \in 1..MaxDocs
    BY <1>1, ElementOf, Zenon
  <2> QED
    BY <1>2, <2>1 DEF ChanInOrder
<1> HIDE DEF chan, doc
<1>6. \A k \in DOMAIN Tail(chan) : doc < Tail(chan)[k]
  BY <1>4, <1>5
<1>7. ChanInOrder'
  <2>1. ASSUME NEW e \in Dbs, e # d
        PROVE  /\ \A k \in DOMAIN mon'[e].docsChan :
                    mon'[e].docsChan[k] \in DOMAIN written' /\ written'[mon'[e].docsChan[k]].db = e
               /\ \A k, l \in DOMAIN mon'[e].docsChan : k < l => mon'[e].docsChan[k] < mon'[e].docsChan[l]
    BY <1>1, <1>2, <1>3, <2>1 DEF ChanInOrder
  <2>2. \A k \in DOMAIN Tail(chan) : Tail(chan)[k] \in DOMAIN written /\ written[Tail(chan)[k]].db = d
    BY <1>4, <1>5, Zenon
  <2>3. \A k, l \in DOMAIN Tail(chan) : k < l => Tail(chan)[k] < Tail(chan)[l]
    BY <1>4, <1>5
  <2> QED
    BY <1>1, <1>3, <2>1, <2>2, <2>3, SMTT(30) DEF ChanInOrder
<1>8. ASSUME NEW x PROVE x \in Waiting' <=> x \in Waiting /\ x # doc
  <2>1. x \in Waiting' <=> \E e \in Dbs : \E k \in DOMAIN mon'[e].docsChan : x = mon'[e].docsChan[k]
    BY InWaiting DEF Waiting
  <2>2. ASSUME NEW e \in Dbs, e # d
        PROVE  (\E k \in DOMAIN mon'[e].docsChan : x = mon'[e].docsChan[k])
               <=> (\E k \in DOMAIN mon[e].docsChan : x = mon[e].docsChan[k]) /\ x # doc
    <3>1. \A k \in DOMAIN mon[e].docsChan : written[mon[e].docsChan[k]].db = e
      BY <1>2, Zenon DEF ChanInOrder
    <3> QED
      BY <1>1, <1>3, <2>2, <3>1, ZenonT(30)
  <2>3. (\E k \in DOMAIN Tail(chan) : x = Tail(chan)[k])
        <=> (\E k \in DOMAIN chan : x = chan[k]) /\ x # doc
    <3>1. ASSUME NEW k \in DOMAIN chan, x = chan[k], x # doc
          PROVE  \E l \in DOMAIN Tail(chan) : x = Tail(chan)[l]
      <4>1. k - 1 \in DOMAIN Tail(chan) /\ (k - 1) + 1 = k
        BY <1>4, <3>1
      <4> QED
        BY <1>4, <3>1, <4>1, Zenon
    <3>2. ASSUME NEW k \in DOMAIN Tail(chan), x = Tail(chan)[k]
          PROVE  (\E l \in DOMAIN chan : x = chan[l]) /\ x # doc
      <4>1. chan[k + 1] = x /\ k + 1 \in DOMAIN chan /\ doc < x /\ doc \in Nat
        BY <1>4, <1>5, <1>6, <3>2, Zenon
      <4> QED
        BY <4>1
    <3> QED
      BY <3>1, <3>2, Zenon
  <2>4. x \in Waiting <=> \E e \in Dbs : \E k \in DOMAIN mon[e].docsChan : x = mon[e].docsChan[k]
    BY InWaiting DEF Waiting
  <2>5. (\E k \in DOMAIN mon'[d].docsChan : x = mon'[d].docsChan[k])
        <=> (\E k \in DOMAIN mon[d].docsChan : x = mon[d].docsChan[k]) /\ x # doc
    BY <1>3, <2>3, Zenon DEF chan
  <2>6. CASE \E k \in DOMAIN mon[d].docsChan : x = mon[d].docsChan[k]
    <3>1. \A e \in Dbs : e # d => ~\E k \in DOMAIN mon[e].docsChan : x = mon[e].docsChan[k]
      BY <1>2, <2>6 DEF ChanInOrder
    <3> QED
      BY <2>1, <2>2, <2>4, <2>5, <2>6, <3>1, Zenon
  <2>7. CASE ~\E k \in DOMAIN mon[d].docsChan : x = mon[d].docsChan[k]
    BY <2>1, <2>2, <2>4, <2>5, <2>7, Zenon
  <2> QED
    BY <2>6, <2>7, Zenon
<1>9. doc \in Waiting
  BY <1>4, InWaiting, Zenon DEF Waiting, chan
<1>10. Waiting' = Waiting \ {doc}
  BY <1>8, Zenon
<1> QED
  BY <1>3, <1>6, <1>7, <1>9, <1>10, Zenon DEF chan, doc

\* ParserEnds: what waits in the docsChan of the monitor is dropped.
LEMMA ParserEndsDocs ==
  ASSUME Inv, NEW d \in Dbs, ParserEnds(d)
  PROVE  ChanInOrder' /\ EachOnce' /\ AllApart'
<1>1. MonType /\ ChanInOrder /\ EachOnce /\ AllApart /\ FateType
  BY Zenon DEF Inv, Types
<1>2. /\ mon' = [mon EXCEPT ![d] = NoMonitor] /\ UNCHANGED <<written, agg, reports, spooled>>
      /\ hist' = [hist EXCEPT !.dropped = @ \union Range(mon[d].docsChan)]
  BY Zenon DEF ParserEnds, MonsVars
<1>3. mon'[d].docsChan = <<>> /\ \A e \in Dbs : e # d => mon'[e].docsChan = mon[e].docsChan
  BY <1>1, <1>2, Zenon DEF MonType, Monitor, NoMonitor
<1>4. DOMAIN mon'[d].docsChan = {}
  BY <1>3
<1>5. ChanInOrder'
  <2>1. ASSUME NEW e \in Dbs, e # d
        PROVE  /\ \A k \in DOMAIN mon'[e].docsChan :
                    mon'[e].docsChan[k] \in DOMAIN written' /\ written'[mon'[e].docsChan[k]].db = e
               /\ \A k, l \in DOMAIN mon'[e].docsChan : k < l => mon'[e].docsChan[k] < mon'[e].docsChan[l]
    BY <1>1, <1>2, <1>3, <2>1 DEF ChanInOrder
  <2> QED
    BY <1>4, <2>1, Zenon DEF ChanInOrder
<1>6. \A x : x \in Range(mon[d].docsChan) <=> \E k \in DOMAIN mon[d].docsChan : x = mon[d].docsChan[k]
  BY Zenon DEF Range
<1>7. ASSUME NEW x PROVE x \in Waiting' <=> x \in Waiting /\ x \notin Range(mon[d].docsChan)
  <2>1. x \in Waiting' <=> \E e \in Dbs : \E k \in DOMAIN mon'[e].docsChan : x = mon'[e].docsChan[k]
    BY InWaiting DEF Waiting
  <2>2. \A e \in Dbs : \A k \in DOMAIN mon[e].docsChan : written[mon[e].docsChan[k]].db = e
    BY <1>1, Zenon DEF ChanInOrder
  <2>3. ASSUME NEW e \in Dbs, e # d
        PROVE  (\E k \in DOMAIN mon'[e].docsChan : x = mon'[e].docsChan[k])
               <=> (\E k \in DOMAIN mon[e].docsChan : x = mon[e].docsChan[k]) /\ x \notin Range(mon[d].docsChan)
    BY <1>3, <1>6, <2>2, <2>3
  <2> QED
    BY <1>4, <1>6, <2>1, <2>3, InWaiting DEF Waiting
<1>8. Waiting' = Waiting \ Range(mon[d].docsChan) /\ Range(mon[d].docsChan) \in SUBSET Waiting
  BY <1>6, <1>7, InWaiting, Zenon DEF Waiting
<1>9. /\ hist'.dropped = hist.dropped \union Range(mon[d].docsChan) /\ hist'.raced = hist.raced
      /\ hist'.skipped = hist.skipped /\ hist'.bad = hist.bad /\ hist'.lost = hist.lost
  BY <1>1, <1>2, Zenon DEF FateType, Fate
<1>10. EachOnce'
  <2>1. Once(Len(written), Waiting \ Range(mon[d].docsChan), agg.stats, DocsOf(reports) \union DocsOf(spooled),
             hist.skipped, hist.bad, hist.lost, hist.dropped \union Range(mon[d].docsChan))
    BY <1>1, <1>8, OnceTaken, Zenon DEF EachOnce
  <2> QED
    BY <1>2, <1>8, <1>9, <2>1 DEF EachOnce, DocsOf
<1>11. AllApart'
  BY <1>1, <1>2, <1>9 DEF AllApart, Apart
<1> QED
  BY <1>5, <1>10, <1>11

\* flush: the new report has nothing in common with the others.
LEMMA FlushedApart ==
  ASSUME Inv, reports' = FlushedReports, spooled' = spooled, hist.raced \subseteq hist'.raced
  PROVE  AllApart' /\ DocsOf(reports') = DocsOf(reports) \union agg.stats
<1> DEFINE r == [start |-> agg.timeStart, docs |-> agg.stats]
           n == Len(reports)
<1>1. AllApart /\ EachOnce /\ MadeType /\ AggType /\ Intervals
  BY Zenon DEF Inv, Types
<1>2. \A p, q : Apart(p, q, hist.raced) => Apart(p, q, hist'.raced) /\ Apart(q, p, hist'.raced)
  BY Zenon DEF Apart
<1>3. CASE agg.stats = {}
  <2>1. reports' = reports
    BY <1>3, Zenon DEF FlushedReports
  <2> QED
    BY <1>1, <1>2, <1>3, <2>1, Zenon DEF AllApart, DocsOf
<1>4. CASE agg.stats # {}
  <2>1. reports' = Append(reports, r) /\ r \in Report /\ reports \in Seq(Report)
    BY <1>1, <1>4, Zenon DEF FlushedReports, AggType, Report, MadeType
  <2>2. /\ n \in Nat /\ DOMAIN reports = 1..n /\ DOMAIN reports' = 1..(n + 1) /\ reports'[n + 1] = r
        /\ \A i \in DOMAIN reports : reports'[i] = reports[i]
    BY <2>1, AppendOf
  <2> HIDE DEF n
  <2>3. \A i : i \in DOMAIN reports' <=> i \in DOMAIN reports \/ i = n + 1
    BY <2>2
  <2>4. ASSUME NEW q, q.docs \subseteq DocsOf(reports) \union DocsOf(spooled),
               NotLater(q, agg.timeStart, hist.raced)
        PROVE  Apart(q, r, hist.raced)
    <3>1. agg.stats \intersect (DocsOf(reports) \union DocsOf(spooled)) = {}
      BY <1>1, Zenon DEF EachOnce, Once
    <3> QED
      BY <2>4, <3>1, Zenon DEF Apart, NotLater
  <2>5. \A i \in DOMAIN reports : Apart(reports[i], r, hist.raced)
    BY <1>1, <2>4, InDocsOf, Zenon DEF Intervals
  <2>6. \A i \in DOMAIN spooled : Apart(spooled[i], r, hist.raced)
    BY <1>1, <2>4, InDocsOf, Zenon DEF Intervals
  <2>7. \A i, j \in DOMAIN reports' : i # j => Apart(reports'[i], reports'[j], hist'.raced)
    <3> TAKE i, j \in DOMAIN reports'
    <3>1. HAVE i # j
    <3>2. CASE i \in DOMAIN reports /\ j \in DOMAIN reports
      BY <1>1, <1>2, <2>2, <3>1, <3>2, Zenon DEF AllApart
    <3>3. CASE i = n + 1 /\ j \in DOMAIN reports
      BY <1>2, <2>2, <2>5, <3>3, Zenon
    <3>4. CASE i \in DOMAIN reports /\ j = n + 1
      BY <1>2, <2>2, <2>5, <3>4, Zenon
    <3> QED
      BY <2>3, <3>1, <3>2, <3>3, <3>4, Zenon
  <2>8. \A i \in DOMAIN reports' : \A j \in DOMAIN spooled' : Apart(reports'[i], spooled'[j], hist'.raced)
    <3> TAKE i \in DOMAIN reports'
    <3> TAKE j \in DOMAIN spooled'
    <3>1. CASE i \in DOMAIN reports
      BY <1>1, <1>2, <2>2, <3>1, Zenon DEF AllApart
    <3>2. CASE i = n + 1
      BY <1>2, <2>2, <2>6, <3>2, Zenon
    <3> QED
      BY <2>3, <3>1, <3>2, Zenon
  <2>9. \A i, j \in DOMAIN spooled' : i # j => Apart(spooled'[i], spooled'[j], hist'.raced)
    BY <1>1, <1>2, Zenon DEF AllApart
  <2>10. ASSUME NEW x PROVE x \in DocsOf(reports') <=> x \in DocsOf(reports) \/ x \in agg.stats
    <3>1. x \in DocsOf(reports') <=> \E i \in DOMAIN reports' : x \in reports'[i].docs
      BY InDocsOf, Zenon
    <3>2. (\E i \in DOMAIN reports' : x \in reports'[i].docs)
          <=> (\E i \in DOMAIN reports : x \in reports[i].docs) \/ x \in r.docs
      BY <2>2, <2>3, Zenon
    <3> QED
      BY <3>1, <3>2, InDocsOf, Zenon
  <2> QED
    BY <2>7, <2>8, <2>9, <2>10, Zenon DEF AllApart
<1> QED
  BY <1>3, <1>4, Zenon

\* Flush moves the aggregated documents to a report.
LEMMA AggFlushDocs ==
  ASSUME Inv, AggFlush
  PROVE  ChanInOrder' /\ EachOnce' /\ AllApart'
<1>1. ChanInOrder /\ EachOnce /\ AggType /\ FateType
  BY Zenon DEF Inv, Types
<1>2. /\ reports' = FlushedReports /\ UNCHANGED <<written, mon, spooled>>
      /\ agg' = [FlushedAgg(now) EXCEPT !.pc = "select"] /\ hist' = [hist EXCEPT !.flushed = now]
  BY Zenon DEF AggFlush
<1>3. agg'.stats = {}
  BY <1>1, <1>2, Zenon DEF FlushedAgg, AggType
<1>4. /\ hist'.skipped = hist.skipped /\ hist'.bad = hist.bad /\ hist'.lost = hist.lost
      /\ hist'.dropped = hist.dropped /\ hist'.raced = hist.raced
  BY <1>1, <1>2, Zenon DEF FateType, Fate
<1>5. AllApart' /\ DocsOf(reports') = DocsOf(reports) \union agg.stats
  BY <1>2, <1>4, FlushedApart, Zenon
<1>6. ChanInOrder' /\ Waiting' = Waiting
  BY <1>1, <1>2, WaitingSame, Zenon
<1>7. EachOnce'
  <2>1. Once(Len(written), Waiting, {}, (DocsOf(reports) \union DocsOf(spooled)) \union agg.stats,
             hist.skipped, hist.bad, hist.lost, hist.dropped)
    BY <1>1, OnceFlushed, Zenon DEF EachOnce
  <2>2. DocsOf(reports') \union DocsOf(spooled') = (DocsOf(reports) \union DocsOf(spooled)) \union agg.stats
    BY <1>2, <1>5, Zenon
  <2> QED
    BY <1>2, <1>3, <1>4, <1>6, <2>1, <2>2, Zenon DEF EachOnce, DocsOf
<1> QED
  BY <1>5, <1>6, <1>7, Zenon

\* Parse moves a document to the aggregator, or gives it up.
LEMMA ParseDocs ==
  ASSUME Inv, NEW d \in Dbs, Parse(d)
  PROVE  ChanInOrder' /\ EachOnce' /\ AllApart'
<1> DEFINE doc == Head(mon[d].docsChan)
           M   == DocsOf(reports) \union DocsOf(spooled)
<1>1. ChanInOrder' /\ Waiting' = Waiting \ {doc} /\ doc \in Waiting
  BY ParseChan, Zenon
<1>2. Adds(doc) /\ UNCHANGED <<written, spooled>>
  BY ParseAdds, Zenon
<1>3. EachOnce /\ AllApart /\ AggType /\ FateType
  BY Zenon DEF Inv, Types
<1> HIDE DEF doc
<1>4. CASE /\ hist' = [hist EXCEPT !.skipped = @ \union {doc}] /\ UNCHANGED <<agg, reports>>
  <2>1. /\ hist'.skipped = hist.skipped \union {doc} /\ hist'.bad = hist.bad /\ hist'.lost = hist.lost
        /\ hist'.dropped = hist.dropped /\ hist'.raced = hist.raced
    BY <1>3, <1>4, Zenon DEF FateType, Fate
  <2>2. Once(Len(written), Waiting \ {doc}, agg.stats, M, hist.skipped \union {doc}, hist.bad,
             hist.lost, hist.dropped)
    BY <1>1, <1>3, OnceTaken, Zenon DEF EachOnce
  <2>3. EachOnce'
    BY <1>1, <1>2, <1>4, <2>1, <2>2 DEF EachOnce, DocsOf
  <2>4. AllApart'
    BY <1>2, <1>3, <1>4, <2>1, Zenon DEF AllApart
  <2> QED
    BY <1>1, <2>3, <2>4, Zenon
<1>5. ASSUME NEW s, NEW k, NEW m, NEW good \in SUBSET {doc}, NEW bad \in SUBSET {doc},
             good \union bad = {doc}, good \intersect bad = {}, Takes(s, k, good, bad),
             DocsOf(reports') \union DocsOf(spooled') = m,
             Once(Len(written), Waiting, k, m, hist.skipped, hist.bad, hist.lost, hist.dropped)
      PROVE  EachOnce' /\ hist.raced \subseteq hist'.raced
  <2>1. agg'.stats = k \union good
    BY <1>3, <1>5, Zenon DEF AggType, Takes
  <2>2. /\ hist'.skipped = hist.skipped /\ hist'.bad = hist.bad \union bad /\ hist'.lost = hist.lost
        /\ hist'.dropped = hist.dropped /\ hist.raced \subseteq hist'.raced
    BY <1>3, <1>5, Zenon DEF FateType, Fate, Takes
  <2>3. good \in SUBSET Waiting /\ bad \in SUBSET (Waiting \ good) /\ Waiting' = (Waiting \ good) \ bad
    BY <1>1, <1>5, Zenon
  <2>4. Once(Len(written), Waiting \ good, k \union good, m, hist.skipped, hist.bad, hist.lost, hist.dropped)
    BY <1>5, <2>3, OnceTaken, Zenon
  <2>5. Once(Len(written), (Waiting \ good) \ bad, k \union good, m, hist.skipped, hist.bad \union bad,
             hist.lost, hist.dropped)
    BY <2>3, <2>4, OnceTaken, Zenon
  <2> QED
    BY <1>2, <1>5, <2>1, <2>2, <2>3, <2>5, Zenon DEF EachOnce
<1>6. ASSUME NEW good \in SUBSET {doc}, NEW bad \in SUBSET {doc},
             good \union bad = {doc}, good \intersect bad = {},
             reports' = reports, Takes(agg.timeStart, agg.stats, good, bad)
      PROVE  EachOnce' /\ AllApart'
  <2>1. DocsOf(reports') \union DocsOf(spooled') = M
    BY <1>2, <1>6, Zenon
  <2>2. EachOnce' /\ hist.raced \subseteq hist'.raced
    BY <1>3, <1>5, <1>6, <2>1, Zenon DEF EachOnce
  <2>3. AllApart'
    BY <1>2, <1>3, <1>6, <2>2 DEF AllApart, Apart
  <2> QED
    BY <2>2, <2>3, Zenon
<1>7. ASSUME NEW good \in SUBSET {doc}, NEW bad \in SUBSET {doc},
             good \union bad = {doc}, good \intersect bad = {},
             reports' = FlushedReports, Takes(Truncate(written[doc].ts), {}, good, bad)
      PROVE  EachOnce' /\ AllApart'
  <2>1. hist.raced \subseteq hist'.raced
    BY <1>3, <1>7, Zenon DEF FateType, Fate, Takes
  <2>2. AllApart' /\ DocsOf(reports') = DocsOf(reports) \union agg.stats
    BY <1>2, <1>7, <2>1, FlushedApart, Zenon
  <2>3. DocsOf(reports') \union DocsOf(spooled') = M \union agg.stats
    BY <1>2, <2>2, Zenon
  <2>4. Once(Len(written), Waiting, {}, M \union agg.stats, hist.skipped, hist.bad, hist.lost, hist.dropped)
    BY <1>3, OnceFlushed, Zenon DEF EachOnce
  <2>5. EachOnce'
    BY <1>5, <1>7, <2>3, <2>4, Zenon
  <2> QED
    BY <2>2, <2>5, Zenon
<1> QED
  BY <1>1, <1>2, <1>4, <1>6, <1>7, Zenon DEF Adds

\* Send: a report leaves reportChan for the spool, or is lost.
LEMMA SendDocs ==
  ASSUME Inv, Send
  PROVE  ChanInOrder' /\ EachOnce' /\ AllApart'
<1> DEFINE r == Head(reports)
<1>1. ChanInOrder /\ EachOnce /\ AllApart /\ MadeType /\ FateType
  BY Zenon DEF Inv, Types
<1>2. UNCHANGED <<written, mon, agg>> /\ reports # <<>> /\ reports' = Tail(reports)
  BY Zenon DEF Send
<1>3. ChanInOrder' /\ Waiting' = Waiting
  BY <1>1, <1>2, WaitingSame, Zenon
<1>4. /\ r = reports[1] /\ r \in Report /\ 1 \in DOMAIN reports /\ Len(reports) \in Nat
      /\ DOMAIN reports = 1..Len(reports) /\ DOMAIN reports' = 1..(Len(reports) - 1)
      /\ \A i \in DOMAIN reports' : i + 1 \in DOMAIN reports /\ reports'[i] = reports[i + 1]
  BY <1>1, <1>2, TailOf, Zenon DEF MadeType
<1> HIDE DEF r
<1>5. \A i \in DOMAIN reports' : Apart(reports'[i], r, hist.raced)
  <2> TAKE i \in DOMAIN reports'
  <2>1. i + 1 # 1 /\ i + 1 \in DOMAIN reports /\ reports'[i] = reports[i + 1]
    BY <1>4
  <2> QED
    BY <1>1, <1>4, <2>1, Zenon DEF AllApart
<1>6. \A i, j \in DOMAIN reports' : i # j => Apart(reports'[i], reports'[j], hist.raced)
  <2> TAKE i, j \in DOMAIN reports'
  <2>1. HAVE i # j
  <2>2. i + 1 # j + 1
    BY <1>4, <2>1
  <2> QED
    BY <1>1, <1>4, <2>2, Zenon DEF AllApart
<1>7. \A i \in DOMAIN reports' : \A j \in DOMAIN spooled : Apart(reports'[i], spooled[j], hist.raced)
  BY <1>1, <1>4, Zenon DEF AllApart
<1>8. \A j \in DOMAIN spooled : Apart(r, spooled[j], hist.raced) /\ Apart(spooled[j], r, hist.raced)
  <2>1. \A j \in DOMAIN spooled : Apart(r, spooled[j], hist.raced)
    BY <1>1, <1>4, Zenon DEF AllApart
  <2> QED
    BY <2>1, Zenon DEF Apart
<1>9. ASSUME NEW x PROVE x \in DocsOf(reports) <=> x \in DocsOf(reports') \/ x \in r.docs
  <2>1. ASSUME NEW i \in DOMAIN reports, x \in reports[i].docs, x \notin r.docs
        PROVE  \E j \in DOMAIN reports' : x \in reports'[j].docs
    <3>1. i # 1
      BY <1>4, <2>1, Zenon
    <3>2. i - 1 \in DOMAIN reports' /\ reports'[i - 1] = reports[i]
      <4>1. i - 1 \in DOMAIN reports' /\ (i - 1) + 1 = i
        BY <1>4, <3>1
      <4> QED
        BY <1>4, <4>1, Zenon
    <3> QED
      BY <2>1, <3>2, Zenon
  <2>2. x \in DocsOf(reports') <=> \E j \in DOMAIN reports' : x \in reports'[j].docs
    BY InDocsOf, Zenon
  <2> QED
    BY <1>4, <2>1, <2>2, InDocsOf, Zenon
<1>10. CASE spooled' = Append(spooled, r) /\ hist' = hist
  <2> DEFINE n == Len(spooled)
  <2>1. /\ n \in Nat /\ DOMAIN spooled = 1..n /\ DOMAIN spooled' = 1..(n + 1) /\ spooled'[n + 1] = r
        /\ \A i \in DOMAIN spooled : spooled'[i] = spooled[i]
    BY <1>1, <1>4, <1>10, AppendOf DEF MadeType
  <2> HIDE DEF n
  <2>2. \A i : i \in DOMAIN spooled' <=> i \in DOMAIN spooled \/ i = n + 1
    BY <2>1
  <2>3. \A i, j \in DOMAIN spooled' : i # j => Apart(spooled'[i], spooled'[j], hist.raced)
    <3> TAKE i, j \in DOMAIN spooled'
    <3>1. HAVE i # j
    <3>2. CASE i \in DOMAIN spooled /\ j \in DOMAIN spooled
      BY <1>1, <2>1, <3>1, <3>2, Zenon DEF AllApart
    <3>3. CASE i = n + 1 /\ j \in DOMAIN spooled
      BY <1>8, <2>1, <3>3, Zenon
    <3>4. CASE i \in DOMAIN spooled /\ j = n + 1
      BY <1>8, <2>1, <3>4, Zenon
    <3> QED
      BY <2>2, <3>1, <3>2, <3>3, <3>4, Zenon
  <2>4. \A i \in DOMAIN reports' : \A j \in DOMAIN spooled' : Apart(reports'[i], spooled'[j], hist.raced)
    <3> TAKE i \in DOMAIN reports'
    <3> TAKE j \in DOMAIN spooled'
    <3>1. CASE j \in DOMAIN spooled
      BY <1>7, <2>1, <3>1, Zenon
    <3>2. CASE j = n + 1
      BY <1>5, <2>1, <3>2, Zenon
    <3> QED
      BY <2>2, <3>1, <3>2, Zenon
  <2>5. ASSUME NEW x PROVE x \in DocsOf(spooled') <=> x \in DocsOf(spooled) \/ x \in r.docs
    <3>1. x \in DocsOf(spooled') <=> \E i \in DOMAIN spooled' : x \in spooled'[i].docs
      BY InDocsOf
    <3>2. (\E i \in DOMAIN spooled' : x \in spooled'[i].docs)
          <=> (\E i \in DOMAIN spooled : x \in spooled[i].docs) \/ x \in r.docs
      BY <2>1, <2>2, Zenon
    <3> QED
      BY <3>1, <3>2, InDocsOf, Zenon
  <2>6. DocsOf(reports') \union DocsOf(spooled') = DocsOf(reports) \union DocsOf(spooled)
    BY <1>9, <2>5, Zenon
  <2>7. EachOnce'
    BY <1>1, <1>2, <1>3, <1>10, <2>6, Zenon DEF EachOnce
  <2>8. AllApart'
    BY <1>6, <1>10, <2>3, <2>4, Zenon DEF AllApart
  <2> QED
    BY <1>3, <2>7, <2>8
<1>11. CASE spooled' = spooled /\ hist' = [hist EXCEPT !.lost = @ \union r.docs]
  <2>1. /\ hist'.skipped = hist.skipped /\ hist'.bad = hist.bad /\ hist'.lost = hist.lost \union r.docs
        /\ hist'.dropped = hist.dropped /\ hist'.raced = hist.raced
    BY <1>1, <1>11, Zenon DEF FateType, Fate
  <2>2. DocsOf(reports') \intersect r.docs = {}
    BY <1>5, InDocsOf, Zenon DEF Apart
  <2>3. DocsOf(spooled) \intersect r.docs = {}
    BY <1>8, InDocsOf, Zenon DEF Apart
  <2>4. DocsOf(reports') \union DocsOf(spooled) = (DocsOf(reports) \union DocsOf(spooled)) \ r.docs
    BY <1>9, <2>2, <2>3, Zenon
  <2>5. r.docs \in SUBSET (DocsOf(reports) \union DocsOf(spooled))
    BY <1>9, Zenon
  <2>6. Once(Len(written), Waiting, agg.stats, (DocsOf(reports) \union DocsOf(spooled)) \ r.docs,
             hist.skipped, hist.bad, hist.lost \union r.docs, hist.dropped)
    BY <1>1, <2>5, OnceLost, Zenon DEF EachOnce
  <2>7. EachOnce'
    BY <1>2, <1>3, <1>11, <2>1, <2>4, <2>6, Zenon DEF EachOnce
  <2>8. AllApart'
    BY <1>1, <1>6, <1>7, <1>11, <2>1, Zenon DEF AllApart
  <2> QED
    BY <1>3, <2>7, <2>8
<1> QED
  BY <1>10, <1>11, Zenon DEF Send, r

\* Every step keeps each document in one place.
LEMMA DocsNext == Inv /\ [Next]_vars => ChanInOrder' /\ EachOnce' /\ AllApart'
BY QuietStep, QuietDocs, StartDocs, AggFlushDocs, SendDocs, CollectDocs, ParseDocs, ParserEndsDocs, Zenon
-----------------------------------------------------------------------------
(***************************************************************************)
(* Which interval the documents are of.                                    *)
(***************************************************************************)
InIntervals == Stamps /\ Intervals /\ Timer /\ Begun /\ SkippedLate

\* The instants and numbers of a state.
LEMMA Instants ==
  ASSUME Inv
  PROVE  /\ now \in Nat /\ agg.timeStart \in Nat /\ hist.flushed \in Nat /\ agg.timer \in Nat
         /\ now <= MaxTime /\ agg.timeStart <= MaxTime
         /\ \A x \in DOMAIN written : written[x].ts \in Nat /\ written[x].db \in Dbs
         /\ \A i \in DOMAIN reports : reports[i].start \in Nat
         /\ \A i \in DOMAIN spooled : spooled[i].start \in Nat
         /\ DOMAIN written = 1..Len(written) /\ Len(written) \in Nat
         /\ Interval \in Nat /\ Interval > 0 /\ MaxTime \in Nat
<1>1. ClockType /\ DocsType /\ AggType /\ MadeType /\ FateType
  BY Zenon DEF Inv, Types
<1>2. Interval \in Nat /\ Interval > 0 /\ MaxTime \in Nat
  BY MongoAssumption
<1>3. now \in Nat /\ now <= MaxTime
  BY <1>1, <1>2 DEF ClockType
<1>4. agg.timeStart \in Nat /\ agg.timer \in Nat /\ agg.timeStart <= MaxTime
  BY <1>1, <1>2 DEF AggType
<1>5. hist.flushed \in Nat
  BY <1>1, Zenon DEF FateType, Fate
<1>6. \A x \in DOMAIN written : written[x] \in [db : Dbs, ts : 0..MaxTime]
  BY <1>1, ElementOf, Zenon DEF DocsType
<1>7. (\A i \in DOMAIN reports : reports[i] \in Report) /\ (\A i \in DOMAIN spooled : spooled[i] \in Report)
  BY <1>1, ElementOf, Zenon DEF MadeType
<1>8. DOMAIN written = 1..Len(written) /\ Len(written) \in Nat
  BY <1>1, ElementOf, Zenon DEF DocsType
<1>9. \A x \in DOMAIN written : written[x].ts \in Nat /\ written[x].db \in Dbs
  BY <1>6
<1>10. \A q \in Report : q.start \in Nat
  BY DEF Report
<1> QED
  BY <1>2, <1>3, <1>4, <1>5, <1>7, <1>8, <1>9, <1>10, Zenon

\* The documents that are not waiting are ones that were written.
LEMMA WrittenDocs ==
  ASSUME Inv
  PROVE  /\ agg.stats \subseteq DOMAIN written /\ hist.skipped \subseteq DOMAIN written
         /\ \A i \in DOMAIN reports : reports[i].docs \subseteq DOMAIN written
         /\ \A i \in DOMAIN spooled : spooled[i].docs \subseteq DOMAIN written
<1>1. DOMAIN written = 1..Len(written)
  BY Instants, Zenon
<1>2. /\ agg.stats \subseteq 1..Len(written) /\ hist.skipped \subseteq 1..Len(written)
      /\ DocsOf(reports) \union DocsOf(spooled) \subseteq 1..Len(written)
  BY Zenon DEF Inv, EachOnce, Once
<1> QED
  BY <1>1, <1>2, InDocsOf, Zenon

\* Quiet steps keep the facts about intervals; a timer that fires does so after
\* the interval's end.
LEMMA QuietIntervals ==
  ASSUME Inv, Quiet
  PROVE  InIntervals'
<1>1. /\ UNCHANGED <<written, reports, spooled, hist>> /\ now' \in Nat /\ now <= now'
      /\ agg'.stats = agg.stats /\ agg'.timeStart = agg.timeStart
      /\ \A d \in Dbs : mon'[d].docsChan = mon[d].docsChan
  BY Zenon DEF Quiet
<1>2. Stamps /\ Intervals /\ Timer /\ Begun /\ SkippedLate /\ AggType
  BY Zenon DEF Inv, Types
<1>3. /\ now \in Nat /\ agg.timeStart \in Nat /\ hist.flushed \in Nat /\ agg.timer \in Nat
      /\ now <= MaxTime /\ agg.timeStart <= MaxTime /\ Interval \in Nat /\ MaxTime \in Nat
      /\ \A x \in DOMAIN written : written[x].ts \in Nat /\ written[x].db \in Dbs
  BY Instants, Zenon
<1>4. Stamps'
  BY <1>1, <1>2, <1>3 DEF Stamps
<1>5. Intervals'
  BY <1>1, <1>2, <1>3 DEF Intervals
<1>6. Begun'
  BY <1>1, <1>2, <1>3, Zenon DEF Begun
<1>7. SkippedLate'
  BY <1>1, <1>2, Zenon DEF SkippedLate
<1>8. Timer'
  <2>1. CASE agg' = agg
    BY <1>1, <1>2, <1>3, <2>1 DEF Timer
  <2>2. CASE TimerFires
    <3>1. agg.timer <= now /\ agg'.timer = None /\ None >= agg.timeStart + Interval /\ now' = now
      BY <1>2, <1>3, <2>2 DEF TimerFires, AggType, None
    <3>2. agg.stats # {} => now >= agg.timeStart + Interval
      BY <1>2, <1>3, <3>1 DEF Timer
    <3> QED
      BY <1>1, <3>1, <3>2, Zenon DEF Timer
  <2>3. CASE AggTick \/ AggDone
    <3>1. /\ agg'.timer = agg.timer /\ (agg'.tick \/ agg'.pc = "flush" => agg.tick)
          /\ now' = now
      BY <1>2, <2>3, Zenon DEF AggTick, AggDone, AggType
    <3> QED
      BY <1>1, <1>2, <3>1, Zenon DEF Timer
  <2> QED
    BY <2>1, <2>2, <2>3, Zenon DEF Quiet
<1> QED
  BY <1>4, <1>5, <1>6, <1>7, <1>8, Zenon DEF InIntervals

\* Start begins with the interval of the present.
LEMMA StartIntervals ==
  ASSUME Inv, Start
  PROVE  InIntervals'
<1>1. /\ UNCHANGED <<now, written, reports, spooled, hist>> /\ svc = "new"
      /\ agg'.stats = {} /\ agg'.timeStart = Truncate(now)
  BY Zenon DEF Start, StartAggregator, NewAggregator
<1>2. written = <<>> /\ reports = <<>> /\ spooled = <<>>
  BY <1>1, Zenon DEF Inv, Unstarted
<1>3. DOMAIN written' = {} /\ DOMAIN reports' = {} /\ DOMAIN spooled' = {}
  BY <1>1, <1>2
<1>4. hist.skipped = {}
  BY <1>1, <1>3, WrittenDocs, Zenon
<1>5. now \in Nat /\ Truncate(now) <= now /\ Truncate(Truncate(now)) = Truncate(now)
  BY Instants, TruncateInterval, TruncateStart, Zenon
<1>6. hist.flushed <= now
  BY Zenon DEF Inv, Intervals
<1>7. Stamps' /\ Begun'
  BY <1>3, Zenon DEF Stamps, Begun
<1>8. Intervals'
  BY <1>1, <1>3, <1>5, <1>6, Zenon DEF Intervals, OwnDocs
<1>9. Timer' /\ SkippedLate'
  BY <1>1, <1>4, Zenon DEF Timer, SkippedLate
<1> QED
  BY <1>7, <1>8, <1>9, Zenon DEF InIntervals

\* Reports stay of earlier intervals as the interval moves on.
LEMMA StillNotLater ==
  ASSUME NEW q, q.start \in Nat, NEW s \in Nat, NEW t \in Nat, s <= t,
         NEW raced, NEW more, raced \subseteq more, NotLater(q, s, raced)
  PROVE  NotLater(q, t, more)
<1>1. q.start <= s /\ (q.start = s => q.start \in raced)
  BY Zenon DEF NotLater
<1>2. q.start <= t /\ (q.start = t => q.start = s)
  BY <1>1
<1> QED
  BY <1>1, <1>2, Zenon DEF NotLater

\* flush: the new report is of the interval that was aggregated.
LEMMA FlushedIntervals ==
  ASSUME Inv, reports' = FlushedReports, spooled' = spooled, written' = written,
         NEW t \in Nat, agg.timeStart <= t, hist.raced \subseteq hist'.raced,
         agg.stats # {} /\ t = agg.timeStart => t \in hist.raced
  PROVE  /\ \A i \in DOMAIN reports' : /\ OwnDocs(reports'[i], written')
                                       /\ NotLater(reports'[i], t, hist'.raced)
         /\ \A i \in DOMAIN spooled' : /\ OwnDocs(spooled'[i], written')
                                       /\ NotLater(spooled'[i], t, hist'.raced)
<1> DEFINE r == [start |-> agg.timeStart, docs |-> agg.stats]
           n == Len(reports)
<1>1. MadeType /\ AggType /\ Intervals
  BY Zenon DEF Inv, Types
<1>2. /\ agg.timeStart \in Nat
      /\ \A i \in DOMAIN reports : reports[i].start \in Nat
      /\ \A i \in DOMAIN spooled : spooled[i].start \in Nat
  BY Instants, Zenon
<1>3. \A i \in DOMAIN reports : OwnDocs(reports[i], written) /\ NotLater(reports[i], t, hist'.raced)
  BY <1>1, <1>2, StillNotLater, Zenon DEF Intervals
<1>4. \A i \in DOMAIN spooled : OwnDocs(spooled[i], written) /\ NotLater(spooled[i], t, hist'.raced)
  BY <1>1, <1>2, StillNotLater, Zenon DEF Intervals
<1>5. CASE agg.stats = {}
  BY <1>3, <1>4, <1>5, Zenon DEF FlushedReports
<1>6. CASE agg.stats # {}
  <2>1. reports' = Append(reports, r) /\ r \in Report /\ reports \in Seq(Report)
    BY <1>1, <1>6, Zenon DEF FlushedReports, AggType, Report, MadeType
  <2>2. /\ n \in Nat /\ DOMAIN reports = 1..n /\ DOMAIN reports' = 1..(n + 1) /\ reports'[n + 1] = r
        /\ \A i \in DOMAIN reports : reports'[i] = reports[i]
    BY <2>1, AppendOf
  <2> HIDE DEF n
  <2>3. \A i : i \in DOMAIN reports' <=> i \in DOMAIN reports \/ i = n + 1
    BY <2>2
  <2>4. OwnDocs(r, written)
    BY <1>1, Zenon DEF Intervals
  <2>5. NotLater(r, t, hist'.raced)
    BY <1>2, <1>6, Zenon DEF NotLater
  <2> QED
    BY <1>3, <1>4, <2>2, <2>3, <2>4, <2>5, Zenon
<1> QED
  BY <1>5, <1>6, Zenon

\* The flush of a quiet interval closes it for good, unless a document raced.
LEMMA AggFlushIntervals ==
  ASSUME Inv, AggFlush
  PROVE  InIntervals'
<1>1. Stamps /\ Intervals /\ Timer /\ SkippedLate /\ AggType /\ FateType
  BY Zenon DEF Inv, Types
<1>2. /\ now \in Nat /\ agg.timeStart \in Nat /\ hist.flushed \in Nat /\ Interval \in Nat /\ Interval > 0
      /\ \A x \in DOMAIN written : written[x].ts \in Nat /\ written[x].db \in Dbs
  BY Instants, Zenon
<1>3. /\ agg.pc = "flush" /\ reports' = FlushedReports /\ UNCHANGED <<now, written, spooled>>
      /\ agg' = [FlushedAgg(now) EXCEPT !.pc = "select"] /\ hist' = [hist EXCEPT !.flushed = now]
  BY Zenon DEF AggFlush
<1>4. agg'.stats = {} /\ agg'.timeStart = Truncate(now)
  BY <1>1, <1>3, Zenon DEF FlushedAgg, AggType
<1>5. hist'.skipped = hist.skipped /\ hist'.raced = hist.raced /\ hist'.flushed = now
  BY <1>1, <1>3, Zenon DEF FateType, Fate
<1>6. /\ Truncate(now) \in Nat /\ Truncate(now) <= now /\ Truncate(Truncate(now)) = Truncate(now)
  BY <1>2, TruncateInterval, TruncateStart, Zenon
<1>7. /\ agg.timeStart <= Truncate(now)
      /\ now >= agg.timeStart + Interval => Truncate(now) >= agg.timeStart + Interval
  BY <1>1, <1>2, TruncateFrom, Zenon DEF Intervals
<1>8. agg.stats # {} /\ Truncate(now) = agg.timeStart => Truncate(now) \in hist.raced
  BY <1>1, <1>2, <1>3, <1>7 DEF Timer
<1>9. /\ \A i \in DOMAIN reports' : /\ OwnDocs(reports'[i], written')
                                    /\ NotLater(reports'[i], Truncate(now), hist'.raced)
      /\ \A i \in DOMAIN spooled' : /\ OwnDocs(spooled'[i], written')
                                    /\ NotLater(spooled'[i], Truncate(now), hist'.raced)
  BY <1>3, <1>5, <1>6, <1>7, <1>8, FlushedIntervals, Zenon
<1>10. Stamps' /\ Timer'
  BY <1>1, <1>3, <1>4, Zenon DEF Stamps, Timer
<1>11. Intervals'
  BY <1>2, <1>3, <1>4, <1>5, <1>6, <1>9 DEF Intervals, OwnDocs
<1>12. Begun'
  BY <1>4, <1>5, Zenon DEF Begun
<1>13. SkippedLate'
  <2>1. hist.flushed <= now
    BY <1>1, Zenon DEF Intervals
  <2>2. \A x \in DOMAIN written : Truncate(written[x].ts) \in Nat
    BY <1>2, TruncateInterval, Zenon
  <2>3. \A x \in hist.skipped : Overtaken(x, written, now)
    BY <1>1, <1>2, <2>1, <2>2, WrittenDocs DEF SkippedLate, Overtaken
  <2> QED
    BY <1>3, <1>5, <2>3, Zenon DEF SkippedLate
<1> QED
  BY <1>10, <1>11, <1>12, <1>13, Zenon DEF InIntervals

\* The sender moves reports, which stay what they are.
LEMMA SendIntervals ==
  ASSUME Inv, Send
  PROVE  InIntervals'
<1> DEFINE r == Head(reports)
           Good(q) == OwnDocs(q, written) /\ NotLater(q, agg.timeStart, hist.raced)
<1>1. Stamps /\ Intervals /\ Timer /\ Begun /\ SkippedLate /\ MadeType /\ FateType
  BY Zenon DEF Inv, Types
<1>2. UNCHANGED <<now, written, mon, agg>> /\ reports # <<>> /\ reports' = Tail(reports)
  BY Zenon DEF Send
<1>3. hist'.skipped = hist.skipped /\ hist'.raced = hist.raced /\ hist'.flushed = hist.flushed
  BY <1>1, Zenon DEF Send, FateType, Fate
<1>4. /\ r = reports[1] /\ r \in Report /\ 1 \in DOMAIN reports
      /\ \A i \in DOMAIN reports' : i + 1 \in DOMAIN reports /\ reports'[i] = reports[i + 1]
  BY <1>1, <1>2, TailOf, Zenon DEF MadeType
<1>5. /\ \A i \in DOMAIN reports : Good(reports[i])
      /\ \A i \in DOMAIN spooled : Good(spooled[i])
  BY <1>1, Zenon DEF Intervals
<1> HIDE DEF r, Good
<1>6. (\A i \in DOMAIN reports' : Good(reports'[i])) /\ Good(r)
  BY <1>4, <1>5, Zenon
<1>7. \A i \in DOMAIN spooled' : Good(spooled'[i])
  <2>1. CASE spooled' = spooled
    BY <1>5, <2>1, Zenon
  <2>2. CASE spooled' = Append(spooled, r)
    <3>1. /\ Len(spooled) \in Nat /\ DOMAIN spooled = 1..Len(spooled)
          /\ DOMAIN spooled' = 1..(Len(spooled) + 1) /\ spooled'[Len(spooled) + 1] = r
          /\ \A i \in DOMAIN spooled : spooled'[i] = spooled[i]
      BY <1>1, <1>4, <2>2, AppendOf DEF MadeType
    <3>2. \A i \in DOMAIN spooled' : i \in DOMAIN spooled \/ i = Len(spooled) + 1
      BY <3>1
    <3> QED
      BY <1>5, <1>6, <3>1, <3>2, Zenon
  <2> QED
    BY <2>1, <2>2, Zenon DEF Send, r
<1>8. Stamps' /\ Timer' /\ Begun' /\ SkippedLate'
  BY <1>1, <1>2, <1>3, Zenon DEF Stamps, Timer, Begun, SkippedLate
<1>9. Intervals'
  BY <1>1, <1>2, <1>3, <1>6, <1>7, Zenon DEF Intervals, Good
<1> QED
  BY <1>8, <1>9, Zenon DEF InIntervals

\* Collect stamps a document with the present.
LEMMA CollectIntervals ==
  ASSUME Inv, NEW d \in Dbs, Collect(d)
  PROVE  InIntervals'
<1> DEFINE n == Len(written)
<1>1. /\ n \in Nat /\ DOMAIN written = 1..n /\ DOMAIN written' = 1..(n + 1)
      /\ written'[n + 1] = [db |-> d, ts |-> now]
      /\ \A x \in 1..n : written'[x] = written[x]
      /\ mon[d].docsChan \in Seq(1..MaxDocs)
      /\ mon'[d].docsChan = Append(mon[d].docsChan, n + 1) /\ n + 1 \in 1..MaxDocs
      /\ \A e \in Dbs : e # d => mon'[e].docsChan = mon[e].docsChan
  BY CollectChan, Zenon
<1>2. UNCHANGED <<now, agg, reports, spooled, hist>>
  BY Zenon DEF Collect, MonVars
<1>3. Stamps /\ Intervals /\ Timer /\ Begun /\ SkippedLate
  BY Zenon DEF Inv
<1>4. /\ now \in Nat /\ agg.timeStart \in Nat
      /\ \A x \in DOMAIN written : written[x].ts \in Nat /\ written[x].db \in Dbs
  BY Instants, Zenon
<1> HIDE DEF n
<1>5. written'[n + 1].ts = now /\ written'[n + 1].db = d
  BY <1>1
<1>6. \A x \in DOMAIN written' : x \in DOMAIN written \/ x = n + 1
  BY <1>1
<1>7. Stamps'
  <2>1. \A x \in DOMAIN written' : written'[x].ts <= now
    BY <1>1, <1>3, <1>4, <1>5, <1>6 DEF Stamps
  <2>2. \A x, y \in DOMAIN written' : x <= y => written'[x].ts <= written'[y].ts
    <3> TAKE x, y \in DOMAIN written'
    <3>1. HAVE x <= y
    <3>2. CASE y = n + 1
      BY <1>5, <2>1, <3>2, Zenon
    <3>3. CASE y \in DOMAIN written
      <4>1. x \in DOMAIN written
        BY <1>1, <3>1, <3>3
      <4> QED
        BY <1>1, <1>3, <3>1, <3>3, <4>1, Zenon DEF Stamps
    <3> QED
      BY <1>6, <3>2, <3>3, Zenon
  <2> QED
    BY <1>2, <2>1, <2>2, Zenon DEF Stamps
<1>8. Intervals'
  <2>1. \A q : q.docs \subseteq DOMAIN written /\ OwnDocs(q, written) => OwnDocs(q, written')
    BY <1>1, Zenon DEF OwnDocs
  <2>2. /\ agg.stats \subseteq DOMAIN written
        /\ \A i \in DOMAIN reports : reports[i].docs \subseteq DOMAIN written
        /\ \A i \in DOMAIN spooled : spooled[i].docs \subseteq DOMAIN written
    BY WrittenDocs, Zenon
  <2>3. OwnDocs([start |-> agg.timeStart, docs |-> agg.stats], written')
    BY <1>3, <2>1, <2>2, Zenon DEF Intervals
  <2> QED
    BY <1>2, <1>3, <2>1, <2>2, <2>3, Zenon DEF Intervals
<1>9. Timer'
  BY <1>2, <1>3, Zenon DEF Timer
<1>10. Begun'
  <2>1. CASE \A x \in DOMAIN written : agg.timeStart <= written[x].ts
    <3>1. \A x \in DOMAIN written' : agg.timeStart <= written'[x].ts
      BY <1>1, <1>3, <1>5, <1>6, <2>1, Zenon DEF Intervals
    <3> QED
      BY <1>2, <3>1, Zenon DEF Begun
  <2>2. ASSUME NEW e \in DOMAIN written, Truncate(written[e].ts) = agg.timeStart,
               \A k \in DOMAIN mon[written[e].db].docsChan : e < mon[written[e].db].docsChan[k]
        PROVE  Begun'
    <3>1. e \in DOMAIN written' /\ written'[e] = written[e] /\ written[e].db \in Dbs /\ e < n + 1
      BY <1>1, <1>4
    <3>2. \A k \in DOMAIN mon'[written[e].db].docsChan : e < mon'[written[e].db].docsChan[k]
      <4>1. CASE written[e].db # d
        BY <1>1, <2>2, <3>1, <4>1, Zenon
      <4>2. CASE written[e].db = d
        <5>1. /\ DOMAIN mon[d].docsChan = 1..Len(mon[d].docsChan) /\ Len(mon[d].docsChan) \in Nat
              /\ DOMAIN mon'[d].docsChan = 1..(Len(mon[d].docsChan) + 1)
              /\ mon'[d].docsChan[Len(mon[d].docsChan) + 1] = n + 1
              /\ \A k \in DOMAIN mon[d].docsChan : mon'[d].docsChan[k] = mon[d].docsChan[k]
          BY <1>1, AppendOf
        <5>2. \A k \in DOMAIN mon'[d].docsChan : k \in DOMAIN mon[d].docsChan \/ k = Len(mon[d].docsChan) + 1
          BY <5>1
        <5> QED
          BY <2>2, <3>1, <4>2, <5>1, <5>2, ZenonT(30)
      <4> QED
        BY <4>1, <4>2, Zenon
    <3> QED
      BY <1>2, <2>2, <3>1, <3>2, Zenon DEF Begun
  <2>3. CASE Truncate(hist.flushed) = agg.timeStart
    BY <1>2, <2>3, Zenon DEF Begun
  <2> QED
    BY <1>3, <2>1, <2>2, <2>3, Zenon DEF Begun
<1>11. SkippedLate'
  <2>1. \A x \in hist.skipped : x \in DOMAIN written /\ written'[x] = written[x]
    BY <1>1, WrittenDocs, Zenon
  <2>2. \A e \in DOMAIN written : e \in DOMAIN written' /\ written'[e] = written[e]
    BY <1>1
  <2>3. ASSUME NEW x \in hist.skipped, Overtaken(x, written, hist.flushed)
        PROVE  Overtaken(x, written', hist.flushed)
    BY <2>1, <2>2, <2>3, Zenon DEF Overtaken
  <2> QED
    BY <1>2, <1>3, <2>3, Zenon DEF SkippedLate
<1> QED
  BY <1>7, <1>8, <1>9, <1>10, <1>11, Zenon DEF InIntervals

\* A monitor that stops cuts no interval.
LEMMA ParserEndsIntervals ==
  ASSUME Inv, NEW d \in Dbs, ParserEnds(d)
  PROVE  InIntervals'
<1>1. Stamps /\ Intervals /\ Timer /\ Begun /\ SkippedLate /\ MonType /\ FateType
  BY Zenon DEF Inv, Types
<1>2. /\ mon' = [mon EXCEPT ![d] = NoMonitor] /\ UNCHANGED <<now, written, agg, reports, spooled>>
      /\ hist' = [hist EXCEPT !.dropped = @ \union Range(mon[d].docsChan)]
  BY Zenon DEF ParserEnds, MonsVars
<1>3. hist'.skipped = hist.skipped /\ hist'.raced = hist.raced /\ hist'.flushed = hist.flushed
  BY <1>1, <1>2, Zenon DEF FateType, Fate
<1>4. mon'[d].docsChan = <<>> /\ \A e \in Dbs : e # d => mon'[e].docsChan = mon[e].docsChan
  BY <1>1, <1>2, Zenon DEF MonType, Monitor, NoMonitor
<1>5. DOMAIN mon'[d].docsChan = {}
  BY <1>4
<1>6. \A x \in DOMAIN written : written[x].db \in Dbs
  BY Instants, Zenon
<1>7. Begun'
  BY <1>1, <1>2, <1>3, <1>4, <1>5, <1>6 DEF Begun
<1>8. Stamps' /\ Timer' /\ SkippedLate'
  BY <1>1, <1>2, <1>3, Zenon DEF Stamps, Timer, SkippedLate
<1>9. Intervals'
  BY <1>1, <1>2, <1>3, Zenon DEF Intervals
<1> QED
  BY <1>7, <1>8, <1>9, Zenon DEF InIntervals

\* A document that is skipped was overtaken.
LEMMA SkippedOvertaken ==
  ASSUME Inv, NEW d \in Dbs, Parse(d), written[Head(mon[d].docsChan)].ts < agg.timeStart
  PROVE  Overtaken(Head(mon[d].docsChan), written, hist.flushed)
<1> DEFINE doc == Head(mon[d].docsChan)
           ts  == written[doc].ts
<1>1. /\ mon[d].docsChan \in Seq(1..MaxDocs) /\ mon[d].docsChan # <<>>
      /\ doc \in DOMAIN written /\ written[doc].db = d
  BY ParseAdds, Zenon
<1>2. 1 \in DOMAIN mon[d].docsChan /\ mon[d].docsChan[1] = doc
  BY <1>1, TailOf, Zenon
<1>3. /\ agg.timeStart \in Nat /\ hist.flushed \in Nat /\ Interval \in Nat
      /\ DOMAIN written = 1..Len(written) /\ Len(written) \in Nat
      /\ \A x \in DOMAIN written : written[x].ts \in Nat /\ written[x].db \in Dbs
  BY Instants, Zenon
<1>4. Stamps /\ Begun /\ Truncate(agg.timeStart) = agg.timeStart
  BY Zenon DEF Inv, Intervals
<1>5. ts \in Nat /\ ts < agg.timeStart
  BY <1>1, <1>3, Zenon
<1>6. Truncate(ts) \in Nat /\ Truncate(ts) <= ts /\ Truncate(ts) + Interval <= agg.timeStart
  BY <1>3, <1>4, <1>5, TruncateInterval, TruncateBefore, Zenon
<1> HIDE DEF doc, ts
<1>7. CASE \A x \in DOMAIN written : agg.timeStart <= written[x].ts
  BY <1>1, <1>3, <1>5, <1>7 DEF ts
<1>8. ASSUME NEW e \in DOMAIN written, Truncate(written[e].ts) = agg.timeStart,
             \A k \in DOMAIN mon[written[e].db].docsChan : e < mon[written[e].db].docsChan[k]
      PROVE  Overtaken(doc, written, hist.flushed)
  <2>1. written[e].ts \in Nat /\ agg.timeStart <= written[e].ts
    BY <1>3, <1>8, TruncateInterval, Zenon
  <2>2. written[e].db # d
    <3>1. SUFFICES ASSUME written[e].db = d PROVE FALSE
      OBVIOUS
    <3>2. e < doc
      BY <1>2, <1>8, <3>1, Zenon
    <3>3. written[e].ts <= ts
      BY <1>1, <1>3, <1>4, <3>2 DEF Stamps, ts
    <3> QED
      BY <1>3, <1>5, <2>1, <3>3
  <2>3. Truncate(written[e].ts) > Truncate(ts)
    BY <1>3, <1>5, <1>6, <1>8
  <2> QED
    BY <1>1, <2>2, <2>3, Zenon DEF Overtaken, ts
<1>9. CASE Truncate(hist.flushed) = agg.timeStart
  <2>1. agg.timeStart <= hist.flushed
    BY <1>3, <1>9, TruncateInterval, Zenon
  <2>2. hist.flushed >= Truncate(ts) + Interval
    BY <1>3, <1>6, <2>1
  <2> QED
    BY <2>2, Zenon DEF Overtaken, ts, doc
<1> QED
  BY <1>4, <1>7, <1>8, <1>9, Zenon DEF Begun, doc

\* Add keeps documents in their own interval and closes it only for a later one.
LEMMA ParseIntervals ==
  ASSUME Inv, NEW d \in Dbs, Parse(d)
  PROVE  InIntervals'
<1> DEFINE doc == Head(mon[d].docsChan)
           ts  == written[doc].ts
<1>1. /\ Adds(doc) /\ UNCHANGED <<now, written, spooled>> /\ doc \in DOMAIN written /\ written[doc].db = d
      /\ mon[d].docsChan \in Seq(1..MaxDocs) /\ mon[d].docsChan # <<>>
  BY ParseAdds, Zenon
<1>2. /\ \A e \in Dbs : e # d => mon'[e].docsChan = mon[e].docsChan
      /\ \A k \in DOMAIN mon'[d].docsChan : doc < mon'[d].docsChan[k]
  BY ParseChan, Zenon
<1>3. \A k \in DOMAIN mon'[d].docsChan : \E l \in DOMAIN mon[d].docsChan : mon'[d].docsChan[k] = mon[d].docsChan[l]
  <2>1. mon'[d].docsChan = Tail(mon[d].docsChan)
    <3>1. mon' = [mon EXCEPT ![d].docsChan = Tail(@)] /\ MonType
      BY ParseAdds, Zenon DEF Inv, Types
    <3> QED
      BY <3>1, Zenon DEF MonType, Monitor
  <2> QED
    BY <1>1, <2>1, TailOf
<1>4. Stamps /\ Intervals /\ Timer /\ Begun /\ SkippedLate /\ AggType /\ FateType
  BY Zenon DEF Inv, Types
<1>5. /\ now \in Nat /\ agg.timeStart \in Nat /\ hist.flushed \in Nat /\ Interval \in Nat /\ Interval > 0
      /\ \A x \in DOMAIN written : written[x].ts \in Nat /\ written[x].db \in Dbs
      /\ \A i \in DOMAIN reports : reports[i].start \in Nat
      /\ \A i \in DOMAIN spooled : spooled[i].start \in Nat
  BY Instants, Zenon
<1>6. ts \in Nat /\ ts <= now
  BY <1>1, <1>4, <1>5, Zenon DEF Stamps
<1>7. Stamps'
  BY <1>1, <1>4, Zenon DEF Stamps
<1>8. ASSUME agg'.timeStart = agg.timeStart, hist'.flushed = hist.flushed PROVE Begun'
  <2>1. ASSUME NEW e \in DOMAIN written, Truncate(written[e].ts) = agg.timeStart,
               \A k \in DOMAIN mon[written[e].db].docsChan : e < mon[written[e].db].docsChan[k]
        PROVE  \A k \in DOMAIN mon'[written[e].db].docsChan : e < mon'[written[e].db].docsChan[k]
    <3>1. CASE written[e].db = d
      BY <1>3, <2>1, <3>1, Zenon
    <3>2. CASE written[e].db # d
      BY <1>2, <1>5, <2>1, <3>2, Zenon
    <3> QED
      BY <3>1, <3>2, Zenon
  <2> QED
    BY <1>1, <1>4, <1>8, <2>1, ZenonT(30) DEF Begun
<1>9. CASE /\ ts < agg.timeStart /\ UNCHANGED <<agg, reports>>
           /\ hist' = [hist EXCEPT !.skipped = @ \union {doc}]
  <2>1. /\ hist'.skipped = hist.skipped \union {doc} /\ hist'.raced = hist.raced
        /\ hist'.flushed = hist.flushed
    BY <1>4, <1>9, Zenon DEF FateType, Fate
  <2>2. Overtaken(doc, written, hist.flushed)
    BY <1>9, SkippedOvertaken, Zenon
  <2>3. SkippedLate'
    BY <1>1, <1>4, <2>1, <2>2, Zenon DEF SkippedLate
  <2>4. Begun'
    BY <1>8, <1>9, <2>1, Zenon
  <2>5. Timer'
    BY <1>1, <1>4, <1>9, <2>1, Zenon DEF Timer
  <2>6. Intervals'
    BY <1>1, <1>4, <1>9, <2>1, Zenon DEF Intervals
  <2> QED
    BY <1>7, <2>3, <2>4, <2>5, <2>6, Zenon DEF InIntervals
<1>10. ASSUME NEW s \in Nat, s = Truncate(ts), NEW kept, NEW good \in SUBSET {doc}, NEW bad,
              Takes(s, kept, good, bad), kept = {} \/ (s = agg.timeStart /\ kept = agg.stats)
       PROVE  /\ agg'.timeStart = s /\ hist'.flushed = hist.flushed /\ hist.raced \subseteq hist'.raced
              /\ OwnDocs([start |-> agg.timeStart, docs |-> agg.stats], written)'
              /\ Timer' /\ SkippedLate' /\ s <= now /\ Truncate(s) = s
  <2>1. agg' = [agg EXCEPT !.timeStart = s, !.stats = kept \union good, !.timer = now + Interval]
    BY <1>10, Zenon DEF Takes
  <2>2. /\ agg'.timeStart = s /\ agg'.stats = kept \union good /\ agg'.timer = now + Interval
        /\ agg'.tick = agg.tick /\ agg'.pc = agg.pc
    BY <1>4, <2>1, Zenon DEF AggType
  <2>3. /\ hist'.flushed = hist.flushed /\ hist'.skipped = hist.skipped
        /\ hist.raced \subseteq hist'.raced
        /\ agg.tick \/ agg.pc = "flush" => s \in hist'.raced
    BY <1>4, <1>10, ZenonT(30) DEF Takes, FateType, Fate
  <2>4. s <= now /\ Truncate(s) = s
    BY <1>5, <1>6, <1>10, TruncateInterval, TruncateStart
  <2>5. now + Interval >= s + Interval
    BY <1>5, <2>4
  <2>6. Timer'
    BY <2>2, <2>3, <2>5, Zenon DEF Timer
  <2>7. SkippedLate'
    BY <1>1, <1>4, <2>3, Zenon DEF SkippedLate
  <2>8. \A x \in kept \union good : Truncate(written[x].ts) = s
    BY <1>4, <1>10, Zenon DEF Intervals, OwnDocs
  <2>9. OwnDocs([start |-> agg.timeStart, docs |-> agg.stats], written)'
    BY <1>1, <2>2, <2>8, Zenon DEF OwnDocs
  <2> QED
    BY <2>2, <2>3, <2>4, <2>6, <2>7, <2>9, Zenon
<1>11. ASSUME NEW good \in SUBSET {doc}, NEW bad, ts >= agg.timeStart, ts < agg.timeStart + Interval,
              reports' = reports, Takes(agg.timeStart, agg.stats, good, bad)
       PROVE  InIntervals'
  <2>1. agg.timeStart = Truncate(ts)
    BY <1>4, <1>5, <1>6, <1>11, TruncateFrom, Zenon DEF Intervals
  <2>2. /\ agg'.timeStart = agg.timeStart /\ hist'.flushed = hist.flushed /\ hist.raced \subseteq hist'.raced
        /\ OwnDocs([start |-> agg.timeStart, docs |-> agg.stats], written)'
        /\ Timer' /\ SkippedLate' /\ agg.timeStart <= now /\ Truncate(agg.timeStart) = agg.timeStart
    BY <1>5, <1>10, <1>11, <2>1, Zenon
  <2>3. Begun'
    BY <1>8, <2>2, Zenon
  <2>4. \A q : NotLater(q, agg.timeStart, hist.raced) => NotLater(q, agg'.timeStart, hist'.raced)
    BY <2>2, Zenon DEF NotLater
  <2>5. Intervals'
    BY <1>1, <1>4, <1>11, <2>2, <2>4, Zenon DEF Intervals
  <2> QED
    BY <1>7, <2>2, <2>3, <2>5, Zenon DEF InIntervals
<1>12. ASSUME NEW good \in SUBSET {doc}, NEW bad, ts >= agg.timeStart, ts >= agg.timeStart + Interval,
              reports' = FlushedReports, Takes(Truncate(ts), {}, good, bad)
       PROVE  InIntervals'
  <2> DEFINE s == Truncate(ts)
  <2>1. s \in Nat /\ s >= agg.timeStart + Interval
    BY <1>4, <1>5, <1>6, <1>12, TruncateFrom, TruncateInterval, ZenonT(30) DEF Intervals
  <2>2. agg.timeStart <= s /\ s # agg.timeStart
    BY <1>5, <2>1
  <2>3. /\ agg'.timeStart = s /\ hist'.flushed = hist.flushed /\ hist.raced \subseteq hist'.raced
        /\ OwnDocs([start |-> agg.timeStart, docs |-> agg.stats], written)'
        /\ Timer' /\ SkippedLate' /\ s <= now /\ Truncate(s) = s
    BY <1>10, <1>12, <2>1, Zenon
  <2>4. /\ \A i \in DOMAIN reports' : /\ OwnDocs(reports'[i], written')
                                      /\ NotLater(reports'[i], s, hist'.raced)
        /\ \A i \in DOMAIN spooled' : /\ OwnDocs(spooled'[i], written')
                                      /\ NotLater(spooled'[i], s, hist'.raced)
    BY <1>1, <1>12, <2>1, <2>2, <2>3, FlushedIntervals, Zenon
  <2>5. Begun'
    BY <1>1, <1>2, <2>3, Zenon DEF Begun
  <2>6. hist.flushed <= now
    BY <1>4, Zenon DEF Intervals
  <2>7. Intervals'
    BY <1>1, <2>3, <2>4, <2>6, Zenon DEF Intervals
  <2> QED
    BY <1>7, <2>3, <2>5, <2>7, Zenon DEF InIntervals
<1> QED
  BY <1>1, <1>9, <1>11, <1>12, Zenon DEF Adds

\* Every step keeps the facts about intervals.
LEMMA IntervalsNext == Inv /\ [Next]_vars => InIntervals'
BY QuietStep, QuietIntervals, StartIntervals, AggFlushIntervals, SendIntervals, CollectIntervals,
   ParseIntervals, ParserEndsIntervals, Zenon
-----------------------------------------------------------------------------
(***************************************************************************)
(* The invariant, and what it implies.                                     *)
(***************************************************************************)
LEMMA InvInit == Init => Inv
<1> SUFFICES ASSUME Init PROVE Inv
  OBVIOUS
<1>1. PICK b \in Bounds : /\ now = b.now /\ dbs = b.dbs
                          /\ left = [time |-> b.time, docs |-> b.docs, events |-> b.events]
  BY Zenon DEF Init
<1>2. /\ b \in [now : Nat, dbs : SUBSET Dbs, time : Nat, docs : Nat, events : Nat]
      /\ b.now + b.time <= MaxTime /\ b.docs <= MaxDocs /\ MaxTime \in Nat /\ MaxDocs \in Nat
      /\ Interval \in Nat /\ Interval > 0
  BY MongoAssumption
<1>3. /\ written = <<>> /\ svc = "new"
      /\ mons = [pc |-> "off", list |-> {}, map |-> {}, db |-> NoDb, ready |-> FALSE, stopAll |-> FALSE]
      /\ mon = [d \in Dbs |-> NoMonitor]
      /\ agg = [pc |-> "off", tick |-> FALSE, timeStart |-> 0, stats |-> {}, timer |-> None]
      /\ reports = <<>> /\ spooled = <<>> /\ status = "none" /\ crash = "none"
      /\ hist = [skipped |-> {}, bad |-> {}, lost |-> {}, dropped |-> {}, raced |-> {}, flushed |-> 0]
  BY Zenon DEF Init
<1>4. DOMAIN written = {} /\ DOMAIN reports = {} /\ DOMAIN spooled = {} /\ Len(written) = 0
  BY <1>3
<1>5. \A d \in Dbs : mon[d] = NoMonitor /\ DOMAIN mon[d].docsChan = {}
  BY <1>3 DEF NoMonitor
<1>6. ClockType /\ DocsType
  BY <1>1, <1>2, <1>3 DEF ClockType, DocsType
<1>7. SvcType /\ MonsType
  BY <1>3, Zenon DEF SvcType, MonsType
<1>8. MonType
  <2>1. <<>> \in Seq(1..MaxDocs)
    OBVIOUS
  <2>2. NoMonitor \in Monitor
    BY <2>1, Zenon DEF NoMonitor, Monitor
  <2> QED
    BY <1>3, <2>2, Zenon DEF MonType
<1>9. AggType
  BY <1>2, <1>3 DEF AggType, None
<1>10. MadeType /\ FateType
  BY <1>3 DEF MadeType, FateType, Fate
<1>11. Monitored /\ Unstarted /\ Reading
  BY <1>3, <1>5, Zenon DEF Monitored, Unstarted, Reading, DiesOnlyInRefresh
<1>12. ChanInOrder /\ AllApart
  BY <1>4, <1>5, Zenon DEF ChanInOrder, AllApart
<1>13. EachOnce
  <2>1. Waiting = {} /\ DocsOf(reports) = {} /\ DocsOf(spooled) = {}
    BY <1>4, <1>5, InWaiting, InDocsOf, Zenon DEF Waiting
  <2>2. 1..0 = {}
    OBVIOUS
  <2> QED
    BY <1>3, <1>4, <2>1, <2>2, Zenon DEF EachOnce, Once
<1>14. Stamps /\ Timer /\ Begun /\ SkippedLate
  BY <1>3, <1>4, Zenon DEF Stamps, Timer, Begun, SkippedLate
<1>15. Intervals
  <2>1. now \in Nat /\ Truncate(0) = 0
    BY <1>1, <1>2, TruncateInterval
  <2> QED
    BY <1>3, <1>4, <2>1 DEF Intervals, OwnDocs
<1> QED
  BY <1>6, <1>7, <1>8, <1>9, <1>10, <1>11, <1>12, <1>13, <1>14, <1>15, Zenon DEF Inv, Types

\* Every step keeps Inv.
LEMMA InvNext == Inv /\ [Next]_vars => Inv'
BY ClockTypeNext, SvcTypeNext, MonsTypeNext, MonTypeNext, AggTypeNext, MadeTypeNext, FateTypeNext,
   UnstartedNext, MonitoredNext, DocsNext, IntervalsNext, Zenon DEF Inv, Types, InIntervals

\* Inv is an invariant.
THEOREM InvAlways == Spec => []Inv
BY InvInit, InvNext, PTL DEF Spec

\* What a report in Made is, one in reportChan or one in the spool.
LEMMA InMade ==
  ASSUME Inv
  PROVE  /\ DOMAIN Made = 1..(Len(reports) + Len(spooled))
         /\ DOMAIN reports = 1..Len(reports) /\ DOMAIN spooled = 1..Len(spooled)
         /\ Len(reports) \in Nat /\ Len(spooled) \in Nat
         /\ \A i \in DOMAIN reports : i \in DOMAIN Made /\ Made[i] = reports[i]
         /\ \A i \in DOMAIN spooled : /\ i + Len(reports) \in DOMAIN Made
                                      /\ Made[i + Len(reports)] = spooled[i]
         /\ \A i \in DOMAIN Made : i \in DOMAIN reports \/ i - Len(reports) \in DOMAIN spooled
<1>1. reports \in Seq(Report) /\ spooled \in Seq(Report)
  BY Zenon DEF Inv, Types, MadeType
<1> QED
  BY <1>1 DEF Made

\* Reports that are different ones have no document in common, and are of the
\* same interval only if it was cut in two.
LEMMA MadeApart ==
  ASSUME Inv, NEW i \in DOMAIN Made, NEW j \in DOMAIN Made, i # j
  PROVE  Apart(Made[i], Made[j], hist.raced)
<1> DEFINE n == Len(reports)
<1>1. AllApart
  BY Zenon DEF Inv
<1>2. /\ DOMAIN reports = 1..n /\ DOMAIN spooled = 1..Len(spooled) /\ n \in Nat
      /\ \A k \in DOMAIN reports : Made[k] = reports[k]
      /\ \A k \in DOMAIN spooled : Made[k + n] = spooled[k]
      /\ \A k \in DOMAIN Made : k \in Int /\ (k \in DOMAIN reports \/ k - n \in DOMAIN spooled)
  BY InMade
<1>3. ASSUME NEW k \in DOMAIN Made, k - n \in DOMAIN spooled PROVE Made[k] = spooled[k - n]
  <2>1. (k - n) + n = k
    BY <1>2
  <2> QED
    BY <1>2, <1>3, <2>1, Zenon
<1>4. CASE i \in DOMAIN reports /\ j \in DOMAIN reports
  BY <1>1, <1>2, <1>4, Zenon DEF AllApart
<1>5. CASE i \in DOMAIN reports /\ j - n \in DOMAIN spooled
  BY <1>1, <1>2, <1>3, <1>5, Zenon DEF AllApart
<1>6. CASE i - n \in DOMAIN spooled /\ j \in DOMAIN reports
  BY <1>1, <1>2, <1>3, <1>6 DEF AllApart, Apart
<1>7. CASE i - n \in DOMAIN spooled /\ j - n \in DOMAIN spooled
  <2>1. i - n # j - n
    BY <1>2
  <2> QED
    BY <1>1, <1>3, <1>7, <2>1, Zenon DEF AllApart
<1> QED
  BY <1>2, <1>4, <1>5, <1>6, <1>7, Zenon

\* Inv implies the type invariant,
LEMMA InvTypeOK == Inv => TypeOK
<1> SUFFICES ASSUME Inv PROVE TypeOK
  OBVIOUS
<1>1. Types /\ Reading
  BY Zenon DEF Inv
<1>2. written \in Seq([db : Dbs, ts : 0..MaxTime]) /\ Len(written) <= MaxDocs
  BY <1>1, Instants, MongoAssumption DEF Types, DocsType, ClockType
<1>3. now \in 0..MaxTime /\ dbs \subseteq Dbs
  BY <1>1, Zenon DEF Types, ClockType
<1>4. status \in {"none", "reading"} /\ crash \in {"none", "starting", "running", "stopping"}
  BY <1>1, Zenon DEF Reading, DiesOnlyInRefresh
<1> QED
  BY <1>1, <1>2, <1>3, <1>4, Zenon
     DEF TypeOK, Types, SvcType, MonsType, MonType, Monitor, AggType, MadeType, Report

\* that each document is in one place,
LEMMA InvDocsOnce == Inv => DocsOnce
<1> SUFFICES ASSUME Inv PROVE DocsOnce
  OBVIOUS
<1> DEFINE M == DocsOf(reports) \union DocsOf(spooled)
<1>1. TypeOK /\ ChanInOrder /\ MonType /\ EachOnce
  BY InvTypeOK, Zenon DEF Inv, Types
<1>2. InReports = M
  <2>1. ASSUME NEW x PROVE x \in InReports <=> \E i \in DOMAIN Made : x \in Made[i].docs
    BY Zenon DEF InReports, Range
  <2>2. ASSUME NEW x
        PROVE  (\E i \in DOMAIN Made : x \in Made[i].docs)
               <=> (\E i \in DOMAIN reports : x \in reports[i].docs) \/ (\E i \in DOMAIN spooled : x \in spooled[i].docs)
    <3> DEFINE n == Len(reports)
    <3>1. /\ n \in Nat /\ DOMAIN Made = 1..(n + Len(spooled)) /\ Len(spooled) \in Nat
          /\ \A k \in DOMAIN reports : k \in DOMAIN Made /\ Made[k] = reports[k]
          /\ \A k \in DOMAIN spooled : k + n \in DOMAIN Made /\ Made[k + n] = spooled[k]
          /\ \A k \in DOMAIN Made : k \in DOMAIN reports \/ k - n \in DOMAIN spooled
      BY InMade, Zenon
    <3>2. ASSUME NEW k \in DOMAIN Made, k - n \in DOMAIN spooled PROVE Made[k] = spooled[k - n]
      <4>1. (k - n) + n = k
        BY <3>1
      <4> QED
        BY <3>1, <3>2, <4>1, Zenon
    <3> QED
      BY <3>1, <3>2, Zenon
  <2> QED
    BY <2>1, <2>2, InDocsOf, Zenon
<1>3. ASSUME NEW d \in Dbs PROVE IsInjective(mon[d].docsChan)
  <2>1. mon[d].docsChan \in Seq(1..MaxDocs)
    BY <1>1, Zenon DEF MonType, Monitor
  <2>2. \A k, l \in DOMAIN mon[d].docsChan : k < l => mon[d].docsChan[k] < mon[d].docsChan[l]
    BY <1>1, Zenon DEF ChanInOrder
  <2>3. \A k \in DOMAIN mon[d].docsChan : k \in Nat /\ mon[d].docsChan[k] \in Nat
    <3>1. /\ DOMAIN mon[d].docsChan = 1..Len(mon[d].docsChan) /\ Len(mon[d].docsChan) \in Nat
          /\ \A k \in DOMAIN mon[d].docsChan : mon[d].docsChan[k] \in 1..MaxDocs
      BY <2>1, ElementOf, Zenon
    <3> QED
      BY <3>1
  <2>4. \A k, l \in DOMAIN mon[d].docsChan : mon[d].docsChan[k] = mon[d].docsChan[l] => k = l
    BY <2>2, <2>3
  <2> QED
    BY <2>4, Zenon DEF IsInjective
<1>4. /\ DOMAIN Places = 1..6
      /\ Places[1] = M /\ Places[2] = agg.stats /\ Places[3] = hist.skipped
      /\ Places[4] = hist.bad /\ Places[5] = hist.lost /\ Places[6] = hist.dropped
  BY <1>2 DEF Places
<1> HIDE DEF M
<1>5. Once(Len(written), Waiting, agg.stats, M, hist.skipped, hist.bad, hist.lost, hist.dropped)
  BY <1>1, Zenon DEF EachOnce, M
<1>6. UNION Range(Places) = M \union agg.stats \union hist.skipped \union hist.bad \union hist.lost \union hist.dropped
  <2>1. ASSUME NEW x PROVE x \in UNION Range(Places) <=> \E i \in DOMAIN Places : x \in Places[i]
    BY Zenon DEF Range
  <2>2. \A i : i \in DOMAIN Places <=> i = 1 \/ i = 2 \/ i = 3 \/ i = 4 \/ i = 5 \/ i = 6
    BY <1>4
  <2> QED
    BY <1>4, <2>1, <2>2, Zenon
<1>7. 1..Len(written) = (UNION Range(Places)) \union (UNION {Range(mon[d].docsChan) : d \in Dbs})
  <2>1. UNION {Range(mon[d].docsChan) : d \in Dbs} = Waiting
    BY Zenon DEF Waiting, WaitingIn
  <2>2. 1..Len(written) = Waiting \union agg.stats \union M \union hist.skipped \union hist.bad
                            \union hist.lost \union hist.dropped
    BY <1>5, Zenon DEF Once
  <2>3. 1..Len(written) = (UNION Range(Places)) \union Waiting
    BY <1>6, <2>2, Zenon
  <2> QED
    BY <2>1, <2>3, Zenon
<1>8. \A i, j \in DOMAIN Places : i # j => Places[i] \intersect Places[j] = {}
  BY <1>4, <1>5 DEF Once
<1>9. ASSUME NEW d \in Dbs, NEW doc \in Range(mon[d].docsChan)
      PROVE  written[doc].db = d /\ \A i \in DOMAIN Places : doc \notin Places[i]
  <2>1. PICK k \in DOMAIN mon[d].docsChan : doc = mon[d].docsChan[k]
    BY Zenon DEF Range
  <2>2. doc \in Waiting /\ written[doc].db = d
    BY <1>1, <2>1, InWaiting, Zenon DEF Waiting, ChanInOrder
  <2> QED
    BY <1>4, <1>5, <2>2 DEF Once
<1>10. \A i, j \in DOMAIN Made : i # j => Made[i].docs \intersect Made[j].docs = {}
  BY MadeApart, Zenon DEF Apart
<1> QED
  BY <1>1, <1>3, <1>7, <1>8, <1>9, <1>10, Zenon DEF DocsOnce

\* and that each is in its own interval.
LEMMA InvOwnInterval == Inv => OwnInterval
<1> SUFFICES ASSUME Inv PROVE OwnInterval
  OBVIOUS
<1> DEFINE n == Len(reports)
<1>1. Intervals /\ SkippedLate
  BY Zenon DEF Inv
<1>2. \A k \in DOMAIN Made : OwnDocs(Made[k], written)
  <2> TAKE k \in DOMAIN Made
  <2>1. /\ n \in Nat /\ k \in Int /\ (k \in DOMAIN reports \/ k - n \in DOMAIN spooled)
        /\ k \in DOMAIN reports => Made[k] = reports[k]
        /\ k - n \in DOMAIN spooled => Made[(k - n) + n] = spooled[k - n]
    BY InMade
  <2>2. (k - n) + n = k
    BY <2>1
  <2> QED
    BY <1>1, <2>1, <2>2, Zenon DEF Intervals
<1>3. \A r \in Range(Made) \union {[start |-> agg.timeStart, docs |-> agg.stats]} : OwnDocs(r, written)
  BY <1>1, <1>2, Zenon DEF Intervals, Range
<1>4. \A i, j \in DOMAIN Made : i # j /\ Made[i].start = Made[j].start => Made[i].start \in hist.raced
  BY MadeApart, Zenon DEF Apart
<1>5. \A doc \in hist.skipped : Overtaken(doc, written, hist.flushed)
  BY <1>1, Zenon DEF SkippedLate
<1> QED
  BY <1>3, <1>4, <1>5, Zenon DEF OwnInterval, OwnDocs, Overtaken

\* A document that a collector has pushed is always in exactly one place, and
\* once: docsChan, the aggregator, one report, or what the code gives up
\* (Collector, Parser and Aggregator of one profiler, Stop of a monitor).
THEOREM DocumentsOnce == Spec => []DocsOnce
BY InvAlways, InvDocsOnce, PTL

\* Add and the flush of a quiet interval (aggregator.go) put a document in the
\* report of its own interval, report an interval once unless a document came
\* in between a tick and its Flush, and skip only documents that were overtaken.
THEOREM OwnIntervals == Spec => []OwnInterval
BY InvAlways, InvOwnInterval, PTL

\* The unlocked map write of MonitorAll (monitors.go) meets a reader only
\* between Start and Stop of the profiler, which hold its lock.
THEOREM DiesOnlyRefreshing == Spec => []DiesOnlyInRefresh
<1>1. Inv => DiesOnlyInRefresh
  BY Zenon DEF Inv, Reading
<1> QED
  BY <1>1, InvAlways, PTL
=============================================================================
