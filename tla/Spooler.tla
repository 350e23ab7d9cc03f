------------------------------ MODULE Spooler ------------------------------
(***************************************************************************)
(* The disk spooler of data/spooler.go and the goroutines that share it:   *)
(*   - the callers of Write (the analyzers),                               *)
(*   - run(), which moves reports from dataChan to disk and purges,        *)
(*   - one client that iterates over Files, reads and removes (the         *)
(*     sender's goroutine; what it decides for each file is left open),    *)
(*   - the manager, which stops and starts run() to change the encoding.   *)
(* mux guards the totals only: Files, CancelFiles, Read and the erasing of *)
(* a file run without it, and the goroutines share one cancelChan.         *)
(*                                                                         *)
(* A report is named by the number that stands for its time stamp, so that *)
(* the order of filepath.Walk is the order of numbers.  Names that Sender  *)
(* has too begin with Spooler.                                             *)
(***************************************************************************)
EXTENDS Integers, Sequences, FiniteSets, FiniteSetsExt

CONSTANTS Keys,         \* the reports ever written
          SizeOf,       \* size in bytes of each report's file
          Limits,       \* the spool limits of data.conf; the age limit shows in expired
          WriteBuffer,  \* capacity of dataChan
          UintMod,      \* number of values of a Go uint
          Bounds        \* where runs may begin, and what is to happen in them:
                        \*   old: files an earlier run of the agent may have left
                        \*   concurrent: sz.Concurrent() at the start
                        \*   faults: reading, writing and erasing a file may fail
                        \*   restarts: changes of the encoding
                        \*   expired: reports that outlive MaxAge

ASSUME SpoolerAssumption ==
  /\ Keys \subseteq Nat /\ IsFiniteSet(Keys)
  /\ SizeOf \in [Keys -> Nat]
  /\ Limits \in [MaxAge : Nat, MaxSize : Nat, MaxFiles : Nat]
  /\ WriteBuffer \in Nat \ {0}
  /\ UintMod \in Nat \ {0}
  /\ Bounds \subseteq [old : SUBSET Keys, concurrent : BOOLEAN, faults : BOOLEAN,
                       restarts : Nat, expired : Nat]

VARIABLES
  created,     \* reports handed to Write so far, in this run of the agent or before
  writers,     \* Writes that wait for room in dataChan, and whether they hold mux
  concurrent,  \* s.sz.Concurrent(): JSON yes, gzip no
  dataChan,
  disk,        \* files in the spool directory
  expired,     \* reports that are by now older than MaxAge
  count, size, \* s.count, s.size
  fileSize,    \* s.fileSize; NoSize where the map has no entry
  mux,         \* who holds s.mux
  cancelChan,  \* whose walk s.cancelChan cancels, and whether it is closed
  walk,        \* the directory walk behind the last Files of each goroutine
  run,         \* the goroutine of run(), or of Start while run() is stopped
  client,      \* the goroutine that calls Files, Read, Remove, CancelFiles
  bound,       \* the bounds of this run, and the restarts that are left
  alone, drift, extra \* history: see History below

spoolerVars == <<created, writers, concurrent, dataChan, disk, expired, count, size, fileSize,
                 mux, cancelChan, walk, run, client, bound, alone, drift, extra>>

\* What the writers and the manager do, what mux guards, what Files shares.
input  == <<created, writers, concurrent, dataChan, expired, bound>>
totals == <<count, size, fileSize>>
iter   == <<cancelChan, walk>>

NoSize == -1
Walkers == {"run", "client"}

Policy == INSTANCE SpoolPurge WITH TicksPerSec <- 1

Add(n, m) == (n + m) % UintMod
Subtract(n, m) == (n - m) % UintMod

NoWalk == [st |-> "closed", todo |-> {}, cancelled |-> FALSE]

\* A goroutine at pc with no live local variables.
RunAt(pc) == [pc |-> pc, key |-> 0, size |-> 0, ok |-> FALSE, panic |-> FALSE]
ClientAt(pc) == [pc |-> pc, key |-> 0, size |-> 0, ok |-> FALSE]

Down == run.pc = "stopped"      \* s.sz = nil and s.cache = nil
-----------------------------------------------------------------------------
(***************************************************************************)
(* History.  alone: since the current purge or restart began, the client   *)
(* has been between two iterations.  drift: the totals may be off, because *)
(* a purge or a restart was not alone or a write failed; a purge that was  *)
(* alone sets them right.  extra: what the last Start found in the totals, *)
(* until a purge counts anew.                                              *)
(***************************************************************************)
Purging == run.pc \in {"purge", "erase", "reset", "stats"}
Restarting == run.pc \in {"stopped", "starting", "start"}

History ==
  /\ alone' = (client'.pc \in {"new", "idle"} /\ (alone \/ run.pc \in {"select", "tick"}))
  /\ drift' = IF run.pc = "stats" /\ run'.pc # "stats" THEN ~alone'
              ELSE \/ drift
                   \/ (Purging \/ Restarting)' /\ ~alone'
                   \/ run.pc = "select" /\ run'.pc = "count" /\ disk' = disk
  /\ extra' = CASE run.pc = "starting" /\ run'.pc = "start" -> [count |-> count, size |-> size]
                [] run.pc = "reset" /\ run'.pc = "stats"    -> [count |-> 0, size |-> 0]
                [] OTHER                                     -> extra
-----------------------------------------------------------------------------
(***************************************************************************)
(* Files, CancelFiles and the walk.  Every Files replaces the one          *)
(* s.cancelChan.  The walk lists the directory, then looks up one name     *)
(* after the other and offers it to the range loop; a name that has        *)
(* vanished ends the walk, closing cancelChan ends it while it offers.     *)
(***************************************************************************)
Closed(g) == walk[g].st = "closed"

\* Mutant: Files keeps a cancelChan that has been closed.
FilesKeepsClosed(g) ==
  /\ cancelChan' = [cancelChan EXCEPT !.owner = g]
  /\ walk' = [walk EXCEPT ![g] = [st |-> "list", todo |-> {}, cancelled |-> FALSE]]

SpoolerFiles(g) ==
  /\ cancelChan' = [owner |-> g, closed |-> FALSE]
  /\ walk' = [walk EXCEPT ![g] = [st |-> "list", todo |-> {}, cancelled |-> FALSE]]

\* close(s.cancelChan) panics, and changes nothing, when it is closed already.
CancelPanics == cancelChan.closed

CancelFiles ==
  /\ cancelChan' = [cancelChan EXCEPT !.closed = TRUE]
  /\ walk' = IF ~CancelPanics /\ cancelChan.owner \in Walkers /\ ~Closed(cancelChan.owner)
             THEN [walk EXCEPT ![cancelChan.owner].cancelled = TRUE]
             ELSE walk

WalkList(g) ==
  /\ walk[g].st = "list"
  /\ walk' = [walk EXCEPT ![g].st = "stat", ![g].todo = disk]

WalkStat(g) ==
  /\ walk[g].st = "stat"
  /\ walk' = IF walk[g].todo # {} /\ Min(walk[g].todo) \in disk
             THEN [walk EXCEPT ![g].st = "offer"]
             ELSE [walk EXCEPT ![g] = NoWalk]

WalkCancel(g) ==
  /\ walk[g].st = "offer" /\ walk[g].cancelled
  /\ walk' = [walk EXCEPT ![g] = NoWalk]

WalkStep(g) ==
  /\ WalkList(g) \/ WalkStat(g) \/ WalkCancel(g)
  /\ UNCHANGED <<input, totals, disk, mux, cancelChan, run, client>> /\ History

\* The range loop of goroutine g receives file k.
Receive(g, k) ==
  /\ walk[g].st = "offer" /\ k = Min(walk[g].todo)
  /\ walk' = [walk EXCEPT ![g].st = "stat", ![g].todo = @ \ {k}]

\* cache.Read: whether it can succeed and whether it can fail.
ReadOk(k)  == k \in disk
ReadErr(k) == k \notin disk \/ bound.faults

\* Read caches what it read as the size of the file, 0 if it failed.
Read(k, ok) == fileSize' = [fileSize EXCEPT ![k] = IF ok THEN SizeOf[k] ELSE 0]
-----------------------------------------------------------------------------
(***************************************************************************)
(* Write.  With gzip the caller holds mux until the report is queued or    *)
(* the second is over.  While the spooler is stopped s.sz is nil: the      *)
(* caller panics and the report is lost.                                   *)
(***************************************************************************)
WriteBegin(k) ==
  /\ k \notin created /\ client.pc # "new"
  /\ created' = created \cup {k}
  /\ \/ /\ Down
        /\ UNCHANGED <<writers, mux>>
     \/ /\ ~Down
        /\ writers' = writers \cup {[key |-> k, locked |-> ~concurrent]}
        /\ IF concurrent THEN UNCHANGED mux
           ELSE mux = "free" /\ mux' = "write"
  /\ UNCHANGED <<totals, iter, concurrent, dataChan, disk, expired, run, client, bound>>
  /\ History

\* Mutant: Write returns without unlocking mux.
WriteReturnKeepsMux(w) ==
  /\ writers' = writers \ {w}
  /\ UNCHANGED <<totals, iter, created, concurrent, disk, expired, mux, run, client, bound>>
  /\ History

WriteReturn(w) ==
  /\ writers' = writers \ {w}
  /\ mux' = IF w.locked THEN "free" ELSE mux
  /\ UNCHANGED <<totals, iter, created, concurrent, disk, expired, run, client, bound>>
  /\ History

WriteQueued(w) ==
  /\ Len(dataChan) < WriteBuffer
  /\ dataChan' = Append(dataChan, w.key)
  /\ WriteReturn(w)

WriteTimeout(w) ==
  /\ Len(dataChan) = WriteBuffer
  /\ UNCHANGED dataChan
  /\ WriteReturn(w)
-----------------------------------------------------------------------------
(***************************************************************************)
(* run(): spool a report.  The file is written without mux; a failed write *)
(* is logged and counted all the same.                                     *)
(***************************************************************************)
RunSpool ==
  /\ run.pc = "select" /\ dataChan # <<>>
  /\ dataChan' = Tail(dataChan)
  /\ disk' = disk \cup {Head(dataChan)} \/ (bound.faults /\ disk' = disk)
  /\ run' = [run EXCEPT !.pc = "count", !.key = Head(dataChan)]
  /\ UNCHANGED <<totals, iter, created, writers, concurrent, expired, mux, client, bound>>
  /\ History

RunCount ==
  /\ run.pc = "count" /\ mux = "free"
  /\ count' = Add(count, 1)
  /\ size' = Add(size, SizeOf[run.key])
  /\ run' = RunAt("select")
  /\ UNCHANGED <<input, iter, disk, fileSize, mux, client>> /\ History

(***************************************************************************)
(* run(): purge, holding mux from the first Files to the end of            *)
(* updateStats.  For each file the loop receives it decides by the current *)
(* totals; remove() then looks up the size, erases and subtracts, even if  *)
(* the file is no longer there.  CancelFiles and updateStats are deferred, *)
(* so updateStats also runs when CancelFiles panics.                       *)
(***************************************************************************)
PurgeTick ==
  /\ run.pc = "select"
  /\ run' = RunAt("tick")
  /\ UNCHANGED <<input, totals, iter, disk, mux, client>> /\ History

PurgeBegin ==
  /\ run.pc = "tick" /\ mux = "free"
  /\ mux' = "run"
  /\ SpoolerFiles("run")
  /\ run' = RunAt("purge")
  /\ UNCHANGED <<input, totals, disk, client>> /\ History

Reason(k) == Policy!PurgeReason(Policy!PurgeAll(Limits), k \in expired, size, count, Limits)

PurgeNext(k) ==
  /\ run.pc = "purge"
  /\ Receive("run", k)
  /\ \/ /\ Reason(k) = "keep"
        /\ UNCHANGED <<run, fileSize>>
     \/ /\ Reason(k) # "keep" /\ fileSize[k] # NoSize
        /\ run' = [run EXCEPT !.pc = "erase", !.key = k, !.size = fileSize[k], !.ok = TRUE]
        /\ UNCHANGED fileSize
     \/ /\ Reason(k) # "keep" /\ fileSize[k] = NoSize
        /\ \E ok \in {b \in BOOLEAN : IF b THEN ReadOk(k) ELSE ReadErr(k)} :
             /\ Read(k, ok)
             /\ run' = [run EXCEPT !.pc = "erase", !.key = k, !.ok = FALSE,
                                   !.size = IF ok THEN SizeOf[k] ELSE 0]
  /\ UNCHANGED <<input, disk, count, size, mux, cancelChan, client>> /\ History

PurgeErase ==
  /\ run.pc = "erase"
  /\ run' = RunAt("purge")
  /\ \/ /\ disk' = disk \ {run.key}
        /\ count' = Subtract(count, 1)
        /\ size' = Subtract(size, run.size)
        /\ fileSize' = IF run.ok THEN [fileSize EXCEPT ![run.key] = NoSize] ELSE fileSize
     \/ /\ bound.faults /\ run.key \in disk
        /\ UNCHANGED <<disk, count, size, fileSize>>
  /\ UNCHANGED <<input, iter, mux, client>> /\ History

\* The loop is over: the deferred CancelFiles, then updateStats begins.  Its
\* Files replaces the channel that CancelFiles closed.
PurgeCancel ==
  /\ run.pc = "purge" /\ Closed("run")
  /\ CancelFiles
  /\ run' = [run EXCEPT !.pc = "reset", !.panic = CancelPanics]
  /\ UNCHANGED <<input, totals, disk, mux, client>> /\ History

\* Mutant: updateStats counts on top of the old totals.
StatsResetKeepsTotals ==
  /\ run.pc = "reset"
  /\ SpoolerFiles("run")
  /\ run' = [run EXCEPT !.pc = "stats"]
  /\ UNCHANGED <<input, totals, disk, mux, client>> /\ History

StatsReset ==
  /\ run.pc = "reset"
  /\ count' = 0 /\ size' = 0
  /\ SpoolerFiles("run")
  /\ run' = [run EXCEPT !.pc = "stats"]
  /\ UNCHANGED <<input, disk, fileSize, mux, client>> /\ History

\* The loop of updateStats, and of Start: an unreadable file is erased.
CountFile(k) ==
  /\ run.pc \in {"stats", "start"}
  /\ Receive("run", k)
  /\ \/ /\ ReadOk(k)
        /\ count' = Add(count, 1)
        /\ size' = Add(size, SizeOf[k])
        /\ UNCHANGED disk
     \/ /\ ReadErr(k)
        /\ disk' = disk \ {k}
        /\ UNCHANGED <<count, size>>
  /\ UNCHANGED <<input, fileSize, mux, cancelChan, run, client>> /\ History

\* mux is released; a panic ends run(), nothing restarts it.
StatsEnd ==
  /\ run.pc \in {"stats", "start"} /\ Closed("run")
  /\ mux' = "free"
  /\ run' = RunAt(IF run.panic THEN "crashed" ELSE "select")
  /\ UNCHANGED <<input, totals, iter, disk, client>> /\ History
-----------------------------------------------------------------------------
(***************************************************************************)
(* Stop and Start, called by the manager for a new encoding.  Stop waits   *)
(* for run() to be in its select.  Start counts the files on disk and adds *)
(* them to the totals, which nothing has reset.                            *)
(***************************************************************************)
SpoolerStop ==
  /\ run.pc = "select" /\ bound.restarts > 0
  /\ bound' = [bound EXCEPT !.restarts = @ - 1]
  /\ run' = RunAt("stopped")
  /\ UNCHANGED <<totals, iter, created, writers, concurrent, dataChan, disk, expired, mux, client>>
  /\ History

StartCache ==
  /\ run.pc = "stopped"
  /\ concurrent' = ~concurrent
  /\ run' = RunAt("starting")
  /\ UNCHANGED <<totals, iter, created, writers, dataChan, disk, expired, mux, client, bound>>
  /\ History

StartCount ==
  /\ run.pc = "starting" /\ mux = "free"
  /\ mux' = "run"
  /\ SpoolerFiles("run")
  /\ run' = RunAt("start")
  /\ UNCHANGED <<input, totals, disk, client>> /\ History
-----------------------------------------------------------------------------
(***************************************************************************)
(* The client, Sender.sendAllFiles: range over Files, Read each file, then *)
(* Remove it, Reject it, or give up (timeout, send or read error,          *)
(* throttling); CancelFiles is deferred.  With s.cache = nil a call panics *)
(* and the deferred CancelFiles still runs; the goroutine ends.            *)
(***************************************************************************)
Frame == UNCHANGED <<input, run>>

ClientPanics ==
  /\ Down
  /\ client' = ClientAt("crashed")
  /\ CancelFiles
  /\ UNCHANGED <<totals, disk, mux>>

\* The manager starts the sender once the spooler's first Start has returned.
ClientStart ==
  /\ client.pc = "new" /\ run.pc = "select"
  /\ client' = ClientAt("idle")
  /\ Frame /\ UNCHANGED <<totals, iter, disk, mux>> /\ History

ClientFiles ==
  /\ client.pc = "idle"
  /\ IF Down
     THEN /\ client' = ClientAt("crashed")
          /\ cancelChan' = [owner |-> "client", closed |-> TRUE]
          /\ UNCHANGED walk
     ELSE /\ client' = ClientAt("next")
          /\ SpoolerFiles("client")
  /\ Frame /\ UNCHANGED <<totals, disk, mux>> /\ History

ClientNext(k) ==
  /\ client.pc = "next"
  /\ Receive("client", k)
  /\ client' = [client EXCEPT !.pc = "got", !.key = k]
  /\ Frame /\ UNCHANGED <<totals, disk, mux, cancelChan>> /\ History

ClientRead ==
  /\ client.pc = "got"
  /\ \/ ClientPanics
     \/ /\ ~Down
        /\ \/ /\ ReadOk(client.key) /\ Read(client.key, TRUE)
              /\ client' = [client EXCEPT !.pc = "read"]
           \/ ReadErr(client.key) /\ Read(client.key, FALSE) /\ client' = ClientAt("cancel")
        /\ UNCHANGED <<iter, disk, count, size, mux>>
  /\ Frame /\ History

\* Reject: rename the file out of the spool, then Remove.
ClientReject ==
  /\ client.pc = "read" /\ client.key \in disk
  /\ disk' = disk \ {client.key}
  /\ client' = [client EXCEPT !.pc = "remove"]
  /\ Frame /\ UNCHANGED <<totals, iter, mux>> /\ History

\* Remove, its three parts: the cached size or a Read; Erase; the totals.
ClientRemove ==
  /\ client.pc \in {"read", "remove"}
  /\ \/ /\ fileSize[client.key] # NoSize
        /\ client' = [client EXCEPT !.pc = "erase", !.size = fileSize[client.key], !.ok = TRUE]
        /\ UNCHANGED <<totals, iter, disk, mux>>
     \/ /\ fileSize[client.key] = NoSize
        /\ \/ ClientPanics
           \/ /\ ~Down
              /\ \E ok \in {b \in BOOLEAN : IF b THEN ReadOk(client.key) ELSE ReadErr(client.key)} :
                   /\ Read(client.key, ok)
                   /\ client' = [client EXCEPT !.pc = "erase", !.ok = FALSE,
                                   !.size = IF ok THEN SizeOf[client.key] ELSE 0]
              /\ UNCHANGED <<iter, disk, count, size, mux>>
  /\ Frame /\ History

\* The client ignores the error of Remove and goes on to the next file.
ClientErase ==
  /\ client.pc = "erase"
  /\ \/ ClientPanics
     \/ /\ ~Down
        /\ \/ disk' = disk \ {client.key} /\ client' = [client EXCEPT !.pc = "count"]
           \/ bound.faults /\ client.key \in disk /\ disk' = disk /\ client' = ClientAt("next")
        /\ UNCHANGED <<totals, iter, mux>>
  /\ Frame /\ History

ClientCount ==
  /\ client.pc = "count" /\ mux = "free"
  /\ count' = Subtract(count, 1)
  /\ size' = Subtract(size, client.size)
  /\ fileSize' = IF client.ok THEN [fileSize EXCEPT ![client.key] = NoSize] ELSE fileSize
  /\ \E pc \in {"next", "cancel"} : client' = ClientAt(pc)
  /\ Frame /\ UNCHANGED <<disk, mux, cancelChan, walk>> /\ History

\* The loop ends, or the client gives up on the file it got or read.
ClientLeave ==
  /\ (client.pc = "next" /\ Closed("client")) \/ client.pc \in {"got", "read"}
  /\ client' = ClientAt("cancel")
  /\ Frame /\ UNCHANGED <<totals, iter, disk, mux>> /\ History

ClientCancel ==
  /\ client.pc = "cancel"
  /\ client' = ClientAt(IF CancelPanics THEN "crashed" ELSE "idle")
  /\ CancelFiles
  /\ Frame /\ UNCHANGED <<totals, disk, mux>> /\ History

\* Time passes: the oldest report becomes older than MaxAge.  A purge goes by the
\* time of its tick, so it matters only between two of them, and on disk.
Expire(k) ==
  /\ run.pc = "select"
  /\ k \in disk \ expired /\ \A j \in Keys \ expired : k <= j
  /\ Cardinality(expired) < bound.expired
  /\ expired' = expired \cup {k}
  /\ UNCHANGED <<created, writers, concurrent, dataChan, bound>>
  /\ UNCHANGED <<totals, iter, disk, mux, run, client>> /\ History
-----------------------------------------------------------------------------
SpoolerInit ==
  /\ bound \in Bounds /\ disk \in SUBSET bound.old
  /\ created = bound.old /\ expired = {} /\ writers = {}
  /\ concurrent = bound.concurrent
  /\ dataChan = <<>>
  /\ count = 0 /\ size = 0
  /\ fileSize = [k \in Keys |-> NoSize]
  /\ mux = "free"
  /\ cancelChan = [owner |-> "none", closed |-> FALSE]
  /\ walk = [g \in Walkers |-> NoWalk]
  /\ run = RunAt("starting")
  /\ client = ClientAt("new")
  /\ alone = TRUE /\ drift = FALSE /\ extra = [count |-> 0, size |-> 0]

Writer == \/ \E k \in Keys : WriteBegin(k)
          \/ \E w \in writers : WriteQueued(w) \/ WriteTimeout(w)
Purge == \/ PurgeBegin \/ PurgeErase \/ PurgeCancel \/ StatsReset \/ StatsEnd
         \/ \E k \in Keys : PurgeNext(k) \/ CountFile(k)
Run == RunSpool \/ RunCount \/ PurgeTick \/ Purge
Manager == SpoolerStop \/ StartCache \/ StartCount
Client == \/ ClientStart \/ ClientFiles \/ ClientRead \/ ClientReject \/ ClientRemove
          \/ ClientErase \/ ClientCount \/ ClientLeave \/ ClientCancel
          \/ \E k \in Keys : ClientNext(k)
SpoolerNext == \/ Writer \/ Run \/ Manager \/ Client
        \/ \E g \in Walkers : WalkStep(g)
        \/ \E k \in Keys : Expire(k)

SpoolerSpec == SpoolerInit /\ [][SpoolerNext]_spoolerVars

(***************************************************************************)
(* Fairness: every goroutine that can go on does so.  A Go select picks    *)
(* among its ready cases at random, so run() does not forever prefer the   *)
(* purge ticker to dataChan, nor the reverse; the ticker never stops.  The *)
(* client, and the arrival of writes and manager calls, owe nothing.       *)
(***************************************************************************)
SpoolerFairness ==
  /\ SF_spoolerVars(RunSpool)
  /\ SF_spoolerVars(PurgeTick)
  /\ WF_spoolerVars((RunCount \/ Purge \/ StartCache \/ StartCount))
  /\ \A g \in Walkers : WF_spoolerVars(WalkStep(g))
  /\ WF_spoolerVars((\E w \in writers : WriteQueued(w) \/ WriteTimeout(w)))

SpoolerFairSpec == SpoolerSpec /\ SpoolerFairness
-----------------------------------------------------------------------------
RunStates == {"select", "count", "tick", "purge", "erase", "reset", "stats",
              "stopped", "starting", "start", "crashed"}
ClientStates == {"new", "idle", "next", "got", "read", "remove", "erase", "count",
                 "cancel", "crashed"}

(***************************************************************************)
(* Types; the totals are uints, whatever is subtracted from them, and mux  *)
(* is held exactly by the code between Lock and Unlock.                    *)
(***************************************************************************)
SpoolerTypeOK ==
  /\ created \subseteq Keys /\ disk \subseteq created /\ expired \subseteq created
  /\ writers \subseteq [key : created, locked : BOOLEAN]
  /\ concurrent \in BOOLEAN
  /\ dataChan \in Seq(created) /\ Len(dataChan) <= WriteBuffer
  /\ count \in 0..(UintMod - 1) /\ size \in 0..(UintMod - 1)
  /\ fileSize \in [Keys -> Nat \cup {NoSize}]
  /\ mux \in {"free", "run", "write"}
  /\ cancelChan \in [owner : Walkers \cup {"none"}, closed : BOOLEAN]
  /\ walk \in [Walkers -> [st : {"list", "stat", "offer", "closed"},
                           todo : SUBSET created, cancelled : BOOLEAN]]
  /\ run \in [pc : RunStates, key : created \cup {0}, size : Nat, ok : BOOLEAN, panic : BOOLEAN]
  /\ client \in [pc : ClientStates, key : created \cup {0}, size : Nat, ok : BOOLEAN]
  /\ bound.restarts \in Nat /\ alone \in BOOLEAN /\ drift \in BOOLEAN
  /\ extra \in [count : 0..(UintMod - 1), size : 0..(UintMod - 1)]

\* Reports written but not yet added to the totals, and files taken off disk
\* but not yet subtracted.  A file can be both at once.
Uncounted == {k \in Keys : run.pc = "count" /\ k = run.key}
Taken == {k \in Keys \ disk : client.pc \in {"remove", "erase", "count"} /\ k = client.key}

(***************************************************************************)
(* s.count and s.size describe the spool directory, at every moment when   *)
(* no recount is under way, unless a purge or a restart ran into an        *)
(* iteration of the sender, or a write failed, since the last undisturbed  *)
(* purge.  From a restart to the next purge they are too large by just     *)
(* what they were before it, for Start adds the files on disk to them.     *)
(* (Within a purge the size may lag behind a Read that failed and left 0   *)
(* in fileSize.)                                                           *)
(***************************************************************************)
TotalsExact ==
  ~drift /\ run.pc \notin {"starting", "start", "stats"} =>
    /\ count = (extra.count + Cardinality(disk) + Cardinality(Taken)
                  - Cardinality(Uncounted)) % UintMod
    /\ ~Purging => size = (extra.size + SumFunctionOnSet(SizeOf, disk)
                             + SumFunctionOnSet(SizeOf, Taken)
                             - SumFunctionOnSet(SizeOf, Uncounted)) % UintMod

(***************************************************************************)
(* The second close of cancelChan, which ends run() or the sender, and the *)
(* nil cache, happen only when a purge or a restart runs into an iteration *)
(* of the sender.  Until then and after it the variables have their types. *)
(***************************************************************************)
CrashOnlyInCompany == SpoolerTypeOK /\ (run.pc = "crashed" \/ client.pc = "crashed" => drift)

(***************************************************************************)
(* A report that Write accepted leaves dataChan for the disk, unless run() *)
(* has crashed: the caller of a gzip Write that waits for room while it    *)
(* holds mux, and run() that needs mux before it can make room, do not     *)
(* block each other for ever.                                              *)
(***************************************************************************)
QueueDrains ==
  \A k \in Keys : (\E i \in DOMAIN dataChan : dataChan[i] = k)
                   ~> (run.pc = "crashed" \/ \A i \in DOMAIN dataChan : dataChan[i] # k)

(***************************************************************************)
(* "When the spool has more files than this, the oldest files are purged"  *)
(* (docs/agent.rst): a spool with more files than MaxFiles is brought back *)
(* to the limit.                                                           *)
(***************************************************************************)
OverLimitIsPurged ==
  (Cardinality(disk) > Limits.MaxFiles) ~> (Cardinality(disk) <= Limits.MaxFiles)
=============================================================================
