------------------------------ MODULE Analyzer ------------------------------
(***************************************************************************)
(* The MySQL analyzer (qan/analyzer/mysql/analyzer.go): run(), the         *)
(* goroutines configureMySQL and runWorker that it starts, the iterator    *)
(* (worker/*/iter.go), the worker as far as Stop and the rotation of the   *)
(* slow log touch it, and Stop.  Around them are a MySQL that restarts and *)
(* forgets its configuration, the restart monitor and the clock.           *)
(*                                                                         *)
(* A channel of capacity 1 is TRUE when it is full.  What an interval      *)
(* holds is the subject of SlowLog and PerfSchema.                         *)
(***************************************************************************)
EXTENDS Integers

CONSTANTS MaxRestarts,  \* bound: restarts of MySQL
          MaxFaults     \* bound: failed connections and statements

ASSUME AnalyzerAssumption == MaxRestarts \in Nat /\ MaxFaults \in Nat

VARIABLES
  collectFrom,   \* config.CollectFrom: "slowlog" or "perfschema"
  mysql,         \* TRUE: the start queries are in effect
  unseen,        \* a restart that the monitor has not noticed yet
  restartChan, tickChan, intervalChan, workerDoneChan,
  pc,            \* where run() is
  configured,    \* run()'s mysqlConfigured
  working,       \* run()'s workerRunning
  conf,          \* where configureMySQL("start") is
  iter,          \* where the iterator is
  worker,        \* where runWorker is
  closed,        \* closeChan is closed: Stop was called
  excuse,        \* history: what lets MySQL be in another state than run() thinks
  restarts, faults

vars  == <<collectFrom, mysql, unseen, restartChan, tickChan, intervalChan, workerDoneChan, pc, configured,
           working, conf, iter, worker, closed, excuse, restarts, faults>>
env   == <<collectFrom, unseen, closed, restarts>>
flags == <<configured, working>>
chans == <<restartChan, tickChan, intervalChan, workerDoneChan>>
procs == <<pc, conf, iter, worker>>

Fault   == faults < MaxFaults /\ faults' = faults + 1
\* w.running, which the slow log worker's Stop looks at.
Running == worker \in {"parse", "finish"}
-----------------------------------------------------------------------------
\* MySQL restarts, and is as its option file says: not configured.
Restart ==
  /\ restarts < MaxRestarts /\ restarts' = restarts + 1
  /\ mysql' = FALSE /\ unseen' = TRUE
  /\ UNCHANGED <<collectFrom, closed, chans, procs, flags, excuse, faults>>

\* RealMonitor.Check: a listener that is not ready has a restart to take anyway.
Check ==
  /\ unseen /\ unseen' = FALSE /\ restartChan' = TRUE
  /\ UNCHANGED <<collectFrom, closed, restarts, mysql, tickChan, intervalChan, workerDoneChan, procs, flags, excuse, faults>>

\* Ticker.tick: a watcher that is not ready misses the tick.
ClockTick ==
  /\ ~tickChan /\ tickChan' = TRUE
  /\ UNCHANGED <<env, mysql, restartChan, intervalChan, workerDoneChan, procs, flags, excuse, faults>>

\* RealAnalyzer.Stop: close closeChan, then wait until run() has ended.
Stop ==
  /\ ~closed /\ closed' = TRUE
  /\ UNCHANGED <<collectFrom, unseen, restarts, mysql, chans, procs, flags, excuse, faults>>
-----------------------------------------------------------------------------
(***************************************************************************)
(* configureMySQL("start", 0), which tries for ever, and waits a second    *)
(* before it tries again.  It gives up only there, when closeChan is       *)
(* closed; the deferred send to the unbuffered channel happens in any      *)
(* case, or is given up for closeChan.                                     *)
(***************************************************************************)
ConfConnect ==
  /\ conf = "connect" /\ conf' = "exec"
  /\ UNCHANGED <<env, mysql, chans, pc, iter, worker, flags, excuse, faults>>

ConfFails ==
  /\ conf \in {"connect", "exec"} /\ conf' = "wait" /\ Fault
  /\ UNCHANGED <<env, mysql, chans, pc, iter, worker, flags, excuse>>

\* Mutant: one try only; the deferred send reports success all the same.
ConfGivesUp ==
  /\ conf = "wait" /\ conf' = "send"
  /\ UNCHANGED <<env, mysql, chans, pc, iter, worker, flags, excuse, faults>>

ConfRetry ==
  /\ conf = "wait" /\ conf' \in {"connect"} \cup {c \in {"send"} : closed}
  /\ UNCHANGED <<env, mysql, chans, pc, iter, worker, flags, excuse, faults>>

ConfExec ==
  /\ conf = "exec" /\ conf' = "send" /\ mysql' = TRUE
  /\ UNCHANGED <<env, chans, pc, iter, worker, flags, excuse, faults>>

ConfLeave ==
  /\ conf = "send" /\ closed /\ conf' = "none"
  /\ UNCHANGED <<env, mysql, chans, pc, iter, worker, flags, excuse, faults>>
-----------------------------------------------------------------------------
\* The iterator takes a tick; the first one may have no interval yet.
IterTick ==
  /\ iter = "idle" /\ tickChan /\ tickChan' = FALSE
  /\ iter' \in {"send"} \cup {i \in {"idle"} : collectFrom = "slowlog"}
  /\ UNCHANGED <<env, mysql, restartChan, intervalChan, workerDoneChan, pc, conf, worker, flags, excuse, faults>>

\* It sends the interval, or loses it after a second.
IterSend ==
  /\ iter = "send" /\ iter' = "idle" /\ intervalChan' = TRUE
  /\ UNCHANGED <<env, mysql, restartChan, tickChan, workerDoneChan, pc, conf, worker, flags, excuse, faults>>
-----------------------------------------------------------------------------
\* run() takes an interval: skipped when not configured or still working.
RunInterval ==
  /\ pc = "select" /\ intervalChan /\ intervalChan' = FALSE
  /\ IF configured /\ ~working THEN worker' = "setup" /\ working' = TRUE
                               ELSE UNCHANGED <<worker, working>>
  /\ UNCHANGED <<env, mysql, restartChan, tickChan, workerDoneChan, pc, conf, iter, configured, excuse, faults>>

RunWorkerDone ==
  /\ pc = "select" /\ workerDoneChan /\ workerDoneChan' = FALSE /\ working' = FALSE
  /\ UNCHANGED <<env, mysql, restartChan, tickChan, intervalChan, procs, configured, excuse, faults>>

(***************************************************************************)
(* configureMySQL meets run(): start the iterator, and simulate a tick if  *)
(* the next one is far away.                                               *)
(***************************************************************************)
RunConfigured ==
  /\ pc = "select" /\ conf = "send" /\ conf' = "none"
  /\ configured' = TRUE /\ iter' = "idle" /\ pc' \in {"select", "tick"}
  /\ UNCHANGED <<env, mysql, chans, worker, working, excuse, faults>>

RunTick ==
  /\ pc = "tick" /\ pc' = "select" /\ ~tickChan /\ tickChan' = TRUE
  /\ UNCHANGED <<env, mysql, restartChan, intervalChan, workerDoneChan, conf, iter, worker, flags, excuse, faults>>

\* Mutant: the restart is handled while configureMySQL is under way, too.
RunRestartAlways ==
  /\ pc = "select" /\ restartChan /\ restartChan' = FALSE
  /\ configured' = FALSE /\ pc' = "iterStop"
  /\ UNCHANGED <<env, mysql, tickChan, intervalChan, workerDoneChan, conf, iter, worker, working, excuse, faults>>

\* Mutant: the iterator goes on while MySQL is configured again.
RunRestartKeepsIter ==
  /\ pc = "select" /\ restartChan /\ restartChan' = FALSE
  /\ IF configured THEN configured' = FALSE /\ conf' = "connect" ELSE UNCHANGED <<configured, conf>>
  /\ UNCHANGED <<env, mysql, tickChan, intervalChan, workerDoneChan, pc, iter, worker, working, excuse, faults>>

(***************************************************************************)
(* A restart: configure MySQL again, unless that is under way.  When it    *)
(* has already done its part and only waits for run(), the restart is      *)
(* missed.                                                                 *)
(***************************************************************************)
RunRestart ==
  /\ pc = "select" /\ restartChan /\ restartChan' = FALSE
  /\ IF configured THEN configured' = FALSE /\ pc' = "iterStop" /\ UNCHANGED excuse
     ELSE /\ excuse' = IF conf = "send" /\ ~mysql THEN excuse \cup {"missed"} ELSE excuse
          /\ UNCHANGED <<configured, pc>>
  /\ UNCHANGED <<env, mysql, tickChan, intervalChan, workerDoneChan, conf, iter, worker, working, faults>>

\* iter.Stop() returns when the iterator has taken the stop; then configure.
RunIterStop ==
  /\ pc = "iterStop" /\ iter = "idle" /\ iter' = "off"
  /\ conf' = "connect" /\ pc' = "select"
  /\ UNCHANGED <<env, mysql, chans, worker, flags, excuse, faults>>
-----------------------------------------------------------------------------
(***************************************************************************)
(* runWorker: Setup, which may rotate the slow log with the stop and start *)
(* queries, Run, and a report to the spool.  Its end is told to run().     *)
(***************************************************************************)
WorkerSetup ==
  /\ worker = "setup" /\ worker' = "parse"
  /\ UNCHANGED <<env, mysql, chans, pc, conf, iter, flags, excuse, faults>>

WorkerRotates ==
  /\ worker = "setup" /\ worker' = "rotate" /\ collectFrom = "slowlog" /\ mysql' = FALSE
  /\ UNCHANGED <<env, chans, pc, conf, iter, flags, excuse, faults>>

\* The start queries come whatever run() did meanwhile.
WorkerRotated ==
  /\ worker = "rotate" /\ worker' = "parse" /\ mysql' = TRUE
  /\ excuse' = IF pc = "ended" THEN excuse \cup {"rotated"} ELSE excuse
  /\ UNCHANGED <<env, chans, pc, conf, iter, flags, faults>>

RotateFails ==
  /\ worker = "rotate" /\ worker' = "parse" /\ Fault
  /\ excuse' = excuse \cup {"rotateFailed"}
  /\ UNCHANGED <<env, mysql, chans, pc, conf, iter, flags>>

\* The event loop ends by itself: end of the interval, timeout, an error.
WorkerParsed ==
  /\ worker = "parse" /\ worker' = "finish"
  /\ UNCHANGED <<env, mysql, chans, pc, conf, iter, flags, excuse, faults>>

\* Or it takes StopChan, which it looks at when it has an event.
WorkerStopped ==
  /\ worker = "parse" /\ worker' = "finish" /\ pc = "waitStop" /\ pc' = "waitDone"
  /\ UNCHANGED <<env, mysql, chans, conf, iter, flags, excuse, faults>>

\* Run returns, with sync.Done() if it was stopped.
WorkerReturns ==
  /\ worker = "finish" /\ worker' = "spool"
  /\ pc' = IF pc = "waitDone" THEN "stopIter" ELSE pc
  /\ UNCHANGED <<env, mysql, chans, conf, iter, flags, excuse, faults>>

WorkerDone ==
  /\ worker = "spool" /\ worker' = "off" /\ ~workerDoneChan /\ workerDoneChan' = TRUE
  /\ UNCHANGED <<env, mysql, restartChan, tickChan, intervalChan, pc, conf, iter, flags, excuse, faults>>
-----------------------------------------------------------------------------
\* run() sees closeChan; what follows is its deferred function.
RunClose ==
  /\ pc = "select" /\ closed /\ pc' = "stopWorker"
  /\ UNCHANGED <<env, mysql, chans, conf, iter, worker, flags, excuse, faults>>

\* worker.Stop(): the slow log worker is waited for if it is running.
StopWorker ==
  /\ pc = "stopWorker"
  /\ pc' = IF collectFrom = "slowlog" /\ Running THEN "waitStop" ELSE "stopIter"
  /\ UNCHANGED <<env, mysql, chans, conf, iter, worker, flags, excuse, faults>>

\* Mutant: iter.Stop() also when the iterator was not started.
StopIterAlways ==
  /\ pc = "stopIter" /\ iter = "idle" /\ iter' = "off" /\ pc' = "stopConf"
  /\ UNCHANGED <<env, mysql, chans, conf, worker, flags, excuse, faults>>

StopIter ==
  /\ pc = "stopIter"
  /\ IF configured THEN iter = "idle" /\ iter' = "off" /\ pc' = "stopConf"
                   ELSE pc' = "ended" /\ UNCHANGED iter
  /\ UNCHANGED <<env, mysql, chans, conf, worker, flags, excuse, faults>>

\* Mutant: MySQL is left as it is.
StopConfNot ==
  /\ pc = "stopConf" /\ pc' = "ended"
  /\ UNCHANGED <<env, mysql, chans, conf, iter, worker, flags, excuse, faults>>

\* configureMySQL("stop", 1): one try.
StopConf ==
  /\ pc = "stopConf" /\ pc' = "ended" /\ mysql' = FALSE
  /\ UNCHANGED <<env, chans, conf, iter, worker, flags, excuse, faults>>

StopConfFails ==
  /\ pc = "stopConf" /\ pc' = "ended" /\ Fault /\ excuse' = excuse \cup {"stopFailed"}
  /\ UNCHANGED <<env, mysql, chans, conf, iter, worker, flags>>
-----------------------------------------------------------------------------
\* run() has just begun, with a goroutine that configures MySQL.
Init ==
  /\ collectFrom \in {"slowlog", "perfschema"} /\ mysql = FALSE /\ unseen = FALSE
  /\ restartChan = FALSE /\ tickChan = FALSE /\ intervalChan = FALSE /\ workerDoneChan = FALSE
  /\ pc = "select" /\ configured = FALSE /\ working = FALSE
  /\ conf = "connect" /\ iter = "off" /\ worker = "off"
  /\ closed = FALSE /\ excuse = {} /\ restarts = 0 /\ faults = 0

Next ==
  \/ Restart \/ Check \/ ClockTick \/ Stop
  \/ ConfConnect \/ ConfFails \/ ConfRetry \/ ConfExec \/ ConfLeave
  \/ IterTick \/ IterSend
  \/ RunInterval \/ RunWorkerDone \/ RunConfigured \/ RunTick \/ RunRestart \/ RunIterStop
  \/ WorkerSetup \/ WorkerRotates \/ WorkerRotated \/ RotateFails
  \/ WorkerParsed \/ WorkerStopped \/ WorkerReturns \/ WorkerDone
  \/ RunClose \/ StopWorker \/ StopIter \/ StopConf \/ StopConfFails

(***************************************************************************)
(* Every goroutine goes on when it can.  A select chooses at random among  *)
(* the channels that are ready, and a blocked sender or receiver is served *)
(* in turn, so none that can go on again and again waits for ever: this is *)
(* asked for closeChan and restartChan, and for run() when it waits for    *)
(* the iterator.  MySQL, the clock, and the call of Stop have no duties.   *)
(***************************************************************************)
Fairness ==
  /\ WF_vars(Check)
  /\ WF_vars(ConfConnect \/ ConfExec \/ ConfRetry)
  /\ WF_vars(IterTick \/ IterSend)
  /\ WF_vars(WorkerSetup \/ WorkerRotated \/ WorkerParsed \/ WorkerReturns \/ WorkerDone)
  /\ WF_vars(StopWorker \/ StopConf)
  /\ SF_vars(RunTick \/ RunIterStop \/ StopIter)
  /\ SF_vars(RunRestart)
  /\ SF_vars(RunClose)

Spec == Init /\ [][Next]_vars /\ Fairness
-----------------------------------------------------------------------------
(***************************************************************************)
(* The type invariant; run() thinks that a worker is running exactly from  *)
(* the moment it starts one until it takes its message from workerDoneChan.*)
(***************************************************************************)
TypeOK ==
  /\ collectFrom \in {"slowlog", "perfschema"}
  /\ mysql \in BOOLEAN /\ unseen \in BOOLEAN /\ closed \in BOOLEAN /\ configured \in BOOLEAN /\ working \in BOOLEAN
  /\ restartChan \in BOOLEAN /\ tickChan \in BOOLEAN /\ intervalChan \in BOOLEAN /\ workerDoneChan \in BOOLEAN
  /\ pc \in {"select", "tick", "iterStop", "stopWorker", "waitStop", "waitDone", "stopIter", "stopConf", "ended"}
  /\ conf \in {"none", "connect", "exec", "wait", "send"} /\ iter \in {"off", "idle", "send"}
  /\ worker \in {"off", "setup", "rotate", "parse", "finish", "spool"}
  /\ excuse \subseteq {"missed", "rotated", "rotateFailed", "stopFailed"}
  /\ restarts \in 0..MaxRestarts /\ faults \in 0..MaxFaults
  /\ working = (worker # "off" \/ workerDoneChan)

(***************************************************************************)
(* While run() waits for something to happen there is one iterator if it   *)
(* believes MySQL configured, and otherwise none but exactly one           *)
(* configureMySQL: so that iter.Stop() does not block, iter.Start() starts *)
(* no second one, and an analyzer that is not configured will be           *)
(* ("configureMySQL() should already be running").  The same holds of      *)
(* workerRunning and the worker (TypeOK).                                  *)
(***************************************************************************)
IterOrConf ==
  /\ TypeOK
  /\ pc = "select" => /\ configured <=> iter # "off"
                      /\ configured => conf = "none"
                      /\ ~configured /\ ~closed => conf # "none"

(***************************************************************************)
(* When run() believes MySQL configured it is, or a restart is still on    *)
(* its way to run(), or the worker is rotating the log; unless run() took  *)
(* a restart for one that configureMySQL would deal with while that only   *)
(* waited to report, or a rotation failed.                                 *)
(***************************************************************************)
BeliefIsTrue ==
  pc = "select" /\ configured /\ ~closed /\ excuse = {} => mysql \/ unseen \/ restartChan \/ worker = "rotate"

(***************************************************************************)
(* After Stop of a configured analyzer the start queries are no longer in  *)
(* effect ("un-configures MySQL", qan/manager.go:400), unless the one try  *)
(* failed, or a rotation, for which worker.Stop() does not wait, turned    *)
(* the log on again.  Nothing is promised of an analyzer that Stop catches *)
(* while it configures MySQL.                                              *)
(***************************************************************************)
StopUnconfigures ==
  pc = "ended" /\ configured /\ excuse \cap {"stopFailed", "rotated"} = {} => ~mysql

(***************************************************************************)
(* Stop returns; unless worker.Stop() saw the slow log worker running when *)
(* its event loop had ended, or ends without another event: nobody is left *)
(* to receive from StopChan, and Stop waits for ever with mux locked.      *)
(***************************************************************************)
StopCompletes == closed ~> pc = "ended" \/ (pc = "waitStop" /\ worker # "parse")

(***************************************************************************)
(* A MySQL that lost its configuration is configured again, however often  *)
(* it restarts while that happens and connections fail; unless Stop is     *)
(* called, a restart is missed, or a rotation failed.                      *)
(***************************************************************************)
ConfiguredAgain == ~mysql ~> mysql \/ closed \/ excuse # {}
=============================================================================
