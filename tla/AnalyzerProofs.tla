--------------------------- MODULE AnalyzerProofs ---------------------------
(***************************************************************************)
(* However often MySQL restarts and statements fail: run() has either the  *)
(* iterator or configureMySQL, what it believes of MySQL is true but for   *)
(* the named exceptions, and Stop leaves MySQL unconfigured.               *)
(***************************************************************************)
EXTENDS Analyzer, TLAPS

USE DEF vars, env, flags, chans, procs

\* Where run() is once it has seen closeChan.
Stopping == {"stopWorker", "waitStop", "waitDone", "stopIter", "stopConf", "ended"}

(***************************************************************************)
(* What IterOrConf says of run()'s select, said of every place run() can   *)
(* be at: the iterator is on while run() believes MySQL configured, until  *)
(* its iter.Stop() returns; configureMySQL runs only while run() does not, *)
(* and has been started again before run() is back in its select.  A       *)
(* worker's message is taken before the next worker is started.            *)
(***************************************************************************)
IterOrConfThroughout ==
  /\ iter # "off" <=> pc = "iterStop" \/ (configured /\ pc \notin {"stopConf", "ended"})
  /\ pc = "iterStop" => ~configured /\ conf = "none"
  /\ pc \in {"tick", "stopConf"} => configured
  /\ configured => conf = "none"
  /\ ~configured /\ ~closed /\ pc # "iterStop" => conf # "none"
  /\ pc \in Stopping => closed
  /\ ~(workerDoneChan /\ worker # "off")

(***************************************************************************)
(* BeliefIsTrue from the moment the start queries have run, when only      *)
(* configureMySQL knows of it: its report to run() is then true, too.      *)
(***************************************************************************)
ReportIsTrue ==
  (configured \/ conf = "send") /\ ~closed /\ excuse = {} => mysql \/ unseen \/ restartChan \/ worker = "rotate"

Inv == TypeOK /\ IterOrConfThroughout /\ ReportIsTrue /\ StopUnconfigures
-----------------------------------------------------------------------------
\* A fresh analyzer, whose run() has just started configureMySQL, satisfies Inv.
LEMMA InvInit == Init => Inv
<1> SUFFICES ASSUME Init PROVE Inv
  OBVIOUS
<1>1. /\ mysql \in BOOLEAN
      /\ unseen \in BOOLEAN
      /\ restartChan \in BOOLEAN
      /\ tickChan \in BOOLEAN
      /\ intervalChan \in BOOLEAN
      /\ workerDoneChan \in BOOLEAN
      /\ configured \in BOOLEAN
      /\ working \in BOOLEAN
      /\ closed \in BOOLEAN
  BY Zenon DEF Init
<1>2. TypeOK
  BY <1>1, AnalyzerAssumption, SMTT(30) DEF Init, TypeOK
<1> QED
  BY <1>2 DEF Init, Inv, TypeOK, IterOrConfThroughout, ReportIsTrue, StopUnconfigures, Stopping

\* Every step of run(), its goroutines, MySQL and the clock keeps Inv.
LEMMA InvNext == Inv /\ [Next]_vars => Inv'
<1> SUFFICES ASSUME Inv, [Next]_vars PROVE Inv'
  OBVIOUS
<1> USE AnalyzerAssumption DEF Inv, TypeOK, IterOrConfThroughout, ReportIsTrue, StopUnconfigures, Stopping, Fault
<1>1. CASE Restart
  <2>1. mysql' \in BOOLEAN /\ unseen' \in BOOLEAN
    BY <1>1, Zenon DEF Restart
  <2> QED
    BY <1>1, <2>1 DEF Restart
<1>2. CASE Check
  <2>1. unseen' \in BOOLEAN /\ restartChan' \in BOOLEAN
    BY <1>2, Zenon DEF Check
  <2> QED
    BY <1>2, <2>1 DEF Check
<1>3. CASE ClockTick
  BY <1>3 DEF ClockTick
<1>4. CASE Stop
  BY <1>4 DEF Stop
<1>5. CASE ConfConnect
  BY <1>5 DEF ConfConnect
<1>6. CASE ConfFails
  BY <1>6 DEF ConfFails
<1>7. CASE ConfRetry
  BY <1>7 DEF ConfRetry
<1>8. CASE ConfExec
  BY <1>8 DEF ConfExec
<1>9. CASE ConfLeave
  BY <1>9 DEF ConfLeave
<1>10. CASE IterTick
  <2>1. tickChan' \in BOOLEAN
    BY <1>10, Zenon DEF IterTick
  <2> QED
    BY <1>10, <2>1 DEF IterTick
<1>11. CASE IterSend
  BY <1>11 DEF IterSend
<1>12. CASE RunInterval
  <2>1. intervalChan' \in BOOLEAN /\ working' \in BOOLEAN
    BY <1>12, Zenon DEF RunInterval
  <2> QED
    BY <1>12, <2>1 DEF RunInterval
<1>13. CASE RunWorkerDone
  <2>1. workerDoneChan' \in BOOLEAN /\ working' \in BOOLEAN
    BY <1>13, Zenon DEF RunWorkerDone
  <2> QED
    BY <1>13, <2>1 DEF RunWorkerDone
<1>14. CASE RunConfigured
  BY <1>14 DEF RunConfigured
<1>15. CASE RunTick
  BY <1>15 DEF RunTick
<1>16. CASE RunRestart
  <2>1. restartChan' \in BOOLEAN /\ configured' \in BOOLEAN
    BY <1>16, Zenon DEF RunRestart
  <2>2. CASE configured
    <3>1. pc' = "iterStop" /\ ~configured' /\ iter' # "off" /\ conf' = "none" /\ excuse' = excuse
      BY <1>16, <2>2 DEF RunRestart
    <3>2. TypeOK'
      BY <1>16, <2>1, <3>1 DEF RunRestart
    <3> QED
      BY <1>16, <3>1, <3>2 DEF RunRestart
  <2>3. CASE ~configured
    <3>1. excuse' \subseteq {"missed", "rotated", "rotateFailed", "stopFailed"} /\ excuse \subseteq excuse'
      BY <1>16, <2>3, Zenon DEF RunRestart
    <3>2. excuse' = {} => excuse = {} /\ (conf = "send" => mysql)
      BY <1>16, <2>3 DEF RunRestart
    <3> QED
      BY <1>16, <2>1, <2>3, <3>1, <3>2 DEF RunRestart
  <2> QED
    BY <2>2, <2>3
<1>17. CASE RunIterStop
  BY <1>17 DEF RunIterStop
<1>18. CASE WorkerSetup
  BY <1>18 DEF WorkerSetup
<1>19. CASE WorkerRotates
  <2>1. mysql' \in BOOLEAN
    BY <1>19, Zenon DEF WorkerRotates
  <2> QED
    BY <1>19, <2>1 DEF WorkerRotates
<1>20. CASE WorkerRotated
  BY <1>20 DEF WorkerRotated
<1>21. CASE RotateFails
  BY <1>21 DEF RotateFails
<1>22. CASE WorkerParsed
  BY <1>22 DEF WorkerParsed
<1>23. CASE WorkerStopped
  BY <1>23 DEF WorkerStopped
<1>24. CASE WorkerReturns
  BY <1>24 DEF WorkerReturns
<1>25. CASE WorkerDone
  BY <1>25 DEF WorkerDone
<1>26. CASE RunClose
  BY <1>26 DEF RunClose
<1>27. CASE StopWorker
  BY <1>27 DEF StopWorker
<1>28. CASE StopIter
  BY <1>28 DEF StopIter
<1>29. CASE StopConf
  BY <1>29, Zenon DEF StopConf
<1>30. CASE StopConfFails
  BY <1>30 DEF StopConfFails
<1>31. CASE UNCHANGED vars
  BY <1>31
<1> QED
  BY <1>1, <1>2, <1>3, <1>4, <1>5, <1>6, <1>7, <1>8, <1>9, <1>10, <1>11, <1>12, <1>13, <1>14, <1>15,
     <1>16, <1>17, <1>18, <1>19, <1>20, <1>21, <1>22, <1>23, <1>24, <1>25, <1>26, <1>27, <1>28, <1>29,
     <1>30, <1>31, Zenon DEF Next

\* Inv holds in every state of every analyzer.
LEMMA InvAlways == Spec => []Inv
BY InvInit, InvNext, PTL DEF Spec
-----------------------------------------------------------------------------
(***************************************************************************)
(* In run()'s select there is one iterator, or exactly one configureMySQL: *)
(* "configureMySQL() should already be running" is true whenever run()     *)
(* relies on it, and workerRunning is true of the worker.                  *)
(***************************************************************************)
THEOREM OneIteratorOrConfigurer == Spec => []IterOrConf
<1>1. Inv => IterOrConf
  BY DEF Inv, TypeOK, IterOrConfThroughout, IterOrConf
<1> QED
  BY <1>1, InvAlways, PTL

(***************************************************************************)
(* mysqlConfigured is true of MySQL, or a restart is on its way to run(),  *)
(* or the worker is rotating the log; but for a restart that run() left to *)
(* a configureMySQL which had done its part, and a rotation that failed.   *)
(***************************************************************************)
THEOREM BeliefStaysTrue == Spec => []BeliefIsTrue
<1>1. Inv => BeliefIsTrue
  BY DEF Inv, ReportIsTrue, BeliefIsTrue
<1> QED
  BY <1>1, InvAlways, PTL

(***************************************************************************)
(* When Stop has returned from a configured analyzer MySQL is unconfigured,*)
(* but for the one try that failed and a rotation that outlived run().     *)
(***************************************************************************)
THEOREM StoppedIsUnconfigured == Spec => []StopUnconfigures
<1>1. Inv => StopUnconfigures
  BY DEF Inv
<1> QED
  BY <1>1, InvAlways, PTL
=============================================================================
