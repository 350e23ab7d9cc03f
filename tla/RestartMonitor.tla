--------------------------- MODULE RestartMonitor ---------------------------
(***************************************************************************)
(* The MySQL restart monitor (mrms/monitor.go, mrms/checker/mysql.go) and  *)
(* the goroutine of instance/manager.go that listens to it for every       *)
(* instance.                                                               *)
(*                                                                         *)
(* Time is in whole seconds, as in Uptime and time.Unix.  A channel is a   *)
(* number; restartChan holds the channels in which a notice waits, for each*)
(* has room for one.                                                       *)
(***************************************************************************)
EXTENDS Integers, FiniteSets, Sequences

CONSTANTS Uuids,       \* the MySQL instances
          NoUuid       \* none of them

VARIABLES now,          \* the second
          mysql,        \* each MySQL: how often it booted, when last, and if it is up
          instances,    \* RealMonitor.instances: the checker of each instance that has one
          listeners,    \* and the listeners of each instance
          restartChan,  \* the listeners' channels that are full
          global,       \* the restartChan of instance.Manager
          check,        \* where Check is
          blind,        \* boots a checker had nothing reliable to compare with
          left          \* what is left of the bounds
monitorVars == <<now, mysql, instances, listeners, restartChan, global, check,
                 blind>>

\* A checker, and for the properties the boot it saw last and whether a second
\* passed between its reading the uptime and the clock.
NoChecker == [lastUptime |-> 0, lastUptimeCheck |-> 0, boot |-> 0, slow |-> FALSE]
IdleCheck == [pc |-> "idle", todo |-> {}, uuid |-> NoUuid, uptime |-> 0, at |-> 0,
              boot |-> 0, failed |-> FALSE, verdict |-> "none", last |-> NoChecker]

Use(bound) == left[bound] > 0 /\ left' = [left EXCEPT ![bound] = @ - 1]
-----------------------------------------------------------------------------
(***************************************************************************)
(* The world: seconds pass, and a MySQL that somebody listens for goes down*)
(* and up.                                                                 *)
(***************************************************************************)
SecondPasses ==
  /\ Use("seconds") /\ now' = now + 1
  /\ UNCHANGED <<mysql, instances, listeners, restartChan, global, check, blind>>
MySQLDown(u) ==
  /\ u \in DOMAIN instances /\ mysql[u].up /\ Use("restarts")
  /\ mysql' = [mysql EXCEPT ![u].up = FALSE]
  /\ UNCHANGED <<now, instances, listeners, restartChan, global, check, blind>>
MySQLUp(u) ==
  /\ ~mysql[u].up
  /\ mysql' = [mysql EXCEPT ![u] = [boot |-> @.boot + 1, start |-> now, up |-> TRUE]]
  /\ UNCHANGED <<now, instances, listeners, restartChan, global, check, blind, left>>
-----------------------------------------------------------------------------
(***************************************************************************)
(* RealMonitor.Add and Remove, which wait for the lock that Check holds.   *)
(* Each is part of an action of the caller; c is the set of channels to be *)
(* removed.                                                                *)
(***************************************************************************)
CheckLockFree == check.pc = "idle"

Added(uuid, c) == [listeners EXCEPT ![uuid] = @ \union {c}]
AddedInstances(uuid) ==
  IF uuid \in DOMAIN instances THEN instances
  ELSE [u \in DOMAIN instances \union {uuid} |->
          IF u = uuid THEN NoChecker ELSE instances[u]]

Removed(uuid, c) == [listeners EXCEPT ![uuid] = @ \ c]
RemovedInstances(uuid, c) ==
  IF Removed(uuid, c)[uuid] # {} THEN instances
  ELSE [u \in DOMAIN instances \ {uuid} |-> instances[u]]
-----------------------------------------------------------------------------
(***************************************************************************)
(* Check, once every interval, and MySQL.Check for each instance.          *)
(***************************************************************************)
\* One that would learn nothing new is left out, and so are all of them in a
\* run shorter than their interval (left.checks = 0).
CheckBegins ==
  /\ check.pc = "idle" /\ left.checks > 0
  /\ \E u \in DOMAIN instances :
       mysql[u].up /\ (instances[u].boot # mysql[u].boot \/ instances[u].lastUptimeCheck # now)
  /\ check' = [IdleCheck EXCEPT !.pc = "each", !.todo = DOMAIN instances]
  /\ UNCHANGED <<now, mysql, instances, listeners, restartChan, global, blind, left>>

\* Connect and Uptime.  Connect may fail; a query that fails yields 0.
ReadUptime(u) ==
  /\ check.pc = "each" /\ u \in check.todo
  /\ \/ /\ mysql[u].up
        /\ check' = [check EXCEPT !.pc = "read", !.todo = @ \ {u}, !.uuid = u, !.at = now,
                       !.uptime = now - mysql[u].start, !.boot = mysql[u].boot,
                       !.failed = FALSE]
        /\ UNCHANGED left
     \/ /\ mysql[u].up /\ Use("faults")
        /\ check' = [check EXCEPT !.pc = "read", !.todo = @ \ {u}, !.uuid = u, !.at = now,
                       !.uptime = 0, !.boot = mysql[u].boot, !.failed = TRUE]
     \/ /\ ~mysql[u].up
        /\ check' = [check EXCEPT !.todo = @ \ {u}]
        /\ UNCHANGED left
  /\ UNCHANGED <<now, mysql, instances, listeners, restartChan, global, blind>>

\* Mutant: the time since the last check is not counted.
ExpectedUptimeOfLast(m) == m.lastUptime
\* What the uptime is expected to be; the clock is read after the uptime (and
\* twice, which is one reading here).
ExpectedUptime(m) == m.lastUptime + (now - m.lastUptimeCheck)

CompareUptime ==
  LET u == check.uuid
      m == instances[u]
      verdict == IF m.lastUptime = 0 THEN "first"
                 ELSE IF check.uptime < ExpectedUptime(m) THEN "restarted" ELSE "same"
  IN  /\ check.pc = "read"
      /\ check' = [check EXCEPT !.pc = "verdict", !.verdict = verdict, !.last = m]
      /\ instances' = [instances EXCEPT ![u] =
           [lastUptime |-> check.uptime, lastUptimeCheck |-> now, boot |-> check.boot,
            slow |-> now > check.at]]
      /\ blind' = IF verdict = "first" \/ (verdict = "same" /\ m.slow)
                  THEN blind \union {<<u, check.boot>>} ELSE blind
      /\ UNCHANGED <<now, mysql, listeners, restartChan, global, left>>

\* A restart is told to the listeners of the instance and to the global one,
\* to each only if its channel is empty.
\* Mutant: nobody is told while the global listener is not ready.
NotifyAllOrNone ==
  LET u == check.uuid
      told == check.verdict = "restarted" /\ global = <<>>
  IN  /\ check.pc = "verdict"
      /\ check' = [IdleCheck EXCEPT !.pc = "each", !.todo = check.todo]
      /\ restartChan' = restartChan \union (IF told THEN listeners[u] ELSE {})
      /\ global' = IF told THEN <<u>> ELSE global
      /\ UNCHANGED <<now, mysql, instances, listeners, blind, left>>
Notify ==
  LET u == check.uuid
      told == check.verdict = "restarted"
  IN  /\ check.pc = "verdict"
      /\ check' = [IdleCheck EXCEPT !.pc = "each", !.todo = check.todo]
      /\ restartChan' = restartChan \union (IF told THEN listeners[u] ELSE {})
      /\ global' = IF told /\ global = <<>> THEN <<u>> ELSE global
      /\ UNCHANGED <<now, mysql, instances, listeners, blind, left>>

CheckEnds ==
  /\ check.pc = "each" /\ check.todo = {}
  /\ check' = IdleCheck
  /\ UNCHANGED <<now, mysql, instances, listeners, restartChan, global, blind, left>>

\* monitor() of instance.Manager asks the MySQL and puts what it says to the
\* API, or warns.
UpdateInstance ==
  /\ global # <<>>
  /\ global' = <<>>
  /\ UNCHANGED <<now, mysql, instances, listeners, restartChan, check, blind, left>>

Monitor == CheckBegins \/ CompareUptime \/ Notify \/ CheckEnds
           \/ \E u \in Uuids : ReadUptime(u)
World == SecondPasses \/ \E u \in Uuids : MySQLDown(u) \/ MySQLUp(u)
=============================================================================
