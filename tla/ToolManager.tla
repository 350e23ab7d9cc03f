---------------------------- MODULE ToolManager ----------------------------
(***************************************************************************)
(* The QAN manager (qan/manager.go) with what it drives: the proxy analyzer*)
(* of qan/analyzer/mysql/mysql.go, the instance repository, the config     *)
(* files, the clock (ticker) and, through RestartMonitor, the MySQL restart*)
(* monitor; and the agent process that is killed or shut down and started  *)
(* again.                                                                  *)
(*                                                                         *)
(* Each start of an analyzer makes one tickChan and one restartChan; the   *)
(* number of the start stands for both.                                    *)
(***************************************************************************)
EXTENDS RestartMonitor, Functions

CONSTANTS Configs,     \* what StartTool and RestartTool may set
          Invalid,       \* those that ValidateConfig refuses
          IntervalOf,    \* the interval of each config, in minutes
          NoConf, Empty, Torn,  \* no config file, an empty one, a cut one
          MaxStarts,     \* bound on the starts of analyzers
          Bounds         \* where runs may begin, and what is to happen in them

Files == Configs \union {NoConf, Empty, Torn}

ASSUME ToolAssumption ==
  /\ Invalid \subseteq Configs /\ IntervalOf \in [Configs -> Nat]
  /\ {NoConf, Empty, Torn} \intersect Configs = {}
  /\ NoConf \notin {Empty, Torn}
  /\ NoUuid \notin Uuids /\ IsFiniteSet(Uuids)
  /\ MaxStarts \in Nat /\ Cardinality(Uuids) <= MaxStarts
  /\ \A b \in Bounds : b.conf \in [Uuids -> (Configs \ Invalid) \union {NoConf}]

VARIABLES conf,       \* the config file of each instance
          files,      \* the instances with an instance file
          up,         \* the agent runs
          cache,      \* Repo.instances
          analyzers,  \* Manager.analyzers
          watcher,    \* the channels each EvenTicker ticks on
          starts,     \* number of starts of analyzers since the agent started
          cmd,        \* the command that holds Manager.mux
          stops,      \* history: analyzers stopped since the agent started
          may,        \* history: what each tool may be left with
          lost        \* history: tools that could not be resumed
toolVars == <<conf, files, up, cache, analyzers, watcher, starts, cmd,
              stops, may, lost>>
vars == <<monitorVars, toolVars, left>>

NoCmd == [name |-> "none", uuid |-> NoUuid, set |-> NoConf, pc |-> "done"]

TypeOK ==
  /\ conf \in [Uuids -> Files] /\ files \subseteq Uuids /\ cache \subseteq Uuids
  /\ DOMAIN analyzers \subseteq Uuids
  /\ \A u \in DOMAIN analyzers :
       analyzers[u] \in [set : Configs, c : 1..MaxStarts, boot : Nat]
  /\ \A i \in DOMAIN watcher : watcher[i] \subseteq 1..starts
  /\ restartChan \subseteq 1..MaxStarts
  /\ cmd.uuid \in Uuids \union {NoUuid}
  /\ may \in [Uuids -> SUBSET (Configs \union {NoConf})] /\ lost \subseteq Uuids

Running(u) == IF u \in DOMAIN analyzers THEN analyzers[u].set ELSE NoConf
-----------------------------------------------------------------------------
(***************************************************************************)
(* Clock.Add and Remove: an EvenTicker for each interval, never stopped.   *)
(***************************************************************************)
\* Mutant: a new EvenTicker takes the place of the one that runs.
ClockAddedAnew(c, i) ==
  [j \in DOMAIN watcher \union {i} |-> IF j = i THEN {c} ELSE watcher[j]]
ClockAdded(c, i) ==
  [j \in DOMAIN watcher \union {i} |->
     (IF j \in DOMAIN watcher THEN watcher[j] ELSE {}) \union (IF j = i THEN {c} ELSE {})]
ClockRemoved(c) == [i \in DOMAIN watcher |-> watcher[i] \ c]
-----------------------------------------------------------------------------
(***************************************************************************)
(* startAnalyzer and stopAnalyzer, and Start and Stop of MySQLAnalyzer.    *)
(***************************************************************************)
\* Repo.Get: from the cache or else from the instance file, and then cached.
Known(u) == u \in cache \union files
CanStart(u, c) == Known(u) /\ c \notin Invalid

StartAnalyzer(u, c) ==
  /\ starts' = starts + 1
  /\ listeners' = Added(u, starts')
  /\ instances' = AddedInstances(u)
  /\ watcher' = ClockAdded(starts', IntervalOf[c])
  /\ analyzers' = [v \in DOMAIN analyzers \union {u} |->
                     IF v = u THEN [set |-> c, c |-> starts', boot |-> 0]
                     ELSE analyzers[v]]

\* Stop removes m.tickChan and m.restartChan, which Start has not set.
StoppedChans(u) == {}

StopAnalyzer(u) ==
  /\ listeners' = Removed(u, StoppedChans(u))
  /\ instances' = RemovedInstances(u, StoppedChans(u))
  /\ watcher' = ClockRemoved(StoppedChans(u))
  /\ analyzers' = [v \in DOMAIN analyzers \ {u} |-> analyzers[v]]
  /\ stops' = stops + 1

\* The analyzer configures MySQL when it starts, and again when it takes a
\* notice of a restart (see module Analyzer).
Configure(u) ==
  /\ u \in DOMAIN analyzers /\ mysql[u].up
  /\ analyzers[u].boot = 0 \/ analyzers[u].c \in restartChan
  /\ analyzers' = [analyzers EXCEPT ![u].boot = mysql[u].boot]
  /\ restartChan' = restartChan \ {analyzers[u].c}
  /\ UNCHANGED <<now, mysql, instances, listeners, global, check, blind, conf, files,
                 up, cache, watcher, starts, cmd, stops, may, lost, left>>
-----------------------------------------------------------------------------
(***************************************************************************)
(* Handle.  A command holds mux until it is answered; only the steps on    *)
(* disk, between which the agent may be killed, are steps of their own.    *)
(* may[u] is what tool u may be left with: what the last command that was  *)
(* answered without an error asked for, and what those that failed or were *)
(* interrupted since then may have done.                                   *)
(***************************************************************************)
MuxFree == up /\ cmd = NoCmd
diskVars == <<conf, files>>
restVars == <<now, mysql, restartChan, global, check, blind, up>>
runVars == <<instances, listeners, analyzers, watcher, starts, stops>>

Command(name, u, c, pc) == [name |-> name, uuid |-> u, set |-> c, pc |-> pc]
Ok(u, c) == /\ may' = [may EXCEPT ![u] = {c}]
            /\ lost' = lost \ {u}
            /\ cmd' = NoCmd
Error(u, c) == /\ may' = [may EXCEPT ![u] = @ \union {c}]
               /\ cmd' = NoCmd
               /\ UNCHANGED lost

\* StartTool of a tool that runs, or whose instance is unknown, is refused.
StartTool(u, c) ==
  /\ MuxFree /\ Use("cmds") /\ u \notin DOMAIN analyzers /\ Known(u)
  /\ cache' = cache \union {u}
  /\ \/ /\ CanStart(u, c) /\ CheckLockFree /\ starts < MaxStarts
        /\ StartAnalyzer(u, c)
        /\ cmd' = Command("StartTool", u, c, "write")
        /\ UNCHANGED stops
     \/ /\ ~CanStart(u, c)
        /\ UNCHANGED <<runVars, cmd>>
  /\ UNCHANGED <<restVars, diskVars, may, lost>>

\* RestartTool of a tool that does not run is refused.
RestartTool(u, c) ==
  /\ MuxFree /\ Use("cmds") /\ u \in DOMAIN analyzers /\ CheckLockFree
  /\ StopAnalyzer(u)
  /\ cmd' = Command("RestartTool", u, c, "start")
  /\ UNCHANGED <<restVars, diskVars, cache, starts, may, lost>>
\* Mutant: mux stays locked when the analyzer cannot be started.
RestartStartsLocked ==
  LET u == cmd.uuid IN
  /\ cmd.pc = "start" /\ cache' = cache \union ({u} \intersect files)
  /\ \/ /\ CanStart(u, cmd.set) /\ CheckLockFree /\ starts < MaxStarts
        /\ StartAnalyzer(u, cmd.set)
        /\ cmd' = [cmd EXCEPT !.pc = "write"]
        /\ UNCHANGED stops
     \/ /\ ~CanStart(u, cmd.set)
        /\ cmd' = [cmd EXCEPT !.pc = "locked"]
        /\ UNCHANGED runVars
  /\ UNCHANGED <<restVars, diskVars, left, may, lost>>
RestartStarts ==
  LET u == cmd.uuid IN
  /\ cmd.pc = "start"
  /\ cache' = cache \union ({u} \intersect files)
  /\ \/ /\ CanStart(u, cmd.set) /\ CheckLockFree /\ starts < MaxStarts
        /\ StartAnalyzer(u, cmd.set)
        /\ cmd' = [cmd EXCEPT !.pc = "write"]
        /\ UNCHANGED <<stops, may, lost>>
     \/ /\ ~CanStart(u, cmd.set)
        /\ Error(u, NoConf)
        /\ UNCHANGED runVars
  /\ UNCHANGED <<restVars, diskVars, left>>

\* WriteConfig truncates the file, or cannot open it, and then writes it, or
\* cannot write all of it.
OpenConfig ==
  /\ cmd.pc = "write"
  /\ \/ /\ conf' = [conf EXCEPT ![cmd.uuid] = Empty]
        /\ cmd' = [cmd EXCEPT !.pc = "writing"]
        /\ UNCHANGED <<may, lost, left>>
     \/ Use("faults") /\ Error(cmd.uuid, cmd.set) /\ UNCHANGED conf
  /\ UNCHANGED <<restVars, runVars, files, cache>>
WriteConfig ==
  /\ cmd.pc = "writing"
  /\ \/ /\ conf' = [conf EXCEPT ![cmd.uuid] = cmd.set]
        /\ Ok(cmd.uuid, cmd.set) /\ UNCHANGED left
     \/ /\ Use("faults")
        /\ \E f \in {Empty, Torn} : conf' = [conf EXCEPT ![cmd.uuid] = f]
        /\ Error(cmd.uuid, cmd.set)
  /\ UNCHANGED <<restVars, runVars, files, cache>>

\* StopTool of a tool that does not run still removes the files.
StopTool(u) ==
  /\ MuxFree /\ Use("cmds")
  /\ \/ u \in DOMAIN analyzers /\ CheckLockFree /\ StopAnalyzer(u)
     \/ /\ u \notin DOMAIN analyzers
        /\ UNCHANGED <<instances, listeners, analyzers, watcher, stops>>
  /\ cmd' = Command("StopTool", u, NoConf, "remove")
  /\ UNCHANGED <<restVars, diskVars, cache, starts, may, lost>>
\* Mutant: the file is there after StopTool.
RemoveConfigLeavesFile ==
  /\ cmd.pc = "remove"
  /\ cmd' = [cmd EXCEPT !.pc = "forget"]
  /\ UNCHANGED <<restVars, runVars, diskVars, cache, may, lost, left>>
RemoveConfig ==
  /\ cmd.pc = "remove"
  /\ \/ /\ conf' = [conf EXCEPT ![cmd.uuid] = NoConf]
        /\ cmd' = [cmd EXCEPT !.pc = "forget"] /\ UNCHANGED left
     \/ /\ Use("faults")
        /\ cmd' = [cmd EXCEPT !.pc = "forgetAfterError"] /\ UNCHANGED conf
  /\ UNCHANGED <<restVars, runVars, files, cache, may, lost>>
\* StopTool does not look at the error of Repo.Remove.
RemoveFromRepo ==
  LET u == cmd.uuid IN
  /\ cmd.pc \in {"forget", "forgetAfterError"}
  /\ \/ files' = files \ {u} /\ cache' = cache \ {u} /\ UNCHANGED left
     \/ Use("faults") /\ UNCHANGED <<files, cache>>
  /\ IF cmd.pc = "forget" THEN Ok(u, NoConf) ELSE Error(u, NoConf)
  /\ UNCHANGED <<restVars, runVars, conf>>

\* Handle calls GetConfig, which locks mux again.
GetConfigCmd ==
  /\ MuxFree /\ Use("cmds")
  /\ cmd' = Command("GetConfig", NoUuid, NoConf, "stuck")
  /\ UNCHANGED <<restVars, runVars, diskVars, cache, may, lost>>

\* RemoveInstance of the instance manager, which knows nothing of the tools;
\* and the installer or an administrator writing an instance file.
RemoveInstance(u) ==
  /\ up /\ Known(u) /\ Use("cmds")
  /\ files' = files \ {u} /\ cache' = cache \ {u}
  /\ UNCHANGED <<restVars, runVars, conf, cmd, may, lost>>
WriteInstanceFile(u) ==
  /\ u \notin files /\ Use("cmds") /\ files' = files \union {u}
  /\ UNCHANGED <<restVars, runVars, conf, cache, cmd, may, lost>>
-----------------------------------------------------------------------------
(***************************************************************************)
(* The agent process (bin/percona-qan-agent/main.go).                      *)
(***************************************************************************)
Nothing == [u \in {} |-> 0]

MemoryLost ==
  /\ up' = FALSE /\ analyzers' = Nothing /\ cache' = {} /\ watcher' = Nothing
  /\ starts' = 0 /\ stops' = 0 /\ cmd' = NoCmd
  /\ listeners' = [u \in Uuids |-> {}] /\ instances' = Nothing
  /\ restartChan' = {} /\ global' = <<>> /\ check' = IdleCheck /\ blind' = {}
  /\ UNCHANGED <<now, mysql, files, lost>>

\* The signal loop ends and the QAN manager is stopped.
Shutdown ==
  /\ MuxFree /\ CheckLockFree /\ Use("kills")
  /\ MemoryLost /\ UNCHANGED <<conf, may>>

\* The agent is killed, perhaps in the middle of a command.
Killed ==
  /\ up /\ Use("kills") /\ MemoryLost
  /\ IF cmd.uuid = NoUuid THEN UNCHANGED may
     ELSE may' = [may EXCEPT ![cmd.uuid] = @ \union {cmd.set}]
  /\ IF cmd.pc # "writing" THEN UNCHANGED conf
     ELSE \E f \in {Empty, Torn} : conf' = [conf EXCEPT ![cmd.uuid] = f]

\* run(): Repo.Init reads the instance files, and Manager.Start starts a tool
\* for every config file it can decode, and removes the empty ones.  It meets
\* the files in some order: number[u] is the place of u in it, and its channel.
Startable == {u \in files : conf[u] \in Configs \ Invalid}
AgentStarts ==
  \E number \in Bijection(Startable, 1..Cardinality(Startable)) :
  /\ ~up /\ up' = TRUE
  /\ cache' = files
  /\ conf' = [u \in Uuids |-> IF conf[u] = Empty THEN NoConf ELSE conf[u]]
  /\ starts' = Cardinality(Startable)
  /\ analyzers' = [u \in Startable |-> [set |-> conf[u], c |-> number[u], boot |-> 0]]
  /\ instances' = [u \in Startable |-> NoChecker]
  /\ listeners' = [u \in Uuids |-> IF u \in Startable THEN {number[u]} ELSE {}]
  /\ watcher' = [i \in {IntervalOf[conf[u]] : u \in Startable} |->
                   {number[u] : u \in {v \in Startable : IntervalOf[conf[v]] = i}}]
  /\ lost' = lost \union {u \in Uuids : conf[u] # NoConf /\ u \notin Startable}
  /\ UNCHANGED <<now, mysql, restartChan, global, check, blind, files, cmd,
                 stops, may, left>>
-----------------------------------------------------------------------------
Init ==
  /\ now = 1 /\ mysql = [u \in Uuids |-> [boot |-> 1, start |-> 0, up |-> TRUE]]
  /\ instances = Nothing /\ listeners = [u \in Uuids |-> {}]
  /\ restartChan = {} /\ global = <<>> /\ check = IdleCheck /\ blind = {}
  /\ left \in Bounds
  /\ conf = left.conf /\ files = Uuids /\ up = FALSE
  /\ cache = {} /\ analyzers = Nothing /\ watcher = Nothing
  /\ starts = 0 /\ cmd = NoCmd /\ stops = 0
  /\ may = [u \in Uuids |-> {conf[u]}] /\ lost = {}

Handling == RestartStarts \/ OpenConfig \/ WriteConfig \/ RemoveConfig \/ RemoveFromRepo

Next ==
  \/ (Monitor \/ World \/ UpdateInstance) /\ UNCHANGED toolVars
  \/ \E u \in Uuids : Configure(u)
  \/ \E u \in Uuids, c \in Configs : StartTool(u, c) \/ RestartTool(u, c)
  \/ \E u \in Uuids : StopTool(u) \/ RemoveInstance(u) \/ WriteInstanceFile(u)
  \/ Handling \/ GetConfigCmd
  \/ Shutdown \/ Killed \/ AgentStarts

\* Every goroutine runs on, and a MySQL that is asked answers.  A Check that
\* begins does not overtake an Add or Remove that waits for the lock.  Nobody
\* has to send a command, kill or start the agent, or restart MySQL.
Fairness ==
  /\ WF_vars(Monitor /\ UNCHANGED toolVars)
  /\ WF_vars(UpdateInstance /\ UNCHANGED toolVars)
  /\ SF_vars(Handling)
  /\ \A u \in Uuids : WF_vars(Configure(u))
Spec == Init /\ [][Next]_vars /\ Fairness
-----------------------------------------------------------------------------
(***************************************************************************)
(* Properties.                                                             *)
(***************************************************************************)
\* What runs is what was last acknowledged, or what a command that failed or
\* was cut off by a kill has made of it, however often the agent is killed and
\* started again: a started tool is resumed with its config and a stopped one
\* stays stopped.  The exceptions are the tools that Manager.Start finds with a
\* config file cut off in writing, or without their instance file.
Durable ==
  /\ TypeOK
  /\ MuxFree => \A u \in Uuids : Running(u) \in may[u] \/ u \in lost

\* An analyzer that runs is ticked at its own interval and is told of restarts
\* of its MySQL, whatever other tools were started, restarted and stopped; and
\* each stop leaves one channel behind in the clock and one in the monitor.
Watched ==
  LET allWatchers == UNION {watcher[i] : i \in DOMAIN watcher}
      allListeners == UNION {listeners[u] : u \in Uuids}
  IN /\ \A u \in DOMAIN analyzers :
          /\ analyzers[u].c \in listeners[u] /\ u \in DOMAIN instances
          /\ analyzers[u].c \in watcher[IntervalOf[analyzers[u].set]]
          /\ \A v \in DOMAIN analyzers \ {u} : analyzers[u].c # analyzers[v].c
     /\ Cardinality(allWatchers) = Cardinality(DOMAIN analyzers) + stops
     /\ allListeners = allWatchers

\* MySQL.Check tells a restart from none, unless it is the first check of a
\* MySQL, the uptime could not be read, or a second has passed between reading
\* the uptime and the clock, now or at the last check.
VerdictTrue ==
  check.pc = "verdict" /\ check.verdict # "first" /\ ~check.failed
    => \/ check.verdict = "restarted" <=> check.boot # check.last.boot
       \/ check.verdict = "restarted" /\ instances[check.uuid].slow
       \/ check.verdict = "same" /\ check.last.slow

\* An analyzer that has configured a MySQL which has restarted since configures
\* it again, unless the restart monitor took the new boot for its first.
RestartReachesAnalyzer ==
  \A u \in Uuids : \A b \in 2..3 :
    u \in DOMAIN analyzers /\ analyzers[u].boot \in 1..(b - 1) /\ mysql[u].boot = b
      ~> \/ u \notin DOMAIN analyzers \/ analyzers[u].boot \notin 1..(b - 1)
         \/ ~mysql[u].up \/ mysql[u].boot # b \/ <<u, b>> \in blind

\* Every command is answered, but GetConfig, which waits for itself.
CmdsAnswered == cmd # NoCmd ~> cmd = NoCmd \/ cmd.pc = "stuck"
=============================================================================
