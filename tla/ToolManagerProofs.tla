------------------------- MODULE ToolManagerProofs -------------------------
(***************************************************************************)
(* For any number of instances, of configs and of starts, and whatever is  *)
(* to happen in a run: the restart monitor tells a restart from none, the  *)
(* analyzers that run are ticked and told, and the tools that run are      *)
(* those that were asked for, however often the agent is killed.           *)
(***************************************************************************)
EXTENDS ToolManager, FiniteSetTheorems, TLAPS

USE DEF vars, monitorVars, toolVars, restVars, runVars, diskVars

Checker  == [lastUptime : Nat, lastUptimeCheck : Nat, boot : Nat, slow : BOOLEAN]
CheckRec == [pc : {"idle", "each", "read", "verdict"}, todo : SUBSET Uuids,
             uuid : Uuids \union {NoUuid}, uptime : Nat, at : Nat, boot : Nat,
             failed : BOOLEAN, verdict : {"none", "first", "restarted", "same"},
             last : Checker]

MonitorType ==
  /\ now \in Nat /\ mysql \in [Uuids -> [boot : Nat, start : Nat, up : BOOLEAN]]
  /\ DOMAIN instances \subseteq Uuids /\ instances \in [DOMAIN instances -> Checker]
  /\ check \in CheckRec

\* A checker of u holds an uptime of the boot that u still has, or else, if no
\* second passed between its two readings, u booted after the check.
Remembers(u, m) ==
  /\ m.boot <= mysql[u].boot /\ m.lastUptimeCheck <= now
  /\ m.lastUptime # 0 =>
       /\ m.boot = mysql[u].boot => m.lastUptime + mysql[u].start <= m.lastUptimeCheck
       /\ m.boot # mysql[u].boot /\ ~m.slow => m.lastUptimeCheck <= mysql[u].start

\* What Check has read of u, which may have restarted since; and that compared
\* with what its checker m holds.
HasRead(u, m) ==
  /\ check.boot <= mysql[u].boot /\ check.at <= now
  /\ check.failed => check.uptime = 0
  /\ ~check.failed =>
       /\ check.boot = mysql[u].boot => check.uptime + mysql[u].start = check.at
       /\ check.boot # mysql[u].boot => check.at <= mysql[u].start
       /\ m.lastUptime # 0 =>
            /\ m.boot = check.boot => m.lastUptime + check.at <= m.lastUptimeCheck + check.uptime
            /\ m.boot # check.boot /\ ~m.slow => m.lastUptimeCheck + check.uptime <= check.at

\* Check reads and compares the uptimes of instances that have a checker.
Uptimes ==
  /\ \A u \in Uuids : mysql[u].start <= now
  /\ \A u \in DOMAIN instances : Remembers(u, instances[u])
  /\ check.todo \subseteq DOMAIN instances
  /\ check.pc \in {"read", "verdict"} => check.uuid \in DOMAIN instances
  /\ check.pc = "read" => HasRead(check.uuid, instances[check.uuid])
  /\ VerdictTrue

MonitorOK == MonitorType /\ Uptimes

Analyzer == [set : Configs, c : 1..MaxStarts, boot : Nat]
CmdRec   == [name : {"none", "StartTool", "RestartTool", "StopTool", "GetConfig"},
             uuid : Uuids \union {NoUuid}, set : Configs \union {NoConf},
             pc : {"done", "start", "write", "writing", "remove", "forget",
                   "forgetAfterError", "stuck"}]

ToolType ==
  /\ conf \in [Uuids -> Files] /\ files \subseteq Uuids /\ cache \subseteq Uuids
  /\ up \in BOOLEAN /\ cmd \in CmdRec
  /\ may \in [Uuids -> SUBSET (Configs \union {NoConf})] /\ lost \subseteq Uuids

ChanType ==
  /\ DOMAIN analyzers \subseteq Uuids /\ analyzers \in [DOMAIN analyzers -> Analyzer]
  /\ listeners \in [Uuids -> SUBSET (1..starts)]
  /\ watcher \in [DOMAIN watcher -> SUBSET (1..starts)]
  /\ restartChan \subseteq 1..MaxStarts
  /\ starts \in 0..MaxStarts /\ stops \in Nat

\* The agent that does not run has nothing in memory.
Down ==
  ~up => /\ analyzers = Nothing /\ instances = Nothing /\ watcher = Nothing
         /\ listeners = [u \in Uuids |-> {}] /\ starts = 0 /\ stops = 0
         /\ restartChan = {} /\ check = IdleCheck /\ cmd = NoCmd

\* Every start leaves one channel in the clock and one in the monitor, and is
\* the start of an analyzer that runs or that has been stopped.
Channels ==
  /\ \A u \in DOMAIN analyzers :
       /\ analyzers[u].c \in listeners[u] /\ u \in DOMAIN instances
       /\ IntervalOf[analyzers[u].set] \in DOMAIN watcher
       /\ analyzers[u].c \in watcher[IntervalOf[analyzers[u].set]]
       /\ \A v \in DOMAIN analyzers \ {u} : analyzers[u].c # analyzers[v].c
  /\ \A n \in 1..starts : /\ \E u \in Uuids : n \in listeners[u]
                          /\ \E i \in DOMAIN watcher : n \in watcher[i]
  /\ starts = Cardinality(DOMAIN analyzers) + stops

\* How far the command in hand has come.
InCommand ==
  /\ cmd.pc = "done" => cmd = NoCmd
  /\ cmd.pc \notin {"done", "stuck"} => cmd.uuid \in Uuids
  /\ cmd.pc \in {"start", "write", "writing"} => cmd.set \in Configs
  /\ cmd.pc \in {"write", "writing"} => Running(cmd.uuid) = cmd.set
  /\ cmd.pc \in {"start", "remove", "forget", "forgetAfterError"} => Running(cmd.uuid) = NoConf
  /\ cmd.pc \in {"remove", "forget", "forgetAfterError"} => cmd.set = NoConf
  /\ cmd.pc = "forget" => conf[cmd.uuid] = NoConf
  /\ cmd.pc = "stuck" => cmd.uuid = NoUuid

\* What the tools other than the one in hand run with, and what is on disk for
\* each, is what they may be left with.
AsAsked ==
  /\ up => \A u \in Uuids : Running(u) \in may[u] \/ u \in lost \/ u = cmd.uuid
  /\ \A u \in Uuids : \/ conf[u] \in may[u] \union {Empty, Torn} \/ u \in lost
                      \/ cmd.pc = "forget" /\ cmd.uuid = u

Inv == MonitorOK /\ ToolType /\ ChanType /\ Down /\ Channels /\ InCommand /\ AsAsked
-----------------------------------------------------------------------------
\* A new checker remembers nothing, and an idle Check has read nothing.
LEMMA NewChecker ==
  /\ NoChecker \in Checker /\ NoChecker.lastUptime = 0 /\ NoChecker.lastUptimeCheck = 0
  /\ NoChecker.boot = 0
  /\ IdleCheck \in CheckRec /\ IdleCheck.pc = "idle" /\ IdleCheck.todo = {}
BY DEF NoChecker, IdleCheck, Checker, CheckRec

\* Stopping an analyzer removes nothing from the clock and from the monitor, for
\* the channels that it removes have not been set.
LEMMA StopKeeps ==
  ASSUME ChanType, Channels, NEW u \in DOMAIN analyzers, StopAnalyzer(u)
  PROVE  UNCHANGED <<listeners, instances, watcher>>
<1>1. listeners' = listeners /\ listeners[u] # {}
  BY DEF ChanType, Channels, StopAnalyzer, StoppedChans, Removed
<1>2. instances' = instances
  BY <1>1 DEF ChanType, StopAnalyzer, StoppedChans, Removed, RemovedInstances
<1>3. watcher' = watcher
  BY DEF ChanType, StopAnalyzer, StoppedChans, ClockRemoved
<1> QED
  BY <1>1, <1>2, <1>3

\* A new analyzer's instance has a checker, and the others keep theirs.
LEMMA AddedKeeps ==
  ASSUME MonitorType, NEW u \in Uuids
  PROVE  LET new == AddedInstances(u) IN
         /\ DOMAIN new = DOMAIN instances \union {u} /\ new \in [DOMAIN new -> Checker]
         /\ \A v \in DOMAIN instances : new[v] = instances[v]
         /\ u \notin DOMAIN instances => new[u] = NoChecker
BY NewChecker DEF MonitorType, AddedInstances

\* Every step keeps MonitorOK.
LEMMA MonitorNext == Inv /\ [Next]_vars => MonitorOK'
<1> SUFFICES ASSUME Inv, [Next]_vars PROVE MonitorOK'
  OBVIOUS
<1> USE DEF Inv, MonitorOK
<1>1. CASE SecondPasses
  BY <1>1 DEF MonitorType, Uptimes, Remembers, HasRead, VerdictTrue, SecondPasses, CheckRec, Checker
<1>2. ASSUME NEW u \in Uuids, MySQLDown(u) PROVE MonitorOK'
  <2>1. /\ mysql' \in [Uuids -> [boot : Nat, start : Nat, up : BOOLEAN]]
        /\ \A v \in Uuids : mysql'[v].boot = mysql[v].boot /\ mysql'[v].start = mysql[v].start
    BY <1>2, Zenon DEF MonitorType, MySQLDown
  <2>2. UNCHANGED <<now, instances, check>>
    BY <1>2 DEF MySQLDown
  <2> QED
    BY <2>1, <2>2 DEF MonitorType, Uptimes, Remembers, HasRead, VerdictTrue, CheckRec
<1>3. ASSUME NEW u \in Uuids, MySQLUp(u) PROVE MonitorOK'
  BY <1>3 DEF MonitorType, Uptimes, Remembers, HasRead, VerdictTrue, MySQLUp, CheckRec, Checker
<1>4. CASE CheckBegins
  BY <1>4, NewChecker, Zenon DEF MonitorType, Uptimes, Remembers, HasRead, VerdictTrue, CheckBegins, CheckRec, Checker
<1>5. ASSUME NEW u \in Uuids, ReadUptime(u) PROVE MonitorOK'
  <2>1. UNCHANGED <<now, mysql, instances>> /\ check.pc = "each" /\ u \in check.todo /\ u \in DOMAIN instances
    BY <1>5 DEF ReadUptime, Uptimes
  <2>2. ASSUME NEW uptime \in Nat, NEW failed \in BOOLEAN,
               failed => uptime = 0, ~failed => uptime + mysql[u].start = now,
               check' = [check EXCEPT !.pc = "read", !.todo = @ \ {u}, !.uuid = u, !.at = now,
                           !.uptime = uptime, !.boot = mysql[u].boot, !.failed = failed]
        PROVE  MonitorOK'
    <3>1. /\ check' \in CheckRec /\ check'.pc = "read" /\ check'.todo \subseteq check.todo /\ check'.uuid = u
          /\ check'.at = now /\ check'.uptime = uptime /\ check'.boot = mysql[u].boot /\ check'.failed = failed
      BY <2>1, <2>2, Zenon DEF MonitorType, CheckRec
    <3>2. HasRead(u, instances[u])'
      BY <2>1, <2>2, <3>1 DEF MonitorType, Uptimes, Remembers, HasRead, Checker
    <3> QED
      BY <2>1, <3>1, <3>2 DEF MonitorType, Uptimes, Remembers, VerdictTrue
  <2>3. CASE check' = [check EXCEPT !.todo = @ \ {u}]
    <3>1. check' \in CheckRec /\ check'.pc = "each" /\ check'.todo \subseteq check.todo
      BY <2>1, <2>3 DEF MonitorType, CheckRec
    <3> QED
      BY <2>1, <3>1 DEF MonitorType, Uptimes, Remembers, VerdictTrue
  <2>4. now - mysql[u].start \in Nat /\ (now - mysql[u].start) + mysql[u].start = now
    BY DEF MonitorType, Uptimes
  <2> QED
    BY <1>5, <2>2, <2>3, <2>4, Zenon DEF ReadUptime
<1>6. CASE CompareUptime
  <2> DEFINE u == check.uuid
             m == instances[u]
             new == [lastUptime |-> check.uptime, lastUptimeCheck |-> now, boot |-> check.boot,
                     slow |-> now > check.at]
             verdict == IF m.lastUptime = 0 THEN "first"
                        ELSE IF check.uptime < ExpectedUptime(m) THEN "restarted" ELSE "same"
  <2>1. /\ check.pc = "read" /\ UNCHANGED <<now, mysql>> /\ instances' = [instances EXCEPT ![u] = new]
        /\ check' = [check EXCEPT !.pc = "verdict", !.verdict = verdict, !.last = m]
    BY <1>6 DEF CompareUptime
  <2>2. /\ u \in DOMAIN instances /\ HasRead(u, m) /\ Remembers(u, m)
        /\ m \in Checker /\ check.uptime \in Nat /\ check.at \in Nat /\ check.boot \in Nat /\ now \in Nat
    BY <2>1 DEF MonitorType, Uptimes, CheckRec
  <2>3. new \in Checker /\ Remembers(u, new)
    <3>1. (now > check.at) \in BOOLEAN
      OBVIOUS
    <3>2. new \in Checker
      BY <2>2, <3>1 DEF Checker
    <3>3. /\ new.lastUptime = check.uptime /\ new.lastUptimeCheck = now /\ new.boot = check.boot
          /\ new.slow <=> now > check.at
      BY Zenon
    <3>4. mysql[u].boot \in Nat /\ mysql[u].start \in Nat
      BY <2>2 DEF MonitorType
    <3> HIDE DEF new
    <3> QED
      BY <2>2, <3>2, <3>3, <3>4 DEF Remembers, HasRead
  <2>4. verdict \in {"first", "restarted", "same"}
    OBVIOUS
  <2>5. verdict = "restarted" /\ ~check.failed /\ check.boot = m.boot => new.slow
    <3>1. verdict = "restarted" /\ ~check.failed /\ check.boot = m.boot => now > check.at
      BY <2>2 DEF HasRead, ExpectedUptime, Checker
    <3> HIDE DEF verdict
    <3> QED
      BY <3>1, Zenon
  <2>6. verdict = "same" /\ ~check.failed /\ check.boot # m.boot => m.slow
    BY <2>2 DEF HasRead, ExpectedUptime, Checker
  <2> HIDE DEF new, verdict, m, u
  <2>7. /\ check' \in CheckRec /\ check'.pc = "verdict" /\ check'.verdict = verdict /\ check'.last = m
        /\ check'.uuid = u /\ check'.boot = check.boot /\ check'.failed = check.failed /\ check'.todo = check.todo
    BY <2>1, <2>2, <2>4, Zenon DEF MonitorType, CheckRec, u
  <2>8. /\ instances' \in [DOMAIN instances -> Checker] /\ DOMAIN instances' = DOMAIN instances
        /\ instances'[u] = new /\ \A v \in DOMAIN instances : v # u => instances'[v] = instances[v]
    BY <2>1, <2>2, <2>3 DEF MonitorType
  <2>9. VerdictTrue'
    BY <2>4, <2>5, <2>6, <2>7, <2>8 DEF VerdictTrue
  <2>10. \A v \in DOMAIN instances' : Remembers(v, instances[v])'
    BY <2>1, <2>2, <2>3, <2>8 DEF Uptimes, Remembers
  <2> QED
    BY <2>1, <2>2, <2>7, <2>8, <2>9, <2>10 DEF MonitorType, Uptimes
<1>7. CASE Notify
  BY <1>7, NewChecker, Zenon DEF MonitorType, Uptimes, Remembers, HasRead, VerdictTrue, Notify, CheckRec
<1>8. CASE CheckEnds
  BY <1>8, NewChecker DEF MonitorType, Uptimes, Remembers, HasRead, VerdictTrue, CheckEnds, CheckRec
<1>9. CASE UNCHANGED <<now, mysql, instances, check>>
  BY <1>9 DEF MonitorType, Uptimes, Remembers, HasRead, VerdictTrue
<1>10. ASSUME NEW u \in Uuids, NEW c, StartAnalyzer(u, c), CheckLockFree, UNCHANGED <<now, mysql, check>>
       PROVE  MonitorOK'
  <2>1. instances' = AddedInstances(u)
    BY <1>10 DEF StartAnalyzer
  <2>2. check.pc = "idle" /\ check' = check
    BY <1>10 DEF CheckLockFree
  <2>3. /\ DOMAIN instances' = DOMAIN instances \union {u} /\ instances' \in [DOMAIN instances' -> Checker]
        /\ \A v \in DOMAIN instances : instances'[v] = instances[v]
        /\ u \notin DOMAIN instances => instances'[u] = NoChecker
    BY <2>1, AddedKeeps
  <2>4. MonitorType'
    BY <1>10, <2>3 DEF MonitorType
  <2>5. \A v \in DOMAIN instances' : Remembers(v, instances[v])'
    BY <1>10, <2>3, NewChecker DEF MonitorType, Uptimes, Remembers
  <2> QED
    BY <1>10, <2>2, <2>3, <2>4, <2>5 DEF Uptimes, VerdictTrue
<1>11. CASE MemoryLost
  BY <1>11, NewChecker DEF MonitorType, Uptimes, Remembers, HasRead, VerdictTrue, MemoryLost, Nothing
<1>12. CASE AgentStarts
  <2>1. UNCHANGED <<now, mysql, check>> /\ instances' = [u \in Startable |-> NoChecker] /\ ~up
    BY <1>12 DEF AgentStarts
  <2>2. Startable \subseteq Uuids
    BY DEF Startable, ToolType
  <2>3. check.pc = "idle" /\ check.todo = {}
    BY <2>1, NewChecker DEF Down
  <2>4. MonitorType'
    BY <2>1, <2>2, NewChecker DEF MonitorType
  <2> QED
    BY <2>1, <2>2, <2>3, <2>4, NewChecker DEF MonitorType, Uptimes, Remembers, VerdictTrue
<1>13. ASSUME NEW u \in Uuids, NEW c \in Configs, StartTool(u, c) PROVE MonitorOK'
  BY <1>9, <1>10, <1>13 DEF StartTool
<1>14. ASSUME NEW u \in Uuids, StopTool(u) PROVE MonitorOK'
  BY <1>9, <1>14, StopKeeps DEF StopTool
<1>15. ASSUME NEW u \in Uuids, NEW c \in Configs, RestartTool(u, c) PROVE MonitorOK'
  BY <1>9, <1>15, StopKeeps DEF RestartTool
<1>16. CASE RestartStarts
  <2>1. cmd.uuid \in Uuids
    BY <1>16 DEF RestartStarts, InCommand
  <2> QED
    BY <1>9, <1>10, <1>16, <2>1 DEF RestartStarts
<1>17. CASE OpenConfig \/ WriteConfig \/ RemoveConfig \/ RemoveFromRepo \/ GetConfigCmd \/ UpdateInstance
  BY <1>9, <1>17 DEF OpenConfig, WriteConfig, RemoveConfig, RemoveFromRepo, GetConfigCmd, UpdateInstance
<1>18. ASSUME NEW u \in Uuids, Configure(u) \/ RemoveInstance(u) \/ WriteInstanceFile(u) PROVE MonitorOK'
  BY <1>9, <1>18 DEF Configure, RemoveInstance, WriteInstanceFile
<1>19. CASE Shutdown \/ Killed
  BY <1>11, <1>19 DEF Shutdown, Killed
<1>20. CASE UNCHANGED vars
  BY <1>9, <1>20
<1> QED
  BY <1>1, <1>2, <1>3, <1>4, <1>5, <1>6, <1>7, <1>8, <1>12, <1>13, <1>14, <1>15, <1>16, <1>17, <1>18,
     <1>19, <1>20 DEF Next, Monitor, World, Handling
-----------------------------------------------------------------------------
-----------------------------------------------------------------------------
\* The analyzers that run are finitely many.
LEMMA FewAnalyzers ==
  ASSUME ChanType
  PROVE  IsFiniteSet(DOMAIN analyzers) /\ Cardinality(DOMAIN analyzers) \in Nat
<1>1. IsFiniteSet(DOMAIN analyzers)
  BY ToolAssumption, FS_Subset DEF ChanType
<1> QED
  BY <1>1, FS_CardinalityType

\* startAnalyzer puts one more channel into the clock and into the monitor.
LEMMA StartKeeps ==
  ASSUME MonitorType, ChanType, Channels, NEW u \in Uuids, NEW c \in Configs, StartAnalyzer(u, c),
         u \notin DOMAIN analyzers, starts < MaxStarts, UNCHANGED <<restartChan, stops>>
  PROVE  ChanType' /\ Channels'
<1> DEFINE n == starts + 1
           new == [set |-> c, c |-> n, boot |-> 0]
<1>1. /\ starts' = n /\ n \in 1..MaxStarts /\ 1..n = 1..starts \union {n} /\ n \notin 1..starts
  BY ToolAssumption DEF StartAnalyzer, ChanType
<1>2. new \in Analyzer /\ new.set = c /\ new.c = n
  BY <1>1 DEF Analyzer
<1> HIDE DEF new, n
<1>3. /\ DOMAIN analyzers' = DOMAIN analyzers \union {u} /\ analyzers'[u] = new
      /\ \A v \in DOMAIN analyzers : analyzers'[v] = analyzers[v]
      /\ analyzers' \in [DOMAIN analyzers' -> Analyzer]
  BY <1>1, <1>2 DEF StartAnalyzer, ChanType, new, n
<1>4. /\ listeners' \in [Uuids -> SUBSET (1..n)] /\ n \in listeners'[u]
      /\ \A v \in Uuids : listeners[v] \subseteq listeners'[v]
  BY <1>1 DEF StartAnalyzer, Added, ChanType
<1>5. /\ watcher' \in [DOMAIN watcher' -> SUBSET (1..n)] /\ DOMAIN watcher' = DOMAIN watcher \union {IntervalOf[c]}
      /\ n \in watcher'[IntervalOf[c]] /\ \A i \in DOMAIN watcher : watcher[i] \subseteq watcher'[i]
  BY <1>1 DEF StartAnalyzer, ClockAdded, ChanType
<1>6. DOMAIN instances \subseteq DOMAIN instances' /\ u \in DOMAIN instances'
  BY AddedKeeps, Zenon DEF StartAnalyzer
<1>7. ChanType'
  BY <1>1, <1>3, <1>4, <1>5 DEF ChanType
<1>8. starts' = Cardinality(DOMAIN analyzers') + stops'
  <2>1. Cardinality(DOMAIN analyzers') = Cardinality(DOMAIN analyzers) + 1
    BY <1>3, FewAnalyzers, FS_AddElement
  <2> QED
    BY <1>1, <2>1, FewAnalyzers DEF ChanType, Channels, n
<1>9. \A v \in DOMAIN analyzers : analyzers[v].c # n /\ analyzers[v].c \in listeners[v]
  BY <1>1 DEF Channels, ChanType
<1>10. \A v \in DOMAIN analyzers' :
         /\ analyzers'[v].c \in listeners'[v] /\ v \in DOMAIN instances'
         /\ IntervalOf[analyzers'[v].set] \in DOMAIN watcher'
         /\ analyzers'[v].c \in watcher'[IntervalOf[analyzers'[v].set]]
         /\ \A w \in DOMAIN analyzers' \ {v} : analyzers'[v].c # analyzers'[w].c
  BY <1>2, <1>3, <1>4, <1>5, <1>6, <1>9 DEF Channels, ChanType
<1>11. \A k \in 1..n : (\E v \in Uuids : k \in listeners'[v]) /\ \E i \in DOMAIN watcher' : k \in watcher'[i]
  BY <1>1, <1>4, <1>5 DEF Channels
<1> QED
  BY <1>1, <1>7, <1>8, <1>10, <1>11 DEF Channels

\* stopAnalyzer takes none of them away.
LEMMA StopKeepsChannels ==
  ASSUME ChanType, Channels, NEW u \in DOMAIN analyzers, StopAnalyzer(u), UNCHANGED <<restartChan, starts>>
  PROVE  ChanType' /\ Channels'
<1>1. UNCHANGED <<listeners, instances, watcher>>
  BY StopKeeps
<1>2. /\ DOMAIN analyzers' = DOMAIN analyzers \ {u} /\ \A v \in DOMAIN analyzers' : analyzers'[v] = analyzers[v]
      /\ analyzers' \in [DOMAIN analyzers' -> Analyzer] /\ stops' = stops + 1
  BY DEF StopAnalyzer, ChanType
<1>3. starts = Cardinality(DOMAIN analyzers') + stops'
  <2>1. Cardinality(DOMAIN analyzers') = Cardinality(DOMAIN analyzers) - 1
    BY <1>2, FewAnalyzers, FS_RemoveElement
  <2> QED
    BY <1>2, <2>1, FewAnalyzers DEF ChanType, Channels
<1>4. ChanType'
  BY <1>1, <1>2 DEF ChanType
<1> QED
  BY <1>1, <1>2, <1>3, <1>4 DEF Channels

\* Nothing else changes the channels.
LEMMA SameChannels ==
  ASSUME ChanType, Channels, UNCHANGED <<listeners, watcher, starts, stops>>,
         DOMAIN instances' = DOMAIN instances, restartChan' \subseteq 1..MaxStarts,
         DOMAIN analyzers' = DOMAIN analyzers, analyzers' \in [DOMAIN analyzers' -> Analyzer],
         \A u \in DOMAIN analyzers : analyzers'[u].set = analyzers[u].set /\ analyzers'[u].c = analyzers[u].c
  PROVE  ChanType' /\ Channels'
<1>1. ChanType'
  BY DEF ChanType
<1> QED
  BY <1>1 DEF Channels

\* Manager.Start makes a clock and a monitor with the channels of what it starts.
LEMMA AgentStartsChannels == Inv /\ AgentStarts => ChanType' /\ Channels'
<1> SUFFICES ASSUME Inv, AgentStarts PROVE ChanType' /\ Channels'
  OBVIOUS
<1> DEFINE N == Cardinality(Startable)
<1>1. PICK number \in Bijection(Startable, 1..N) :
      /\ ~up /\ starts' = N
      /\ analyzers' = [u \in Startable |-> [set |-> conf[u], c |-> number[u], boot |-> 0]]
      /\ instances' = [u \in Startable |-> NoChecker]
      /\ listeners' = [u \in Uuids |-> IF u \in Startable THEN {number[u]} ELSE {}]
      /\ watcher' = [i \in {IntervalOf[conf[u]] : u \in Startable} |->
                       {number[u] : u \in {v \in Startable : IntervalOf[conf[v]] = i}}]
      /\ UNCHANGED <<restartChan, stops>>
  BY Zenon DEF AgentStarts
<1>2. Startable \subseteq Uuids /\ \A u \in Startable : conf[u] \in Configs
  BY DEF Startable, Inv, ToolType
<1>3. /\ N \in 0..MaxStarts /\ starts' = N /\ stops' = 0 /\ restartChan' = {}
      /\ \A u \in Startable : number[u] \in 1..N
      /\ \A u, v \in Startable : u # v => number[u] # number[v]
      /\ \A n \in 1..N : \E u \in Startable : number[u] = n
  <2>1. N \in 0..MaxStarts
    <3>1. N \in Nat /\ N <= Cardinality(Uuids) /\ Cardinality(Uuids) \in Nat
      BY <1>2, ToolAssumption, FS_Subset, FS_CardinalityType
    <3> HIDE DEF N
    <3> QED
      BY <3>1, ToolAssumption
  <2> HIDE DEF N
  <2>2. starts' = N /\ stops' = 0 /\ restartChan' = {}
    BY <1>1 DEF Inv, Down
  <2>3. /\ \A u \in Startable : number[u] \in 1..N
        /\ \A u, v \in Startable : u # v => number[u] # number[v]
        /\ \A n \in 1..N : \E u \in Startable : number[u] = n
    BY DEF Bijection, Injection, Surjection, IsInjective
  <2> QED
    BY <2>1, <2>2, <2>3
<1> HIDE DEF N
<1>4. N \in Nat /\ 1..N \subseteq 1..MaxStarts
  BY <1>3, ToolAssumption
<1>5. /\ DOMAIN analyzers' = Startable /\ analyzers' \in [Startable -> Analyzer]
      /\ \A u \in Startable : analyzers'[u].set = conf[u] /\ analyzers'[u].c = number[u]
  BY <1>1, <1>2, <1>3, <1>4 DEF Analyzer
<1>6. /\ listeners' \in [Uuids -> SUBSET (1..N)] /\ \A u \in Startable : number[u] \in listeners'[u]
  BY <1>1, <1>2, <1>3
<1>7. /\ watcher' \in [DOMAIN watcher' -> SUBSET (1..N)]
      /\ \A u \in Startable : IntervalOf[conf[u]] \in DOMAIN watcher' /\ number[u] \in watcher'[IntervalOf[conf[u]]]
  BY <1>1, <1>2, <1>3
<1>8. DOMAIN instances' = Startable
  BY <1>1
<1>9. ChanType'
  BY <1>2, <1>3, <1>5, <1>6, <1>7 DEF ChanType
<1>10. \A u \in DOMAIN analyzers' :
         /\ analyzers'[u].c \in listeners'[u] /\ u \in DOMAIN instances'
         /\ IntervalOf[analyzers'[u].set] \in DOMAIN watcher'
         /\ analyzers'[u].c \in watcher'[IntervalOf[analyzers'[u].set]]
         /\ \A v \in DOMAIN analyzers' \ {u} : analyzers'[u].c # analyzers'[v].c
  BY <1>3, <1>5, <1>6, <1>7, <1>8
<1>11. \A n \in 1..N : (\E u \in Uuids : n \in listeners'[u]) /\ \E i \in DOMAIN watcher' : n \in watcher'[i]
  BY <1>2, <1>3, <1>6, <1>7
<1>12. starts' = Cardinality(DOMAIN analyzers') + stops'
  BY <1>3, <1>4, <1>5 DEF N
<1> QED
  BY <1>3, <1>9, <1>10, <1>11, <1>12 DEF Channels

\* Every step keeps the channels and the analyzers in step.
LEMMA ChannelsNext == Inv /\ [Next]_vars => ChanType' /\ Channels'
<1> SUFFICES ASSUME Inv, [Next]_vars PROVE ChanType' /\ Channels'
  OBVIOUS
<1> USE DEF Inv, MonitorOK
<1>1. CASE /\ UNCHANGED <<analyzers, listeners, watcher, starts, stops>>
           /\ DOMAIN instances' = DOMAIN instances /\ restartChan' \subseteq 1..MaxStarts
  BY <1>1, SameChannels DEF ChanType
<1>2. CASE UNCHANGED <<analyzers, listeners, watcher, starts, stops, instances, restartChan>>
  BY <1>1, <1>2 DEF ChanType
<1>3. CASE (CheckBegins \/ CheckEnds \/ SecondPasses \/ UpdateInstance) /\ UNCHANGED toolVars
  BY <1>2, <1>3 DEF CheckBegins, CheckEnds, SecondPasses, UpdateInstance
<1>4. ASSUME NEW u \in Uuids, ReadUptime(u) \/ MySQLDown(u) \/ MySQLUp(u), UNCHANGED toolVars
      PROVE  ChanType' /\ Channels'
  BY <1>2, <1>4 DEF ReadUptime, MySQLDown, MySQLUp
<1>5. CASE CompareUptime /\ UNCHANGED toolVars
  BY <1>1, <1>5 DEF CompareUptime, MonitorType, ChanType
<1>6. CASE Notify /\ UNCHANGED toolVars
  <2>1. /\ check.pc = "verdict" /\ UNCHANGED <<listeners, instances>>
        /\ restartChan' \subseteq restartChan \union listeners[check.uuid]
    BY <1>6 DEF Notify
  <2>2. check.uuid \in Uuids
    BY <2>1 DEF MonitorType, Uptimes
  <2>3. restartChan' \subseteq 1..MaxStarts
    BY <2>1, <2>2, ToolAssumption DEF ChanType
  <2> QED
    BY <1>1, <1>6, <2>1, <2>3
<1>7. ASSUME NEW u \in Uuids, Configure(u) PROVE ChanType' /\ Channels'
  <2>1. /\ UNCHANGED <<listeners, watcher, starts, stops, instances>> /\ restartChan' \subseteq restartChan
        /\ u \in DOMAIN analyzers /\ analyzers' = [analyzers EXCEPT ![u].boot = mysql[u].boot]
    BY <1>7 DEF Configure
  <2>2. mysql[u].boot \in Nat
    BY DEF MonitorType
  <2>3. /\ DOMAIN analyzers' = DOMAIN analyzers /\ analyzers' \in [DOMAIN analyzers' -> Analyzer]
        /\ \A v \in DOMAIN analyzers : analyzers'[v].set = analyzers[v].set /\ analyzers'[v].c = analyzers[v].c
    BY <2>1, <2>2 DEF ChanType, Analyzer
  <2>4. restartChan' \subseteq 1..MaxStarts
    BY <2>1 DEF ChanType
  <2> QED
    BY <2>1, <2>3, <2>4, SameChannels
<1>8. ASSUME NEW u \in Uuids, NEW c \in Configs, StartTool(u, c) PROVE ChanType' /\ Channels'
  BY <1>2, <1>8, StartKeeps DEF StartTool
<1>9. CASE RestartStarts
  <2>1. cmd.uuid \in Uuids /\ cmd.set \in Configs /\ Running(cmd.uuid) = NoConf
    BY <1>9 DEF RestartStarts, InCommand
  <2>2. cmd.uuid \notin DOMAIN analyzers
    BY <2>1, ToolAssumption DEF Running, ChanType, Analyzer
  <2> QED
    BY <1>2, <1>9, <2>1, <2>2, StartKeeps DEF RestartStarts
<1>10. ASSUME NEW u \in Uuids, StopTool(u) PROVE ChanType' /\ Channels'
  BY <1>2, <1>10, StopKeepsChannels DEF StopTool
<1>11. ASSUME NEW u \in Uuids, NEW c \in Configs, RestartTool(u, c) PROVE ChanType' /\ Channels'
  BY <1>11, StopKeepsChannels DEF RestartTool
<1>12. CASE OpenConfig \/ WriteConfig \/ RemoveConfig \/ RemoveFromRepo \/ GetConfigCmd
  BY <1>2, <1>12 DEF OpenConfig, WriteConfig, RemoveConfig, RemoveFromRepo, GetConfigCmd
<1>13. ASSUME NEW u \in Uuids, RemoveInstance(u) \/ WriteInstanceFile(u) PROVE ChanType' /\ Channels'
  BY <1>2, <1>13, SMTT(30) DEF RemoveInstance, WriteInstanceFile
<1>14. CASE Shutdown \/ Killed
  <2>1. MemoryLost
    BY <1>14 DEF Shutdown, Killed
  <2>2. /\ DOMAIN analyzers' = {} /\ DOMAIN watcher' = {} /\ starts' = 0 /\ stops' = 0
        /\ listeners' = [u \in Uuids |-> {}] /\ restartChan' = {}
        /\ analyzers' \in [{} -> Analyzer] /\ watcher' \in [{} -> SUBSET (1..0)]
    BY <2>1 DEF MemoryLost, Nothing
  <2>3. ChanType'
    BY <2>2, ToolAssumption DEF ChanType
  <2> QED
    BY <2>2, <2>3, FS_EmptySet DEF Channels
<1>15. CASE UNCHANGED vars
  BY <1>2, <1>15
<1> QED
  BY <1>3, <1>4, <1>5, <1>6, <1>7, <1>8, <1>9, <1>10, <1>11, <1>12, <1>13, <1>14, <1>15,
     AgentStartsChannels, Zenon DEF Next, Monitor, World, Handling
-----------------------------------------------------------------------------
\* Nothing gets into the memory of an agent that does not run.
LEMMA DownNext == Inv /\ [Next]_vars => Down'
<1> SUFFICES ASSUME Inv, [Next]_vars, ~up' PROVE Down'
  BY DEF Down
<1>1. CASE Shutdown \/ Killed
  BY <1>1 DEF Shutdown, Killed, MemoryLost, Down
<1>2. CASE up
  BY <1>1, <1>2, ZenonT(30)
     DEF Next, Monitor, World, Handling, Configure, StartTool, RestartTool, StopTool, RemoveInstance,
     WriteInstanceFile, RestartStarts, OpenConfig, WriteConfig, RemoveConfig, RemoveFromRepo, GetConfigCmd, AgentStarts
<1>3. CASE ~up
  <2>1. /\ DOMAIN analyzers = {} /\ DOMAIN instances = {} /\ check.pc = "idle" /\ cmd.pc = "done" /\ cmd.uuid = NoUuid
    BY <1>3 DEF Inv, Down, Nothing, IdleCheck, NoCmd
  <2>2. ~CheckBegins /\ ~CompareUptime /\ ~Notify /\ ~CheckEnds /\ \A u \in Uuids : ~ReadUptime(u) /\ ~Configure(u)
    BY <2>1 DEF CheckBegins, CompareUptime, Notify, CheckEnds, ReadUptime, Configure
  <2>3. ~Handling /\ ~AgentStarts
    BY <2>1, Zenon DEF Handling, RestartStarts, OpenConfig, WriteConfig, RemoveConfig, RemoveFromRepo, AgentStarts
  <2>4. /\ ~GetConfigCmd
        /\ \A u \in Uuids : ~StopTool(u) /\ ~RemoveInstance(u) /\ \A c \in Configs : ~StartTool(u, c) /\ ~RestartTool(u, c)
    BY <1>3 DEF GetConfigCmd, StopTool, RemoveInstance, StartTool, RestartTool, MuxFree
  <2>5. CASE (SecondPasses \/ UpdateInstance) /\ UNCHANGED toolVars
    BY <1>3, <2>5 DEF SecondPasses, UpdateInstance, Inv, Down
  <2>6. ASSUME NEW u \in Uuids, ((MySQLDown(u) \/ MySQLUp(u)) /\ UNCHANGED toolVars) \/ WriteInstanceFile(u)
        PROVE  Down'
    BY <1>3, <2>6 DEF MySQLDown, MySQLUp, WriteInstanceFile, Inv, Down
  <2>7. CASE UNCHANGED vars
    BY <1>3, <2>7 DEF Inv, Down
  <2> QED
    BY <1>1, <2>2, <2>3, <2>4, <2>5, <2>6, <2>7 DEF Next, Monitor, World
<1> QED
  BY <1>2, <1>3 DEF Inv, ToolType

\* What runs once an analyzer is started, and once it is stopped.
LEMMA RunningAfter ==
  ASSUME ChanType, NEW u \in Uuids
  PROVE  /\ \A c \in Configs : StartAnalyzer(u, c) =>
              Running(u)' = c /\ \A v \in Uuids \ {u} : Running(v)' = Running(v)
         /\ StopAnalyzer(u) =>
              Running(u)' = NoConf /\ \A v \in Uuids \ {u} : Running(v)' = Running(v)
BY DEF ChanType, StartAnalyzer, StopAnalyzer, Running

\* A step that leaves the files, the command and what runs alone.
LEMMA SameTools ==
  ASSUME ToolType, InCommand, AsAsked, UNCHANGED <<conf, up, cmd, may, lost>>,
         files' \subseteq Uuids, cache' \subseteq Uuids,
         \A u \in Uuids : Running(u)' = Running(u)
  PROVE  ToolType' /\ InCommand' /\ AsAsked'
<1>1. ToolType'
  BY DEF ToolType
<1>2. InCommand'
  BY DEF InCommand, ToolType
<1>3. AsAsked'
  BY DEF AsAsked, ToolType
<1> QED
  BY <1>1, <1>2, <1>3

\* No command is in hand once one is answered.
LEMMA NoneInHand ==
  /\ NoCmd \in CmdRec /\ NoCmd.uuid = NoUuid /\ NoCmd.set = NoConf /\ NoCmd.pc = "done" /\ NoUuid \notin Uuids
BY ToolAssumption, SMTT(30) DEF NoCmd, CmdRec

\* A command that did what it was asked for is answered.
LEMMA AnswersOk ==
  ASSUME ToolType, InCommand, AsAsked, NEW u \in Uuids, cmd.uuid = u,
         NEW c \in Configs \union {NoConf}, Ok(u, c),
         Running(u)' = c, \A v \in Uuids \ {u} : Running(v)' = Running(v),
         conf' \in [Uuids -> Files], conf'[u] = c, \A v \in Uuids \ {u} : conf'[v] = conf[v],
         files' \subseteq Uuids, cache' \subseteq Uuids, up' = up
  PROVE  ToolType' /\ InCommand' /\ AsAsked'
<1>1. /\ may' \in [Uuids -> SUBSET (Configs \union {NoConf})] /\ may'[u] = {c}
      /\ \A v \in Uuids \ {u} : may'[v] = may[v]
      /\ lost' = lost \ {u} /\ cmd' = NoCmd
  BY DEF Ok, ToolType
<1>2. ToolType' /\ InCommand'
  BY <1>1, NoneInHand DEF ToolType, InCommand
<1>3. AsAsked'
  BY <1>1, NoneInHand DEF AsAsked
<1> QED
  BY <1>2, <1>3

\* A command that failed is answered: what it has done to the tool is possible
\* from now on, and on disk it has done nothing, or left a bad file.
LEMMA AnswersError ==
  ASSUME ToolType, InCommand, AsAsked, NEW u \in Uuids, cmd.uuid = u, cmd.pc # "forget",
         NEW c \in Configs \union {NoConf}, Error(u, c),
         Running(u)' = c, \A v \in Uuids \ {u} : Running(v)' = Running(v),
         conf' \in [Uuids -> Files], conf'[u] \in {conf[u], Empty, Torn},
         \A v \in Uuids \ {u} : conf'[v] = conf[v],
         files' \subseteq Uuids, cache' \subseteq Uuids, up' = up
  PROVE  ToolType' /\ InCommand' /\ AsAsked'
<1>1. /\ may' \in [Uuids -> SUBSET (Configs \union {NoConf})] /\ may'[u] = may[u] \union {c}
      /\ \A v \in Uuids \ {u} : may'[v] = may[v]
      /\ lost' = lost /\ cmd' = NoCmd
  BY DEF Error, ToolType
<1>2. ToolType' /\ InCommand'
  BY <1>1, NoneInHand DEF ToolType, InCommand
<1>3. AsAsked'
  BY <1>1, NoneInHand DEF AsAsked
<1> QED
  BY <1>2, <1>3, Zenon

\* A command goes on to its next step.
LEMMA GoesOn ==
  ASSUME ToolType, InCommand, NEW p \in {"write", "writing", "forget", "forgetAfterError"},
         cmd' = [cmd EXCEPT !.pc = p]
  PROVE  cmd' \in CmdRec /\ cmd'.uuid = cmd.uuid /\ cmd'.set = cmd.set /\ cmd'.pc = p
BY DEF ToolType, CmdRec

\* Every step keeps the tools as they were asked for.
LEMMA ToolsNext == Inv /\ [Next]_vars => ToolType' /\ InCommand' /\ AsAsked'
<1> SUFFICES ASSUME Inv, [Next]_vars PROVE ToolType' /\ InCommand' /\ AsAsked'
  OBVIOUS
<1> USE ToolAssumption DEF Inv
<1>1. CASE UNCHANGED toolVars
  BY <1>1, SameTools DEF ToolType, Running
<1>2. ASSUME NEW u \in Uuids, Configure(u) PROVE ToolType' /\ InCommand' /\ AsAsked'
  <2>1. \A v \in Uuids : Running(v)' = Running(v)
    BY <1>2, SMTT(30) DEF Configure, Running, ChanType, Analyzer
  <2> QED
    BY <1>2, <2>1, SameTools DEF Configure, ToolType
<1>3. ASSUME NEW u \in Uuids, RemoveInstance(u) \/ WriteInstanceFile(u) PROVE ToolType' /\ InCommand' /\ AsAsked'
  BY <1>3, SameTools DEF RemoveInstance, WriteInstanceFile, ToolType, Running
<1>4. ASSUME NEW u \in Uuids, NEW c \in Configs, StartTool(u, c) PROVE ToolType' /\ InCommand' /\ AsAsked'
  <2>1. UNCHANGED <<conf, files, up, may, lost>> /\ cmd = NoCmd /\ up /\ cache' \subseteq Uuids
    BY <1>4, ZenonT(30) DEF StartTool, MuxFree, ToolType
  <2>2. CASE UNCHANGED <<analyzers, cmd>>
    BY <2>1, <2>2, SameTools, ZenonT(30) DEF ToolType, Running
  <2>3. CASE StartAnalyzer(u, c) /\ cmd' = Command("StartTool", u, c, "write")
    <3>1. Running(u)' = c /\ \A v \in Uuids \ {u} : Running(v)' = Running(v)
      BY <2>3, RunningAfter, ZenonT(30)
    <3>2. cmd' \in CmdRec /\ cmd'.uuid = u /\ cmd'.set = c /\ cmd'.pc = "write"
      BY <2>3 DEF Command, CmdRec
    <3>3. ToolType' /\ InCommand'
      BY <2>1, <3>1, <3>2, SMTT(30) DEF ToolType, InCommand
    <3>4. AsAsked'
      BY <2>1, <3>1, <3>2, SMTT(30) DEF AsAsked, NoCmd
    <3> QED
      BY <3>3, <3>4, SMTT(30)
  <2> QED
    BY <1>4, <2>2, <2>3 DEF StartTool
<1>5. ASSUME NEW u \in Uuids, NEW c \in Configs, RestartTool(u, c) PROVE ToolType' /\ InCommand' /\ AsAsked'
  <2>1. /\ UNCHANGED <<conf, files, up, may, lost, cache>> /\ cmd = NoCmd /\ up
        /\ StopAnalyzer(u) /\ cmd' = Command("RestartTool", u, c, "start")
    BY <1>5 DEF RestartTool, MuxFree
  <2>2. Running(u)' = NoConf /\ \A v \in Uuids \ {u} : Running(v)' = Running(v)
    BY <2>1, RunningAfter
  <2>3. cmd' \in CmdRec /\ cmd'.uuid = u /\ cmd'.set = c /\ cmd'.pc = "start"
    BY <2>1, SMTT(30) DEF Command, CmdRec
  <2>4. ToolType' /\ InCommand'
    BY <2>1, <2>2, <2>3, SMTT(30) DEF ToolType, InCommand
  <2>5. AsAsked'
    BY <2>1, <2>2, <2>3 DEF AsAsked, NoCmd
  <2> QED
    BY <2>4, <2>5
<1>6. ASSUME NEW u \in Uuids, StopTool(u) PROVE ToolType' /\ InCommand' /\ AsAsked'
  <2>1. /\ UNCHANGED <<conf, files, up, may, lost, cache>> /\ cmd = NoCmd /\ up
        /\ StopAnalyzer(u) \/ (u \notin DOMAIN analyzers /\ UNCHANGED analyzers)
        /\ cmd' = Command("StopTool", u, NoConf, "remove")
    BY <1>6, SMTT(30) DEF StopTool, MuxFree
  <2>2. Running(u)' = NoConf /\ \A v \in Uuids \ {u} : Running(v)' = Running(v)
    BY <2>1, RunningAfter, SMTT(30) DEF Running
  <2>3. cmd' \in CmdRec /\ cmd'.uuid = u /\ cmd'.set = NoConf /\ cmd'.pc = "remove"
    BY <2>1, SMTT(30) DEF Command, CmdRec
  <2>4. ToolType' /\ InCommand'
    BY <2>1, <2>2, <2>3 DEF ToolType, InCommand
  <2>5. AsAsked'
    BY <2>1, <2>2, <2>3, Zenon DEF AsAsked, NoCmd
  <2> QED
    BY <2>4, <2>5
<1>7. CASE GetConfigCmd
  <2>1. /\ UNCHANGED <<conf, files, up, may, lost, cache, analyzers>> /\ cmd = NoCmd
        /\ cmd' = Command("GetConfig", NoUuid, NoConf, "stuck")
    BY <1>7 DEF GetConfigCmd, MuxFree
  <2>2. cmd' \in CmdRec /\ cmd'.uuid = NoUuid /\ cmd'.pc = "stuck" /\ cmd.uuid = NoUuid /\ cmd.pc = "done"
    BY <2>1, SMTT(30) DEF Command, CmdRec, NoCmd
  <2>3. ToolType' /\ InCommand'
    BY <2>1, <2>2 DEF ToolType, InCommand
  <2>4. AsAsked'
    BY <2>1, <2>2 DEF AsAsked, Running
  <2> QED
    BY <2>3, <2>4
<1>8. CASE RestartStarts
  <2> DEFINE u == cmd.uuid
  <2>1. /\ UNCHANGED <<conf, files, up>> /\ cache' \subseteq Uuids /\ cmd.pc = "start"
        /\ u \in Uuids /\ cmd.set \in Configs /\ Running(u) = NoConf
    BY <1>8 DEF RestartStarts, ToolType, InCommand
  <2>2. CASE StartAnalyzer(u, cmd.set) /\ cmd' = [cmd EXCEPT !.pc = "write"] /\ UNCHANGED <<may, lost>>
    <3>1. Running(u)' = cmd.set /\ \A v \in Uuids \ {u} : Running(v)' = Running(v)
      BY <2>1, <2>2, RunningAfter
    <3>2. cmd' \in CmdRec /\ cmd'.uuid = u /\ cmd'.set = cmd.set /\ cmd'.pc = "write"
      BY <2>2, GoesOn
    <3>3. ToolType' /\ InCommand'
      BY <2>1, <2>2, <3>1, <3>2 DEF ToolType, InCommand
    <3>4. AsAsked'
      BY <2>1, <2>2, <3>1, <3>2 DEF AsAsked
    <3> QED
      BY <3>3, <3>4
  <2>3. CASE Error(u, NoConf) /\ UNCHANGED analyzers
    BY <2>1, <2>3, AnswersError, Zenon DEF ToolType, Running
  <2> QED
    BY <1>8, <2>2, <2>3 DEF RestartStarts
<1>9. CASE OpenConfig
  <2> DEFINE u == cmd.uuid
  <2>1. /\ UNCHANGED <<analyzers, files, cache, up>> /\ cmd.pc = "write"
        /\ u \in Uuids /\ cmd.set \in Configs /\ Running(u) = cmd.set
    BY <1>9 DEF OpenConfig, InCommand
  <2>2. \A v \in Uuids : Running(v)' = Running(v)
    BY <2>1 DEF Running
  <2>3. CASE conf' = [conf EXCEPT ![u] = Empty] /\ cmd' = [cmd EXCEPT !.pc = "writing"] /\ UNCHANGED <<may, lost>>
    <3>1. conf' \in [Uuids -> Files] /\ conf'[u] = Empty /\ \A v \in Uuids \ {u} : conf'[v] = conf[v]
      BY <2>1, <2>3 DEF ToolType, Files
    <3>2. cmd' \in CmdRec /\ cmd'.uuid = u /\ cmd'.set = cmd.set /\ cmd'.pc = "writing"
      BY <2>3, GoesOn
    <3>3. ToolType' /\ InCommand'
      BY <2>1, <2>2, <2>3, <3>1, <3>2 DEF ToolType, InCommand
    <3>4. AsAsked'
      BY <2>1, <2>2, <2>3, <3>1, <3>2 DEF AsAsked
    <3> QED
      BY <3>3, <3>4
  <2>4. CASE Error(u, cmd.set) /\ UNCHANGED conf
    BY <2>1, <2>2, <2>4, AnswersError, ZenonT(30) DEF ToolType
  <2> QED
    BY <1>9, <2>3, <2>4 DEF OpenConfig
<1>10. CASE WriteConfig
  <2> DEFINE u == cmd.uuid
  <2>1. /\ UNCHANGED <<analyzers, files, cache, up>> /\ cmd.pc = "writing"
        /\ u \in Uuids /\ cmd.set \in Configs /\ Running(u) = cmd.set
    BY <1>10 DEF WriteConfig, InCommand
  <2>2. \A v \in Uuids : Running(v)' = Running(v)
    BY <2>1, ZenonT(30) DEF Running
  <2>3. ASSUME NEW f \in Files, conf' = [conf EXCEPT ![u] = f]
        PROVE  conf' \in [Uuids -> Files] /\ conf'[u] = f /\ \A v \in Uuids \ {u} : conf'[v] = conf[v]
    BY <2>1, <2>3, ZenonT(30) DEF ToolType
  <2>4. CASE conf' = [conf EXCEPT ![u] = cmd.set] /\ Ok(u, cmd.set)
    <3>1. conf' \in [Uuids -> Files] /\ conf'[u] = cmd.set /\ \A v \in Uuids \ {u} : conf'[v] = conf[v]
      BY <2>1, <2>3, <2>4, Zenon DEF Files
    <3> QED
      BY <2>1, <2>2, <2>4, <3>1, AnswersOk, ZenonT(30) DEF ToolType
  <2>5. ASSUME NEW f \in {Empty, Torn}, conf' = [conf EXCEPT ![u] = f], Error(u, cmd.set)
        PROVE  ToolType' /\ InCommand' /\ AsAsked'
    <3>1. conf' \in [Uuids -> Files] /\ conf'[u] = f /\ \A v \in Uuids \ {u} : conf'[v] = conf[v]
      BY <2>1, <2>3, <2>5, Zenon DEF Files
    <3> QED
      BY <2>1, <2>2, <2>5, <3>1, AnswersError, ZenonT(30) DEF ToolType
  <2> QED
    BY <1>10, <2>4, <2>5, SMTT(30) DEF WriteConfig
<1>11. CASE RemoveConfig
  <2> DEFINE u == cmd.uuid
  <2>1. /\ UNCHANGED <<analyzers, files, cache, up, may, lost>> /\ cmd.pc = "remove"
        /\ u \in Uuids /\ cmd.set = NoConf /\ Running(u) = NoConf
    BY <1>11 DEF RemoveConfig, InCommand
  <2>2. \A v \in Uuids : Running(v)' = Running(v)
    BY <2>1 DEF Running
  <2>3. PICK p \in {"forget", "forgetAfterError"} :
          /\ cmd' = [cmd EXCEPT !.pc = p]
          /\ conf' = IF p = "forget" THEN [conf EXCEPT ![u] = NoConf] ELSE conf
    BY <1>11 DEF RemoveConfig
  <2>4. /\ conf' \in [Uuids -> Files] /\ conf'[u] = IF p = "forget" THEN NoConf ELSE conf[u]
        /\ \A v \in Uuids \ {u} : conf'[v] = conf[v]
    BY <2>1, <2>3 DEF ToolType, Files
  <2>5. cmd' \in CmdRec /\ cmd'.uuid = u /\ cmd'.set = cmd.set /\ cmd'.pc = p
    BY <2>3, GoesOn, SMTT(30)
  <2>6. ToolType' /\ InCommand'
    BY <2>1, <2>2, <2>4, <2>5, ZenonT(30) DEF ToolType, InCommand
  <2>7. AsAsked'
    BY <2>1, <2>2, <2>4, <2>5 DEF AsAsked
  <2> QED
    BY <2>6, <2>7
<1>12. CASE RemoveFromRepo
  <2> DEFINE u == cmd.uuid
  <2>1. /\ UNCHANGED <<analyzers, conf, up>> /\ files' \subseteq Uuids /\ cache' \subseteq Uuids
        /\ cmd.pc \in {"forget", "forgetAfterError"}
        /\ u \in Uuids /\ Running(u) = NoConf /\ (cmd.pc = "forget" => conf[u] = NoConf)
    BY <1>12, ZenonT(30) DEF RemoveFromRepo, ToolType, InCommand
  <2>2. \A v \in Uuids : Running(v)' = Running(v)
    BY <2>1, ZenonT(30) DEF Running
  <2>3. CASE cmd.pc = "forget" /\ Ok(u, NoConf)
    BY <2>1, <2>2, <2>3, AnswersOk, ZenonT(30) DEF ToolType
  <2>4. CASE cmd.pc # "forget" /\ Error(u, NoConf)
    BY <2>1, <2>2, <2>4, AnswersError, ZenonT(30) DEF ToolType
  <2> QED
    BY <1>12, <2>3, <2>4, ZenonT(30) DEF RemoveFromRepo
<1>13. CASE Shutdown
  <2>1. UNCHANGED <<conf, may, files, lost>> /\ up' = FALSE /\ cmd = NoCmd /\ cmd' = NoCmd /\ cache' = {}
    BY <1>13 DEF Shutdown, MemoryLost, MuxFree
  <2>2. ToolType' /\ InCommand'
    BY <2>1, NoneInHand, ZenonT(30) DEF ToolType, InCommand
  <2>3. AsAsked'
    BY <2>1, NoneInHand, SMTT(30) DEF AsAsked
  <2> QED
    BY <2>2, <2>3
<1>14. CASE Killed
  <2> DEFINE u == cmd.uuid
  <2>1. UNCHANGED <<files, lost>> /\ up' = FALSE /\ cmd' = NoCmd /\ cache' = {}
    BY <1>14 DEF Killed, MemoryLost
  <2>2. /\ may' \in [Uuids -> SUBSET (Configs \union {NoConf})]
        /\ \A v \in Uuids : may[v] \subseteq may'[v] /\ (v = u => cmd.set \in may'[v])
    BY <1>14 DEF Killed, ToolType, CmdRec
  <2>3. conf' \in [Uuids -> Files] /\ \A v \in Uuids : conf'[v] \in {conf[v], Empty, Torn}
    BY <1>14 DEF Killed, ToolType, Files
  <2>4. ToolType' /\ InCommand'
    BY <2>1, <2>2, <2>3, NoneInHand, ZenonT(30) DEF ToolType, InCommand
  <2>5. \A v \in Uuids : conf'[v] \in may'[v] \union {Empty, Torn} \/ v \in lost'
    BY <2>1, <2>2, <2>3 DEF AsAsked, InCommand
  <2> QED
    BY <2>1, <2>4, <2>5, SMTT(30) DEF AsAsked
<1>15. CASE AgentStarts
  <2>1. /\ ~up /\ up' = TRUE /\ UNCHANGED <<files, cmd, may>> /\ cache' = files
        /\ conf' = [u \in Uuids |-> IF conf[u] = Empty THEN NoConf ELSE conf[u]]
        /\ lost' = lost \union {u \in Uuids : conf[u] # NoConf /\ u \notin Startable}
    BY <1>15, ZenonT(30) DEF AgentStarts
  <2>2. cmd = NoCmd
    BY <2>1 DEF Down
  <2>3. \A u \in Uuids : Running(u)' = IF u \in Startable THEN conf[u] ELSE NoConf
    <3>1. PICK number : analyzers' = [u \in Startable |-> [set |-> conf[u], c |-> number[u], boot |-> 0]]
      BY <1>15, Zenon DEF AgentStarts
    <3>2. DOMAIN analyzers' = Startable /\ \A u \in Startable : analyzers'[u].set = conf[u]
      BY <3>1
    <3> QED
      BY <3>2, Zenon DEF Running
  <2>4. \A u \in Startable : conf[u] \in Configs
    BY Zenon DEF Startable
  <2>5. conf' \in [Uuids -> Files] /\ \A u \in Uuids : conf'[u] = IF conf[u] = Empty THEN NoConf ELSE conf[u]
    BY <2>1 DEF ToolType, Files
  <2>6. ToolType' /\ InCommand'
    BY <2>1, <2>2, <2>5, NoneInHand, ZenonT(30) DEF ToolType, InCommand
  <2>7. \A u \in Uuids : conf[u] \in may[u] \union {Empty, Torn} \/ u \in lost
    BY <2>2, NoneInHand DEF AsAsked
  <2>8. AsAsked'
    BY <2>1, <2>3, <2>4, <2>5, <2>7, Zenon DEF AsAsked
  <2> QED
    BY <2>6, <2>8
<1> QED
  BY <1>1, <1>2, <1>3, <1>4, <1>5, <1>6, <1>7, <1>8, <1>9, <1>10, <1>11, <1>12, <1>13, <1>14, <1>15, ZenonT(30)
     DEF Next, Handling
-----------------------------------------------------------------------------
\* Before the first start of the agent, Inv holds of the config files it finds.
LEMMA InvInit == Init => Inv
<1> SUFFICES ASSUME Init PROVE Inv
  OBVIOUS
<1>1. conf \in [Uuids -> (Configs \ Invalid) \union {NoConf}] /\ may = [u \in Uuids |-> {conf[u]}]
  BY ToolAssumption, Zenon DEF Init
<1>2. DOMAIN Nothing = {} /\ \A S : Nothing \in [{} -> S]
  BY DEF Nothing
<1>3. MonitorOK
  <2>1. mysql \in [Uuids -> [boot : Nat, start : Nat, up : BOOLEAN]] /\ \A u \in Uuids : mysql[u].start = 0
    BY DEF Init
  <2>2. MonitorType
    BY <1>2, <2>1, NewChecker DEF Init, MonitorType
  <2> QED
    BY <1>2, <2>1, <2>2, NewChecker DEF Init, MonitorOK, Uptimes, VerdictTrue
<1>4. ToolType /\ InCommand
  <2>1. conf \in [Uuids -> Files] /\ may \in [Uuids -> SUBSET (Configs \union {NoConf})]
    BY <1>1, ToolAssumption, Zenon DEF Files
  <2>2. up \in BOOLEAN
    BY Zenon DEF Init
  <2> QED
    BY <2>1, <2>2, NoneInHand DEF Init, ToolType, InCommand
<1>5. ChanType
  BY <1>2, ToolAssumption DEF Init, ChanType
<1>6. Channels
  BY <1>2, FS_EmptySet DEF Init, Channels
<1>7. Down /\ AsAsked
  BY <1>1 DEF Init, Down, AsAsked
<1> QED
  BY <1>3, <1>4, <1>5, <1>6, <1>7 DEF Inv

\* Inv holds throughout the lives of the agent.
LEMMA InvAlways == Spec => []Inv
<1>1. Inv /\ [Next]_vars => Inv'
  BY MonitorNext, ChannelsNext, DownNext, ToolsNext DEF Inv
<1> QED
  BY <1>1, InvInit, PTL DEF Spec

\* The verdict of MySQL.Check on a restart is true, however MySQL, the clock
\* and the check are interleaved, but for the named exceptions.
THEOREM VerdictsAreTrue == Spec => []VerdictTrue
<1>1. Inv => VerdictTrue
  BY DEF Inv, MonitorOK, Uptimes
<1> QED
  BY <1>1, InvAlways, PTL

\* Whatever is started, restarted and stopped, each analyzer that runs is in the
\* clock at its interval and in the restart monitor under its instance.
THEOREM RunningIsWatched == Spec => []Watched
<1>1. Inv => Watched
  <2> SUFFICES ASSUME Inv PROVE Watched
    OBVIOUS
  <2>1. ChanType /\ Channels
    BY DEF Inv
  <2>2. UNION {watcher[i] : i \in DOMAIN watcher} = 1..starts
    BY <2>1 DEF ChanType, Channels
  <2>3. UNION {listeners[u] : u \in Uuids} = 1..starts
    BY <2>1 DEF ChanType, Channels
  <2>4. Cardinality(1..starts) = starts
    <3>1. starts \in Nat
      BY <2>1, ToolAssumption DEF ChanType
    <3> QED
      BY <3>1, FS_Interval
  <2> QED
    BY <2>1, <2>2, <2>3, <2>4, Zenon DEF Channels, Watched
<1> QED
  BY <1>1, InvAlways, PTL

\* What runs is what the commands asked for, across kills and restarts of the
\* agent, unless Manager.Start could not read what a kill has left.
THEOREM ToolsAreDurable == Spec => []Durable
<1>1. Inv => Durable
  <2> SUFFICES ASSUME Inv PROVE Durable
    OBVIOUS
  <2>1. TypeOK
    BY ToolAssumption DEF Inv, ToolType, ChanType, TypeOK, CmdRec, Analyzer
  <2>2. MuxFree => \A u \in Uuids : Running(u) \in may[u] \/ u \in lost
    BY NoneInHand DEF Inv, AsAsked, MuxFree
  <2> QED
    BY <2>1, <2>2 DEF Durable
<1> QED
  BY <1>1, InvAlways, PTL
=============================================================================
