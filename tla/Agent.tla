------------------------------- MODULE Agent -------------------------------
(***************************************************************************)
(* The agent proper (agent/agent.go): the loop of Run(), the cmdHandler    *)
(* with one handleCmd per command and the goroutine that executes it, the  *)
(* statusHandler, reply() and stop().  The managers are external: a call   *)
(* into one may take longer than the time limit, or panic.  The websocket  *)
(* client is external too: a queue of replies that drains while connected, *)
(* and ConnectChan (its inside is module WsClient).                        *)
(*                                                                         *)
(* Commands are numbered in the order Run() receives them.                 *)
(***************************************************************************)
EXTENDS Integers, Sequences, FiniteSets

CONSTANTS MaxCmds,       \* bound: commands received
          Kinds,         \* kinds of commands the API sends
          Limit,         \* commands executing in parallel (limit, 20)
          CmdQueue,      \* CMD_QUEUE_SIZE
          StatusQueue,   \* STATUS_QUEUE_SIZE
          SendBuffer,    \* capacity of the client's SendChan
          MaxErrors,     \* MAX_ERRORS
          MaxPanics,     \* bound: panics of statusHandler
          MaxFails       \* bound: failures of the connection

ASSUME AgentAssumption ==
  /\ {MaxCmds, Limit, CmdQueue, StatusQueue, SendBuffer, MaxErrors} \subseteq Nat \ {0}
  /\ {MaxPanics, MaxFails} \subseteq Nat
  /\ Kinds \subseteq {"Work", "Reconnect", "Status", "Stop", "Restart", "Abort"}

VARIABLES
  run,         \* Run(): where it is, the command in hand, how many replies it owes
  connected,   \* Run()'s own variable
  errors,      \* statusHandlerErrors
  cmd,         \* the commands received: kind, where each is
  cmdChan, statusChan,
  tokens,      \* length of cmdHandler's queue
  handler,     \* where the two handlers are
  sync,        \* their SyncChans: Crash cleared, and what is in CrashChan, DoneChan
  sendChan,    \* number of replies in SendChan
  link, connectChan,
  replied,     \* history: how many replies each command got, given up ones too
  panics, fails

vars == <<run, connected, errors, cmd, cmdChan, statusChan, tokens, handler, sync,
          sendChan, link, connectChan, replied, panics, fails>>
main    == <<run, connected, errors>>
queues  == <<cmdChan, statusChan>>
client  == <<link, connectChan, fails>>
out     == <<sendChan, replied>>

Handlers == {"cmd", "status"}
Received == DOMAIN cmd
Pong     == 0       \* the reply that answers no command

At(i, pc)  == i \in Received /\ cmd[i].pc = pc
Goto(i, pc) == cmd' = [cmd EXCEPT ![i].pc = pc]
RunAt(pc)  == run.pc = pc
RunTo(pc)  == run' = [run EXCEPT !.pc = pc]

\* SyncChan.Done.
Done(s) == IF s.graceful THEN [s EXCEPT !.done = TRUE] ELSE [s EXCEPT !.crash = TRUE]

\* The command a handler has in hand is lost when the handler ends.
Hand(h) == IF h = "cmd" THEN "slot" ELSE "status"
DropInHand(h) == cmd' = [i \in Received |-> IF cmd[i].pc = Hand(h)
                                          THEN [cmd[i] EXCEPT !.pc = "dropped"] ELSE cmd[i]]
-----------------------------------------------------------------------------
(***************************************************************************)
(* reply(): into SendChan, or given up after 20 seconds without room.      *)
(***************************************************************************)
Reply(i) ==
  /\ sendChan' = IF sendChan < SendBuffer THEN sendChan + 1 ELSE sendChan
  /\ replied' = IF i = Pong THEN replied ELSE [replied EXCEPT ![i] = @ + 1]

(***************************************************************************)
(* Run() receives a command.  Status and most commands go to the queue of  *)
(* a handler, or are answered at once when it is full.                     *)
(***************************************************************************)
Receive(kind) ==
  /\ RunAt("select") /\ Len(cmd) < MaxCmds
  /\ LET i       == Len(cmd) + 1
         full    == IF kind = "Status" THEN Len(statusChan) = StatusQueue
                                       ELSE Len(cmdChan) = CmdQueue
         take(pc) == cmd' = Append(cmd, [kind |-> kind, pc |-> pc])
         now(pc, owes) == run' = [pc |-> pc, cmd |-> i, owes |-> owes] /\ take("run")
     IN \/ /\ kind \in {"Status", "Work", "Reconnect"} /\ ~full
           /\ take("queued") /\ UNCHANGED run
           /\ IF kind = "Status"
              THEN statusChan' = Append(statusChan, i) /\ UNCHANGED cmdChan
              ELSE cmdChan' = Append(cmdChan, i) /\ UNCHANGED statusChan
        \/ /\ kind \in {"Status", "Work", "Reconnect"} /\ full
           /\ now("reply", 1) /\ UNCHANGED queues
        \/ kind = "Abort" /\ now("ended", 0) /\ UNCHANGED queues
        \/ kind = "Stop" /\ now("stopCmd", 1) /\ UNCHANGED queues
        \* Restart: MakeStartLock fails, and Run() goes on.
        \/ kind = "Restart" /\ now("reply", 1) /\ UNCHANGED queues
        \* Restart: an error of Getwd or WriteFile is replied, and not the end.
        \/ \E errs \in 0..2 : kind = "Restart" /\ now("restart", errs + 1) /\ UNCHANGED queues
  /\ UNCHANGED <<connected, errors, tokens, handler, sync, client, out, panics>>

\* Run() replies itself: Queue full, start lock not made.
RunReply ==
  /\ RunAt("reply") /\ Reply(run.cmd) /\ RunTo("select") /\ Goto(run.cmd, "end")
  /\ UNCHANGED <<connected, errors, queues, tokens, handler, sync, client, panics>>

RestartReply ==
  /\ RunAt("restart") /\ Reply(run.cmd)
  /\ run' = [run EXCEPT !.owes = @ - 1, !.pc = IF run.owes = 1 THEN "ended" ELSE "restart"]
  /\ IF run.owes = 1 THEN Goto(run.cmd, "end") ELSE UNCHANGED cmd
  /\ UNCHANGED <<connected, errors, queues, tokens, handler, sync, client, panics>>

Keepalive ==
  /\ RunAt("select") /\ connected /\ Reply(Pong)
  /\ UNCHANGED <<main, cmd, queues, tokens, handler, sync, client, panics>>

\* ConnectChan: connected, the errors are forgiven; lost, go connect().
RunConnect ==
  /\ RunAt("select") /\ connectChan # <<>>
  /\ connected' = Head(connectChan) /\ connectChan' = Tail(connectChan)
  /\ errors' = IF Head(connectChan) THEN 0 ELSE errors
  /\ link' = IF Head(connectChan) THEN link ELSE "connecting"
  /\ UNCHANGED <<run, cmd, queues, tokens, handler, sync, fails, out, panics>>

(***************************************************************************)
(* statusHandler crashed.  Run() restarts it, unless it crashed too often. *)
(* Its case for cmdHandler is the same and cannot happen: nothing outside  *)
(* handleCmd, which recovers by itself, can panic there.                   *)
(***************************************************************************)
RunCrash ==
  /\ RunAt("select") /\ sync["status"].crash
  /\ sync' = [sync EXCEPT !["status"].crash = FALSE]
  /\ errors' = errors + 1
  /\ IF errors' < MaxErrors
     THEN handler' = [handler EXCEPT !["status"] = "select"] ELSE UNCHANGED handler
  /\ UNCHANGED <<run, connected, cmd, queues, tokens, client, out, panics>>
-----------------------------------------------------------------------------
(***************************************************************************)
(* stop(): hand the stop signal to cmdHandler, wait for it, stop the       *)
(* services, then the same for statusHandler.  A handler takes the signal  *)
(* only where it selects on StopChan; what has taken it ends gracefully,   *)
(* so that Wait() finds nothing in CrashChan.                              *)
(***************************************************************************)
Stop(h, from, to) ==
  /\ RunAt(from) /\ RunTo(to)
  /\ IF h = "cmd" THEN handler[h] \in {"select", "slot"} ELSE handler[h] = "select"
  /\ handler' = [handler EXCEPT ![h] = "done"]
  /\ sync' = [sync EXCEPT ![h].graceful = TRUE]
  /\ DropInHand(h)
  /\ UNCHANGED <<connected, errors, queues, tokens, client, out, panics>>

Wait(h, from, to) ==
  /\ RunAt(from) /\ RunTo(to)
  /\ sync[h].done /\ sync' = [sync EXCEPT ![h].done = FALSE]
  /\ UNCHANGED <<connected, errors, cmd, queues, tokens, handler, client, out, panics>>

StopServices ==
  /\ RunAt("services") /\ RunTo("stopStatus")
  /\ UNCHANGED <<connected, errors, cmd, queues, tokens, handler, sync, client, out, panics>>

StopReply ==
  /\ RunAt("stopReply") /\ RunTo("ended") /\ Reply(run.cmd) /\ Goto(run.cmd, "end")
  /\ UNCHANGED <<connected, errors, queues, tokens, handler, sync, client, panics>>

RunStop ==
  \/ Stop("cmd", "stopCmd", "waitCmd") \/ Wait("cmd", "waitCmd", "services")
  \/ StopServices
  \/ Stop("status", "stopStatus", "waitStatus") \/ Wait("status", "waitStatus", "stopReply")
  \/ StopReply
-----------------------------------------------------------------------------
(***************************************************************************)
(* cmdHandler: take a command, wait for a free slot, start handleCmd.      *)
(***************************************************************************)
CmdTake ==
  /\ handler["cmd"] = "select" /\ cmdChan # <<>>
  /\ handler' = [handler EXCEPT !["cmd"] = "slot"]
  /\ Goto(Head(cmdChan), "slot") /\ cmdChan' = Tail(cmdChan)
  /\ UNCHANGED <<main, statusChan, tokens, sync, client, out, panics>>

CmdSlot(i) ==
  /\ handler["cmd"] = "slot" /\ At(i, "slot") /\ tokens < Limit
  /\ handler' = [handler EXCEPT !["cmd"] = "select"]
  /\ tokens' = tokens + 1
  /\ Goto(i, "wait")
  /\ UNCHANGED <<main, queues, sync, client, out, panics>>

\* handleCmd until it has released its slot: what the WaitGroup counts.
InFlight == {i \in Received : cmd[i].pc \in {"wait", "reply", "release"}}

\* Mutant: without wg.Wait().
CmdDoneNoWait ==
  /\ handler["cmd"] = "done"
  /\ handler' = [handler EXCEPT !["cmd"] = "dead"]
  /\ sync' = [sync EXCEPT !["cmd"] = Done(@)]
  /\ UNCHANGED <<main, cmd, queues, tokens, client, out, panics>>

\* Mutant: without Done().
CmdDoneNoDone ==
  /\ handler["cmd"] = "done" /\ InFlight = {}
  /\ handler' = [handler EXCEPT !["cmd"] = "dead"]
  /\ UNCHANGED <<main, cmd, queues, tokens, sync, client, out, panics>>

\* The deferred function: wg.Wait(), then cmdHandlerSync.Done().
CmdDone ==
  /\ handler["cmd"] = "done" /\ InFlight = {}
  /\ handler' = [handler EXCEPT !["cmd"] = "dead"]
  /\ sync' = [sync EXCEPT !["cmd"] = Done(@)]
  /\ UNCHANGED <<main, cmd, queues, tokens, client, out, panics>>
-----------------------------------------------------------------------------
(***************************************************************************)
(* handleCmd.  The goroutine that executes the command leaves its reply in *)
(* a channel with room for it; handleCmd takes it, or gives up waiting.  A *)
(* nil reply (Reconnect) makes handleCmd panic, which is recovered, and    *)
(* nothing is replied.                                                     *)
(***************************************************************************)
HandleResult(i) ==
  /\ At(i, "wait")
  /\ Goto(i, IF cmd[i].kind = "Reconnect" THEN "release" ELSE "reply")
  /\ UNCHANGED <<main, queues, tokens, handler, sync, client, out, panics>>

HandleTimeout(i) ==
  /\ At(i, "wait") /\ Goto(i, "reply")
  /\ UNCHANGED <<main, queues, tokens, handler, sync, client, out, panics>>

\* Mutant: the reply goes to SendChan without a time limit.
HandleReplyBlocks(i) ==
  /\ At(i, "reply") /\ sendChan < SendBuffer /\ Reply(i) /\ Goto(i, "release")
  /\ UNCHANGED <<main, queues, tokens, handler, sync, client, panics>>

HandleReply(i) ==
  /\ At(i, "reply") /\ Reply(i) /\ Goto(i, "release")
  /\ UNCHANGED <<main, queues, tokens, handler, sync, client, panics>>

(***************************************************************************)
(* The deferred function of the goroutine around handleCmd: give the slot  *)
(* back, then take one out of the queue to see whether there is one, and   *)
(* put it back.                                                            *)
(***************************************************************************)
Release(i) ==
  /\ At(i, "release") /\ tokens > 0
  /\ tokens' = tokens - 1 /\ Goto(i, "peek")
  /\ UNCHANGED <<main, queues, handler, sync, client, out, panics>>

\* Mutant: what was taken out is not put back.
PeekKeeps(i) ==
  /\ At(i, "peek")
  /\ tokens' = IF tokens > 0 THEN tokens - 1 ELSE tokens
  /\ Goto(i, "end")
  /\ UNCHANGED <<main, queues, handler, sync, client, out, panics>>

Peek(i) ==
  /\ At(i, "peek")
  /\ IF tokens > 0 THEN tokens' = tokens - 1 /\ Goto(i, "hold")
                   ELSE Goto(i, "end") /\ UNCHANGED tokens
  /\ UNCHANGED <<main, queues, handler, sync, client, out, panics>>

PutBack(i) ==
  /\ At(i, "hold") /\ tokens < Limit
  /\ tokens' = tokens + 1 /\ Goto(i, "end")
  /\ UNCHANGED <<main, queues, handler, sync, client, out, panics>>
-----------------------------------------------------------------------------
(***************************************************************************)
(* statusHandler: its reply goes to SendChan without a time limit.         *)
(***************************************************************************)
StatusTake ==
  /\ handler["status"] = "select" /\ statusChan # <<>>
  /\ handler' = [handler EXCEPT !["status"] = "reply"]
  /\ Goto(Head(statusChan), "status") /\ statusChan' = Tail(statusChan)
  /\ UNCHANGED <<main, cmdChan, tokens, sync, client, out, panics>>

StatusReply(i) ==
  /\ handler["status"] = "reply" /\ At(i, "status") /\ sendChan < SendBuffer
  /\ sendChan' = sendChan + 1 /\ replied' = [replied EXCEPT ![i] = @ + 1]
  /\ handler' = [handler EXCEPT !["status"] = "select"] /\ Goto(i, "end")
  /\ UNCHANGED <<main, queues, tokens, sync, client, panics>>

\* A manager's Status() panics: recovered, then the deferred function.
StatusPanic ==
  /\ handler["status"] = "reply" /\ panics < MaxPanics
  /\ panics' = panics + 1
  /\ handler' = [handler EXCEPT !["status"] = "done"] /\ DropInHand("status")
  /\ UNCHANGED <<main, queues, tokens, sync, client, out>>

StatusDone ==
  /\ handler["status"] = "done"
  /\ handler' = [handler EXCEPT !["status"] = "dead"]
  /\ sync' = [sync EXCEPT !["status"] = Done(@)]
  /\ UNCHANGED <<main, cmd, queues, tokens, client, out, panics>>
-----------------------------------------------------------------------------
(***************************************************************************)
(* The client, seen from the agent: connect() makes a connection and says  *)
(* so, a lost one is announced, replies leave while it is up.              *)
(***************************************************************************)
ClientConnects ==
  /\ link = "connecting" /\ connectChan = <<>>
  /\ link' = "up" /\ connectChan' = <<TRUE>>
  /\ UNCHANGED <<main, cmd, queues, tokens, handler, sync, fails, out, panics>>

ClientFails ==
  /\ link = "up" /\ connectChan = <<>> /\ fails < MaxFails
  /\ link' = "down" /\ connectChan' = <<FALSE>> /\ fails' = fails + 1
  /\ UNCHANGED <<main, cmd, queues, tokens, handler, sync, out, panics>>

ClientSends ==
  /\ link = "up" /\ sendChan > 0 /\ sendChan' = sendChan - 1
  /\ UNCHANGED <<main, cmd, queues, tokens, handler, sync, client, replied, panics>>
-----------------------------------------------------------------------------
Init ==
  /\ run = [pc |-> "select", cmd |-> Pong, owes |-> 0] /\ connected = FALSE
  /\ errors = 0
  /\ cmd = <<>> /\ cmdChan = <<>> /\ statusChan = <<>> /\ tokens = 0
  /\ handler = [h \in Handlers |-> "select"]
  /\ sync = [h \in Handlers |-> [graceful |-> FALSE, crash |-> FALSE, done |-> FALSE]]
  /\ sendChan = 0 /\ link = "connecting" /\ connectChan = <<>>
  /\ replied = [i \in 1..MaxCmds |-> 0]
  /\ panics = 0 /\ fails = 0

HandleCmd(i) == HandleResult(i) \/ HandleTimeout(i) \/ HandleReply(i) \/ Release(i) \/ Peek(i) \/ PutBack(i)
CmdHandler == CmdTake \/ CmdDone \/ \E i \in Received : CmdSlot(i)
StatusHandler == StatusTake \/ StatusDone \/ \E i \in Received : StatusReply(i)
RunStep == RunReply \/ RestartReply \/ RunConnect \/ RunCrash

\* The other goroutines go on for two seconds when Run() has returned.
Next ==
  \/ \E kind \in Kinds : Receive(kind)
  \/ Keepalive \/ RunStep \/ RunStop \/ CmdHandler \/ StatusHandler
  \/ \E i \in Received : HandleCmd(i)
  \/ StatusPanic
  \/ ClientConnects \/ ClientFails \/ ClientSends

Spec == Init /\ [][Next]_vars

\* Goroutines that can run do, the client connects in the end and sends.  No
\* fairness for what the API sends and for faults.
FairSpec ==
  /\ Spec
  /\ WF_vars(RunStep) /\ WF_vars(RunStop)
  /\ WF_vars(CmdHandler) /\ WF_vars(StatusHandler)
  /\ \A i \in 1..MaxCmds : WF_vars(HandleCmd(i))
  /\ WF_vars(ClientConnects) /\ WF_vars(ClientSends)
-----------------------------------------------------------------------------
\* The type invariant.
TypeOK ==
  /\ run \in [pc : {"select", "reply", "restart", "stopCmd", "waitCmd", "services", "stopStatus",
                    "waitStatus", "stopReply", "ended"}, cmd : 0..MaxCmds, owes : 0..3]
  /\ connected \in BOOLEAN /\ errors \in 0..MaxPanics
  /\ cmd \in Seq([kind : Kinds, 
                  pc : {"run", "queued", "slot", "wait", "reply", "release", "peek", "hold",
                        "status", "dropped", "end"}])
  /\ Len(cmd) <= MaxCmds
  /\ cmdChan \in Seq(Received) /\ Len(cmdChan) <= CmdQueue
  /\ statusChan \in Seq(Received) /\ Len(statusChan) <= StatusQueue
  /\ tokens \in 0..Limit /\ sendChan \in 0..SendBuffer
  /\ handler \in [Handlers -> {"select", "slot", "reply", "done", "dead"}]
  /\ sync \in [Handlers -> [graceful : BOOLEAN, crash : BOOLEAN, done : BOOLEAN]]
  /\ link \in {"connecting", "up", "down"} /\ connectChan \in Seq(BOOLEAN) /\ Len(connectChan) <= 1
  /\ replied \in [1..MaxCmds -> 0..3]
  /\ panics \in 0..MaxPanics /\ fails \in 0..MaxFails

(***************************************************************************)
(* A command is answered once: when the agent is done with it, one reply   *)
(* went to reply() or SendChan, whatever became of the time limit, the     *)
(* queues and a crash of statusHandler; and none before.  Reconnect has no *)
(* reply unless it was late, Restart one more for each error on the way.   *)
(* And it owns one token of the queue while it is in flight, but for those *)
(* that finishing commands hold for a moment to see whether the queue is   *)
(* empty: no token is lost, and commands never stop starting.  Also, no    *)
(* queue is longer than its channel (TypeOK).                              *)
(***************************************************************************)
OneReplyOneToken ==
  /\ TypeOK
  /\ \A i \in Received : cmd[i].kind # "Restart" =>
       /\ replied[i] <= 1
       /\ cmd[i].pc \in {"release", "peek", "hold", "end"}
            => replied[i] = 1 \/ cmd[i].kind = "Reconnect"
  /\ handler["cmd"] # "dead" =>
       tokens + Cardinality({i \in Received : cmd[i].pc = "hold"}) = Cardinality(InFlight)

(***************************************************************************)
(* stop() stops the services only when no command is being handled any     *)
(* more, and none starts from then on.                                     *)
(***************************************************************************)
ServicesStopQuietly ==
  run.pc \in {"services", "stopStatus", "waitStatus", "stopReply"} => InFlight = {}

\* A command that a handler has started is over in the end: no reply, no
\* connection and no finishing command can hold it up (handleCmd, reply).
CmdsFinish ==
  \A i \in 1..MaxCmds : At(i, "wait") ~> At(i, "end")

\* A handler that is not coming back: Run() gave it up, or will not see the crash.
Gone(h) == handler[h] = "dead" /\ ~sync[h].graceful

(***************************************************************************)
(* Stop returns (stop), unless a handler it has to stop has crashed, or    *)
(* statusHandler cannot get rid of a reply because the connection is lost: *)
(* nobody connects again while Run() is in stop().                         *)
(***************************************************************************)
StopCompletes ==
  RunAt("stopCmd") ~> (RunAt("ended") \/ Gone("cmd") \/ Gone("status")
                       \/ (link # "up" /\ handler["status"] = "reply" /\ sendChan = SendBuffer))
=============================================================================
