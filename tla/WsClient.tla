------------------------------ MODULE WsClient ------------------------------
(***************************************************************************)
(* The websocket client of client/ws.go as the agent uses it: the send()   *)
(* and recv() goroutines, the callers of Disconnect, one goroutine in      *)
(* Connect per lost connection, and the agent's main loop that reads       *)
(* ConnectChan and starts them.  mux guards conn and connected; send() and *)
(* recv() use the connection without it, so each may hold one that has     *)
(* been replaced since.                                                    *)
(*                                                                         *)
(* Connections are numbered; the Connect that makes connection n is        *)
(* Connect n.  Stop has no caller in the agent and is left out, errChan    *)
(* only feeds the log.                                                     *)
(***************************************************************************)
EXTENDS Integers, Sequences, FiniteSets

CONSTANTS MaxConns,       \* bound: the last connection never fails
          SendBuffer,     \* capacity of sendChan (SEND_BUFFER_SIZE)
          RecvBuffer      \* capacity of recvChan (RECV_BUFFER_SIZE)

ASSUME WsClientAssumption ==
  /\ MaxConns \in Nat \ {0} /\ SendBuffer \in Nat \ {0} /\ RecvBuffer \in Nat \ {0}

VARIABLES
  conn, connected,    \* c.conn (0: nil), c.connected
  link,               \* for each connection: not made yet, up, broken, closed
  mux,                \* who holds c.mux
  connectChan,        \* buffered, one element
  sendChan, recvChan, \* how many replies and commands are queued
  gor,                \* send(), recv() and a caller of Disconnect: [pc, conn]
  connect,            \* for each n, where Connect n is
  agent,              \* the loop of Run(): [pc, connected], its own variable connected
  missed,             \* history: a notification has timed out
  unheard             \* history: goroutines that did not hear the last Start

vars == <<conn, connected, link, mux, connectChan, sendChan, recvChan, gor, connect, agent, missed, unheard>>
queues == <<sendChan, recvChan>>

Conns == 1..MaxConns
Gors  == {"send", "recv", "user"}
Free  == "free"

\* Where each goroutine goes on after disconnect().
Home(g) == IF g = "user" THEN "idle" ELSE "wait"

At(g, pc) == gor[g].pc = pc
Goto(g, pc) == gor' = [gor EXCEPT ![g].pc = pc]

\* notifyConnect(state): the agent, stuck in reply(), may not read for 20 s.
NotifyConnect(state) ==
  \/ connectChan = <<>> /\ connectChan' = <<state>> /\ UNCHANGED missed
  \/ connectChan # <<>> /\ agent.pc = "reply" /\ missed' = TRUE /\ UNCHANGED connectChan
-----------------------------------------------------------------------------
(***************************************************************************)
(* disconnect(conn, true).  It keeps mux while notifyConnect waits for     *)
(* room in connectChan.                                                    *)
(***************************************************************************)
\* Mutant: without the check that conn is still the current connection.
DisconnectLockAny(g) ==
  /\ At(g, "lock") /\ mux = Free
  /\ \/ connected = FALSE /\ Goto(g, Home(g)) /\ UNCHANGED <<connected, link, mux>>
     \/ /\ connected
        /\ link' = [link EXCEPT ![conn] = "closed"]
        /\ connected' = FALSE /\ mux' = g /\ Goto(g, "notify")
  /\ UNCHANGED <<conn, connectChan, queues, connect, agent, missed, unheard>>

\* Mutant: connected is left set.
DisconnectLockKeeps(g) ==
  /\ At(g, "lock") /\ mux = Free
  /\ IF connected /\ conn = gor[g].conn
     THEN /\ link' = [link EXCEPT ![conn] = "closed"]
          /\ mux' = g /\ Goto(g, "notify")
     ELSE Goto(g, Home(g)) /\ UNCHANGED <<link, mux>>
  /\ UNCHANGED <<conn, connected, connectChan, queues, connect, agent, missed, unheard>>

DisconnectLock(g) ==
  /\ At(g, "lock") /\ mux = Free
  /\ IF connected /\ conn = gor[g].conn
     THEN /\ link' = [link EXCEPT ![conn] = "closed"]
          /\ connected' = FALSE /\ mux' = g /\ Goto(g, "notify")
     ELSE Goto(g, Home(g)) /\ UNCHANGED <<connected, link, mux>>
  /\ UNCHANGED <<conn, connectChan, queues, connect, agent, missed, unheard>>

DisconnectNotify(g) ==
  /\ At(g, "notify")
  /\ NotifyConnect(FALSE)
  /\ mux' = Free /\ Goto(g, Home(g))
  /\ UNCHANGED <<conn, connected, link, queues, connect, agent, unheard>>
-----------------------------------------------------------------------------
(***************************************************************************)
(* Connect n, in a goroutine of its own: wait, dial while holding mux,     *)
(* then wake up recv() and send() with SyncChan.Start, which does nothing  *)
(* when the goroutine is not waiting for it, and notify.                   *)
(***************************************************************************)
BackoffWait(n) ==
  /\ connect[n] = "backoff" /\ mux = Free
  /\ mux' = "connect" /\ connect' = [connect EXCEPT ![n] = "dial"]
  /\ UNCHANGED <<conn, connected, link, connectChan, queues, gor, agent, missed, unheard>>

ConnectOnce(n) ==
  /\ connect[n] = "dial"
  /\ conn' = n /\ connected' = TRUE /\ link' = [link EXCEPT ![n] = "up"]
  /\ mux' = Free /\ connect' = [connect EXCEPT ![n] = "startRecv"]
  /\ UNCHANGED <<connectChan, queues, gor, agent, missed, unheard>>

\* Mutant: Connect goes on to notify before ConnectOnce has succeeded.
ConnectFailsReports(n) ==
  /\ connect[n] = "dial"
  /\ mux' = Free /\ connect' = [connect EXCEPT ![n] = "notify"]
  /\ UNCHANGED <<conn, connected, link, connectChan, queues, gor, agent, missed, unheard>>

ConnectFails(n) ==
  /\ connect[n] = "dial"
  /\ mux' = Free /\ connect' = [connect EXCEPT ![n] = "backoff"]
  /\ UNCHANGED <<conn, connected, link, connectChan, queues, gor, agent, missed, unheard>>

\* SyncChan.Start and the goroutine's answer to it.
SyncStart(g, pc) ==
  IF At(g, "wait") THEN Goto(g, pc) /\ unheard' = unheard \ {g}
                   ELSE UNCHANGED gor /\ unheard' = unheard \cup {g}

StartRecv(n) ==
  /\ connect[n] = "startRecv"
  /\ SyncStart("recv", "loop") /\ connect' = [connect EXCEPT ![n] = "startSend"]
  /\ UNCHANGED <<conn, connected, link, mux, connectChan, queues, agent, missed>>

StartSend(n) ==
  /\ connect[n] = "startSend"
  /\ SyncStart("send", "idle") /\ connect' = [connect EXCEPT ![n] = "notify"]
  /\ UNCHANGED <<conn, connected, link, mux, connectChan, queues, agent, missed>>

ConnectNotify(n) ==
  /\ connect[n] = "notify"
  /\ NotifyConnect(TRUE)
  /\ connect' = [connect EXCEPT ![n] = "done"]
  /\ UNCHANGED <<conn, connected, link, mux, queues, gor, agent, unheard>>
-----------------------------------------------------------------------------
\* send(): take a reply and the current connection, write.
SendTake ==
  /\ At("send", "idle") /\ sendChan > 0
  /\ sendChan' = sendChan - 1
  /\ gor' = [gor EXCEPT !["send"] = [pc |-> "write", conn |-> conn]]
  /\ UNCHANGED <<conn, connected, link, mux, connectChan, recvChan, connect, agent, missed, unheard>>

SendWrite ==
  /\ At("send", "write")
  /\ \/ link[gor["send"].conn] # "closed" /\ Goto("send", "idle")
     \/ link[gor["send"].conn] # "up" /\ Goto("send", "lock")
  /\ UNCHANGED <<conn, connected, link, mux, connectChan, queues, connect, agent, missed, unheard>>

\* recv(): read from the current connection, without a deadline.
RecvLoop ==
  /\ At("recv", "loop")
  /\ gor' = [gor EXCEPT !["recv"] = [pc |-> "read", conn |-> conn]]
  /\ UNCHANGED <<conn, connected, link, mux, connectChan, queues, connect, agent, missed, unheard>>

RecvCmd ==
  /\ At("recv", "read") /\ link[gor["recv"].conn] = "up"
  /\ Goto("recv", "forward")
  /\ UNCHANGED <<conn, connected, link, mux, connectChan, queues, connect, agent, missed, unheard>>

RecvForward ==
  /\ At("recv", "forward") /\ recvChan < RecvBuffer
  /\ recvChan' = recvChan + 1 /\ Goto("recv", "loop")
  /\ UNCHANGED <<conn, connected, link, mux, connectChan, sendChan, connect, agent, missed, unheard>>

RecvFails ==
  /\ At("recv", "read") /\ link[gor["recv"].conn] # "up"
  /\ Goto("recv", "lock")
  /\ UNCHANGED <<conn, connected, link, mux, connectChan, queues, connect, agent, missed, unheard>>
-----------------------------------------------------------------------------
\* The agent (agent/agent.go).  Disconnect: the command Reconnect.
Disconnect ==
  /\ At("user", "idle") /\ conn \in 1..(MaxConns - 1)
  /\ gor' = [gor EXCEPT !["user"] = [pc |-> "lock", conn |-> conn]]
  /\ UNCHANGED <<conn, connected, link, mux, connectChan, queues, connect, agent, missed, unheard>>

\* Mutant: Run() reconnects only when it knew it was connected.
AgentToldIfConnected ==
  /\ agent.pc = "select" /\ connectChan # <<>>
  /\ agent' = [agent EXCEPT !.connected = Head(connectChan)]
  /\ connectChan' = Tail(connectChan)
  /\ IF Head(connectChan) \/ ~agent.connected THEN UNCHANGED connect
     ELSE \E n \in Conns :
            /\ connect[n] = "none" /\ \A k \in Conns : k < n => connect[k] # "none"
            /\ connect' = [connect EXCEPT ![n] = "backoff"]
  /\ UNCHANGED <<conn, connected, link, mux, queues, gor, missed, unheard>>

\* Run() reads ConnectChan; false starts the next Connect.
AgentTold ==
  /\ agent.pc = "select" /\ connectChan # <<>>
  /\ agent' = [agent EXCEPT !.connected = Head(connectChan)]
  /\ connectChan' = Tail(connectChan)
  /\ IF Head(connectChan) THEN UNCHANGED connect
     ELSE \E n \in Conns :
            /\ connect[n] = "none" /\ \A k \in Conns : k < n => connect[k] # "none"
            /\ connect' = [connect EXCEPT ![n] = "backoff"]
  /\ UNCHANGED <<conn, connected, link, mux, queues, gor, missed, unheard>>

\* Run() takes a command, which a handler answers later, or Run() itself at once.
AgentTakesCmd ==
  /\ agent.pc = "select" /\ recvChan > 0
  /\ recvChan' = recvChan - 1
  /\ agent' \in {agent, [agent EXCEPT !.pc = "reply"]}
  /\ UNCHANGED <<conn, connected, link, mux, connectChan, sendChan, gor, connect, missed, unheard>>

\* The keepalive ticker: a Pong while the agent believes it is connected.
AgentPong ==
  /\ agent.pc = "select" /\ agent.connected
  /\ agent' = [agent EXCEPT !.pc = "reply"]
  /\ UNCHANGED <<conn, connected, link, mux, connectChan, queues, gor, connect, missed, unheard>>

\* reply() in Run(): queued, or dropped after 20 s.
AgentReplies ==
  /\ agent.pc = "reply"
  /\ sendChan' = IF sendChan < SendBuffer THEN sendChan + 1 ELSE sendChan
  /\ agent' = [agent EXCEPT !.pc = "select"]
  /\ UNCHANGED <<conn, connected, link, mux, connectChan, recvChan, gor, connect, missed, unheard>>

\* reply() in a command or status handler, to a command of some connection.
HandlerReplies ==
  /\ conn # 0 /\ sendChan < SendBuffer
  /\ sendChan' = sendChan + 1
  /\ UNCHANGED <<conn, connected, link, mux, connectChan, recvChan, gor, connect, agent, missed, unheard>>

\* External: the connection fails.
LinkBreaks ==
  /\ conn \in 1..(MaxConns - 1) /\ link[conn] = "up"
  /\ link' = [link EXCEPT ![conn] = "broken"]
  /\ UNCHANGED <<conn, connected, mux, connectChan, queues, gor, connect, agent, missed, unheard>>
-----------------------------------------------------------------------------
\* Start() has been called, and the first Connect is running.
Init ==
  /\ conn = 0 /\ connected = FALSE /\ link = [n \in Conns |-> "none"]
  /\ mux = Free /\ connectChan = <<>> /\ sendChan = 0 /\ recvChan = 0
  /\ gor = [g \in Gors |-> [pc |-> Home(g), conn |-> 0]]
  /\ connect = [n \in Conns |-> IF n = 1 THEN "backoff" ELSE "none"]
  /\ agent = [pc |-> "select", connected |-> FALSE] /\ missed = FALSE /\ unheard = {}

ConnectStep(n) ==
  \/ BackoffWait(n) \/ ConnectOnce(n) \/ ConnectFails(n)
  \/ StartRecv(n) \/ StartSend(n) \/ ConnectNotify(n)

GorStep(g) == DisconnectLock(g) \/ DisconnectNotify(g)

ClientStep == SendTake \/ SendWrite \/ RecvLoop \/ RecvCmd \/ RecvForward \/ RecvFails

AgentStep == Disconnect \/ AgentTold \/ AgentTakesCmd \/ AgentPong \/ AgentReplies \/ HandlerReplies

Next ==
  \/ \E n \in Conns : ConnectStep(n)
  \/ \E g \in Gors : GorStep(g)
  \/ ClientStep
  \/ AgentStep
  \/ LinkBreaks

\* Goroutines run, and wait only for mux and channels.  Dialling does not fail for
\* ever, and select in Run() picks every case that is ready now and then.
Fairness ==
  /\ \A n \in Conns :
       WF_vars(BackoffWait(n)) /\ WF_vars(StartRecv(n) \/ StartSend(n) \/ ConnectNotify(n))
  /\ SF_vars(\E n \in Conns : ConnectOnce(n))
  /\ \A g \in Gors : WF_vars(GorStep(g))
  /\ WF_vars(SendTake \/ SendWrite)
  /\ WF_vars(RecvLoop \/ RecvForward \/ RecvFails)
  /\ SF_vars(AgentTold) /\ SF_vars(AgentTakesCmd) /\ WF_vars(AgentReplies)

Spec == Init /\ [][Next]_vars /\ Fairness
-----------------------------------------------------------------------------
GorPcs == [send |-> {"wait", "idle", "write", "lock", "notify"},
           recv |-> {"wait", "loop", "read", "forward", "lock", "notify"},
           user |-> {"idle", "lock", "notify"}]
ConnectPcs == {"none", "backoff", "dial", "startRecv", "startSend", "notify", "done"}

\* The types of the fields of WebsocketClient and of the goroutines' locals.
TypeOK ==
  /\ conn \in 0..MaxConns /\ connected \in BOOLEAN
  /\ link \in [Conns -> {"none", "up", "broken", "closed"}]
  /\ mux \in Gors \cup {Free, "connect"}
  /\ connectChan \in {<<>>, <<TRUE>>, <<FALSE>>}
  /\ sendChan \in 0..SendBuffer /\ recvChan \in 0..RecvBuffer
  /\ gor \in [Gors -> [pc : UNION {GorPcs[g] : g \in Gors}, conn : 0..MaxConns]]
  /\ \A g \in Gors : gor[g].pc \in GorPcs[g]
  /\ connect \in [Conns -> ConnectPcs]
  /\ agent \in [pc : {"select", "reply"}, connected : BOOLEAN] /\ missed \in BOOLEAN
  /\ unheard \subseteq {"send", "recv"}

\* What stands for the connection: the connection itself, the false on its way
\* to Run() after it was closed, or the Connect that is to replace it.
Tokens ==
  {<<"connected", n>> : n \in IF connected THEN {conn} ELSE {}}
  \cup {<<"closing", g>> : g \in {h \in Gors : At(h, "notify")}}
  \cup {<<"told", i>> : i \in {j \in 1..Len(connectChan) : ~connectChan[j]}}
  \cup {<<"connecting", n>> : n \in {k \in Conns : connect[k] \in {"backoff", "dial"}}}

\* Of these there is never more than one: however send(), recv() and Disconnect
\* race, one loss of the connection is notified once and starts one Connect, and
\* no two Connects dial at a time; and no connection is left open behind the
\* client's back, for whatever ConnectOnce replaces has been closed.  Also, the
\* variables have their types.
OneConnection ==
  /\ TypeOK
  /\ \A t, u \in Tokens : t = u
  /\ \A n \in Conns : link[n] \in {"up", "broken"} => n = conn /\ connected

\* An error on an old connection never closes the current one: disconnect()
\* closes only the connection its caller was using.
ClosesOwnConnection ==
  [][\A n \in Conns : link[n] # "closed" /\ link'[n] = "closed"
       => \E g \in Gors : At(g, "lock") /\ gor[g].conn = n /\ At(g, "notify")']_vars

\* A lost connection is replaced, unless a notification has timed out: with an
\* unread true in connectChan and Run() stuck in reply() the false is dropped, and
\* nothing repeats it (notifyConnect).
Reconnects == ~connected ~> (connected \/ missed)

\* Once connections stop failing, the client settles: Run() knows that it is
\* connected, for the trues and falses of overlapping Connects never leave it with
\* the wrong one; and send() and recv() are at work on the connection, unless one
\* of them was not waiting yet when Connect called Start: then it waits for ever.
Settles ==
  <>[](missed \/ /\ connected /\ agent.connected
                 /\ \A g \in {"send", "recv"} : At(g, "wait") => g \in unheard)
=============================================================================
