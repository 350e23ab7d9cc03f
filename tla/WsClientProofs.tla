--------------------------- MODULE WsClientProofs ---------------------------
(***************************************************************************)
(* For every number of connections and every size of the queues: one thing *)
(* at a time stands for the connection, mux has the holder it should have, *)
(* and a connection is closed only by somebody who was using it.  Then the *)
(* log relay, which has a client of its own: for every size of its         *)
(* buffers, no entry is sent twice and none is lost without being counted. *)
(***************************************************************************)
EXTENDS WsClient, LogRelay, FiniteSetTheorems, TLAPS

USE DEF vars, queues, Gors, Conns, Free, At

\* The loss of the connection is on its way to Run().
Told == connectChan = <<FALSE>>

(***************************************************************************)
(* OneConnection, kind of token by kind of token: an open connection       *)
(* excludes that its loss is being notified, is on its way to Run(), or    *)
(* has started a Connect, and so on down the line.                         *)
(***************************************************************************)
OneToken ==
  /\ connected => /\ conn # 0 /\ ~Told
                  /\ \A g \in Gors : ~At(g, "notify")
                  /\ \A n \in Conns : connect[n] \notin {"backoff", "dial"}
  /\ \A g \in Gors : At(g, "notify") =>
       /\ ~Told
       /\ \A h \in Gors : At(h, "notify") => g = h
       /\ \A n \in Conns : connect[n] \notin {"backoff", "dial"}
  /\ Told => \A n \in Conns : connect[n] \notin {"backoff", "dial"}
  /\ \A m, n \in Conns : connect[m] \in {"backoff", "dial"} /\ connect[n] \in {"backoff", "dial"} => m = n

\* What ConnectOnce replaces has been closed.
NoneLeftOpen == \A n \in Conns : link[n] \in {"up", "broken"} => n = conn /\ connected

\* mux is held from the close of a connection until its loss is notified, and
\* while a connection is made.
MuxHolder ==
  /\ \A g \in Gors : At(g, "notify") <=> mux = g
  /\ mux = "connect" <=> \E n \in Conns : connect[n] = "dial"

Inv == TypeOK /\ OneToken /\ NoneLeftOpen /\ MuxHolder
-----------------------------------------------------------------------------
\* The places of each goroutine, written out.
LEMMA Pcs ==
  /\ GorPcs["send"] = {"wait", "idle", "write", "lock", "notify"}
  /\ GorPcs["recv"] = {"wait", "loop", "read", "forward", "lock", "notify"}
  /\ GorPcs["user"] = {"idle", "lock", "notify"}
BY DEF GorPcs

\* gor has its type: each goroutine is at one of its own places.
GorType ==
  /\ gor \in [Gors -> [pc : UNION {GorPcs[g] : g \in Gors}, conn : 0..MaxConns]]
  /\ \A g \in Gors : gor[g].pc \in GorPcs[g]

\* A goroutine that goes on, and may take hold of a connection, disturbs no other.
LEMMA GorStepType ==
  ASSUME GorType, NEW g \in Gors, NEW p \in GorPcs[g], NEW c \in 0..MaxConns,
         \/ Goto(g, p)
         \/ gor' = [gor EXCEPT ![g] = [pc |-> p, conn |-> c]]
  PROVE  GorType' /\ \A h \in Gors : gor'[h].pc = IF h = g THEN p ELSE gor[h].pc
<1> DEFINE Pc == UNION {GorPcs[h] : h \in Gors}
<1>1. p \in Pc
  OBVIOUS
<1> HIDE DEF Pc
<1>2. gor \in [Gors -> [pc : Pc, conn : 0..MaxConns]]
  BY DEF GorType, Pc
<1>3. CASE Goto(g, p)
  <2>1. gor' \in [Gors -> [pc : Pc, conn : 0..MaxConns]] /\ \A h \in Gors : gor'[h].pc = IF h = g THEN p ELSE gor[h].pc
    BY <1>1, <1>2, <1>3 DEF Goto
  <2> QED
    BY <2>1 DEF GorType, Pc
<1>4. CASE gor' = [gor EXCEPT ![g] = [pc |-> p, conn |-> c]]
  <2>1. gor' \in [Gors -> [pc : Pc, conn : 0..MaxConns]] /\ \A h \in Gors : gor'[h].pc = IF h = g THEN p ELSE gor[h].pc
    BY <1>1, <1>2, <1>4
  <2> QED
    BY <2>1 DEF GorType, Pc
<1> QED
  BY <1>3, <1>4

\* The client just after Start satisfies Inv.
LEMMA InvInit == Init => Inv
<1> SUFFICES ASSUME Init PROVE Inv
  OBVIOUS
<1>1. GorType
  <2> DEFINE Pc == UNION {GorPcs[h] : h \in Gors}
  <2>1. \A g \in Gors : Home(g) \in GorPcs[g] /\ Home(g) \in Pc
    BY Pcs DEF Home
  <2> HIDE DEF Pc
  <2>2. gor \in [Gors -> [pc : Pc, conn : 0..MaxConns]] /\ \A g \in Gors : gor[g].pc = Home(g)
    BY <2>1, WsClientAssumption DEF Init
  <2> QED
    BY <2>1, <2>2 DEF GorType, Pc
<1>2. TypeOK
  <2>1. connected \in BOOLEAN /\ missed \in BOOLEAN /\ agent \in [pc : {"select", "reply"}, connected : BOOLEAN]
    BY Zenon DEF Init
  <2> QED
    BY <1>1, <2>1, WsClientAssumption DEF Init, TypeOK, GorType, ConnectPcs
<1>3. OneToken /\ NoneLeftOpen /\ MuxHolder
  BY DEF Init, OneToken, Told, NoneLeftOpen, MuxHolder, Home
<1> QED
  BY <1>2, <1>3 DEF Inv

\* The values of connectChan are distinct.
LEMMA ChanValues ==
  /\ <<TRUE>> # <<FALSE>> /\ <<TRUE>> # <<>> /\ <<FALSE>> # <<>>
  /\ Head(<<TRUE>>) = TRUE /\ Tail(<<TRUE>>) = <<>>
  /\ Head(<<FALSE>>) = FALSE /\ Tail(<<FALSE>>) = <<>>
<1>1. <<TRUE>>[1] # <<FALSE>>[1]
  OBVIOUS
<1>2. <<TRUE>> # <<FALSE>>
  BY <1>1
<1>3. Tail(<<TRUE>>) = <<>> /\ Tail(<<FALSE>>) = <<>>
  OBVIOUS
<1>4. \A x : Head(<<x>>) = x
  OBVIOUS
<1>5. Head(<<TRUE>>) = TRUE /\ Head(<<FALSE>>) = FALSE
  BY <1>4, Zenon
<1> QED
  BY <1>2, <1>3, <1>5

\* A step that touches neither the connection nor what stands for it.
LEMMA QuietKeepsInv ==
  ASSUME Inv, TypeOK', UNCHANGED <<conn, connected, link, mux, connectChan>>,
         \A n \in Conns : (connect[n] \in {"backoff", "dial"} <=> connect'[n] \in {"backoff", "dial"})
                          /\ (connect[n] = "dial" <=> connect'[n] = "dial"),
         \A g \in Gors : At(g, "notify")' <=> At(g, "notify")
  PROVE  Inv'
<1>1. OneToken'
  BY Zenon DEF Inv, OneToken, Told
<1>2. MuxHolder'
  BY DEF Inv, MuxHolder
<1> QED
  BY <1>1, <1>2 DEF Inv, NoneLeftOpen

\* The steps of Connect, notifications aside.
LEMMA ConnectKeepsInv ==
  ASSUME Inv, NEW n \in Conns, ConnectStep(n), ~ConnectNotify(n)
  PROVE  Inv'
<1> USE WsClientAssumption DEF Inv, ConnectPcs
<1>1. CASE BackoffWait(n)
  <2>1. TypeOK'
    BY <1>1, Zenon DEF BackoffWait, TypeOK
  <2>2. OneToken' /\ NoneLeftOpen'
    BY <1>1, ZenonT(30) DEF BackoffWait, TypeOK, OneToken, Told, NoneLeftOpen
  <2>3. MuxHolder'
    BY <1>1 DEF BackoffWait, TypeOK, MuxHolder
  <2> QED
    BY <2>1, <2>2, <2>3
<1>2. CASE ConnectOnce(n)
  <2>1. /\ ~connected /\ ~Told
        /\ \A g \in Gors : ~At(g, "notify")
        /\ \A m \in Conns : m # n => connect[m] \notin {"backoff", "dial"}
    BY <1>2 DEF ConnectOnce, OneToken
  <2>2. connected' \in BOOLEAN
    BY <1>2, Zenon DEF ConnectOnce
  <2>3. conn' \in 0..MaxConns /\ conn' # 0
    BY <1>2 DEF ConnectOnce
  <2>4. connect' \in [Conns -> ConnectPcs] /\ \A m \in Conns : connect'[m] \notin {"backoff", "dial"}
    BY <1>2, <2>1 DEF ConnectOnce, TypeOK
  <2>5. link' \in [Conns -> {"none", "up", "broken", "closed"}] /\ NoneLeftOpen'
    BY <1>2, <2>1 DEF ConnectOnce, TypeOK, NoneLeftOpen
  <2>6. TypeOK'
    BY <1>2, <2>2, <2>3, <2>4, <2>5, Zenon DEF ConnectOnce, TypeOK
  <2>7. OneToken'
    BY <1>2, <2>1, <2>3, <2>4, Zenon DEF ConnectOnce, OneToken, Told
  <2>8. MuxHolder'
    BY <1>2, <2>1, <2>4 DEF ConnectOnce, MuxHolder
  <2> QED
    BY <2>5, <2>6, <2>7, <2>8
<1>3. CASE ConnectFails(n)
  <2>1. TypeOK'
    BY <1>3, Zenon DEF ConnectFails, TypeOK
  <2>2. OneToken' /\ NoneLeftOpen'
    BY <1>3, ZenonT(30) DEF ConnectFails, TypeOK, OneToken, Told, NoneLeftOpen
  <2>3. MuxHolder'
    BY <1>3 DEF ConnectFails, TypeOK, OneToken, MuxHolder
  <2> QED
    BY <2>1, <2>2, <2>3
<1>4. CASE StartRecv(n) \/ StartSend(n)
  <2>1. PICK g \in {"recv", "send"}, p \in {"loop", "idle"} :
          SyncStart(g, p) /\ p \in GorPcs[g]
    BY <1>4, Pcs DEF StartRecv, StartSend
  <2>2. GorType' /\ \A h \in Gors : At(h, "notify")' <=> At(h, "notify")
    <3>1. CASE At(g, "wait")
      BY <2>1, <3>1, GorStepType, WsClientAssumption DEF SyncStart, TypeOK, GorType
    <3>2. CASE ~At(g, "wait")
      BY <2>1, <3>2 DEF SyncStart, TypeOK, GorType
    <3> QED
      BY <3>1, <3>2
  <2>3. unheard' \subseteq {"send", "recv"}
    BY <2>1, Zenon DEF SyncStart, TypeOK
  <2>4. /\ UNCHANGED <<conn, connected, link, mux, connectChan, queues, agent, missed>>
        /\ \/ connect[n] = "startRecv" /\ connect' = [connect EXCEPT ![n] = "startSend"]
           \/ connect[n] = "startSend" /\ connect' = [connect EXCEPT ![n] = "notify"]
    BY <1>4 DEF StartRecv, StartSend
  <2>5. /\ connect' \in [Conns -> ConnectPcs]
        /\ \A m \in Conns : /\ connect[m] \in {"backoff", "dial"} <=> connect'[m] \in {"backoff", "dial"}
                            /\ connect[m] = "dial" <=> connect'[m] = "dial"
    BY <2>4, ZenonT(60) DEF TypeOK
  <2>6. TypeOK'
    BY <2>2, <2>3, <2>4, <2>5, Zenon DEF TypeOK, GorType
  <2> QED
    BY <2>2, <2>4, <2>5, <2>6, QuietKeepsInv
<1> QED
  BY <1>1, <1>2, <1>3, <1>4 DEF ConnectStep

\* notifyConnect, called by Connect, adds no token: what it tells Run() is true.
LEMMA ConnectNotifyKeepsInv ==
  ASSUME Inv, NEW n \in Conns, ConnectNotify(n)
  PROVE  Inv'
<1>1. connectChan' \in {<<>>, <<TRUE>>, <<FALSE>>} /\ (Told' => Told)
  BY ChanValues DEF Inv, TypeOK, ConnectNotify, NotifyConnect, Told
<1>2. missed' \in BOOLEAN
  BY Zenon DEF Inv, TypeOK, ConnectNotify, NotifyConnect
<1>3. connect' \in [Conns -> ConnectPcs] /\ connect[n] = "notify" /\ connect'[n] = "done"
      /\ \A m \in Conns : m # n => connect'[m] = connect[m]
  BY DEF Inv, TypeOK, ConnectNotify, ConnectPcs
<1>4. TypeOK'
  BY <1>1, <1>2, <1>3, Zenon DEF Inv, TypeOK, ConnectNotify
<1>5. OneToken'
  BY <1>1, <1>3 DEF Inv, OneToken, ConnectNotify
<1>6. NoneLeftOpen' /\ MuxHolder'
  BY <1>3 DEF Inv, NoneLeftOpen, MuxHolder, ConnectNotify
<1> QED
  BY <1>4, <1>5, <1>6 DEF Inv

\* disconnect() turns the connection into its notification, and that into the
\* false on its way to Run(), or into nothing when notifyConnect times out.
LEMMA DisconnectKeepsInv ==
  ASSUME Inv, NEW g \in Gors, GorStep(g)
  PROVE  Inv'
<1>0. Home(g) \in GorPcs[g] /\ Home(g) # "notify" /\ "notify" \in GorPcs[g] /\ GorType
  BY Pcs DEF Home, Inv, TypeOK, GorType
<1>1. CASE DisconnectLock(g)
  <2>1. CASE connected /\ conn = gor[g].conn
    <3>1. /\ conn \in Conns /\ ~Told
          /\ \A h \in Gors : ~At(h, "notify")
          /\ \A n \in Conns : connect[n] \notin {"backoff", "dial"}
      BY <2>1, WsClientAssumption DEF Inv, OneToken, TypeOK
    <3>2. GorType' /\ \A h \in Gors : At(h, "notify")' <=> h = g
      BY <1>0, <1>1, <2>1, <3>1, GorStepType, WsClientAssumption DEF DisconnectLock
    <3>3. link' \in [Conns -> {"none", "up", "broken", "closed"}] /\ NoneLeftOpen'
      BY <1>1, <2>1, <3>1, ZenonT(30) DEF DisconnectLock, Inv, TypeOK, NoneLeftOpen
    <3>4. connected' \in BOOLEAN /\ ~connected' /\ mux' = g
      BY <1>1, <2>1, Zenon DEF DisconnectLock
    <3>5. UNCHANGED <<conn, connectChan, queues, connect, agent, missed, unheard>>
      BY <1>1 DEF DisconnectLock
    <3>6. TypeOK'
      BY <3>2, <3>3, <3>4, <3>5, Zenon DEF Inv, TypeOK, GorType
    <3>7. OneToken'
      BY <3>1, <3>2, <3>4, <3>5, Zenon DEF OneToken, Told
    <3>8. MuxHolder'
      BY <3>1, <3>2, <3>4, <3>5 DEF MuxHolder
    <3> QED
      BY <3>3, <3>6, <3>7, <3>8 DEF Inv
  <2>2. CASE ~(connected /\ conn = gor[g].conn)
    <3>1. UNCHANGED <<conn, connected, link, mux, connectChan, queues, connect, agent, missed, unheard>>
          /\ Goto(g, Home(g)) /\ At(g, "lock")
      BY <1>1, <2>2 DEF DisconnectLock
    <3>2. GorType' /\ \A h \in Gors : At(h, "notify")' <=> At(h, "notify")
      BY <1>0, <3>1, GorStepType, WsClientAssumption
    <3>3. TypeOK'
      BY <3>1, <3>2, Zenon DEF Inv, TypeOK, GorType
    <3> QED
      BY <3>1, <3>2, <3>3, QuietKeepsInv
  <2> QED
    BY <2>1, <2>2
<1>2. CASE DisconnectNotify(g)
  <2>1. /\ ~connected /\ ~Told /\ mux = g
        /\ \A h \in Gors : At(h, "notify") <=> h = g
        /\ \A n \in Conns : connect[n] \notin {"backoff", "dial"}
    BY <1>2 DEF DisconnectNotify, Inv, OneToken, MuxHolder
  <2>2. GorType' /\ \A h \in Gors : ~At(h, "notify")'
    BY <1>0, <1>2, <2>1, GorStepType, WsClientAssumption DEF DisconnectNotify
  <2>3. connectChan' \in {<<>>, <<TRUE>>, <<FALSE>>}
    BY <1>2, Zenon DEF Inv, TypeOK, DisconnectNotify, NotifyConnect
  <2>4. missed' \in BOOLEAN
    BY <1>2, Zenon DEF Inv, TypeOK, DisconnectNotify, NotifyConnect
  <2>5. UNCHANGED <<conn, connected, link, queues, connect, agent, unheard>> /\ mux' = Free
    BY <1>2 DEF DisconnectNotify
  <2>6. TypeOK'
    BY <2>2, <2>3, <2>4, <2>5, Zenon DEF Inv, TypeOK, GorType
  <2>7. OneToken' /\ NoneLeftOpen'
    BY <2>1, <2>2, <2>5 DEF Inv, OneToken, NoneLeftOpen
  <2>8. MuxHolder'
    BY <2>1, <2>2, <2>5 DEF MuxHolder
  <2> QED
    BY <2>6, <2>7, <2>8 DEF Inv
<1> QED
  BY <1>1, <1>2 DEF GorStep

\* The loops of send() and recv(), which lead to disconnect() but not into it.
LEMMA ClientKeepsInv ==
  ASSUME Inv, ClientStep
  PROVE  Inv'
<1>0. GorType /\ conn \in 0..MaxConns
  BY DEF Inv, TypeOK, GorType
<1>1. /\ UNCHANGED <<conn, connected, link, mux, connectChan, connect, agent, missed, unheard>>
      /\ sendChan' \in 0..SendBuffer /\ recvChan' \in 0..RecvBuffer
  BY WsClientAssumption, SMTT(30) DEF ClientStep, SendTake, SendWrite, RecvLoop, RecvCmd, RecvForward, RecvFails, Inv, TypeOK
<1>2. \E g \in Gors : \E p \in GorPcs[g] \ {"notify"} :
        /\ ~At(g, "notify")
        /\ Goto(g, p) \/ gor' = [gor EXCEPT ![g] = [pc |-> p, conn |-> conn]]
  <2>1. CASE SendTake \/ SendWrite
    BY <2>1, Pcs DEF SendTake, SendWrite
  <2>2. CASE RecvLoop \/ RecvCmd
    BY <2>2, Pcs DEF RecvLoop, RecvCmd
  <2>3. CASE RecvForward \/ RecvFails
    BY <2>3, Pcs DEF RecvForward, RecvFails
  <2> QED
    BY <2>1, <2>2, <2>3 DEF ClientStep
<1>3. GorType' /\ \A h \in Gors : At(h, "notify")' <=> At(h, "notify")
  BY <1>0, <1>2, GorStepType
<1>4. TypeOK'
  BY <1>1, <1>3, Zenon DEF Inv, TypeOK, GorType
<1> QED
  BY <1>1, <1>3, <1>4, QuietKeepsInv

\* Run() and the handlers: only AgentTold moves a token, from ConnectChan to a Connect.
LEMMA AgentKeepsInv ==
  ASSUME Inv, AgentStep
  PROVE  Inv'
<1>0. GorType /\ conn \in 0..MaxConns /\ agent.pc \in {"select", "reply"} /\ agent.connected \in BOOLEAN
  BY DEF Inv, TypeOK, GorType
<1>1. CASE Disconnect
  <2>1. GorType' /\ \A h \in Gors : At(h, "notify")' <=> At(h, "notify")
    <3>1. gor' = [gor EXCEPT !["user"] = [pc |-> "lock", conn |-> conn]] /\ At("user", "idle") /\ "lock" \in GorPcs["user"]
      BY <1>1, Pcs DEF Disconnect
    <3>2. GorType' /\ \A h \in Gors : gor'[h].pc = IF h = "user" THEN "lock" ELSE gor[h].pc
      BY <1>0, <3>1, GorStepType, Zenon
    <3> QED
      BY <3>1, <3>2
  <2>2. TypeOK'
    BY <1>1, <2>1, Zenon DEF Disconnect, Inv, TypeOK, GorType
  <2> QED
    BY <1>1, <2>1, <2>2, QuietKeepsInv DEF Disconnect
<1>2. CASE AgentTold
  <2>1. CASE connectChan = <<TRUE>>
    <3>1. connectChan' = <<>> /\ ~Told' /\ agent' = [agent EXCEPT !.connected = TRUE] /\ UNCHANGED connect
      BY <1>2, <2>1, ChanValues DEF AgentTold, Told
    <3>2. agent' \in [pc : {"select", "reply"}, connected : BOOLEAN]
      BY <1>0, <3>1, Zenon DEF Inv, TypeOK
    <3>3. UNCHANGED <<conn, connected, link, mux, queues, gor, missed, unheard>>
      BY <1>2 DEF AgentTold
    <3>4. TypeOK'
      BY <3>1, <3>2, <3>3 DEF Inv, TypeOK
    <3>5. OneToken'
      BY <3>1, <3>3 DEF Inv, OneToken
    <3> QED
      BY <3>1, <3>3, <3>4, <3>5 DEF Inv, NoneLeftOpen, MuxHolder
  <2>2. CASE connectChan = <<FALSE>>
    <3>1. connectChan' = <<>> /\ ~Told' /\ agent' = [agent EXCEPT !.connected = FALSE]
      BY <1>2, <2>2, ChanValues DEF AgentTold, Told
    <3>2. PICK n \in Conns : connect[n] = "none" /\ connect' = [connect EXCEPT ![n] = "backoff"]
      BY <1>2, <2>2, ChanValues DEF AgentTold
    <3>3. agent' \in [pc : {"select", "reply"}, connected : BOOLEAN]
      BY <1>0, <3>1, Zenon DEF Inv, TypeOK
    <3>4. UNCHANGED <<conn, connected, link, mux, queues, gor, missed, unheard>>
      BY <1>2 DEF AgentTold
    <3>5. /\ ~connected /\ \A g \in Gors : ~At(g, "notify")
          /\ \A m \in Conns : connect[m] \notin {"backoff", "dial"}
      BY <2>2 DEF Inv, OneToken, Told
    <3>6. /\ connect' \in [Conns -> ConnectPcs]
          /\ \A m \in Conns : connect'[m] \in {"backoff", "dial"} => m = n
          /\ \A m \in Conns : connect'[m] = "dial" <=> connect[m] = "dial"
      BY <3>2, <3>5 DEF Inv, TypeOK, ConnectPcs
    <3>7. TypeOK'
      BY <3>1, <3>3, <3>4, <3>6 DEF Inv, TypeOK
    <3>8. OneToken'
      BY <3>1, <3>4, <3>5, <3>6 DEF OneToken
    <3> QED
      BY <3>4, <3>6, <3>7, <3>8 DEF Inv, NoneLeftOpen, MuxHolder
  <2> QED
    BY <1>2, <2>1, <2>2 DEF AgentTold, Inv, TypeOK
<1>3. CASE AgentTakesCmd \/ AgentPong \/ AgentReplies \/ HandlerReplies
  <2>1. UNCHANGED <<conn, connected, link, mux, connectChan, gor, connect, missed, unheard>>
    BY <1>3 DEF AgentTakesCmd, AgentPong, AgentReplies, HandlerReplies
  <2>2. sendChan' \in 0..SendBuffer /\ recvChan' \in 0..RecvBuffer
    BY <1>3, WsClientAssumption DEF AgentTakesCmd, AgentPong, AgentReplies, HandlerReplies, Inv, TypeOK
  <2>3. agent' \in [pc : {"select", "reply"}, connected : BOOLEAN]
    BY <1>0, <1>3 DEF AgentTakesCmd, AgentPong, AgentReplies, HandlerReplies, Inv, TypeOK
  <2>4. TypeOK'
    BY <2>1, <2>2, <2>3, Zenon DEF Inv, TypeOK
  <2> QED
    BY <2>1, <2>4, QuietKeepsInv
<1> QED
  BY <1>1, <1>2, <1>3 DEF AgentStep

\* A connection that fails is still the client's.
LEMMA BreakKeepsInv ==
  ASSUME Inv, LinkBreaks
  PROVE  Inv'
<1>1. link' \in [Conns -> {"none", "up", "broken", "closed"}] /\ NoneLeftOpen'
  BY DEF LinkBreaks, Inv, TypeOK, NoneLeftOpen
<1>2. TypeOK' /\ OneToken' /\ MuxHolder'
  BY <1>1, ZenonT(60) DEF LinkBreaks, Inv, TypeOK, OneToken, Told, MuxHolder
<1> QED
  BY <1>1, <1>2 DEF Inv

\* Inv holds in every state of the client.
LEMMA InvAlways == Spec => []Inv
<1>1. Inv /\ [Next]_vars => Inv'
  <2> SUFFICES ASSUME Inv, [Next]_vars PROVE Inv'
    OBVIOUS
  <2>1. CASE \E n \in Conns : ConnectStep(n)
    BY <2>1, ConnectKeepsInv, ConnectNotifyKeepsInv
  <2>2. CASE \E g \in Gors : GorStep(g)
    BY <2>2, DisconnectKeepsInv
  <2>3. CASE ClientStep
    BY <2>3, ClientKeepsInv
  <2>4. CASE AgentStep
    BY <2>4, AgentKeepsInv
  <2>5. CASE LinkBreaks
    BY <2>5, BreakKeepsInv
  <2>6. CASE UNCHANGED vars
    BY <2>6, ZenonT(60) DEF Inv, TypeOK, OneToken, Told, NoneLeftOpen, MuxHolder
  <2> QED
    BY <2>1, <2>2, <2>3, <2>4, <2>5, <2>6 DEF Next
<1> QED
  BY <1>1, InvInit, PTL DEF Spec
-----------------------------------------------------------------------------
(***************************************************************************)
(* However send(), recv() and Disconnect race, one loss of the connection  *)
(* is notified once and starts one Connect, no two Connects dial at a      *)
(* time, and ConnectOnce replaces no connection that is still open.        *)
(***************************************************************************)
THEOREM ConnectionIsOne == Spec => []OneConnection
<1>1. Inv => OneConnection
  <2> SUFFICES ASSUME Inv PROVE OneConnection
    OBVIOUS
  <2>1. ASSUME NEW t \in Tokens, NEW u \in Tokens
        PROVE  t = u
    <3>1. \A j \in 1..Len(connectChan) : j = 1 /\ (~connectChan[j] => Told)
      <4>1. 1..Len(<<>>) = {} /\ 1..Len(<<TRUE>>) = {1} /\ 1..Len(<<FALSE>>) = {1}
        OBVIOUS
      <4>2. \A x : <<x>>[1] = x
        OBVIOUS
      <4>3. <<TRUE>>[1] = TRUE
        BY <4>2, Zenon
      <4> QED
        BY <4>1, <4>3, Zenon DEF Inv, TypeOK, Told
    <3>2. \A v \in Tokens :
            \/ v = <<"connected", conn>> /\ connected
            \/ \E g \in Gors : v = <<"closing", g>> /\ At(g, "notify")
            \/ v = <<"told", 1>> /\ Told
            \/ \E n \in Conns : v = <<"connecting", n>> /\ connect[n] \in {"backoff", "dial"}
      BY <3>1 DEF Tokens
    <3>3. CASE connected
      BY <3>2, <3>3 DEF Inv, OneToken
    <3>4. CASE \E g \in Gors : At(g, "notify")
      BY <3>2, <3>4 DEF Inv, OneToken
    <3>5. CASE Told
      BY <3>2, <3>5 DEF Inv, OneToken
    <3>6. CASE \E n \in Conns : connect[n] \in {"backoff", "dial"}
      BY <3>2, <3>6 DEF Inv, OneToken
    <3> QED
      BY <3>2, <3>3, <3>4, <3>5, <3>6
  <2> QED
    BY <2>1 DEF Inv, NoneLeftOpen, OneConnection
<1> QED
  BY <1>1, InvAlways, PTL

(***************************************************************************)
(* mux is held by who it should be held by: the goroutine that has closed  *)
(* a connection until it has notified that, and the Connect that dials; so *)
(* it is never left locked.                                                *)
(***************************************************************************)
THEOREM MuxIsHeld == Spec => []MuxHolder
<1>1. Inv => MuxHolder
  BY DEF Inv
<1> QED
  BY <1>1, InvAlways, PTL

(***************************************************************************)
(* An error on an old connection never closes the current one: whoever     *)
(* closes a connection is in disconnect() with that connection in hand.    *)
(***************************************************************************)
THEOREM ClosesOnlyItsOwn == Spec => ClosesOwnConnection
<1>1. Inv /\ [Next]_vars
      => [\A n \in Conns : link[n] # "closed" /\ link'[n] = "closed"
            => \E g \in Gors : At(g, "lock") /\ gor[g].conn = n /\ At(g, "notify")']_vars
  <2> SUFFICES ASSUME Inv, Next, NEW n \in Conns, link[n] # "closed", link'[n] = "closed"
               PROVE  \E g \in Gors : At(g, "lock") /\ gor[g].conn = n /\ At(g, "notify")'
    OBVIOUS
  <2>1. ASSUME NEW m \in Conns, ConnectStep(m) PROVE FALSE
    BY <2>1, Zenon DEF ConnectStep, BackoffWait, ConnectOnce, ConnectFails, StartRecv, StartSend, ConnectNotify, Inv, TypeOK
  <2>2. ASSUME NEW g \in Gors, GorStep(g)
        PROVE  At(g, "lock") /\ gor[g].conn = n /\ At(g, "notify")'
    <3>1. DisconnectLock(g) /\ connected /\ conn = gor[g].conn
      BY <2>2, Zenon DEF GorStep, DisconnectLock, DisconnectNotify
    <3>2. link' = [link EXCEPT ![conn] = "closed"] /\ At(g, "lock") /\ Goto(g, "notify")
      BY <3>1 DEF DisconnectLock
    <3>3. n = conn
      BY <3>2 DEF Inv, TypeOK
    <3>4. At(g, "notify")'
      BY <3>2 DEF Goto, Inv, TypeOK
    <3> QED
      BY <3>1, <3>2, <3>3, <3>4
  <2>3. CASE ClientStep
    BY <2>3 DEF ClientStep, SendTake, SendWrite, RecvLoop, RecvCmd, RecvForward, RecvFails
  <2>4. CASE AgentStep
    BY <2>4 DEF AgentStep, Disconnect, AgentTold, AgentTakesCmd, AgentPong, AgentReplies, HandlerReplies
  <2>5. CASE LinkBreaks
    BY <2>5 DEF LinkBreaks, Inv, TypeOK
  <2> QED
    BY <2>1, <2>2, <2>3, <2>4, <2>5 DEF Next
<1> QED
  BY <1>1, InvAlways, PTL DEF Spec, ClosesOwnConnection
-----------------------------------------------------------------------------
HIDE DEF vars, queues, Gors, Conns, Free, At

(***************************************************************************)
(* The log relay.  That no entry is sent twice follows from the numbers of *)
(* the entries: each is in one place only.  That none is lost uncounted is *)
(* harder, for buffer() writes behind the first size slots and never looks *)
(* whether the slot is free.  While no buffer was sent in part the full    *)
(* slots are the first size ones outside resend(); in the middle of        *)
(* resend() they are some at the start, which it could not send, and those *)
(* from its position on.                                                   *)
(*                                                                         *)
(* The numbers are bounded because the client tells of each connection     *)
(* twice at most; so the invariant needs the client's state, too.          *)
(***************************************************************************)
\* Where Run() is.
RelayPlace ==
  relay \in [pc : {"select", "internal", "resend", "disc", "notify", "stopped"},
             back : {"select", "resend"}, i : 1..(2 * BufferSize + 2), connected : BOOLEAN]

\* The client and its callers.
ClientType ==
  /\ relayLink \in {"up", "broken", "down"} /\ relayChan \in {<<>>, <<TRUE>>, <<FALSE>>}
  /\ connecting \in [dial : BOOLEAN, notify : Nat, made : 0..RelayConns]
  /\ reconnect \in {"idle", "notify"} /\ relayMissed \in BOOLEAN

\* A connection, its loss on the way to Run() and the Connect that replaces it are one.
Losing == reconnect = "notify" \/ relay.pc = "notify"
LossRead == relay.pc = "internal" /\ relay.connected = FALSE
OneLink ==
  /\ connecting.dial => relayLink = "down" /\ ~Losing /\ relayChan # <<FALSE>> /\ ~LossRead
  /\ relayLink # "down" => ~Losing /\ relayChan # <<FALSE>> /\ ~LossRead
  /\ ~(reconnect = "notify" /\ relay.pc = "notify")
  /\ Losing => relayChan # <<FALSE>> /\ ~LossRead
  /\ relayChan = <<FALSE>> => ~LossRead

\* The last connection stays up.
LastIsUp == connecting.made = RelayConns => relayLink = "up" /\ relay.pc # "disc"

\* Every connection is told of twice at most, its loss only once it is lost; each
\* time internal() makes an entry.
LinkUp == IF relayLink = "down" THEN 0 ELSE 1
ReconnectTells == IF reconnect = "notify" THEN 1 ELSE 0
RelayTells == IF relay.pc \in {"notify", "internal"} THEN 1 ELSE 0
Untold == connecting.notify + Len(relayChan) + ReconnectTells + RelayTells
Tellable == 2 * connecting.made - LinkUp
Tellings ==
  /\ connecting.notify <= connecting.made
  /\ Untold <= Tellable
  /\ next + Untold <= MaxEntries + 1 + Tellable

\* Entries have different numbers, in the channel and behind it.
Queue(q, n, T) ==
  /\ q \in Seq(Nat) /\ Len(q) <= ChanSize
  /\ \A k \in 1..Len(q) : q[k] \in 1..(n - 1) /\ q[k] \notin T
  /\ \A j, k \in 1..Len(q) : q[j] = q[k] => j = k

Numbered ==
  /\ next \in Nat \ {0} /\ Queue(logChan, next, taken)
  /\ taken \subseteq 1..(next - 1) /\ sent \subseteq taken

\* What is in a buffer, and how its size counts it.
Entries(b) == {b[s] : s \in Slots} \ {Nil}
Shelf(b, size, exact) ==
  /\ b \in [Slots -> Nat] /\ size \in 0..BufferSize
  /\ \A s, t \in Slots : b[s] = b[t] /\ b[s] # Nil => s = t
  /\ Cardinality(Entries(b)) <= size
  /\ exact => Cardinality(Entries(b)) = size

\* The buffers, and what they hold: entries taken and not sent, each in one slot.
Bufs ==
  [first : [Slots -> Nat], firstSize : Nat, second : [Slots -> Nat], secondSize : Nat, lost : Nat]

Shelves ==
  /\ buf \in Bufs
  /\ Shelf(buf.first, buf.firstSize, ~torn)
  /\ Shelf(buf.second, buf.secondSize, ~torn)
  /\ Entries(buf.first) \subseteq taken \ sent
  /\ Entries(buf.second) \subseteq taken \ sent
  /\ Entries(buf.first) \cap Entries(buf.second) = {}
  /\ dropped \in Nat /\ torn \in BOOLEAN

\* Run() is in resend(), or in a Disconnect called from there.
Resending == relay.pc = "resend" \/ (relay.pc \in {"disc", "notify"} /\ relay.back = "resend")

\* The first size slots are full; halfway through, those kept before i and those
\* still to send from i on.
Settled(b, size) == \A s \in Slots : b[s] # Nil <=> s <= size
Halfway(b, size, i) ==
  \E p \in 0..(i - 1), n \in (i - 1)..BufferSize :
    /\ size = p + n - i + 1
    /\ \A s \in Slots : b[s] # Nil <=> s <= p \/ (i <= s /\ s <= n)

\* resend() is in firstBuf, or in secondBuf.
InFirst == Resending /\ relay.i < LostPos
InSecond == Resending /\ relay.i > LostPos /\ relay.i \in Positions

\* Outside the buffer that resend() is in, the entries fill a buffer from its start.
Filled ==
  /\ InFirst => Halfway(buf.first, buf.firstSize, relay.i)
  /\ ~InFirst => Settled(buf.first, buf.firstSize)
  /\ InSecond => Halfway(buf.second, buf.secondSize, relay.i - LostPos)
  /\ ~InSecond => Settled(buf.second, buf.secondSize)

\* Every entry for the API is sent, in a buffer, or lost.
Counted ==
  Cardinality(taken) = Cardinality(sent) + buf.firstSize + buf.secondSize + buf.lost + dropped

\* resend() was not cut short after it sent part of a buffer.
Whole == ~torn => Filled /\ Counted

\* The inductive invariant.
ClientInv == RelayPlace /\ ClientType /\ OneLink /\ LastIsUp /\ Tellings /\ next \in Nat
RelayInv == ClientInv /\ Numbered /\ Shelves /\ Whole
-----------------------------------------------------------------------------
\* The sizes, one by one.
LEMMA RelaySizes ==
  /\ BufferSize \in Nat /\ BufferSize >= 1 /\ ChanSize \in Nat /\ ChanSize >= 1
  /\ MaxEntries \in Nat /\ MaxEntries >= 1 /\ RelayConns \in Nat /\ RelayConns >= 1
  /\ Slots = 1..BufferSize /\ Nil = 0 /\ LostPos = BufferSize + 1
  /\ Positions = 1..(2 * BufferSize + 1)
<1>1. /\ BufferSize \in Nat \ {0} /\ ChanSize \in Nat \ {0}
      /\ MaxEntries \in Nat \ {0} /\ RelayConns \in Nat \ {0}
  BY LogRelayAssumption, Zenon
<1>2. QED BY <1>1 DEF Slots, Nil, LostPos, Positions

\* A buffer holds finitely many entries.
LEMMA EntriesFinite ==
  ASSUME NEW b \in [Slots -> Nat]
  PROVE  IsFiniteSet(Entries(b)) /\ Cardinality(Entries(b)) \in Nat
<1> DEFINE T == {b[s] : s \in Slots}
<1>1. IsFiniteSet(Slots) BY RelaySizes, FS_Interval
<1>2. b \in Surjection(Slots, T) BY Zenon DEF Surjection
<1>3. IsFiniteSet(T) BY <1>1, <1>2, FS_Surjection, Zenon
<1>4. Entries(b) \in SUBSET T BY Zenon DEF Entries
<1>5. QED BY <1>3, <1>4, FS_Subset, FS_CardinalityType, Zenon

\* The number of entries grows by one.
LEMMA OneMore ==
  ASSUME NEW S, IsFiniteSet(S), NEW x, x \notin S, NEW T, T = S \cup {x}
  PROVE  IsFiniteSet(T) /\ Cardinality(T) = Cardinality(S) + 1 /\ Cardinality(S) \in Nat
BY FS_AddElement, FS_CardinalityType

\* The same for one entry less.
LEMMA OneLess ==
  ASSUME NEW S, IsFiniteSet(S), NEW x, x \in S, NEW T, T = S \ {x}
  PROVE  IsFiniteSet(T) /\ Cardinality(T) = Cardinality(S) - 1 /\ Cardinality(S) \in Nat
BY FS_RemoveElement, FS_CardinalityType

\* What a slot that is written does to the entries of its buffer.
LEMMA EntriesPut ==
  ASSUME NEW b \in [Slots -> Nat], NEW s \in Slots, NEW e \in Nat, e # Nil,
         NEW c, c = [b EXCEPT ![s] = e]
  PROVE  /\ c \in [Slots -> Nat]
         /\ \A t \in Slots : c[t] = IF t = s THEN e ELSE b[t]
         /\ e \in Entries(c) /\ Entries(c) \subseteq Entries(b) \cup {e}
         /\ b[s] = Nil => Entries(c) = Entries(b) \cup {e}
<1>1. c \in [Slots -> Nat] BY Zenon
<1>2. \A t \in Slots : c[t] = IF t = s THEN e ELSE b[t] BY Zenon
<1>3. e \in Entries(c) BY <1>2, Zenon DEF Entries
<1>4. Entries(c) \subseteq Entries(b) \cup {e} BY <1>2, Zenon DEF Entries
<1>5. ASSUME b[s] = Nil PROVE Entries(b) \subseteq Entries(c)
  <2>1. SUFFICES ASSUME NEW x \in Entries(b) PROVE x \in Entries(c) BY Zenon
  <2>2. PICK t \in Slots : x = b[t] /\ x # Nil BY <2>1, Zenon DEF Entries
  <2>3. t # s BY <1>5, <2>2, Zenon
  <2>4. c[t] = x BY <1>2, <2>2, <2>3, Zenon
  <2>5. QED BY <2>2, <2>4, Zenon DEF Entries
<1>6. QED BY <1>1, <1>2, <1>3, <1>4, <1>5, Zenon

\* What a slot that is cleared does to them.
LEMMA EntriesClear ==
  ASSUME NEW b \in [Slots -> Nat], NEW s \in Slots,
         \A r, t \in Slots : b[r] = b[t] /\ b[r] # Nil => r = t,
         NEW c, c = [b EXCEPT ![s] = Nil]
  PROVE  /\ c \in [Slots -> Nat]
         /\ \A t \in Slots : c[t] = IF t = s THEN Nil ELSE b[t]
         /\ Entries(c) = Entries(b) \ {b[s]}
<1>1. Nil \in Nat BY DEF Nil
<1>2. c \in [Slots -> Nat] BY <1>1, Zenon
<1>3. \A t \in Slots : c[t] = IF t = s THEN Nil ELSE b[t] BY Zenon
<1>4. ASSUME NEW x \in Entries(c) PROVE x \in Entries(b) \ {b[s]}
  <2>1. PICK t \in Slots : x = c[t] /\ x # Nil BY <1>4, Zenon DEF Entries
  <2>2. t # s /\ x = b[t] BY <1>3, <2>1, Zenon
  <2>3. x # b[s] BY <2>1, <2>2, Zenon
  <2>4. QED BY <2>1, <2>2, <2>3, Zenon DEF Entries
<1>5. ASSUME NEW x \in Entries(b) \ {b[s]} PROVE x \in Entries(c)
  <2>1. PICK t \in Slots : x = b[t] /\ x # Nil BY <1>5, Zenon DEF Entries
  <2>2. t # s BY <1>5, <2>1, Zenon
  <2>3. c[t] = x BY <1>3, <2>1, <2>2, Zenon
  <2>4. QED BY <2>1, <2>3, Zenon DEF Entries
<1>6. QED BY <1>2, <1>3, <1>4, <1>5, Zenon

\* The slot it takes is the first behind those that are full.
LEMMA SettledPut ==
  ASSUME NEW b, NEW size \in 0..BufferSize, size < BufferSize, Settled(b, size)
  PROVE  /\ size + 1 \in Slots /\ b[size + 1] = Nil
         /\ \A c : (\A t \in Slots : c[t] # Nil <=> t = size + 1 \/ b[t] # Nil) => Settled(c, size + 1)
<1>1. size + 1 \in Slots /\ ~(size + 1 <= size) BY RelaySizes
<1>2. \A t \in Slots : t <= size + 1 <=> t <= size \/ t = size + 1 BY RelaySizes
<1>3. QED BY <1>1, <1>2, Zenon DEF Settled

\* buffer(e) starts a full secondBuf again.
LEMMA ShelfAgain ==
  ASSUME NEW x \in BOOLEAN, NEW e \in Nat, e # Nil,
         NEW c, c = [EmptyBuf EXCEPT ![1] = e]
  PROVE  Shelf(c, 1, x) /\ Entries(c) = {e} /\ Settled(c, 1)
<1>1. 1 \in Slots /\ 1 \in 0..BufferSize /\ Nil \in Nat BY RelaySizes
<1>2. c \in [Slots -> Nat] BY <1>1, Zenon DEF EmptyBuf
<1>3. \A t \in Slots : c[t] = IF t = 1 THEN e ELSE Nil BY <1>1, Zenon DEF EmptyBuf
<1>4. Entries(c) = {e} BY <1>1, <1>3, Zenon DEF Entries
<1>5. Cardinality(Entries(c)) = 1 BY <1>4, FS_Singleton, Zenon
<1>6. \A t \in Slots : t <= 1 <=> t = 1 BY RelaySizes
<1>7. \A s, t \in Slots : c[s] = c[t] /\ c[s] # Nil => s = t BY <1>3, Zenon
<1>8. 1 <= 1 OBVIOUS
<1>9. QED BY <1>1, <1>2, <1>3, <1>4, <1>5, <1>6, <1>7, <1>8, Zenon DEF Shelf, Settled


\* resend() begins with every entry still to send.
LEMMA HalfwayStart ==
  ASSUME NEW b, NEW size \in 0..BufferSize, Settled(b, size)
  PROVE  Halfway(b, size, 1)
<1>1. 0 \in 0..(1 - 1) /\ size \in (1 - 1)..BufferSize /\ size = 0 + size - 1 + 1 BY RelaySizes
<1>2. \A s \in Slots : s <= size <=> s <= 0 \/ (1 <= s /\ s <= size) BY RelaySizes
<1>3. \A s \in Slots : b[s] # Nil <=> s <= 0 \/ (1 <= s /\ s <= size)
  BY <1>2, Zenon DEF Settled
<1>4. QED BY <1>1, <1>3, Zenon DEF Halfway

\* An empty slot: there are none behind it.
LEMMA HalfwayEmpty ==
  ASSUME NEW b, NEW size, NEW i \in Slots, Halfway(b, size, i),
         b[i] = Nil
  PROVE  Halfway(b, size, i + 1)
<1>1. PICK p \in 0..(i - 1), n \in (i - 1)..BufferSize :
        /\ size = p + n - i + 1
        /\ \A s \in Slots : b[s] # Nil <=> s <= p \/ (i <= s /\ s <= n)
  BY Zenon DEF Halfway
<1>2. ~(i <= p \/ (i <= i /\ i <= n)) BY <1>1, Zenon
<1>3. i \in Nat /\ n \in Int /\ p \in Int BY <1>1, RelaySizes
<1>4. n = i - 1 BY <1>2, <1>3, <1>1
<1>5. p \in 0..((i + 1) - 1) /\ i \in ((i + 1) - 1)..BufferSize /\ size = p + i - (i + 1) + 1
  BY <1>1, <1>3, <1>4, RelaySizes
<1>6. \A s \in Slots : (s <= p \/ (i <= s /\ s <= n)) <=> (s <= p \/ (i + 1 <= s /\ s <= i))
  BY <1>3, <1>4, RelaySizes
<1>7. \A s \in Slots : b[s] # Nil <=> s <= p \/ (i + 1 <= s /\ s <= i) BY <1>1, <1>6, Zenon
<1>8. QED BY <1>5, <1>7, Zenon DEF Halfway

\* A send that fails with no hole before it: nothing was sent yet.
LEMMA HalfwayKept ==
  ASSUME NEW b, NEW size, NEW i \in Slots, Halfway(b, size, i),
         b[i] # Nil, \A j \in 1..(i - 1) : b[j] # Nil
  PROVE  Halfway(b, size, i + 1)
<1>1. PICK p \in 0..(i - 1), n \in (i - 1)..BufferSize :
        /\ size = p + n - i + 1
        /\ \A s \in Slots : b[s] # Nil <=> s <= p \/ (i <= s /\ s <= n)
  BY Zenon DEF Halfway
<1>2. i \in Nat /\ i >= 1 /\ i <= BufferSize /\ n \in Int /\ p \in Int /\ p <= i - 1
  BY <1>1, RelaySizes
<1>3. i <= p \/ (i <= i /\ i <= n) BY <1>1, Zenon
<1>4. i <= n BY <1>2, <1>3
<1>5. p = i - 1
  <2>1. SUFFICES ASSUME p < i - 1 PROVE FALSE BY <1>2
  <2>2. p + 1 \in 1..(i - 1) /\ p + 1 \in Slots /\ ~(p + 1 <= p) /\ ~(i <= p + 1)
    BY <1>1, <1>2, <2>1, RelaySizes
  <2>3. QED BY <1>1, <2>2, Zenon
<1>6. i \in 0..((i + 1) - 1) /\ n \in ((i + 1) - 1)..BufferSize /\ size = i + n - (i + 1) + 1
  BY <1>1, <1>2, <1>4, <1>5, RelaySizes
<1>7. \A s \in Slots : (s <= p \/ (i <= s /\ s <= n)) <=> (s <= i \/ (i + 1 <= s /\ s <= n))
  BY <1>2, <1>4, <1>5, RelaySizes
<1>8. \A s \in Slots : b[s] # Nil <=> s <= i \/ (i + 1 <= s /\ s <= n) BY <1>1, <1>7, Zenon
<1>9. QED BY <1>6, <1>8, Zenon DEF Halfway

\* An entry that is sent.
LEMMA HalfwaySent ==
  ASSUME NEW b, NEW size, NEW i \in Slots, Halfway(b, size, i),
         b[i] # Nil,
         NEW c, \A s \in Slots : c[s] = IF s = i THEN Nil ELSE b[s]
  PROVE  Halfway(c, size - 1, i + 1)
<1>1. PICK p \in 0..(i - 1), n \in (i - 1)..BufferSize :
        /\ size = p + n - i + 1
        /\ \A s \in Slots : b[s] # Nil <=> s <= p \/ (i <= s /\ s <= n)
  BY Zenon DEF Halfway
<1>2. i \in Nat /\ i >= 1 /\ i <= BufferSize /\ n \in Int /\ p \in Int /\ p <= i - 1
  BY <1>1, RelaySizes
<1>3. i <= p \/ (i <= i /\ i <= n) BY <1>1, Zenon
<1>4. i <= n BY <1>2, <1>3
<1>5. p \in 0..((i + 1) - 1) /\ n \in ((i + 1) - 1)..BufferSize /\ size - 1 = p + n - (i + 1) + 1
  BY <1>1, <1>2, <1>4, RelaySizes
<1>6. \A s \in Slots : /\ s # i => ((s <= p \/ (i <= s /\ s <= n)) <=> (s <= p \/ (i + 1 <= s /\ s <= n)))
                       /\ s = i => ~(s <= p \/ (i + 1 <= s /\ s <= n))
  BY <1>2, RelaySizes
<1>7. \A s \in Slots : c[s] # Nil <=> s <= p \/ (i + 1 <= s /\ s <= n) BY <1>1, <1>6, Zenon
<1>8. QED BY <1>5, <1>7, Zenon DEF Halfway

\* After the last slot, what is kept fills the buffer from its start.
LEMMA HalfwayEnd ==
  ASSUME NEW b, NEW size, Halfway(b, size, BufferSize + 1)
  PROVE  Settled(b, size)
<1> DEFINE i == BufferSize + 1
<1>1. PICK p \in 0..(i - 1), n \in (i - 1)..BufferSize :
        /\ size = p + n - i + 1
        /\ \A s \in Slots : b[s] # Nil <=> s <= p \/ (i <= s /\ s <= n)
  BY Zenon DEF Halfway
<1>2. p \in Int /\ n = BufferSize /\ size = p BY <1>1, RelaySizes
<1>3. \A s \in Slots : (s <= p \/ (i <= s /\ s <= n)) <=> s <= size BY <1>2, RelaySizes
<1>4. QED BY <1>1, <1>3, Zenon DEF Settled
-----------------------------------------------------------------------------
\* A step in which the relay neither hears from the client nor changes it.
Quiet ==
  /\ UNCHANGED <<relayLink, relayChan, connecting, reconnect, relayMissed>>
  /\ RelayPlace' /\ relay'.connected = relay.connected
  /\ relay'.pc = relay.pc \/ {relay.pc, relay'.pc} \cap {"internal", "notify"} = {}
  /\ relay'.pc = "disc" => relay.pc = "disc" \/ relayLink # "up"
  /\ next' = next \/ (next <= MaxEntries /\ next' = next + 1)

\* Run() goes on in resend(), after a position in it.
LEMMA AfterPlace ==
  ASSUME RelayPlace, NEW i \in Positions, NEW f \in BOOLEAN, relay' = After(i, f)
  PROVE  /\ RelayPlace' /\ relay'.connected = relay.connected /\ relay'.i = i + 1
         /\ relay'.back = "resend" /\ relay'.pc = IF f THEN "disc" ELSE "resend"
<1>1. i + 1 \in 1..(2 * BufferSize + 2) BY RelaySizes
<1>2. QED BY <1>1, Zenon DEF After, RelayPlace

\* The relay's own steps that the client does not notice.
LEMMA QuietSteps ==
  ASSUME ClientInv,
         \/ Log \/ SkipEntry \/ TakeEntry \/ ResendEntry \/ ResendLost \/ ResendDone \/ Stop
         \/ (RelayDisconnect /\ relayLink = "down") \/ UNCHANGED relayVars
  PROVE  Quiet
<1>1. RelayPlace /\ next \in Nat /\ relayLink \in {"up", "broken", "down"}
  BY Zenon DEF ClientInv, ClientType
<1>2. ASSUME UNCHANGED <<client, relayMissed, relay>>, next' = next \/ (next <= MaxEntries /\ next' = next + 1)
      PROVE  Quiet
  BY <1>1, <1>2, Zenon DEF Quiet, client, RelayPlace
<1>3. CASE Log BY <1>2, <1>3, Zenon DEF Log
<1>4. CASE SkipEntry BY <1>2, <1>4, Zenon DEF SkipEntry
<1>5. CASE UNCHANGED relayVars BY <1>2, <1>5, Zenon DEF relayVars, client
<1>6. ASSUME UNCHANGED <<client, relayMissed, next>>, RelayPlace', relay'.connected = relay.connected,
             relay.pc \notin {"internal", "notify"}, relay'.pc \notin {"internal", "notify"},
             relay'.pc = "disc" => relayLink # "up"
      PROVE  Quiet
  BY <1>1, <1>6, Zenon DEF Quiet, client
<1>7. CASE TakeEntry
  <2>1. CASE relay' = relay BY <1>2, <1>7, <2>1, Zenon DEF TakeEntry
  <2>2. CASE relayLink # "up" /\ relay' = [relay EXCEPT !.pc = "disc", !.back = "select"]
    <3>1. /\ RelayPlace' /\ relay'.connected = relay.connected /\ relay'.pc = "disc"
          /\ relay.pc = "select"
      BY <1>1, <1>7, <2>2, Zenon DEF RelayPlace, TakeEntry
    <3>2. QED BY <1>6, <1>7, <2>2, <3>1, Zenon DEF TakeEntry
  <2>3. QED BY <1>7, <2>1, <2>2, Zenon DEF TakeEntry
<1>8. CASE ResendEntry
  <2>1. relay.i \in Positions /\ relay.pc = "resend" BY <1>8, Zenon DEF ResendEntry
  <2>2. \E f \in BOOLEAN : relay' = After(relay.i, f) /\ (f => relayLink # "up")
    BY <1>8, Zenon DEF ResendEntry
  <2>3. PICK f \in BOOLEAN : relay' = After(relay.i, f) /\ (f => relayLink # "up") BY <2>2, Zenon
  <2>4. RelayPlace' /\ relay'.connected = relay.connected /\ relay'.pc = IF f THEN "disc" ELSE "resend"
    BY <1>1, <2>1, <2>3, AfterPlace, Zenon
  <2>5. QED BY <1>6, <1>8, <2>1, <2>3, <2>4, Zenon DEF ResendEntry
<1>9. CASE ResendLost
  <2>1. LostPos \in Positions BY RelaySizes
  <2>2. relay' = After(LostPos, buf.lost > 0 /\ relayLink # "up") /\ relay.pc = "resend"
    BY <1>9, Zenon DEF ResendLost
  <2>3. (buf.lost > 0 /\ relayLink # "up") \in BOOLEAN OBVIOUS
  <2>4. /\ RelayPlace' /\ relay'.connected = relay.connected
        /\ relay'.pc = IF buf.lost > 0 /\ relayLink # "up" THEN "disc" ELSE "resend"
    BY <1>1, <2>1, <2>2, <2>3, AfterPlace, Zenon
  <2>5. QED BY <1>6, <1>9, <2>2, <2>4, Zenon DEF ResendLost
<1>10. CASE ResendDone
  <2>1. RelayPlace' /\ relay'.connected = relay.connected /\ relay'.pc = "select" /\ relay.pc = "resend"
    BY <1>1, <1>10, Zenon DEF ResendDone, RelayPlace
  <2>2. QED BY <1>6, <1>10, <2>1, Zenon DEF ResendDone
<1>11. CASE Stop
  <2>1. RelayPlace' /\ relay'.connected = relay.connected /\ relay'.pc = "stopped" /\ relay.pc = "select"
    BY <1>1, <1>11, Zenon DEF Stop, RelayPlace
  <2>2. QED BY <1>6, <1>11, <2>1, Zenon DEF Stop
<1>12. CASE RelayDisconnect /\ relayLink = "down"
  <2>1. /\ RelayPlace' /\ relay'.connected = relay.connected /\ relay'.pc \in {"select", "resend"}
        /\ relay.pc = "disc"
    BY <1>1, <1>12, Zenon DEF RelayDisconnect, RelayPlace
  <2>2. UNCHANGED <<client, relayMissed, next>> BY <1>12, Zenon DEF RelayDisconnect, client, history
  <2>3. QED BY <1>6, <1>12, <2>1, <2>2, Zenon DEF RelayDisconnect
<1>13. QED BY <1>3, <1>4, <1>5, <1>7, <1>8, <1>9, <1>10, <1>11, <1>12, Zenon

\* ConnectChan is empty, or holds one word.
LEMMA OneWord ==
  ASSUME NEW x
  PROVE  Len(<<>>) = 0 /\ Len(<<x>>) = 1 /\ Head(<<x>>) = x /\ Tail(<<x>>) = <<>>
OBVIOUS

\* ConnectChan holds one word at most.
LEMMA ChanLength == ClientType => Len(relayChan) \in 0..1
<1>1. ClientType => relayChan = <<>> \/ relayChan = <<TRUE>> \/ relayChan = <<FALSE>>
  BY Zenon DEF ClientType
<1>2. Len(<<>>) = 0 /\ Len(<<TRUE>>) = 1 /\ Len(<<FALSE>>) = 1 BY OneWord, Zenon
<1>3. 0 \in 0..1 /\ 1 \in 0..1 OBVIOUS
<1>4. QED BY <1>1, <1>2, <1>3, Zenon

\* How many words of the client are out is a number.
WordsType ==
  /\ connecting.notify \in Nat /\ connecting.made \in Nat /\ Len(relayChan) \in 0..1
  /\ LinkUp \in 0..1 /\ ReconnectTells \in 0..1 /\ RelayTells \in 0..1

\* What Untold adds up are numbers.
LEMMA UntoldType == ClientType => WordsType
<1> SUFFICES ASSUME ClientType PROVE WordsType
  OBVIOUS
<1>1. Len(relayChan) \in 0..1 BY ChanLength, Zenon
<1>2. connecting.notify \in Nat /\ connecting.made \in 0..RelayConns BY Zenon DEF ClientType
<1>3. connecting.made \in Nat BY <1>2, RelaySizes
<1>4. LinkUp \in 0..1 /\ ReconnectTells \in 0..1 /\ RelayTells \in 0..1
  BY DEF LinkUp, ReconnectTells, RelayTells
<1>5. QED BY <1>1, <1>2, <1>3, <1>4, Zenon DEF WordsType

\* The words that come and go in one step, and what they leave of Tellings.
LEMMA TellingsStep ==
  ASSUME ClientType, ClientType', Tellings, next \in Nat, next' \in Nat,
         \/ /\ next' = next /\ connecting'.notify <= connecting.notify
            /\ connecting'.made = connecting.made
            /\ connecting'.notify + Len(relayChan') + ReconnectTells' + RelayTells' + LinkUp'
                 <= connecting.notify + Len(relayChan) + ReconnectTells + RelayTells + LinkUp
         \/ /\ next' = next + 1 /\ UNCHANGED <<relayChan, ReconnectTells, LinkUp>>
            /\ connecting'.notify = connecting.notify /\ connecting'.made = connecting.made
            /\ \/ next <= MaxEntries /\ UNCHANGED RelayTells
               \/ RelayTells = 1 /\ RelayTells' = 0
         \/ /\ next' = next /\ UNCHANGED <<relayChan, ReconnectTells, RelayTells>>
            /\ connecting'.notify = connecting.notify + 1 /\ connecting'.made = connecting.made + 1
            /\ LinkUp = 0 /\ LinkUp' = 1
  PROVE  Tellings'
<1> DEFINE n == next
           c == connecting.notify
           l == Len(relayChan)
           r == ReconnectTells
           y == RelayTells
           m == connecting.made
           k == LinkUp
           o == next'
           d == connecting'.notify
           j == Len(relayChan')
           s == ReconnectTells'
           z == RelayTells'
           p == connecting'.made
           q == LinkUp'
<1>1. /\ c \in Nat /\ l \in 0..1 /\ r \in 0..1 /\ y \in 0..1 /\ m \in Nat /\ k \in 0..1
      /\ n \in Nat /\ o \in Nat
  BY UntoldType, Zenon DEF WordsType
<1>2. d \in Nat /\ j \in 0..1 /\ s \in 0..1 /\ z \in 0..1 /\ p \in Nat /\ q \in 0..1
  <2>1. WordsType' BY UntoldType, PTL
  <2>2. QED BY <2>1, Zenon DEF WordsType
<1>3. c <= m /\ c + l + r + y <= 2 * m - k /\ n + (c + l + r + y) <= MaxEntries + 1 + (2 * m - k)
  BY Zenon DEF Tellings, Untold, Tellable
<1>4. \/ /\ o = n /\ d <= c /\ p = m
         /\ d + j + s + z + q <= c + l + r + y + k
      \/ /\ o = n + 1 /\ n <= MaxEntries /\ d = c /\ j = l /\ s = r /\ z = y /\ p = m /\ q = k
      \/ /\ o = n + 1 /\ d = c /\ j = l /\ s = r /\ y = 1 /\ z = 0 /\ p = m /\ q = k
      \/ /\ o = n /\ d = c + 1 /\ j = l /\ s = r /\ z = y /\ p = m + 1 /\ k = 0 /\ q = 1
  BY Zenon
<1>5. SUFFICES /\ d <= p /\ d + j + s + z <= 2 * p - q
               /\ o + (d + j + s + z) <= MaxEntries + 1 + (2 * p - q)
  BY Zenon DEF Tellings, Untold, Tellable
<1> HIDE DEF n, c, l, r, y, m, k, o, d, j, s, z, p, q
<1>6. MaxEntries \in Nat BY RelaySizes, Zenon
<1>7. /\ c + l + r + y \in Nat /\ d + j + s + z \in Nat /\ 2 * m - k \in Int /\ 2 * p - q \in Int
      /\ l \in Int /\ r \in Int /\ y \in Int /\ k \in Int /\ j \in Int /\ s \in Int /\ z \in Int
      /\ q \in Int
  BY <1>1, <1>2
<1>8. CASE o = n /\ d <= c /\ p = m /\ d + j + s + z + q <= c + l + r + y + k
  BY <1>1, <1>2, <1>3, <1>6, <1>7, <1>8, SMTT(30)
<1>9. CASE o = n + 1 /\ n <= MaxEntries /\ d = c /\ j = l /\ s = r /\ z = y /\ p = m /\ q = k
  BY <1>1, <1>2, <1>3, <1>6, <1>7, <1>9, SMTT(30)
<1>10. CASE o = n + 1 /\ d = c /\ j = l /\ s = r /\ y = 1 /\ z = 0 /\ p = m /\ q = k
  BY <1>1, <1>2, <1>3, <1>6, <1>7, <1>10
<1>11. CASE o = n /\ d = c + 1 /\ j = l /\ s = r /\ z = y /\ p = m + 1 /\ k = 0 /\ q = 1
  BY <1>1, <1>2, <1>3, <1>6, <1>7, <1>11
<1>12. QED BY <1>4, <1>8, <1>9, <1>10, <1>11, Zenon

\* Such a step keeps the client's part.
LEMMA QuietClient ==
  ASSUME ClientInv, Quiet
  PROVE  ClientInv'
<1>1. RelayPlace' /\ ClientType' BY Zenon DEF Quiet, ClientInv, ClientType
<1>2. OneLink'
  <2>1. /\ relay'.pc = "notify" <=> relay.pc = "notify"
        /\ relay'.pc = "internal" <=> relay.pc = "internal"
    BY Zenon DEF Quiet
  <2>2. QED BY <2>1, Zenon DEF Quiet, ClientInv, OneLink, Losing, LossRead
<1>3. LastIsUp' BY Zenon DEF Quiet, ClientInv, LastIsUp
<1>4. Tellings' /\ next' \in Nat
  <2>1. /\ relay'.pc = "notify" <=> relay.pc = "notify"
        /\ relay'.pc = "internal" <=> relay.pc = "internal"
    BY Zenon DEF Quiet
  <2>2. UNCHANGED <<ReconnectTells, RelayTells, LinkUp, connecting, relayChan>>
    BY <2>1, Zenon DEF Quiet, LinkUp, ReconnectTells, RelayTells
  <2>3. ClientType /\ ClientType' /\ Tellings /\ next \in Nat BY <1>1, Zenon DEF ClientInv
  <2>4. next' = next \/ (next <= MaxEntries /\ next' = next + 1) BY Zenon DEF Quiet
  <2>5. next' \in Nat BY <2>3, <2>4
  <2>6. CASE next' = next BY <2>2, <2>3, <2>6, Zenon DEF Tellings, Untold, Tellable
  <2>7. CASE next <= MaxEntries /\ next' = next + 1 BY <2>2, <2>3, <2>5, <2>7, TellingsStep, Zenon
  <2>8. QED BY <2>4, <2>5, <2>6, <2>7, Zenon
<1>5. QED BY <1>1, <1>2, <1>3, <1>4, Zenon DEF ClientInv

\* Run() hears from the client.
LEMMA ReadConnectClient ==
  ASSUME ClientInv, ReadConnect
  PROVE  ClientInv'
<1>1. /\ RelayPlace /\ ClientType /\ OneLink /\ LastIsUp /\ Tellings /\ next \in Nat
      /\ relay.pc = "select" /\ relayChan \in {<<TRUE>>, <<FALSE>>}
      /\ UNCHANGED <<next, relayLink, connecting, reconnect, relayMissed>>
  BY Zenon DEF ClientInv, ReadConnect, ClientType
<1>2. /\ relayChan' = <<>> /\ Len(relayChan) = 1 /\ Len(relayChan') = 0
      /\ Head(relayChan) \in BOOLEAN /\ (Head(relayChan) = FALSE => relayChan = <<FALSE>>)
  <2>1. relayChan' = Tail(relayChan) BY Zenon DEF ReadConnect
  <2>2. TRUE # FALSE OBVIOUS
  <2>3. QED BY <1>1, <2>1, <2>2, OneWord, Zenon
<1>3. RelayPlace' /\ relay'.pc = "internal" /\ relay'.connected = Head(relayChan)
  BY <1>1, <1>2, Zenon DEF ReadConnect, RelayPlace
<1>4. ClientType' BY <1>1, <1>2, Zenon DEF ClientType
<1>5. OneLink' BY <1>1, <1>2, <1>3, Zenon DEF OneLink, Losing, LossRead
<1>6. LastIsUp' BY <1>1, <1>3, Zenon DEF LastIsUp
<1>7. Tellings'
  <2>1. LinkUp' = LinkUp /\ ReconnectTells' = ReconnectTells /\ RelayTells = 0 /\ RelayTells' = 1
    BY <1>1, <1>3, Zenon DEF LinkUp, ReconnectTells, RelayTells
  <2>2. /\ ClientType /\ ClientType' /\ Tellings /\ next \in Nat /\ next' = next
        /\ connecting' = connecting /\ Len(relayChan) = 1 /\ Len(relayChan') = 0 /\ WordsType
    BY <1>1, <1>2, <1>4, UntoldType, Zenon
  <2>3. /\ connecting'.notify <= connecting.notify
        /\ connecting'.notify + Len(relayChan') + ReconnectTells' + RelayTells' + LinkUp'
             <= connecting.notify + Len(relayChan) + ReconnectTells + RelayTells + LinkUp
    BY <2>1, <2>2 DEF WordsType
  <2>4. QED BY <2>2, <2>3, TellingsStep, Zenon
<1>8. QED BY <1>1, <1>3, <1>4, <1>5, <1>6, <1>7, Zenon DEF ClientInv

\* internal() makes an entry, and starts a Connect when the connection is lost.
LEMMA InternalClient ==
  ASSUME ClientInv, Internal
  PROVE  ClientInv'
<1>1. /\ RelayPlace /\ ClientType /\ OneLink /\ LastIsUp /\ Tellings /\ next \in Nat
      /\ relay.pc = "internal" /\ next' = next + 1
      /\ UNCHANGED <<relayLink, relayChan, reconnect, relayMissed>>
  BY Zenon DEF ClientInv, Internal
<1>2. 1 \in 1..(2 * BufferSize + 2) BY RelaySizes
<1>3. RelayPlace' /\ relay'.pc \in {"resend", "select"}
  BY <1>1, <1>2, Zenon DEF Internal, RelayPlace
<1>4. /\ relay.connected => connecting' = connecting
      /\ ~relay.connected => connecting'.dial = TRUE
      /\ connecting' \in [dial : BOOLEAN, notify : Nat, made : 0..RelayConns]
      /\ connecting'.notify = connecting.notify /\ connecting'.made = connecting.made
  BY <1>1, Zenon DEF Internal, ClientType
<1>5. ClientType' BY <1>1, <1>4, Zenon DEF ClientType
<1>6. relay.connected \in BOOLEAN BY <1>1, Zenon DEF RelayPlace
<1>7. OneLink' BY <1>1, <1>3, <1>4, <1>6, Zenon DEF OneLink, Losing, LossRead
<1>8. LastIsUp' BY <1>1, <1>3, <1>4, Zenon DEF LastIsUp
<1>9. Tellings'
  <2>1. LinkUp' = LinkUp /\ ReconnectTells' = ReconnectTells /\ RelayTells = 1 /\ RelayTells' = 0
    BY <1>1, <1>3, Zenon DEF LinkUp, ReconnectTells, RelayTells
  <2>2. /\ ClientType /\ ClientType' /\ Tellings /\ next \in Nat /\ next' = next + 1
        /\ connecting'.notify = connecting.notify /\ connecting'.made = connecting.made
        /\ relayChan' = relayChan
    BY <1>1, <1>4, <1>5, Zenon
  <2>3. next' \in Nat BY <2>2
  <2>4. QED BY <2>1, <2>2, <2>3, TellingsStep, Zenon
<1>10. QED BY <1>1, <1>3, <1>5, <1>7, <1>8, <1>9 DEF ClientInv

\* A failed send: the relay gives up the connection, and will tell itself.
LEMMA DisconnectClient ==
  ASSUME ClientInv, RelayDisconnect, relayLink # "down"
  PROVE  ClientInv'
<1>1. /\ RelayPlace /\ ClientType /\ OneLink /\ LastIsUp /\ Tellings /\ next \in Nat
      /\ relay.pc = "disc" /\ relayLink' = "down" /\ reconnect = "idle"
      /\ UNCHANGED <<next, relayChan, connecting, reconnect, relayMissed>>
  BY Zenon DEF ClientInv, RelayDisconnect
<1>2. RelayPlace' /\ relay'.pc = "notify" BY <1>1, Zenon DEF RelayDisconnect, RelayPlace
<1>3. ClientType' BY <1>1, Zenon DEF ClientType
<1>4. OneLink' BY <1>1, <1>2, Zenon DEF OneLink, Losing, LossRead, ClientType
<1>5. LastIsUp' BY <1>1, <1>2, Zenon DEF LastIsUp
<1>6. Tellings'
  <2>1. /\ LinkUp = 1 /\ LinkUp' = 0 /\ ReconnectTells' = ReconnectTells
        /\ RelayTells = 0 /\ RelayTells' = 1
    BY <1>1, <1>2, Zenon DEF LinkUp, ReconnectTells, RelayTells
  <2>2. /\ ClientType /\ ClientType' /\ Tellings /\ next \in Nat /\ next' = next
        /\ connecting' = connecting /\ relayChan' = relayChan /\ WordsType
    BY <1>1, <1>3, UntoldType, Zenon
  <2>3. /\ connecting'.notify <= connecting.notify
        /\ connecting'.notify + Len(relayChan') + ReconnectTells' + RelayTells' + LinkUp'
             <= connecting.notify + Len(relayChan) + ReconnectTells + RelayTells + LinkUp
    BY <2>1, <2>2 DEF WordsType
  <2>4. QED BY <2>2, <2>3, TellingsStep, Zenon
<1>7. QED BY <1>1, <1>2, <1>3, <1>4, <1>5, <1>6, Zenon DEF ClientInv

\* A word that fits is one more.
LEMMA OneWordMore ==
  ASSUME ClientType, NEW b, relayChan' = relayChan \/ (relayChan = <<>> /\ relayChan' = <<b>>)
  PROVE  Len(relayChan') \in 0..1 /\ Len(relayChan') <= Len(relayChan) + 1
<1>1. Len(relayChan) \in 0..1 BY ChanLength, Zenon
<1>2. CASE relayChan' = relayChan BY <1>1, <1>2
<1>3. CASE relayChan = <<>> /\ relayChan' = <<b>>
  <2>1. Len(relayChan) = 0 /\ Len(relayChan') = 1 BY <1>3, OneWord, Zenon
  <2>2. QED BY <2>1
<1>4. QED BY <1>2, <1>3, Zenon

\* Another goroutine's notifyConnect puts one word into ConnectChan at most.
LEMMA NotifyChan ==
  ASSUME ClientType, NEW b \in BOOLEAN, Notify(b)
  PROVE  /\ relayChan' = relayChan \/ relayChan' = <<b>>
         /\ Len(relayChan') \in 0..1 /\ Len(relayChan') <= Len(relayChan) + 1
         /\ relayMissed' \in BOOLEAN
<1>1. relayChan' = relayChan \/ (relayChan = <<>> /\ relayChan' = <<b>>) BY Zenon DEF Notify
<1>2. relayMissed' \in BOOLEAN BY Zenon DEF Notify, ClientType
<1>3. QED BY <1>1, <1>2, OneWordMore, Zenon

\* The relay tells itself, or gives up.
LEMMA DisconnectNotifyClient ==
  ASSUME ClientInv, RelayDisconnectNotify
  PROVE  ClientInv'
<1>1. /\ RelayPlace /\ ClientType /\ OneLink /\ LastIsUp /\ Tellings /\ next \in Nat
      /\ relay.pc = "notify" /\ UNCHANGED <<next, relayLink, connecting, reconnect>>
  BY Zenon DEF ClientInv, RelayDisconnectNotify
<1>2. RelayPlace' /\ relay'.pc \in {"select", "resend"} /\ relay'.connected = relay.connected
  BY <1>1, Zenon DEF RelayDisconnectNotify, RelayPlace
<1>3. relayMissed' \in BOOLEAN BY <1>1, Zenon DEF RelayDisconnectNotify, ClientType
<1>4. relayChan' = relayChan \/ (relayChan = <<>> /\ relayChan' = <<FALSE>>)
  BY Zenon DEF RelayDisconnectNotify
<1>5. ClientType' BY <1>1, <1>3, <1>4, Zenon DEF ClientType
<1>6. OneLink' BY <1>1, <1>2, <1>4, Zenon DEF OneLink, Losing, LossRead, ClientType
<1>7. LastIsUp' BY <1>1, <1>2, Zenon DEF LastIsUp
<1>8. Tellings'
  <2>1. LinkUp' = LinkUp /\ ReconnectTells' = ReconnectTells /\ RelayTells = 1 /\ RelayTells' = 0
    BY <1>1, <1>2, Zenon DEF LinkUp, ReconnectTells, RelayTells
  <2>2. /\ ClientType /\ ClientType' /\ Tellings /\ next \in Nat /\ next' = next
        /\ connecting' = connecting /\ WordsType
        /\ Len(relayChan') \in 0..1 /\ Len(relayChan') <= Len(relayChan) + 1
    BY <1>1, <1>4, <1>5, OneWordMore, UntoldType, Zenon
  <2>3. /\ connecting'.notify <= connecting.notify
        /\ connecting'.notify + Len(relayChan') + ReconnectTells' + RelayTells' + LinkUp'
             <= connecting.notify + Len(relayChan) + ReconnectTells + RelayTells + LinkUp
    BY <2>1, <2>2, SMTT(30) DEF WordsType
  <2>4. QED BY <2>2, <2>3, TellingsStep, Zenon
<1>9. QED BY <1>1, <1>2, <1>5, <1>6, <1>7, <1>8, Zenon DEF ClientInv

\* A connection is made.
LEMMA ConnectOnceClient ==
  ASSUME ClientInv, RelayConnectOnce
  PROVE  ClientInv'
<1>1. /\ RelayPlace /\ ClientType /\ OneLink /\ LastIsUp /\ Tellings /\ next \in Nat
      /\ connecting.dial /\ reconnect = "idle" /\ relay.pc # "notify" /\ relayLink' = "up"
      /\ connecting.made + 1 = RelayConns => relay.pc # "disc"
      /\ UNCHANGED <<next, relay, relayChan, reconnect, relayMissed>>
      /\ connecting' = [dial |-> FALSE, notify |-> connecting.notify + 1, made |-> connecting.made + 1]
  BY Zenon DEF ClientInv, RelayConnectOnce
<1>2. relayLink = "down" BY <1>1, Zenon DEF OneLink
<1>3. connecting.made \in 0..RelayConns /\ connecting.notify \in Nat /\ connecting.made # RelayConns
  BY <1>1, <1>2, Zenon DEF LastIsUp, ClientType
<1>4. connecting.made + 1 \in 0..RelayConns /\ connecting.notify + 1 \in Nat BY <1>3, RelaySizes
<1>5. RelayPlace' BY <1>1, Zenon DEF RelayPlace
<1>6. /\ connecting'.dial = FALSE /\ connecting'.notify = connecting.notify + 1
      /\ connecting'.made = connecting.made + 1
  BY <1>1, Zenon
<1>7. ClientType' BY <1>1, <1>4, Zenon DEF ClientType
<1>8. OneLink' BY <1>1, <1>2, <1>6, Zenon DEF OneLink, Losing, LossRead
<1>9. LastIsUp' BY <1>1, <1>6, Zenon DEF LastIsUp
<1>10. Tellings'
  <2>1. /\ LinkUp = 0 /\ LinkUp' = 1 /\ ReconnectTells' = ReconnectTells /\ RelayTells' = RelayTells
    BY <1>1, <1>2, Zenon DEF LinkUp, ReconnectTells, RelayTells
  <2>2. /\ ClientType /\ ClientType' /\ Tellings /\ next \in Nat /\ next' = next
        /\ relayChan' = relayChan
    BY <1>1, <1>7, Zenon
  <2>3. QED BY <1>6, <2>1, <2>2, TellingsStep, Zenon
<1>11. QED BY <1>1, <1>5, <1>7, <1>8, <1>9, <1>10, Zenon DEF ClientInv

\* Connect tells that it has made a connection.
LEMMA ConnectNotifyClient ==
  ASSUME ClientInv, RelayConnectNotify
  PROVE  ClientInv'
<1>1. /\ RelayPlace /\ ClientType /\ OneLink /\ LastIsUp /\ Tellings /\ next \in Nat
      /\ connecting.notify > 0 /\ Notify(TRUE) /\ UNCHANGED <<next, relay, relayLink, reconnect>>
      /\ connecting' = [connecting EXCEPT !.notify = @ - 1]
  BY Zenon DEF ClientInv, RelayConnectNotify
<1>2. /\ relayChan' = relayChan \/ relayChan' = <<TRUE>>
      /\ Len(relayChan') \in 0..1 /\ Len(relayChan') <= Len(relayChan) + 1
      /\ relayMissed' \in BOOLEAN
  BY <1>1, NotifyChan, Zenon
<1>3. connecting.notify \in Nat /\ connecting.notify > 0 BY <1>1, Zenon DEF ClientType
<1>4. connecting.notify - 1 \in Nat BY <1>3
<1>5. /\ connecting' \in [dial : BOOLEAN, notify : Nat, made : 0..RelayConns]
      /\ connecting'.dial = connecting.dial /\ connecting'.notify = connecting.notify - 1
      /\ connecting'.made = connecting.made
  BY <1>1, <1>4, Zenon DEF ClientType
<1>6. RelayPlace' /\ ClientType' BY <1>1, <1>2, <1>5, Zenon DEF RelayPlace, ClientType
<1>7. <<TRUE>> # <<FALSE>>
  <2>1. Head(<<TRUE>>) = TRUE /\ Head(<<FALSE>>) = FALSE BY OneWord, Zenon
  <2>2. TRUE # FALSE OBVIOUS
  <2>3. QED BY <2>1, <2>2, Zenon
<1>8. OneLink' BY <1>1, <1>2, <1>5, <1>7, Zenon DEF OneLink, Losing, LossRead
<1>9. LastIsUp' BY <1>1, <1>5, Zenon DEF LastIsUp
<1>10. Tellings'
  <2>1. LinkUp' = LinkUp /\ ReconnectTells' = ReconnectTells /\ RelayTells' = RelayTells
    BY <1>1, Zenon DEF LinkUp, ReconnectTells, RelayTells
  <2>2. /\ ClientType /\ ClientType' /\ Tellings /\ next \in Nat /\ next' = next /\ WordsType
        /\ connecting'.notify = connecting.notify - 1 /\ connecting'.made = connecting.made
        /\ Len(relayChan') \in 0..1 /\ Len(relayChan') <= Len(relayChan) + 1
    BY <1>1, <1>2, <1>5, <1>6, UntoldType, Zenon
  <2>3. connecting'.notify <= connecting.notify
    BY <1>3, <1>5
  <2>4. connecting'.notify + Len(relayChan') <= connecting.notify + Len(relayChan)
    <3>1. Len(relayChan') \in 0..1 /\ Len(relayChan') <= Len(relayChan) + 1 /\ Len(relayChan) \in 0..1
      BY <2>2, Zenon DEF WordsType
    <3>2. QED BY <1>3, <1>5, <3>1
  <2>5. connecting'.notify + Len(relayChan') + ReconnectTells' + RelayTells' + LinkUp'
          <= connecting.notify + Len(relayChan) + ReconnectTells + RelayTells + LinkUp
    <3>1. /\ Len(relayChan') \in Int /\ Len(relayChan) \in Int /\ connecting'.notify \in Int
          /\ connecting.notify \in Int
      BY <1>3, <1>5, <2>2 DEF WordsType
    <3>2. LinkUp \in Int /\ ReconnectTells \in Int /\ RelayTells \in Int BY <2>2 DEF WordsType
    <3>3. QED BY <2>1, <2>4, <3>1, <3>2, SMTT(30)
  <2>6. QED BY <2>2, <2>3, <2>5, TellingsStep, Zenon
<1>11. QED BY <1>1, <1>6, <1>8, <1>9, <1>10, Zenon DEF ClientInv

\* The command Reconnect takes the connection down.
LEMMA ReconnectClient ==
  ASSUME ClientInv, Reconnect
  PROVE  ClientInv'
<1>1. /\ RelayPlace /\ ClientType /\ OneLink /\ LastIsUp /\ Tellings /\ next \in Nat
      /\ connecting.made < RelayConns /\ reconnect = "idle" /\ relay.pc # "notify"
      /\ relayLink # "down"
      /\ relayLink' = "down" /\ reconnect' = "notify"
      /\ UNCHANGED <<next, relay, relayChan, connecting, relayMissed>>
  BY Zenon DEF ClientInv, Reconnect, MayFail
<1>2. connecting.made # RelayConns
  <2>1. connecting.made \in Nat BY <1>1, UntoldType, Zenon DEF WordsType
  <2>2. connecting.made < RelayConns BY <1>1, Zenon
  <2>3. QED BY <2>1, <2>2, RelaySizes
<1>3. RelayPlace' /\ ClientType' BY <1>1, Zenon DEF RelayPlace, ClientType
<1>4. OneLink' BY <1>1, Zenon DEF OneLink, Losing, LossRead
<1>5. LastIsUp' BY <1>1, <1>2, Zenon DEF LastIsUp
<1>6. Tellings'
  <2>1. /\ LinkUp = 1 /\ LinkUp' = 0 /\ ReconnectTells = 0 /\ ReconnectTells' = 1
        /\ RelayTells' = RelayTells
    BY <1>1, Zenon DEF LinkUp, ReconnectTells, RelayTells
  <2>2. /\ ClientType /\ ClientType' /\ Tellings /\ next \in Nat /\ next' = next
        /\ connecting' = connecting /\ relayChan' = relayChan /\ WordsType
    BY <1>1, <1>3, UntoldType, Zenon
  <2>3. /\ connecting'.notify <= connecting.notify
        /\ connecting'.notify + Len(relayChan') + ReconnectTells' + RelayTells' + LinkUp'
             <= connecting.notify + Len(relayChan) + ReconnectTells + RelayTells + LinkUp
    BY <2>1, <2>2 DEF WordsType
  <2>4. QED BY <2>2, <2>3, TellingsStep, Zenon
<1>7. QED BY <1>1, <1>3, <1>4, <1>5, <1>6, Zenon DEF ClientInv

\* It tells the relay.
LEMMA ReconnectNotifyClient ==
  ASSUME ClientInv, ReconnectNotify
  PROVE  ClientInv'
<1>1. /\ RelayPlace /\ ClientType /\ OneLink /\ LastIsUp /\ Tellings /\ next \in Nat
      /\ reconnect = "notify" /\ reconnect' = "idle" /\ Notify(FALSE)
      /\ UNCHANGED <<next, relay, relayLink, connecting>>
  BY Zenon DEF ClientInv, ReconnectNotify
<1>2. /\ relayChan' = relayChan \/ relayChan' = <<FALSE>>
      /\ Len(relayChan') \in 0..1 /\ Len(relayChan') <= Len(relayChan) + 1
      /\ relayMissed' \in BOOLEAN
  BY <1>1, NotifyChan, Zenon
<1>3. RelayPlace' /\ ClientType' BY <1>1, <1>2, Zenon DEF RelayPlace, ClientType
<1>4. OneLink' BY <1>1, <1>2, Zenon DEF OneLink, Losing, LossRead
<1>5. LastIsUp' BY <1>1, Zenon DEF LastIsUp
<1>6. Tellings'
  <2>1. LinkUp' = LinkUp /\ ReconnectTells = 1 /\ ReconnectTells' = 0 /\ RelayTells' = RelayTells
    BY <1>1, Zenon DEF LinkUp, ReconnectTells, RelayTells
  <2>2. /\ ClientType /\ ClientType' /\ Tellings /\ next \in Nat /\ next' = next
        /\ connecting' = connecting /\ WordsType
        /\ Len(relayChan') \in 0..1 /\ Len(relayChan') <= Len(relayChan) + 1
    BY <1>1, <1>2, <1>3, UntoldType, Zenon
  <2>3. /\ connecting'.notify <= connecting.notify
        /\ connecting'.notify + Len(relayChan') + ReconnectTells' + RelayTells' + LinkUp'
             <= connecting.notify + Len(relayChan) + ReconnectTells + RelayTells + LinkUp
    BY <2>1, <2>2 DEF WordsType
  <2>4. QED BY <2>2, <2>3, TellingsStep, Zenon
<1>7. QED BY <1>1, <1>3, <1>4, <1>5, <1>6, Zenon DEF ClientInv

\* A connection fails.
LEMMA LinkBreaksClient ==
  ASSUME ClientInv, RelayLinkBreaks
  PROVE  ClientInv'
<1>1. /\ RelayPlace /\ ClientType /\ OneLink /\ LastIsUp /\ Tellings /\ next \in Nat
      /\ connecting.made < RelayConns /\ relayLink = "up" /\ relayLink' = "broken"
      /\ UNCHANGED <<next, relay, relayChan, connecting, reconnect, relayMissed>>
  BY Zenon DEF ClientInv, RelayLinkBreaks, MayFail
<1>2. connecting.made # RelayConns
  <2>1. connecting.made \in Nat BY <1>1, UntoldType, Zenon DEF WordsType
  <2>2. connecting.made < RelayConns BY <1>1, Zenon
  <2>3. QED BY <2>1, <2>2, RelaySizes
<1>3. RelayPlace' /\ ClientType' BY <1>1, Zenon DEF RelayPlace, ClientType
<1>4. OneLink' BY <1>1, Zenon DEF OneLink, Losing, LossRead
<1>5. LastIsUp' BY <1>1, <1>2, Zenon DEF LastIsUp
<1>6. LinkUp' = LinkUp /\ ReconnectTells' = ReconnectTells /\ RelayTells' = RelayTells
  BY <1>1, Zenon DEF LinkUp, ReconnectTells, RelayTells
<1>7. Tellings' BY <1>1, <1>6, Zenon DEF Tellings, Untold, Tellable
<1>8. QED BY <1>1, <1>3, <1>4, <1>5, <1>7, Zenon DEF ClientInv

\* Every step keeps the client's part of the invariant.
LEMMA ClientNext == ClientInv /\ [RelayNext]_relayVars => ClientInv'
<1> SUFFICES ASSUME ClientInv, [RelayNext]_relayVars PROVE ClientInv'
  OBVIOUS
<1>1. CASE Quiet BY <1>1, QuietClient, Zenon
<1>2. CASE ReadConnect BY <1>2, ReadConnectClient, Zenon
<1>3. CASE Internal BY <1>3, InternalClient, Zenon
<1>4. CASE RelayDisconnect /\ relayLink # "down" BY <1>4, DisconnectClient, ZenonT(30)
<1>5. CASE RelayDisconnectNotify BY <1>5, DisconnectNotifyClient, Zenon
<1>6. CASE RelayConnectOnce BY <1>6, ConnectOnceClient, Zenon
<1>7. CASE RelayConnectNotify BY <1>7, ConnectNotifyClient, Zenon
<1>8. CASE Reconnect BY <1>8, ReconnectClient, Zenon
<1>9. CASE ReconnectNotify BY <1>9, ReconnectNotifyClient, Zenon
<1>10. CASE RelayLinkBreaks BY <1>10, LinkBreaksClient, Zenon
<1> QED
  BY <1>1, <1>2, <1>3, <1>4, <1>5, <1>6, <1>7, <1>8, <1>9, <1>10, QuietSteps, ZenonT(30)
    DEF RelayNext, RelayStep
-----------------------------------------------------------------------------
\* What a channel does with its entries.
LEMMA ChanAppend ==
  ASSUME NEW q \in Seq(Nat), NEW n \in Nat
  PROVE  /\ Append(q, n) \in Seq(Nat) /\ Len(Append(q, n)) = Len(q) + 1 /\ Len(q) \in Nat
         /\ \A k \in 1..(Len(q) + 1) : Append(q, n)[k] = IF k <= Len(q) THEN q[k] ELSE n
         /\ \A k \in 1..(Len(q) + 1) : k \in 1..Len(q) <=> k <= Len(q)
         /\ \A j, k \in 1..(Len(q) + 1) : ~(j <= Len(q)) /\ ~(k <= Len(q)) => j = k
OBVIOUS

\* What reading one leaves.
LEMMA ChanTail ==
  ASSUME NEW q \in Seq(Nat), q # <<>>
  PROVE  /\ Tail(q) \in Seq(Nat) /\ Len(Tail(q)) = Len(q) - 1 /\ Len(q) \in Nat
         /\ Head(q) = q[1] /\ 1 \in 1..Len(q)
         /\ \A k \in 1..(Len(q) - 1) : Tail(q)[k] = q[k + 1] /\ k + 1 \in 1..Len(q) /\ k + 1 # 1
         /\ \A j, k \in 1..(Len(q) - 1) : j + 1 = k + 1 => j = k
OBVIOUS

\* The next entry is new, in the channel and behind it.
LEMMA QueuePut ==
  ASSUME NEW n \in Nat \ {0}, NEW T, T \subseteq 1..(n - 1), NEW q, Queue(q, n, T)
  PROVE  Queue(q, n + 1, T) /\ (Len(q) < ChanSize => Queue(Append(q, n), n + 1, T))
<1>1. /\ q \in Seq(Nat) /\ Len(q) <= ChanSize
      /\ \A k \in 1..Len(q) : q[k] \in 1..(n - 1) /\ q[k] \notin T
      /\ \A j, k \in 1..Len(q) : q[j] = q[k] => j = k
  BY Zenon DEF Queue
<1>2. /\ \A x : x \in 1..(n - 1) => x \in 1..((n + 1) - 1) /\ x # n
      /\ n \in 1..((n + 1) - 1) /\ n \notin 1..(n - 1) /\ n \in Nat
  OBVIOUS
<1>3. Queue(q, n + 1, T) BY <1>1, <1>2, Zenon DEF Queue
<1>4. ASSUME Len(q) < ChanSize PROVE Queue(Append(q, n), n + 1, T)
  <2>1. /\ Append(q, n) \in Seq(Nat) /\ Len(Append(q, n)) = Len(q) + 1 /\ Len(q) \in Nat
        /\ \A k \in 1..(Len(q) + 1) : Append(q, n)[k] = IF k <= Len(q) THEN q[k] ELSE n
        /\ \A k \in 1..(Len(q) + 1) : k \in 1..Len(q) <=> k <= Len(q)
        /\ \A j, k \in 1..(Len(q) + 1) : ~(j <= Len(q)) /\ ~(k <= Len(q)) => j = k
    BY <1>1, <1>2, ChanAppend, Zenon
  <2>2. Len(Append(q, n)) <= ChanSize BY <1>4, <2>1, RelaySizes
  <2>3. \A k \in 1..Len(Append(q, n)) :
          Append(q, n)[k] \in 1..((n + 1) - 1) /\ Append(q, n)[k] \notin T
    BY <1>1, <1>2, <2>1, ZenonT(30)
  <2>4. \A j, k \in 1..Len(Append(q, n)) : Append(q, n)[j] = Append(q, n)[k] => j = k
    BY <1>1, <1>2, <2>1, ZenonT(30)
  <2>5. QED BY <2>1, <2>2, <2>3, <2>4, Zenon DEF Queue
<1>5. QED BY <1>3, <1>4, Zenon

\* The entry that Run() takes has not been taken before.
LEMMA QueueTake ==
  ASSUME NEW n \in Nat \ {0}, NEW T, NEW q, Queue(q, n, T), q # <<>>
  PROVE  /\ Queue(Tail(q), n, T) /\ Queue(Tail(q), n, T \cup {Head(q)})
         /\ Head(q) \in 1..(n - 1) /\ Head(q) \in Nat /\ Head(q) # Nil /\ Head(q) \notin T
<1>1. /\ q \in Seq(Nat) /\ Len(q) <= ChanSize
      /\ \A k \in 1..Len(q) : q[k] \in 1..(n - 1) /\ q[k] \notin T
      /\ \A j, k \in 1..Len(q) : q[j] = q[k] => j = k
  BY Zenon DEF Queue
<1>2. /\ Tail(q) \in Seq(Nat) /\ Len(Tail(q)) = Len(q) - 1 /\ Len(q) \in Nat
      /\ Head(q) = q[1] /\ 1 \in 1..Len(q)
      /\ \A k \in 1..(Len(q) - 1) : Tail(q)[k] = q[k + 1] /\ k + 1 \in 1..Len(q) /\ k + 1 # 1
      /\ \A j, k \in 1..(Len(q) - 1) : j + 1 = k + 1 => j = k
  BY <1>1, ChanTail, Zenon
<1>3. Len(Tail(q)) <= ChanSize BY <1>1, <1>2, RelaySizes
<1>4. \A k \in 1..Len(Tail(q)) : /\ Tail(q)[k] \in 1..(n - 1) /\ Tail(q)[k] \notin T
                                 /\ Tail(q)[k] # Head(q)
  BY <1>1, <1>2, Zenon
<1>5. ASSUME NEW j \in 1..Len(Tail(q)), NEW k \in 1..Len(Tail(q)), Tail(q)[j] = Tail(q)[k] PROVE j = k
  <2>1. /\ Tail(q)[j] = q[j + 1] /\ j + 1 \in 1..Len(q)
        /\ Tail(q)[k] = q[k + 1] /\ k + 1 \in 1..Len(q)
    BY <1>2, Zenon
  <2>2. j + 1 = k + 1 BY <1>1, <1>5, <2>1, Zenon
  <2>3. QED BY <1>2, <2>2, Zenon
<1>6. Queue(Tail(q), n, T) /\ Queue(Tail(q), n, T \cup {Head(q)})
  BY <1>2, <1>3, <1>4, <1>5, Zenon DEF Queue
<1>7. Head(q) \in 1..(n - 1) /\ Head(q) \notin T
  <2>1. Head(q) = q[1] /\ 1 \in 1..Len(q) BY <1>2, Zenon
  <2>2. q[1] \in 1..(n - 1) /\ q[1] \notin T BY <1>1, <2>1, Zenon
  <2>3. QED BY <2>1, <2>2, Zenon
<1>8. Head(q) \in Nat /\ Head(q) # Nil BY <1>7 DEF Nil
<1>9. QED BY <1>6, <1>7, <1>8, Zenon

\* The slot that resend() is at: of which buffer, and where in it.
LEMMA SlotOf ==
  ASSUME NEW i \in Positions, i # LostPos
  PROVE  \/ i < LostPos /\ i \in Slots /\ InSlot(i) = buf.first[i]
         \/ ~(i < LostPos) /\ i - LostPos \in Slots /\ InSlot(i) = buf.second[i - LostPos] /\ i > LostPos
<1>1. \/ i < LostPos /\ i \in Slots
      \/ ~(i < LostPos) /\ i - LostPos \in Slots /\ i > LostPos
  BY RelaySizes
<1>2. QED BY <1>1, Zenon DEF InSlot

\* What is in a slot is an entry that was taken and not sent.
LEMMA SlotTaken ==
  ASSUME Shelves, NEW i \in Positions \ {LostPos}, InSlot(i) # Nil
  PROVE  InSlot(i) \in taken \ sent
<1>1. Entries(buf.first) \subseteq taken \ sent /\ Entries(buf.second) \subseteq taken \ sent
  BY Zenon DEF Shelves
<1>2. i \in Positions /\ i # LostPos BY Zenon
<1>3. QED BY <1>1, <1>2, SlotOf, Zenon DEF Entries

\* Every step keeps the entries apart.
LEMMA NumberedNext ==
  ASSUME Numbered, Shelves, ClientInv, [RelayNext]_relayVars
  PROVE  Numbered'
<1>1. /\ next \in Nat \ {0} /\ Queue(logChan, next, taken)
      /\ taken \subseteq 1..(next - 1) /\ sent \subseteq taken
  BY Zenon DEF Numbered
<1>2. ASSUME UNCHANGED <<next, logChan, taken>>, sent' \subseteq taken PROVE Numbered'
  BY <1>1, <1>2, Zenon DEF Numbered
<1>3. ASSUME next' = next + 1, UNCHANGED <<taken, sent>>,
             \/ logChan' = logChan
             \/ Len(logChan) < ChanSize /\ logChan' = Append(logChan, next)
      PROVE  Numbered'
  <2>1. next + 1 \in Nat \ {0} /\ 1..(next - 1) \subseteq 1..((next + 1) - 1) BY <1>1
  <2>2. Queue(logChan', next + 1, taken) BY <1>1, <1>3, QueuePut, Zenon
  <2>3. QED BY <1>1, <1>3, <2>1, <2>2, Zenon DEF Numbered
<1>4. CASE Log BY <1>3, <1>4, Zenon DEF Log, history
<1>5. CASE Internal BY <1>3, <1>5, Zenon DEF Internal, history
<1>6. CASE SkipEntry
  <2>1. logChan # <<>> /\ logChan' = Tail(logChan) /\ UNCHANGED <<next, taken, sent>>
    BY <1>6, Zenon DEF SkipEntry, history
  <2>2. QED BY <1>1, <2>1, QueueTake, Zenon DEF Numbered
<1>7. CASE TakeEntry
  <2>1. /\ logChan # <<>> /\ logChan' = Tail(logChan) /\ next' = next
        /\ taken' = taken \cup {Head(logChan)}
        /\ sent' = sent \/ sent' = sent \cup {Head(logChan)}
    BY <1>7, Zenon DEF TakeEntry
  <2>2. Queue(logChan', next', taken') /\ Head(logChan) \in 1..(next - 1)
    BY <1>1, <2>1, QueueTake, Zenon
  <2>3. QED BY <1>1, <2>1, <2>2, Zenon DEF Numbered
<1>8. CASE ResendEntry
  <2>1. InSlot(relay.i) # Nil => InSlot(relay.i) \in taken BY <1>8, SlotTaken, Zenon DEF ResendEntry
  <2>2. UNCHANGED <<next, logChan, taken>> /\ sent' \subseteq taken
    BY <1>1, <1>8, <2>1, Zenon DEF ResendEntry
  <2>3. QED BY <1>2, <2>2, Zenon
<1>9. CASE UNCHANGED <<next, logChan, taken, sent>> BY <1>1, <1>2, <1>9, Zenon
<1>10. \/ Log \/ Internal \/ SkipEntry \/ TakeEntry \/ ResendEntry
       \/ UNCHANGED <<next, logChan, taken, sent>>
  <2>1. CASE ReadConnect \/ ResendLost \/ ResendDone \/ RelayDisconnect \/ RelayDisconnectNotify \/ Stop
    BY <2>1, Zenon
      DEF ReadConnect, ResendLost, ResendDone, RelayDisconnect, RelayDisconnectNotify, Stop, history
  <2>2. CASE RelayConnectOnce \/ RelayConnectNotify \/ Reconnect \/ ReconnectNotify \/ RelayLinkBreaks
    BY <2>2, Zenon
      DEF RelayConnectOnce, RelayConnectNotify, Reconnect, ReconnectNotify, RelayLinkBreaks, history
  <2>3. CASE UNCHANGED relayVars BY <2>3, Zenon DEF relayVars
  <2>4. QED BY <2>1, <2>2, <2>3, Zenon DEF RelayNext, RelayStep
<1>11. QED BY <1>4, <1>5, <1>6, <1>7, <1>8, <1>9, <1>10, Zenon
-----------------------------------------------------------------------------
\* Steps that leave the buffers alone.
LEMMA BuffersSame ==
  ASSUME Shelves, Whole, UNCHANGED <<buf, taken, sent, dropped, torn>>, ~torn => Filled'
  PROVE  Shelves' /\ Whole'
<1>1. Shelves' BY Zenon DEF Shelves
<1>2. ~torn => Counted' BY Zenon DEF Whole, Counted
<1>3. QED BY <1>1, <1>2, Zenon DEF Whole

\* Run() outside resend() leaves the buffers filled from their start.
LEMMA Outside ==
  ASSUME RelayPlace, Filled, UNCHANGED buf, ~Resending, ~Resending'
  PROVE  Filled'
BY Zenon DEF Filled, InFirst, InSecond

\* The steps that leave the buffers alone but may move Run() into resend() or out of it.
LEMMA FilledMoves ==
  ASSUME ClientInv, Shelves, Filled, UNCHANGED buf,
         \/ ReadConnect \/ Internal \/ ResendDone \/ RelayDisconnect \/ RelayDisconnectNotify
         \/ Stop \/ UNCHANGED relay
  PROVE  Filled'
<1>1. RelayPlace BY Zenon DEF ClientInv
<1>2. CASE ReadConnect
  <2>1. ~Resending /\ ~Resending' BY <1>1, <1>2, Zenon DEF ReadConnect, RelayPlace, Resending
  <2>2. QED BY <1>1, <2>1, Outside, Zenon
<1>3. CASE Stop
  <2>1. ~Resending /\ ~Resending' BY <1>1, <1>3, Zenon DEF Stop, RelayPlace, Resending
  <2>2. QED BY <1>1, <2>1, Outside, Zenon
<1>4. CASE UNCHANGED relay BY <1>4, Zenon DEF Filled, InFirst, InSecond, Resending
<1>5. CASE Internal
  <2>1. ~Resending BY <1>5, Zenon DEF Internal, Resending
  <2>2. CASE relay' = [relay EXCEPT !.pc = "select"]
    <3>1. ~Resending' BY <1>1, <2>2, Zenon DEF RelayPlace, Resending
    <3>2. QED BY <1>1, <2>1, <3>1, Outside, Zenon
  <2>3. CASE relay' = [relay EXCEPT !.pc = "resend", !.i = 1]
    <3>1. relay'.pc = "resend" /\ relay'.i = 1 BY <1>1, <2>3, Zenon DEF RelayPlace
    <3>2. 1 < LostPos /\ ~(1 > LostPos) BY RelaySizes
    <3>3. InFirst' /\ ~InSecond' BY <3>1, <3>2, Zenon DEF InFirst, InSecond, Resending
    <3>4. Settled(buf.first, buf.firstSize) /\ Settled(buf.second, buf.secondSize)
      BY <2>1, Zenon DEF Filled, InFirst, InSecond
    <3>5. buf.firstSize \in 0..BufferSize BY Zenon DEF Shelves, Shelf
    <3>6. Halfway(buf.first, buf.firstSize, 1) BY <3>4, <3>5, HalfwayStart, Zenon
    <3>7. QED BY <3>1, <3>3, <3>4, <3>6, Zenon DEF Filled
  <2>4. QED BY <1>5, <2>2, <2>3, Zenon DEF Internal
<1>6. CASE ResendDone
  <2>1. relay.i \notin Positions /\ ~Resending'
    BY <1>1, <1>6, Zenon DEF ResendDone, RelayPlace, Resending
  <2>2. ~(relay.i < LostPos)
    <3>1. relay.i \in 1..(2 * BufferSize + 2) BY <1>1, Zenon DEF RelayPlace
    <3>2. QED BY <2>1, <3>1, RelaySizes
  <2>3. QED BY <2>1, <2>2, Zenon DEF Filled, InFirst, InSecond
<1>7. ASSUME relay'.i = relay.i, Resending' <=> Resending PROVE Filled'
  BY <1>7, Zenon DEF Filled, InFirst, InSecond
<1>8. CASE RelayDisconnect
  <2>1. relay'.i = relay.i /\ (Resending' <=> Resending)
    BY <1>1, <1>8, Zenon DEF RelayDisconnect, RelayPlace, Resending
  <2>2. QED BY <1>7, <2>1, Zenon
<1>9. CASE RelayDisconnectNotify
  <2>1. relay'.i = relay.i /\ (Resending' <=> Resending)
    BY <1>1, <1>9, Zenon DEF RelayDisconnectNotify, RelayPlace, Resending
  <2>2. QED BY <1>7, <2>1, Zenon
<1>10. QED BY <1>2, <1>3, <1>4, <1>5, <1>6, <1>8, <1>9, Zenon

\* Numbered entries are finitely many.
LEMMA TakenFinite ==
  ASSUME Numbered
  PROVE  /\ IsFiniteSet(taken) /\ IsFiniteSet(sent)
         /\ Cardinality(taken) \in Nat /\ Cardinality(sent) \in Nat
<1>1. next \in Nat \ {0} /\ taken \in SUBSET (1..(next - 1)) /\ sent \in SUBSET taken
  BY Zenon DEF Numbered
<1>2. next - 1 \in Int /\ 1 \in Int BY <1>1
<1>3. IsFiniteSet(1..(next - 1)) BY <1>2, FS_Interval, Zenon
<1>4. IsFiniteSet(taken) BY <1>1, <1>3, FS_Subset, Zenon
<1>5. IsFiniteSet(sent) BY <1>1, <1>4, FS_Subset, Zenon
<1>6. QED BY <1>4, <1>5, FS_CardinalityType, Zenon

\* The numbers of which Counted is the sum.
LEMMA CountedType ==
  ASSUME Numbered, Shelves
  PROVE  /\ buf.firstSize \in Nat /\ buf.secondSize \in Nat /\ buf.lost \in Nat /\ dropped \in Nat
         /\ Cardinality(taken) \in Nat /\ Cardinality(sent) \in Nat
<1>1. buf.firstSize \in Nat /\ buf.secondSize \in Nat /\ buf.lost \in Nat /\ dropped \in Nat
  BY Zenon DEF Shelves, Bufs
<1>2. QED BY <1>1, TakenFinite, Zenon

\* An entry that is sent at once.
LEMMA TakeSends ==
  ASSUME ClientInv, Numbered, Shelves, Whole, TakeEntry, UNCHANGED <<buf, relay>>,
         sent' = sent \cup {Head(logChan)}
  PROVE  Shelves' /\ Whole'
<1>1. /\ logChan # <<>> /\ taken' = taken \cup {Head(logChan)} /\ UNCHANGED <<dropped, torn>>
  BY Zenon DEF TakeEntry
<1>2. Head(logChan) \notin taken /\ sent \subseteq taken BY <1>1, QueueTake, Zenon DEF Numbered
<1>3. Shelves' BY <1>1, <1>2, Zenon DEF Shelves
<1>4. /\ Cardinality(taken') = Cardinality(taken) + 1 /\ Cardinality(sent') = Cardinality(sent) + 1
  BY <1>1, <1>2, TakenFinite, OneMore, Zenon
<1>5. ~torn => Filled' BY FilledMoves, Zenon DEF Whole
<1>6. ASSUME ~torn PROVE Counted'
  <2>1. Counted /\ buf' = buf /\ dropped' = dropped BY <1>1, <1>6, Zenon DEF Whole
  <2>2. QED BY <1>4, <2>1, CountedType DEF Counted
<1>7. QED BY <1>1, <1>3, <1>5, <1>6, Zenon DEF Whole

\* A slot holds an entry, or nothing.
LEMMA PutType ==
  ASSUME NEW b \in [Slots -> Nat], NEW s, NEW e \in Nat
  PROVE  [b EXCEPT ![s] = e] \in [Slots -> Nat]
BY Zenon

\* The fields of the buffers that buffer(e) changes.
LEMMA BufferFields ==
  ASSUME buf \in Bufs, NEW e \in Nat
  PROVE  /\ buf.firstSize < BufferSize =>
              /\ Buffer(e) \in Bufs
              /\ Buffer(e).first = [buf.first EXCEPT ![buf.firstSize + 1] = e]
              /\ Buffer(e).firstSize = buf.firstSize + 1
              /\ Buffer(e).second = buf.second /\ Buffer(e).secondSize = buf.secondSize
              /\ Buffer(e).lost = buf.lost
         /\ ~(buf.firstSize < BufferSize) /\ buf.secondSize < BufferSize =>
              /\ Buffer(e) \in Bufs
              /\ Buffer(e).second = [buf.second EXCEPT ![buf.secondSize + 1] = e]
              /\ Buffer(e).secondSize = buf.secondSize + 1
              /\ Buffer(e).first = buf.first /\ Buffer(e).firstSize = buf.firstSize
              /\ Buffer(e).lost = buf.lost
         /\ ~(buf.firstSize < BufferSize) /\ ~(buf.secondSize < BufferSize) =>
              /\ Buffer(e) \in Bufs
              /\ Buffer(e).second = [EmptyBuf EXCEPT ![1] = e]
              /\ Buffer(e).secondSize = 1
              /\ Buffer(e).first = buf.first /\ Buffer(e).firstSize = buf.firstSize
              /\ Buffer(e).lost = buf.lost + buf.secondSize
<1>1. buf \in [first : [Slots -> Nat], firstSize : Nat, second : [Slots -> Nat], secondSize : Nat, lost : Nat]
  BY DEF Bufs
<1>2. EmptyBuf \in [Slots -> Nat] BY DEF EmptyBuf, Nil
<1>3. CASE buf.firstSize < BufferSize
  <2>1. Buffer(e) = [buf EXCEPT !.first[buf.firstSize + 1] = e, !.firstSize = @ + 1]
    BY <1>3, Zenon DEF Buffer
  <2>2. /\ buf.firstSize + 1 \in Nat
        /\ [buf.first EXCEPT ![buf.firstSize + 1] = e] \in [Slots -> Nat]
    <3>1. buf.first \in [Slots -> Nat] BY <1>1, Zenon
    <3>2. buf.firstSize + 1 \in Nat BY <1>1
    <3>3. QED BY <3>1, <3>2, PutType, Zenon
  <2>3. /\ Buffer(e).first = [buf.first EXCEPT ![buf.firstSize + 1] = e]
        /\ Buffer(e).firstSize = buf.firstSize + 1
        /\ Buffer(e).second = buf.second /\ Buffer(e).secondSize = buf.secondSize
        /\ Buffer(e).lost = buf.lost
    BY <1>1, <2>1
  <2>4. Buffer(e) \in Bufs BY <1>1, <2>1, <2>2, Zenon DEF Bufs
  <2>5. QED BY <1>3, <2>3, <2>4, Zenon
<1>4. CASE ~(buf.firstSize < BufferSize) /\ buf.secondSize < BufferSize
  <2>1. Buffer(e) = [buf EXCEPT !.second[buf.secondSize + 1] = e, !.secondSize = @ + 1]
    BY <1>4, Zenon DEF Buffer
  <2>2. /\ buf.secondSize + 1 \in Nat
        /\ [buf.second EXCEPT ![buf.secondSize + 1] = e] \in [Slots -> Nat]
    <3>1. buf.second \in [Slots -> Nat] BY <1>1, Zenon
    <3>2. buf.secondSize + 1 \in Nat BY <1>1
    <3>3. QED BY <3>1, <3>2, PutType, Zenon
  <2>3. /\ Buffer(e).second = [buf.second EXCEPT ![buf.secondSize + 1] = e]
        /\ Buffer(e).secondSize = buf.secondSize + 1
        /\ Buffer(e).first = buf.first /\ Buffer(e).firstSize = buf.firstSize
        /\ Buffer(e).lost = buf.lost
    BY <1>1, <2>1
  <2>4. Buffer(e) \in Bufs BY <1>1, <2>1, <2>2, Zenon DEF Bufs
  <2>5. QED BY <1>4, <2>3, <2>4, Zenon
<1>5. CASE ~(buf.firstSize < BufferSize) /\ ~(buf.secondSize < BufferSize)
  <2>1. Buffer(e) = [buf EXCEPT !.second = [EmptyBuf EXCEPT ![1] = e], !.secondSize = 1, !.lost = @ + buf.secondSize]
    BY <1>5, Zenon DEF Buffer
  <2>2. buf.lost + buf.secondSize \in Nat /\ [EmptyBuf EXCEPT ![1] = e] \in [Slots -> Nat] /\ 1 \in Nat
    <3>1. buf.lost + buf.secondSize \in Nat /\ 1 \in Nat BY <1>1
    <3>2. QED BY <1>2, <3>1, PutType, Zenon
  <2>3. /\ Buffer(e).second = [EmptyBuf EXCEPT ![1] = e]
        /\ Buffer(e).secondSize = 1
        /\ Buffer(e).first = buf.first /\ Buffer(e).firstSize = buf.firstSize
        /\ Buffer(e).lost = buf.lost + buf.secondSize
    BY <1>1, <2>1
  <2>4. Buffer(e) \in Bufs BY <1>1, <2>1, <2>2, Zenon DEF Bufs
  <2>5. QED BY <1>5, <2>3, <2>4, Zenon
<1>6. QED BY <1>3, <1>4, <1>5, Zenon

\* buffer(e) fills the slot behind the full ones.
LEMMA PutNext ==
  ASSUME NEW b, NEW size, NEW x \in BOOLEAN, Shelf(b, size, x), x => Settled(b, size),
         size < BufferSize, NEW e \in Nat, e # Nil, e \notin Entries(b)
  PROVE  /\ Shelf([b EXCEPT ![size + 1] = e], size + 1, x)
         /\ Entries([b EXCEPT ![size + 1] = e]) \subseteq Entries(b) \cup {e}
         /\ x => Settled([b EXCEPT ![size + 1] = e], size + 1)
<1> DEFINE s == size + 1
<1> DEFINE c == [b EXCEPT ![s] = e]
<1>1. b \in [Slots -> Nat] /\ size \in 0..BufferSize BY Zenon DEF Shelf
<1>2. size + 1 \in 0..BufferSize /\ size \in Nat /\ s \in Slots BY <1>1, RelaySizes
<1>3. /\ c \in [Slots -> Nat]
      /\ \A t \in Slots : c[t] = IF t = s THEN e ELSE b[t]
      /\ Entries(c) \subseteq Entries(b) \cup {e}
      /\ b[s] = Nil => Entries(c) = Entries(b) \cup {e}
  <2> HIDE DEF s
  <2>1. c = [b EXCEPT ![s] = e] OBVIOUS
  <2> HIDE DEF c
  <2>2. s \in Slots BY <1>2, Zenon
  <2>3. QED BY <1>1, <2>1, <2>2, EntriesPut, ZenonT(30)
<1> HIDE DEF c
<1>4. x => b[s] = Nil BY <1>1, SettledPut, Zenon
<1>5. \A t \in Slots : b[t] # e BY Zenon DEF Entries
<1>6. ASSUME NEW r \in Slots, NEW t \in Slots, c[r] = c[t], c[r] # Nil PROVE r = t
  <2>1. \A p, q \in Slots : b[p] = b[q] /\ b[p] # Nil => p = q BY Zenon DEF Shelf
  <2>2. QED BY <1>3, <1>5, <1>6, <2>1, Zenon
<1>7. /\ IsFiniteSet(Entries(b)) /\ Cardinality(Entries(b)) \in Nat
      /\ IsFiniteSet(Entries(c)) /\ Cardinality(Entries(c)) \in Nat
  BY <1>1, <1>3, EntriesFinite, Zenon
<1>8. IsFiniteSet(Entries(b) \cup {e}) /\ Cardinality(Entries(b) \cup {e}) = Cardinality(Entries(b)) + 1
  BY <1>7, OneMore, Zenon
<1>9. Cardinality(Entries(c)) <= Cardinality(Entries(b) \cup {e})
  <2>1. Entries(c) \in SUBSET (Entries(b) \cup {e}) BY <1>3, Zenon
  <2>2. QED BY <1>8, <2>1, FS_Subset, Zenon
<1>10. Cardinality(Entries(b)) <= size /\ (x => Cardinality(Entries(b)) = size) BY Zenon DEF Shelf
<1>11. Cardinality(Entries(c)) <= size + 1 BY <1>2, <1>7, <1>8, <1>9, <1>10
<1>12. x => Cardinality(Entries(c)) = size + 1 BY <1>3, <1>4, <1>8, <1>10, Zenon
<1>13. Shelf(c, size + 1, x) BY <1>2, <1>3, <1>6, <1>11, <1>12, Zenon DEF Shelf
<1>14. \A t \in Slots : c[t] # Nil <=> t = size + 1 \/ b[t] # Nil BY <1>3, Zenon
<1>15. x => Settled(c, size + 1) BY <1>1, <1>14, SettledPut, Zenon
<1>16. QED BY <1>3, <1>13, <1>15, Zenon DEF c

\* Outside resend() a whole relay has both buffers filled from their start.
LEMMA SettledOutside ==
  ASSUME Whole, ~Resending
  PROVE  ~torn => Settled(buf.first, buf.firstSize) /\ Settled(buf.second, buf.secondSize)
BY Zenon DEF Whole, Filled, InFirst, InSecond

\* An entry that is buffered.
LEMMA TakeBuffers ==
  ASSUME ClientInv, Numbered, Shelves, Whole, TakeEntry, buf' = Buffer(Head(logChan)), UNCHANGED sent,
         relay' = IF relay.connected THEN [relay EXCEPT !.pc = "disc", !.back = "select"] ELSE relay
  PROVE  Shelves' /\ Whole'
<1> DEFINE e == Head(logChan)
<1>1. /\ relay.pc = "select" /\ logChan # <<>> /\ taken' = taken \cup {e}
      /\ UNCHANGED <<dropped, torn>>
  BY Zenon DEF TakeEntry
<1>2. e \notin taken /\ sent \subseteq taken /\ e \in Nat /\ e # Nil
  BY <1>1, QueueTake, Zenon DEF Numbered
<1> HIDE DEF e
<1>3. ~Resending /\ ~Resending'
  <2>1. RelayPlace BY Zenon DEF ClientInv
  <2>2. ~Resending BY <1>1, Zenon DEF Resending
  <2>3. relay' = relay \/ (relay'.pc = "disc" /\ relay'.back = "select")
    BY <2>1, Zenon DEF RelayPlace
  <2>4. QED BY <2>2, <2>3, Zenon DEF Resending
<1>4. ~torn => Settled(buf.first, buf.firstSize) /\ Settled(buf.second, buf.secondSize)
  BY <1>3, SettledOutside, Zenon
<1>5. /\ buf \in Bufs /\ Shelf(buf.first, buf.firstSize, ~torn)
      /\ Shelf(buf.second, buf.secondSize, ~torn)
      /\ Entries(buf.first) \subseteq taken \ sent /\ Entries(buf.second) \subseteq taken \ sent
      /\ Entries(buf.first) \cap Entries(buf.second) = {} /\ dropped \in Nat /\ torn \in BOOLEAN
  BY Zenon DEF Shelves
<1>6. e \notin Entries(buf.first) /\ e \notin Entries(buf.second) /\ e \notin sent
  BY <1>2, <1>5, Zenon
<1>7. Cardinality(taken') = Cardinality(taken) + 1 BY <1>1, <1>2, TakenFinite, OneMore, Zenon
<1>8. (~torn) \in BOOLEAN BY Zenon
<1>9. ASSUME buf' \in Bufs,
             Shelf(buf'.first, buf'.firstSize, ~torn), Shelf(buf'.second, buf'.secondSize, ~torn),
             Entries(buf'.first) \subseteq Entries(buf.first) \/
               (Entries(buf'.first) \subseteq Entries(buf.first) \cup {e} /\
                Entries(buf'.second) \subseteq Entries(buf.second)),
             Entries(buf'.first) \subseteq Entries(buf.first) \cup {e},
             Entries(buf'.second) \subseteq Entries(buf.second) \cup {e},
             ~torn => Settled(buf'.first, buf'.firstSize) /\ Settled(buf'.second, buf'.secondSize),
             buf'.firstSize + buf'.secondSize + buf'.lost = buf.firstSize + buf.secondSize + buf.lost + 1
      PROVE  Shelves' /\ Whole'
  <2>1. Entries(buf'.first) \subseteq taken' \ sent' /\ Entries(buf'.second) \subseteq taken' \ sent'
    BY <1>1, <1>2, <1>5, <1>6, <1>9, Zenon
  <2>2. Entries(buf'.first) \cap Entries(buf'.second) = {} BY <1>5, <1>6, <1>9, Zenon
  <2>3. Shelves'
    <3>1. Shelf(buf'.first, buf'.firstSize, ~torn') /\ Shelf(buf'.second, buf'.secondSize, ~torn')
      BY <1>1, <1>9, Zenon
    <3>2. dropped' \in Nat /\ torn' \in BOOLEAN BY <1>1, <1>5, Zenon
    <3>3. QED BY <1>9, <2>1, <2>2, <3>1, <3>2, Zenon DEF Shelves, Entries, Shelf
  <2>4. ~torn => Filled' BY <1>3, <1>9, Zenon DEF Filled, InFirst, InSecond, Settled
  <2>5. ASSUME ~torn PROVE Counted'
    <3>1. /\ Cardinality(taken) = Cardinality(sent) + buf.firstSize + buf.secondSize + buf.lost + dropped
      BY <2>5, Zenon DEF Whole, Counted
    <3>2. buf'.firstSize \in Nat /\ buf'.secondSize \in Nat /\ buf'.lost \in Nat
      BY <1>9, Zenon DEF Bufs
    <3>3. Cardinality(taken') = Cardinality(sent) + buf'.firstSize + buf'.secondSize + buf'.lost + dropped
      BY <1>7, <1>9, <3>1, <3>2, CountedType
    <3>4. QED BY <1>1, <3>3, Zenon DEF Counted
  <2>6. QED BY <1>1, <2>3, <2>4, <2>5, Zenon DEF Whole
<1>10. buf.firstSize \in Nat /\ buf.secondSize \in Nat /\ buf.lost \in Nat BY CountedType, Zenon
<1>11. buf' = Buffer(e) BY Zenon DEF e
<1>12. CASE buf.firstSize < BufferSize
  <2>1. /\ buf' \in Bufs /\ buf'.first = [buf.first EXCEPT ![buf.firstSize + 1] = e]
        /\ buf'.firstSize = buf.firstSize + 1 /\ buf'.second = buf.second
        /\ buf'.secondSize = buf.secondSize /\ buf'.lost = buf.lost
    <3>1. /\ Buffer(e) \in Bufs
          /\ Buffer(e).first = [buf.first EXCEPT ![buf.firstSize + 1] = e]
          /\ Buffer(e).firstSize = buf.firstSize + 1
          /\ Buffer(e).second = buf.second /\ Buffer(e).secondSize = buf.secondSize
          /\ Buffer(e).lost = buf.lost
      BY <1>2, <1>5, <1>12, BufferFields, Zenon
    <3>2. QED BY <1>11, <3>1, Zenon
  <2>2. /\ Shelf(buf'.first, buf.firstSize + 1, ~torn)
        /\ Entries(buf'.first) \subseteq Entries(buf.first) \cup {e}
        /\ ~torn => Settled(buf'.first, buf.firstSize + 1)
    <3>1. /\ Shelf([buf.first EXCEPT ![buf.firstSize + 1] = e], buf.firstSize + 1, ~torn)
          /\ Entries([buf.first EXCEPT ![buf.firstSize + 1] = e]) \subseteq Entries(buf.first) \cup {e}
          /\ ~torn => Settled([buf.first EXCEPT ![buf.firstSize + 1] = e], buf.firstSize + 1)
      BY <1>2, <1>4, <1>5, <1>6, <1>8, <1>12, PutNext, ZenonT(30)
    <3>2. QED BY <2>1, <3>1, Zenon
  <2>3. buf'.firstSize + buf'.secondSize + buf'.lost = buf.firstSize + buf.secondSize + buf.lost + 1
    BY <1>10, <2>1
  <2>4. Entries(buf'.second) \subseteq Entries(buf.second) BY <2>1, Zenon
  <2>5. QED BY <1>4, <1>5, <1>9, <2>1, <2>2, <2>3, <2>4, ZenonT(30)
<1>13. CASE ~(buf.firstSize < BufferSize) /\ buf.secondSize < BufferSize
  <2>1. /\ buf' \in Bufs /\ buf'.second = [buf.second EXCEPT ![buf.secondSize + 1] = e]
        /\ buf'.secondSize = buf.secondSize + 1 /\ buf'.first = buf.first
        /\ buf'.firstSize = buf.firstSize /\ buf'.lost = buf.lost
    BY <1>2, <1>5, <1>11, <1>13, BufferFields, Zenon
  <2>2. /\ Shelf(buf'.second, buf.secondSize + 1, ~torn)
        /\ Entries(buf'.second) \subseteq Entries(buf.second) \cup {e}
        /\ ~torn => Settled(buf'.second, buf.secondSize + 1)
    <3>1. /\ Shelf([buf.second EXCEPT ![buf.secondSize + 1] = e], buf.secondSize + 1, ~torn)
          /\ Entries([buf.second EXCEPT ![buf.secondSize + 1] = e]) \subseteq Entries(buf.second) \cup {e}
          /\ ~torn => Settled([buf.second EXCEPT ![buf.secondSize + 1] = e], buf.secondSize + 1)
      BY <1>2, <1>4, <1>5, <1>6, <1>8, <1>13, PutNext, ZenonT(30)
    <3>2. QED BY <2>1, <3>1, Zenon
  <2>3. buf'.firstSize + buf'.secondSize + buf'.lost = buf.firstSize + buf.secondSize + buf.lost + 1
    BY <1>10, <2>1
  <2>4. Entries(buf'.first) \subseteq Entries(buf.first) BY <2>1, Zenon
  <2>5. QED BY <1>4, <1>5, <1>9, <2>1, <2>2, <2>3, <2>4, ZenonT(30)
<1>14. CASE ~(buf.firstSize < BufferSize) /\ ~(buf.secondSize < BufferSize)
  <2>1. /\ buf' \in Bufs /\ buf'.second = [EmptyBuf EXCEPT ![1] = e]
        /\ buf'.secondSize = 1 /\ buf'.first = buf.first
        /\ buf'.firstSize = buf.firstSize /\ buf'.lost = buf.lost + buf.secondSize
    BY <1>2, <1>5, <1>11, <1>14, BufferFields, ZenonT(30)
  <2>2. Shelf(buf'.second, 1, ~torn) /\ Entries(buf'.second) = {e} /\ Settled(buf'.second, 1)
    BY <1>2, <1>8, <2>1, ShelfAgain, ZenonT(30)
  <2>3. buf'.firstSize + buf'.secondSize + buf'.lost = buf.firstSize + buf.secondSize + buf.lost + 1
    BY <1>10, <2>1
  <2>4. /\ Entries(buf'.first) \subseteq Entries(buf.first)
        /\ Entries(buf'.second) \subseteq Entries(buf.second) \cup {e} BY <2>1, <2>2, Zenon
  <2>5. QED BY <1>4, <1>5, <1>9, <2>1, <2>2, <2>3, <2>4, ZenonT(30)
<1>15. QED BY <1>12, <1>13, <1>14, Zenon

\* resend() goes on: at the end of a buffer what it kept fills the buffer from its start.
LEMMA Onward ==
  ASSUME NEW i \in Positions, i # LostPos, Resending', relay'.i = i + 1,
         i < LostPos => Halfway(buf'.first, buf'.firstSize, i + 1) /\ Settled(buf'.second, buf'.secondSize),
         ~(i < LostPos) => /\ Settled(buf'.first, buf'.firstSize)
                           /\ Halfway(buf'.second, buf'.secondSize, (i - LostPos) + 1)
  PROVE  Filled'
<1>1. CASE i < LostPos
  <2>1. ~(i + 1 > LostPos) /\ (~(i + 1 < LostPos) => i + 1 = BufferSize + 1) BY <1>1, RelaySizes
  <2>2. ~InSecond' /\ (InFirst' <=> i + 1 < LostPos) BY <2>1, Zenon DEF InFirst, InSecond, LostPos
  <2>3. ~(i + 1 < LostPos) => Settled(buf'.first, buf'.firstSize)
    <3>1. i + 1 = BufferSize + 1 => Settled(buf'.first, buf'.firstSize) BY <1>1, HalfwayEnd
    <3>2. QED BY <2>1, <3>1, Zenon
  <2>4. InFirst' => Halfway(buf'.first, buf'.firstSize, relay'.i) BY <1>1, Zenon
  <2>5. ~InFirst' => Settled(buf'.first, buf'.firstSize) BY <2>2, <2>3, Zenon
  <2>6. ~InSecond' => Settled(buf'.second, buf'.secondSize) BY <1>1, Zenon
  <2>7. QED BY <2>2, <2>4, <2>5, <2>6, ZenonT(30) DEF Filled, LostPos, Halfway, Settled, Slots, Nil
<1>2. CASE ~(i < LostPos)
  <2>1. /\ ~(i + 1 < LostPos) /\ i + 1 > LostPos /\ (i + 1) - LostPos = (i - LostPos) + 1
        /\ i + 1 \notin Positions => (i - LostPos) + 1 = BufferSize + 1
    BY <1>2, RelaySizes
  <2>2. ~InFirst' /\ (InSecond' <=> i + 1 \in Positions)
    BY <2>1, Zenon DEF InFirst, InSecond, LostPos, Positions
  <2>3. i + 1 \notin Positions => Settled(buf'.second, buf'.secondSize)
    <3>1. (i - LostPos) + 1 = BufferSize + 1 => Settled(buf'.second, buf'.secondSize)
      BY <1>2, HalfwayEnd
    <3>2. QED BY <2>1, <3>1, ZenonT(30)
  <2>4. Halfway(buf'.second, buf'.secondSize, relay'.i - LostPos) BY <1>2, <2>1, Zenon
  <2>5. ~InSecond' => Settled(buf'.second, buf'.secondSize) BY <2>2, <2>3, Zenon
  <2>6. ~InFirst' => Settled(buf'.first, buf'.firstSize) BY <1>2, Zenon
  <2>7. QED BY <2>2, <2>4, <2>5, <2>6, ZenonT(30) DEF Filled, LostPos, Halfway, Settled, Slots, Nil
<1>3. QED BY <1>1, <1>2, Zenon

\* What a whole relay's buffers are like when resend() is at slot i.
LEMMA AtSlot ==
  ASSUME Whole, ~torn, relay.pc = "resend", relay.i \in Positions, relay.i # LostPos
  PROVE  /\ Counted
         /\ relay.i < LostPos => /\ Halfway(buf.first, buf.firstSize, relay.i)
                                 /\ Settled(buf.second, buf.secondSize)
         /\ ~(relay.i < LostPos) => /\ Settled(buf.first, buf.firstSize)
                                    /\ Halfway(buf.second, buf.secondSize, relay.i - LostPos)
<1>1. /\ relay.i < LostPos => ~(relay.i > LostPos)
      /\ ~(relay.i < LostPos) => relay.i > LostPos
  BY RelaySizes
<1>2. Filled /\ Counted /\ Resending BY Zenon DEF Whole, Resending
<1>3. QED BY <1>1, <1>2, Zenon DEF Filled, InFirst, InSecond

\* The place after a position of resend().
LEMMA AfterMoves ==
  ASSUME RelayPlace, NEW i, NEW f, relay' = After(i, f)
  PROVE  relay'.i = i + 1 /\ Resending'
<1>1. relay'.i = i + 1 /\ relay'.pc = (IF f THEN "disc" ELSE "resend") /\ relay'.back = "resend"
  BY Zenon DEF RelayPlace, After
<1>2. QED BY <1>1, Zenon DEF Resending

\* An empty slot.
LEMMA ResendsNothing ==
  ASSUME ClientInv, Shelves, Whole, ResendEntry, InSlot(relay.i) = Nil
  PROVE  Shelves' /\ Whole'
<1> DEFINE i == relay.i
<1>1. /\ relay.pc = "resend" /\ i \in Positions /\ i # LostPos /\ relay' = After(i, FALSE)
      /\ UNCHANGED <<buf, sent, taken, dropped>> /\ torn' = (torn \/ FALSE)
  BY Zenon DEF ResendEntry
<1>2. torn' = torn BY <1>1, Zenon DEF Shelves
<1>3. relay'.i = i + 1 /\ Resending' BY <1>1, AfterMoves, Zenon DEF ClientInv
<1>4. ASSUME ~torn PROVE Filled'
  <2>1. /\ i < LostPos => Halfway(buf.first, buf.firstSize, i) /\ Settled(buf.second, buf.secondSize)
        /\ ~(i < LostPos) => Settled(buf.first, buf.firstSize) /\ Halfway(buf.second, buf.secondSize, i - LostPos)
    BY <1>1, <1>4, AtSlot, Zenon
  <2>2. CASE i < LostPos
    <3>1. i \in Slots /\ buf.first[i] = Nil BY <1>1, <2>2, SlotOf, Zenon
    <3>2. Halfway(buf.first, buf.firstSize, i + 1) BY <2>1, <2>2, <3>1, HalfwayEmpty, ZenonT(30)
    <3>3. QED BY <1>1, <1>3, <2>1, <2>2, <3>2, Onward, ZenonT(30)
  <2>3. CASE ~(i < LostPos)
    <3>1. i - LostPos \in Slots /\ buf.second[i - LostPos] = Nil BY <1>1, <2>3, SlotOf, Zenon
    <3>2. Halfway(buf.second, buf.secondSize, (i - LostPos) + 1)
      BY <2>1, <2>3, <3>1, HalfwayEmpty, Zenon
    <3>3. QED BY <1>1, <1>3, <2>1, <2>3, <3>2, Onward, ZenonT(30)
  <2>4. QED BY <2>2, <2>3, Zenon
<1>5. QED BY <1>1, <1>2, <1>4, BuffersSame, ZenonT(30)

\* An entry that cannot be sent.
LEMMA ResendFails ==
  ASSUME ClientInv, Shelves, Whole, ResendEntry, InSlot(relay.i) # Nil, relayLink # "up"
  PROVE  Shelves' /\ Whole'
<1> DEFINE i == relay.i
<1>1. /\ relay.pc = "resend" /\ i \in Positions /\ i # LostPos /\ relay' = After(i, TRUE)
      /\ UNCHANGED <<buf, sent, taken, dropped>> /\ torn' = (torn \/ HoleBefore(i))
  BY Zenon DEF ResendEntry
<1>2. relay'.i = i + 1 /\ Resending' BY <1>1, AfterMoves, Zenon DEF ClientInv
<1>3. torn \in BOOLEAN /\ torn' \in BOOLEAN BY <1>1, Zenon DEF Shelves
<1>4. CASE torn'
  <2>1. \A b, size : Shelf(b, size, ~torn) => Shelf(b, size, ~torn') BY <1>4, Zenon DEF Shelf
  <2>2. Shelves'
    <3>1. Shelf(buf'.first, buf'.firstSize, ~torn') /\ Shelf(buf'.second, buf'.secondSize, ~torn')
      BY <1>1, <2>1, Zenon DEF Shelves
    <3>2. /\ buf' \in Bufs /\ dropped' \in Nat
          /\ Entries(buf'.first) \subseteq taken' \ sent'
          /\ Entries(buf'.second) \subseteq taken' \ sent'
          /\ Entries(buf'.first) \cap Entries(buf'.second) = {}
      BY <1>1, Zenon DEF Shelves
    <3>3. QED BY <1>3, <3>1, <3>2, Zenon DEF Shelves, Entries, Shelf
  <2>3. QED BY <1>4, <2>2, Zenon DEF Whole
<1>5. CASE ~torn'
  <2>1. ~torn /\ ~HoleBefore(i) /\ torn' = torn BY <1>1, <1>3, <1>5, Zenon
  <2>2. /\ i < LostPos => Halfway(buf.first, buf.firstSize, i) /\ Settled(buf.second, buf.secondSize)
        /\ ~(i < LostPos) => Settled(buf.first, buf.firstSize) /\ Halfway(buf.second, buf.secondSize, i - LostPos)
    BY <1>1, <2>1, AtSlot, Zenon
  <2>3. CASE i < LostPos
    <3>1. i \in Slots /\ buf.first[i] # Nil BY <1>1, <2>3, SlotOf, Zenon
    <3>2. \A j \in 1..(i - 1) : j # LostPos /\ j < LostPos BY <2>3, <3>1, RelaySizes
    <3>3. \A j \in 1..(i - 1) : buf.first[j] # Nil BY <2>1, <2>3, <3>2, Zenon DEF HoleBefore, InSlot
    <3>4. Halfway(buf.first, buf.firstSize, i + 1) BY <2>2, <2>3, <3>1, <3>3, HalfwayKept, Zenon
    <3>5. Filled' BY <1>1, <1>2, <2>2, <2>3, <3>4, Onward, ZenonT(30)
    <3>6. QED BY <1>1, <2>1, <3>5, BuffersSame, Zenon
  <2>4. CASE ~(i < LostPos)
    <3>1. i - LostPos \in Slots /\ buf.second[i - LostPos] # Nil BY <1>1, <2>4, SlotOf, Zenon
    <3>2. ASSUME NEW k \in 1..((i - LostPos) - 1) PROVE buf.second[k] # Nil
      <4>1. /\ k + LostPos \in 1..(i - 1) /\ k + LostPos # LostPos /\ ~(k + LostPos < LostPos)
            /\ (k + LostPos) - LostPos = k
        BY <1>1, <2>4, <3>1, RelaySizes
      <4>2. InSlot(k + LostPos) # Nil BY <2>1, <2>4, <4>1, Zenon DEF HoleBefore
      <4>3. QED BY <4>1, <4>2, Zenon DEF InSlot
    <3>3. Halfway(buf.second, buf.secondSize, (i - LostPos) + 1)
      BY <2>2, <2>4, <3>1, <3>2, HalfwayKept, Zenon
    <3>4. Filled' BY <1>1, <1>2, <2>2, <2>4, <3>3, Onward, Zenon
    <3>5. QED BY <1>1, <2>1, <3>4, BuffersSame, Zenon
  <2>5. QED BY <2>3, <2>4, Zenon
<1>6. QED BY <1>4, <1>5, Zenon

\* The fields of the buffers that a sent entry changes.
LEMMA WithoutFields ==
  ASSUME buf \in Bufs, NEW i
  PROVE  /\ i < LostPos =>
              /\ WithoutSlot(i).first = [buf.first EXCEPT ![i] = Nil]
              /\ WithoutSlot(i).firstSize = buf.firstSize - 1
              /\ WithoutSlot(i).second = buf.second /\ WithoutSlot(i).secondSize = buf.secondSize
              /\ WithoutSlot(i).lost = buf.lost
              /\ buf.firstSize - 1 \in Nat => WithoutSlot(i) \in Bufs
         /\ ~(i < LostPos) =>
              /\ WithoutSlot(i).second = [buf.second EXCEPT ![i - LostPos] = Nil]
              /\ WithoutSlot(i).secondSize = buf.secondSize - 1
              /\ WithoutSlot(i).first = buf.first /\ WithoutSlot(i).firstSize = buf.firstSize
              /\ WithoutSlot(i).lost = buf.lost
              /\ buf.secondSize - 1 \in Nat => WithoutSlot(i) \in Bufs
<1>1. buf \in [first : [Slots -> Nat], firstSize : Nat, second : [Slots -> Nat], secondSize : Nat, lost : Nat]
  BY Zenon DEF Bufs
<1>2. Nil \in Nat BY RelaySizes
<1>3. CASE i < LostPos
  <2>1. WithoutSlot(i) = [buf EXCEPT !.first[i] = Nil, !.firstSize = @ - 1]
    BY <1>3, Zenon DEF WithoutSlot
  <2>2. [buf.first EXCEPT ![i] = Nil] \in [Slots -> Nat]
    <3>1. buf.first \in [Slots -> Nat] BY <1>1, Zenon
    <3>2. QED BY <1>2, <3>1, PutType, Zenon
  <2>3. /\ WithoutSlot(i).first = [buf.first EXCEPT ![i] = Nil]
        /\ WithoutSlot(i).firstSize = buf.firstSize - 1
        /\ WithoutSlot(i).second = buf.second /\ WithoutSlot(i).secondSize = buf.secondSize
        /\ WithoutSlot(i).lost = buf.lost
    BY <1>1, <2>1
  <2>4. buf.firstSize - 1 \in Nat => WithoutSlot(i) \in Bufs BY <1>1, <2>1, <2>2, Zenon DEF Bufs
  <2>5. QED BY <1>3, <2>3, <2>4, Zenon
<1>4. CASE ~(i < LostPos)
  <2>1. WithoutSlot(i) = [buf EXCEPT !.second[i - LostPos] = Nil, !.secondSize = @ - 1]
    BY <1>4, Zenon DEF WithoutSlot
  <2>2. [buf.second EXCEPT ![i - LostPos] = Nil] \in [Slots -> Nat]
    <3>1. buf.second \in [Slots -> Nat] BY <1>1, Zenon
    <3>2. QED BY <1>2, <3>1, PutType, Zenon
  <2>3. /\ WithoutSlot(i).second = [buf.second EXCEPT ![i - LostPos] = Nil]
        /\ WithoutSlot(i).secondSize = buf.secondSize - 1
        /\ WithoutSlot(i).first = buf.first /\ WithoutSlot(i).firstSize = buf.firstSize
        /\ WithoutSlot(i).lost = buf.lost
    BY <1>1, <2>1
  <2>4. buf.secondSize - 1 \in Nat => WithoutSlot(i) \in Bufs BY <1>1, <2>1, <2>2, Zenon DEF Bufs
  <2>5. QED BY <1>4, <2>3, <2>4, Zenon
<1>5. QED BY <1>3, <1>4, Zenon

\* A sent entry leaves its slot, of firstBuf or of secondBuf.
LEMMA TakeSlot ==
  ASSUME NEW b, NEW size, NEW x \in BOOLEAN, Shelf(b, size, x), NEW s \in Slots, b[s] # Nil
  PROVE  /\ Shelf([b EXCEPT ![s] = Nil], size - 1, x)
         /\ Entries([b EXCEPT ![s] = Nil]) = Entries(b) \ {b[s]}
         /\ Halfway(b, size, s) => Halfway([b EXCEPT ![s] = Nil], size - 1, s + 1)
<1> DEFINE c == [b EXCEPT ![s] = Nil]
<1>0. c = [b EXCEPT ![s] = Nil] OBVIOUS
<1> HIDE DEF c
<1>1. /\ b \in [Slots -> Nat] /\ size \in 0..BufferSize
      /\ \A r, t \in Slots : b[r] = b[t] /\ b[r] # Nil => r = t
      /\ Cardinality(Entries(b)) <= size /\ (x => Cardinality(Entries(b)) = size)
  BY Zenon DEF Shelf
<1>2. /\ c \in [Slots -> Nat]
      /\ \A t \in Slots : c[t] = IF t = s THEN Nil ELSE b[t]
      /\ Entries(c) = Entries(b) \ {b[s]}
  BY <1>0, <1>1, EntriesClear, Zenon
<1>3. /\ IsFiniteSet(Entries(b)) /\ Cardinality(Entries(b)) \in Nat
      /\ IsFiniteSet(Entries(c)) /\ Cardinality(Entries(c)) \in Nat
  BY <1>1, <1>2, EntriesFinite, Zenon
<1>4. b[s] \in Entries(b) BY Zenon DEF Entries
<1>5. Cardinality(Entries(c)) = Cardinality(Entries(b)) - 1 BY <1>2, <1>3, <1>4, OneLess, Zenon
<1>6. /\ size - 1 \in 0..BufferSize /\ Cardinality(Entries(c)) <= size - 1
      /\ x => Cardinality(Entries(c)) = size - 1
  BY <1>1, <1>3, <1>5, RelaySizes
<1>7. \A r, t \in Slots : c[r] = c[t] /\ c[r] # Nil => r = t BY <1>1, <1>2, Zenon
<1>8. Shelf(c, size - 1, x) BY <1>2, <1>6, <1>7, Zenon DEF Shelf
<1>9. Halfway(b, size, s) => Halfway(c, size - 1, s + 1) BY <1>2, HalfwaySent, Zenon
<1>10. QED BY <1>2, <1>8, <1>9, Zenon DEF c

\* An entry that is sent.
LEMMA ResendSends ==
  ASSUME ClientInv, Numbered, Shelves, Whole, ResendEntry, InSlot(relay.i) # Nil, relayLink = "up"
  PROVE  Shelves' /\ Whole'
<1> DEFINE i == relay.i
<1> DEFINE e == InSlot(relay.i)
<1>1. /\ relay.pc = "resend" /\ i \in Positions /\ i # LostPos /\ relay' = After(i, FALSE)
      /\ buf' = WithoutSlot(i) /\ sent' = sent \cup {e}
      /\ UNCHANGED <<taken, dropped>> /\ torn' = (torn \/ FALSE)
  BY Zenon DEF ResendEntry
<1>2. relay'.i = i + 1 /\ Resending' BY <1>1, AfterMoves, Zenon DEF ClientInv
<1>3. e \in taken \ sent BY <1>1, SlotTaken, Zenon
<1>4. /\ buf \in Bufs /\ Shelf(buf.first, buf.firstSize, ~torn)
      /\ Shelf(buf.second, buf.secondSize, ~torn)
      /\ Entries(buf.first) \subseteq taken \ sent /\ Entries(buf.second) \subseteq taken \ sent
      /\ Entries(buf.first) \cap Entries(buf.second) = {} /\ dropped \in Nat /\ torn \in BOOLEAN
  BY Zenon DEF Shelves
<1>5. torn' = torn /\ (~torn) \in BOOLEAN BY <1>1, <1>4, Zenon
<1>6. Cardinality(sent') = Cardinality(sent) + 1 BY <1>1, <1>3, TakenFinite, OneMore, Zenon
<1>7. buf.firstSize \in Nat /\ buf.secondSize \in Nat /\ buf.lost \in Nat BY CountedType, Zenon
<1>8. ASSUME buf' \in Bufs,
             Shelf(buf'.first, buf'.firstSize, ~torn), Shelf(buf'.second, buf'.secondSize, ~torn),
             Entries(buf'.first) = Entries(buf.first) \ {e},
             Entries(buf'.second) = Entries(buf.second) \ {e},
             ~torn => Filled',
             buf'.firstSize + buf'.secondSize + buf'.lost = buf.firstSize + buf.secondSize + buf.lost - 1
      PROVE  Shelves' /\ Whole'
  <2>1. Entries(buf'.first) \subseteq taken' \ sent' /\ Entries(buf'.second) \subseteq taken' \ sent'
    BY <1>1, <1>4, <1>8, Zenon
  <2>2. Entries(buf'.first) \cap Entries(buf'.second) = {} BY <1>4, <1>8, Zenon
  <2>3. Shelves'
    <3>1. Shelf(buf'.first, buf'.firstSize, ~torn') /\ Shelf(buf'.second, buf'.secondSize, ~torn')
      BY <1>5, <1>8, Zenon
    <3>2. dropped' \in Nat /\ torn' \in BOOLEAN BY <1>1, <1>4, <1>5, Zenon
    <3>3. QED BY <1>8, <2>1, <2>2, <3>1, <3>2, ZenonT(30) DEF Shelves, Entries, Shelf
  <2>4. ASSUME ~torn PROVE Counted'
    <3>1. Cardinality(taken) = Cardinality(sent) + buf.firstSize + buf.secondSize + buf.lost + dropped
      BY <2>4, Zenon DEF Whole, Counted
    <3>2. buf'.firstSize \in Nat /\ buf'.secondSize \in Nat /\ buf'.lost \in Nat
      BY <1>8, ZenonT(30) DEF Bufs
    <3>3. Cardinality(taken) = Cardinality(sent') + buf'.firstSize + buf'.secondSize + buf'.lost + dropped
      BY <1>6, <1>8, <3>1, <3>2, CountedType, SMTT(30)
    <3>4. QED BY <1>1, <3>3, Zenon DEF Counted
  <2>5. QED BY <1>5, <1>8, <2>3, <2>4, Zenon DEF Whole
<1>9. CASE i < LostPos
  <2>1. i \in Slots /\ e = buf.first[i] BY <1>1, <1>9, SlotOf, Zenon
  <2>2. /\ buf'.first = [buf.first EXCEPT ![i] = Nil] /\ buf'.firstSize = buf.firstSize - 1
        /\ buf'.second = buf.second /\ buf'.secondSize = buf.secondSize /\ buf'.lost = buf.lost
        /\ buf.firstSize - 1 \in Nat => buf' \in Bufs
    <3>1. /\ WithoutSlot(i).first = [buf.first EXCEPT ![i] = Nil]
          /\ WithoutSlot(i).firstSize = buf.firstSize - 1
          /\ WithoutSlot(i).second = buf.second /\ WithoutSlot(i).secondSize = buf.secondSize
          /\ WithoutSlot(i).lost = buf.lost
          /\ buf.firstSize - 1 \in Nat => WithoutSlot(i) \in Bufs
      BY <1>4, <1>9, WithoutFields, Zenon
    <3>2. QED BY <1>1, <3>1, Zenon
  <2>3. /\ Shelf(buf'.first, buf.firstSize - 1, ~torn)
        /\ Entries(buf'.first) = Entries(buf.first) \ {e}
        /\ Halfway(buf.first, buf.firstSize, i) => Halfway(buf'.first, buf.firstSize - 1, i + 1)
    <3>1. /\ Shelf([buf.first EXCEPT ![i] = Nil], buf.firstSize - 1, ~torn)
          /\ Entries([buf.first EXCEPT ![i] = Nil]) = Entries(buf.first) \ {buf.first[i]}
          /\ Halfway(buf.first, buf.firstSize, i) =>
               Halfway([buf.first EXCEPT ![i] = Nil], buf.firstSize - 1, i + 1)
      BY <1>4, <1>5, <2>1, TakeSlot, Zenon
    <3>2. QED BY <2>1, <2>2, <3>1, ZenonT(30)
  <2>4. buf.firstSize - 1 \in Nat
    <3>1. buf.firstSize - 1 \in 0..BufferSize BY <2>3, Zenon DEF Shelf
    <3>2. QED BY <3>1, RelaySizes
  <2>5. Entries(buf'.second) = Entries(buf.second) \ {e}
    <3>1. e \in Entries(buf.first) BY <2>1, Zenon DEF Entries
    <3>2. QED BY <1>4, <2>2, <3>1, Zenon
  <2>6. ASSUME ~torn PROVE Filled'
    <3>1. Halfway(buf.first, buf.firstSize, i) /\ Settled(buf.second, buf.secondSize)
      BY <1>1, <1>9, <2>6, AtSlot, ZenonT(30)
    <3>2. Halfway(buf'.first, buf'.firstSize, i + 1) /\ Settled(buf'.second, buf'.secondSize)
      BY <2>2, <2>3, <3>1, ZenonT(30)
    <3>3. QED BY <1>1, <1>2, <1>9, <3>2, Onward, ZenonT(30)
  <2>7. buf'.firstSize + buf'.secondSize + buf'.lost = buf.firstSize + buf.secondSize + buf.lost - 1
    BY <1>7, <2>2
  <2>8. QED BY <1>4, <1>8, <2>2, <2>3, <2>4, <2>5, <2>6, <2>7, Zenon
<1>10. CASE ~(i < LostPos)
  <2>1. i - LostPos \in Slots /\ e = buf.second[i - LostPos] BY <1>1, <1>10, SlotOf, Zenon
  <2>2. /\ buf'.second = [buf.second EXCEPT ![i - LostPos] = Nil]
        /\ buf'.secondSize = buf.secondSize - 1
        /\ buf'.first = buf.first /\ buf'.firstSize = buf.firstSize /\ buf'.lost = buf.lost
        /\ buf.secondSize - 1 \in Nat => buf' \in Bufs
    <3>1. /\ WithoutSlot(i).second = [buf.second EXCEPT ![i - LostPos] = Nil]
          /\ WithoutSlot(i).secondSize = buf.secondSize - 1
          /\ WithoutSlot(i).first = buf.first /\ WithoutSlot(i).firstSize = buf.firstSize
          /\ WithoutSlot(i).lost = buf.lost
          /\ buf.secondSize - 1 \in Nat => WithoutSlot(i) \in Bufs
      BY <1>4, <1>10, WithoutFields, Zenon
    <3>2. QED BY <1>1, <3>1, Zenon
  <2>3. /\ Shelf(buf'.second, buf.secondSize - 1, ~torn)
        /\ Entries(buf'.second) = Entries(buf.second) \ {e}
        /\ Halfway(buf.second, buf.secondSize, i - LostPos) => Halfway(buf'.second, buf.secondSize - 1, (i - LostPos) + 1)
    <3>1. /\ Shelf([buf.second EXCEPT ![i - LostPos] = Nil], buf.secondSize - 1, ~torn)
          /\ Entries([buf.second EXCEPT ![i - LostPos] = Nil]) = Entries(buf.second) \ {buf.second[i - LostPos]}
          /\ Halfway(buf.second, buf.secondSize, i - LostPos) =>
               Halfway([buf.second EXCEPT ![i - LostPos] = Nil], buf.secondSize - 1, (i - LostPos) + 1)
      BY <1>4, <1>5, <2>1, TakeSlot, Zenon
    <3>2. QED BY <2>1, <2>2, <3>1, Zenon
  <2>4. buf.secondSize - 1 \in Nat
    <3>1. buf.secondSize - 1 \in 0..BufferSize BY <2>3, Zenon DEF Shelf
    <3>2. QED BY <3>1, RelaySizes
  <2>5. Entries(buf'.first) = Entries(buf.first) \ {e}
    <3>1. e \in Entries(buf.second) BY <2>1, Zenon DEF Entries
    <3>2. QED BY <1>4, <2>2, <3>1, Zenon
  <2>6. ASSUME ~torn PROVE Filled'
    <3>1. Halfway(buf.second, buf.secondSize, i - LostPos) /\ Settled(buf.first, buf.firstSize)
      BY <1>1, <1>10, <2>6, AtSlot, Zenon
    <3>2. Halfway(buf'.second, buf'.secondSize, (i - LostPos) + 1) /\ Settled(buf'.first, buf'.firstSize)
      BY <2>2, <2>3, <3>1, ZenonT(30)
    <3>3. QED BY <1>1, <1>2, <1>10, <3>2, Onward, Zenon
  <2>7. buf'.firstSize + buf'.secondSize + buf'.lost = buf.firstSize + buf.secondSize + buf.lost - 1
    BY <1>7, <2>2
  <2>8. QED BY <1>4, <1>8, <2>2, <2>3, <2>4, <2>5, <2>6, <2>7, ZenonT(30)
<1>11. QED BY <1>9, <1>10, Zenon

\* The entries lost are told of, or not; the count starts again.
LEMMA LostTold ==
  ASSUME ClientInv, Numbered, Shelves, Whole, ResendLost
  PROVE  Shelves' /\ Whole'
<1>1. /\ relay.pc = "resend" /\ relay.i = LostPos
      /\ relay' = After(LostPos, buf.lost > 0 /\ relayLink # "up")
      /\ buf' = [buf EXCEPT !.lost = 0] /\ dropped' = dropped + buf.lost
      /\ UNCHANGED <<taken, sent, torn>>
  BY Zenon DEF ResendLost
<1>2. relay'.i = LostPos + 1 /\ Resending' BY <1>1, AfterMoves, Zenon DEF ClientInv
<1>3. buf \in Bufs /\ dropped \in Nat BY Zenon DEF Shelves
<1>4. /\ buf'.first = buf.first /\ buf'.firstSize = buf.firstSize
      /\ buf'.second = buf.second /\ buf'.secondSize = buf.secondSize /\ buf'.lost = 0
      /\ buf' \in Bufs
  BY <1>1, <1>3 DEF Bufs
<1>5. dropped' \in Nat BY <1>1, CountedType
<1>6. Shelves' BY <1>1, <1>4, <1>5, Zenon DEF Shelves
<1>7. ASSUME ~torn PROVE Counted'
  <2>1. Cardinality(taken) = Cardinality(sent) + buf.firstSize + buf.secondSize + buf.lost + dropped
    BY <1>7, Zenon DEF Whole, Counted
  <2>2. Cardinality(taken) = Cardinality(sent) + buf.firstSize + buf.secondSize + 0 + (dropped + buf.lost)
    BY <2>1, CountedType
  <2>3. QED BY <1>1, <1>4, <2>2, Zenon DEF Counted
<1>8. ASSUME ~torn PROVE Filled'
  <2>1. ~(LostPos < LostPos) /\ ~(LostPos > LostPos) BY RelaySizes
  <2>2. ~InFirst /\ ~InSecond BY <1>1, <2>1, Zenon DEF InFirst, InSecond
  <2>3. Settled(buf.first, buf.firstSize) /\ Settled(buf.second, buf.secondSize)
    BY <1>8, <2>2, Zenon DEF Whole, Filled
  <2>4. buf.secondSize \in 0..BufferSize BY Zenon DEF Shelves, Shelf
  <2>5. Halfway(buf.second, buf.secondSize, 1) BY <2>3, <2>4, HalfwayStart, Zenon
  <2>6. ~(LostPos + 1 < LostPos) /\ (LostPos + 1) - LostPos = 1 /\ LostPos + 1 > LostPos
        /\ LostPos + 1 \in Positions BY RelaySizes
  <2>7. ~InFirst' /\ InSecond' BY <1>2, <2>6, Zenon DEF InFirst, InSecond, LostPos, Positions
  <2>8. Settled(buf'.first, buf'.firstSize) /\ Halfway(buf'.second, buf'.secondSize, relay'.i - LostPos)
    BY <1>2, <1>4, <2>3, <2>5, <2>6, ZenonT(30)
  <2>9. QED BY <2>7, <2>8, Zenon DEF Filled, LostPos, Halfway, Settled, Slots, Nil
<1>9. QED BY <1>1, <1>6, <1>7, <1>8, Zenon DEF Whole

\* Every step keeps the buffers.
LEMMA BuffersNext ==
  ASSUME ClientInv, Numbered, Shelves, Whole, [RelayNext]_relayVars
  PROVE  Shelves' /\ Whole'
<1>1. ASSUME UNCHANGED <<buf, taken, sent, dropped, torn>>,
             \/ ReadConnect \/ Internal \/ ResendDone \/ RelayDisconnect \/ RelayDisconnectNotify
             \/ Stop \/ UNCHANGED relay
      PROVE  Shelves' /\ Whole'
  <2>1. ~torn => Filled' BY <1>1, FilledMoves, Zenon DEF Whole
  <2>2. QED BY <1>1, <2>1, BuffersSame, Zenon
<1>2. CASE TakeEntry
  <2>1. CASE relay.connected /\ relayLink = "up" BY <1>2, <2>1, TakeSends, Zenon DEF TakeEntry
  <2>2. CASE ~(relay.connected /\ relayLink = "up") BY <1>2, <2>2, TakeBuffers, Zenon DEF TakeEntry
  <2>3. QED BY <2>1, <2>2, Zenon
<1>3. CASE ResendEntry BY <1>3, ResendsNothing, ResendFails, ResendSends, Zenon
<1>4. CASE ResendLost BY <1>4, LostTold, Zenon
<1>5. CASE Log \/ SkipEntry BY <1>1, <1>5, Zenon DEF Log, SkipEntry, history
<1>6. CASE ReadConnect \/ Internal \/ ResendDone
  BY <1>1, <1>6, Zenon DEF ReadConnect, Internal, ResendDone, history
<1>7. CASE RelayDisconnect \/ RelayDisconnectNotify \/ Stop
  BY <1>1, <1>7, Zenon DEF RelayDisconnect, RelayDisconnectNotify, Stop, history
<1>8. CASE RelayConnectOnce \/ RelayConnectNotify \/ Reconnect
  BY <1>1, <1>8, Zenon DEF RelayConnectOnce, RelayConnectNotify, Reconnect, history
<1>9. CASE ReconnectNotify \/ RelayLinkBreaks
  BY <1>1, <1>9, Zenon DEF ReconnectNotify, RelayLinkBreaks, history
<1>10. CASE UNCHANGED relayVars BY <1>1, <1>10, Zenon DEF relayVars
<1>11. QED BY <1>2, <1>3, <1>4, <1>5, <1>6, <1>7, <1>8, <1>9, <1>10, ZenonT(30) DEF RelayNext, RelayStep
-----------------------------------------------------------------------------
\* The relay starts with empty buffers and no connection.
LEMMA RelayStarts ==
  ASSUME RelayInit
  PROVE  RelayInv
<1>1. /\ logChan = <<>> /\ next = 1 /\ taken = {} /\ sent = {} /\ dropped = 0 /\ torn = FALSE
      /\ relay = [pc |-> "select", back |-> "select", i |-> 1, connected |-> FALSE]
      /\ buf = [first |-> EmptyBuf, firstSize |-> 0, second |-> EmptyBuf, secondSize |-> 0, lost |-> 0]
      /\ relayLink = "down" /\ relayChan = <<>> /\ reconnect = "idle" /\ relayMissed = FALSE
      /\ connecting = [dial |-> TRUE, notify |-> 0, made |-> 0]
  BY Zenon DEF RelayInit
<1>2. RelayPlace
  <2>1. 1 \in 1..(2 * BufferSize + 2) BY RelaySizes
  <2>2. QED BY <1>1, <2>1 DEF RelayPlace
<1>3. ClientType
  <2>1. 0 \in 0..RelayConns BY RelaySizes
  <2>2. QED BY <1>1, <2>1, Zenon DEF ClientType
<1>4. OneLink BY <1>1 DEF OneLink, Losing, LossRead
<1>5. LastIsUp BY <1>1, RelaySizes DEF LastIsUp
<1>6. Tellings
  <2>1. /\ LinkUp = 0 /\ ReconnectTells = 0 /\ RelayTells = 0 /\ Len(relayChan) = 0
        /\ connecting.notify = 0 /\ connecting.made = 0
    BY <1>1 DEF LinkUp, ReconnectTells, RelayTells
  <2>2. QED BY <1>1, <2>1, RelaySizes DEF Tellings, Untold, Tellable
<1>7. Numbered
  <2>1. Len(logChan) = 0 /\ logChan \in Seq(Nat) BY <1>1
  <2>2. QED BY <1>1, <2>1, RelaySizes, SMTT(30) DEF Numbered, Queue
<1>8. /\ buf.first = EmptyBuf /\ buf.second = EmptyBuf /\ buf.firstSize = 0 /\ buf.secondSize = 0
      /\ buf.lost = 0
  BY <1>1, Zenon
<1>9. EmptyBuf \in [Slots -> Nat] /\ \A s \in Slots : EmptyBuf[s] = Nil BY DEF EmptyBuf, Nil
<1>10. Entries(EmptyBuf) = {} BY <1>9, Zenon DEF Entries
<1>11. Cardinality({}) = 0 BY FS_EmptySet, Zenon
<1>12. 0 \in 0..BufferSize /\ 0 <= 0 BY RelaySizes
<1>13. Shelf(EmptyBuf, 0, TRUE) BY <1>9, <1>10, <1>11, <1>12, ZenonT(30) DEF Shelf
<1>14. buf \in Bufs BY <1>1, <1>9 DEF Bufs
<1>15. Shelves BY <1>1, <1>8, <1>10, <1>13, <1>14, Zenon DEF Shelves
<1>16. Settled(EmptyBuf, 0)
  <2>1. \A s \in Slots : ~(s <= 0) BY RelaySizes
  <2>2. QED BY <1>9, <2>1, Zenon DEF Settled
<1>17. ~Resending BY <1>1 DEF Resending
<1>18. Whole
  <2>1. Filled BY <1>8, <1>16, <1>17, ZenonT(30) DEF Filled, InFirst, InSecond
  <2>2. Counted BY <1>1, <1>8, <1>11, SMTT(30) DEF Counted
  <2>3. QED BY <2>1, <2>2, Zenon DEF Whole
<1>19. next \in Nat BY <1>1
<1>20. QED BY <1>2, <1>3, <1>4, <1>5, <1>6, <1>7, <1>15, <1>18, <1>19, ZenonT(30) DEF RelayInv, ClientInv

\* The invariant holds from the start on.
LEMMA RelayInvAlways == RelaySpec => []RelayInv
<1>1. RelayInit => RelayInv BY RelayStarts
<1>2. RelayInv /\ [RelayNext]_relayVars => RelayInv'
  <2> SUFFICES ASSUME RelayInv, [RelayNext]_relayVars PROVE RelayInv' BY Zenon
  <2>1. ClientInv /\ Numbered /\ Shelves /\ Whole BY Zenon DEF RelayInv
  <2>2. ClientInv' BY <2>1, ClientNext, Zenon
  <2>3. Numbered' BY <2>1, NumberedNext, Zenon
  <2>4. Shelves' /\ Whole' BY <2>1, BuffersNext, Zenon
  <2>5. QED BY <2>2, <2>3, <2>4, Zenon DEF RelayInv
<1>3. QED BY <1>1, <1>2, PTL DEF RelaySpec

\* What is in the buffers, one buffer at a time.
LEMMA BufferedEntries == Buffered = Entries(buf.first) \cup Entries(buf.second)
<1>1. ASSUME NEW e PROVE e \in Buffered <=> e \in Entries(buf.first) \/ e \in Entries(buf.second)
  <2>1. e \in Buffered <=> (\E b \in {buf.first, buf.second} : \E s \in Slots : e = b[s]) /\ e # Nil
    BY DEF Buffered
  <2>2. QED BY <2>1, Zenon DEF Entries
<1>2. QED BY <1>1, Zenon

\* Numbers of entries stay within their bound: internal() makes at most two for
\* each connection.
LEMMA EntryBound ==
  ASSUME RelayInv
  PROVE  next - 1 <= MaxEntries + 2 * RelayConns /\ next \in Nat \ {0} /\ connecting.notify \in 0..RelayConns
<1>1. /\ connecting.notify \in Nat /\ connecting.made \in 0..RelayConns
      /\ relayChan \in {<<>>, <<TRUE>>, <<FALSE>>}
      /\ Tellings /\ next \in Nat \ {0}
  BY Zenon DEF RelayInv, ClientInv, ClientType, Numbered
<1>2. Len(relayChan) \in 0..1 BY ChanLength, Zenon DEF RelayInv, ClientInv
<1>3. LinkUp \in 0..1 /\ ReconnectTells \in 0..1 /\ RelayTells \in 0..1
  BY DEF LinkUp, ReconnectTells, RelayTells
<1>4. /\ connecting.notify <= connecting.made
      /\ next + (connecting.notify + Len(relayChan) + ReconnectTells + RelayTells)
           <= MaxEntries + 1 + (2 * connecting.made - LinkUp)
  BY <1>1, Zenon DEF Tellings, Untold, Tellable
<1>5. \A n, m, l, u, r, t \in Nat :
        /\ n <= m /\ m <= RelayConns
        /\ next + (n + l + r + t) <= MaxEntries + 1 + (2 * m - u)
        => next - 1 <= MaxEntries + 2 * RelayConns /\ n \in 0..RelayConns
  BY <1>1, RelaySizes
<1>6. /\ Len(relayChan) \in Nat /\ LinkUp \in Nat /\ ReconnectTells \in Nat /\ RelayTells \in Nat
      /\ connecting.made \in Nat /\ connecting.made <= RelayConns
  BY <1>1, <1>2, <1>3, RelaySizes
<1>7. QED BY <1>1, <1>4, <1>5, <1>6, Zenon

\* A channel of numbers that are all entries.
LEMMA ChanOf ==
  ASSUME NEW S, NEW q \in Seq(Nat), \A k \in 1..Len(q) : q[k] \in S
  PROVE  q \in Seq(S)
OBVIOUS

\* A buffer's slots hold numbers of entries taken, or nothing.
LEMMA SlotsOf ==
  ASSUME NEW b \in [Slots -> Nat], NEW S, Nil \in S, Entries(b) \subseteq S
  PROVE  b \in [Slots -> S]
<1>1. ASSUME NEW s \in Slots PROVE b[s] \in S
  <2>1. CASE b[s] = Nil BY <2>1, Zenon
  <2>2. CASE b[s] # Nil
    <3>1. b[s] \in Entries(b) BY <2>2, Zenon DEF Entries
    <3>2. QED BY <3>1, Zenon
  <2>3. QED BY <2>1, <2>2, Zenon
<1>2. QED BY <1>1

\* The invariant has the type invariant in it.
LEMMA RelayTyped == RelayInv => RelayTypeOK
<1> SUFFICES ASSUME RelayInv PROVE RelayTypeOK BY Zenon
<1> DEFINE Entry == 0..(MaxEntries + 2 * RelayConns)
<1>1. /\ ClientInv /\ Numbered /\ Shelves BY Zenon DEF RelayInv
<1>2. /\ next - 1 <= MaxEntries + 2 * RelayConns /\ next \in Nat \ {0}
      /\ connecting.notify \in 0..RelayConns
  BY EntryBound, Zenon
<1>3. 1..(next - 1) \subseteq Entry /\ Nil \in Entry BY <1>2, RelaySizes
<1> HIDE DEF Entry
<1>4. logChan \in Seq(Entry) /\ Len(logChan) <= ChanSize
  <2>1. logChan \in Seq(Nat) /\ Len(logChan) <= ChanSize /\ \A k \in 1..Len(logChan) : logChan[k] \in 1..(next - 1)
    BY <1>1, Zenon DEF Numbered, Queue
  <2>2. \A k \in 1..Len(logChan) : logChan[k] \in Entry BY <1>3, <2>1, Zenon
  <2>3. QED BY <2>1, <2>2, ChanOf, Zenon
<1>5. buf.first \in [Slots -> Entry] /\ buf.second \in [Slots -> Entry]
  <2>1. /\ buf.first \in [Slots -> Nat] /\ buf.second \in [Slots -> Nat]
        /\ Entries(buf.first) \subseteq taken /\ Entries(buf.second) \subseteq taken
    BY <1>1, Zenon DEF Shelves, Shelf
  <2>2. taken \subseteq Entry BY <1>1, <1>3, Zenon DEF Numbered
  <2>3. Entries(buf.first) \subseteq Entry /\ Entries(buf.second) \subseteq Entry
    BY <2>1, <2>2, Zenon
  <2>4. QED BY <1>3, <2>1, <2>3, SlotsOf, Zenon
<1>6. buf \in [first : [Slots -> Entry], firstSize : 0..BufferSize,
               second : [Slots -> Entry], secondSize : 0..BufferSize, lost : Nat]
  <2>1. buf \in [first : [Slots -> Nat], firstSize : Nat, second : [Slots -> Nat], secondSize : Nat, lost : Nat]
    BY <1>1, Zenon DEF Shelves, Bufs
  <2>2. buf.firstSize \in 0..BufferSize /\ buf.secondSize \in 0..BufferSize
    BY <1>1, Zenon DEF Shelves, Shelf
  <2>3. QED BY <1>5, <2>1, <2>2
<1>7. connecting \in [dial : BOOLEAN, notify : 0..RelayConns, made : 0..RelayConns]
  <2>1. connecting \in [dial : BOOLEAN, notify : Nat, made : 0..RelayConns]
    BY <1>1, Zenon DEF ClientInv, ClientType
  <2>2. QED BY <1>2, <2>1
<1>8. /\ relay.pc \in {"select", "internal", "resend", "disc", "notify", "stopped"}
      /\ relay.back \in {"select", "resend"} /\ relay.i \in 1..(2 * BufferSize + 2)
      /\ relay.connected \in BOOLEAN
  BY <1>1, Zenon DEF ClientInv, RelayPlace
<1>9. /\ relayLink \in {"up", "broken", "down"} /\ relayChan \in {<<>>, <<TRUE>>, <<FALSE>>}
      /\ reconnect \in {"idle", "notify"} /\ relayMissed \in BOOLEAN /\ dropped \in Nat
      /\ torn \in BOOLEAN
  BY <1>1, Zenon DEF ClientInv, ClientType, Shelves
<1>10. QED BY <1>2, <1>4, <1>6, <1>7, <1>8, <1>9, ZenonT(30) DEF RelayTypeOK, Entry

\* send and resend(): whatever fails and however often the relay reconnects, no
\* entry stays in a buffer once it is sent, and none is in two slots.  So no entry
\* reaches the API twice.
THEOREM EntriesSentOnce == RelaySpec => []SentOnce
<1>1. RelayInv => SentOnce
  <2> SUFFICES ASSUME RelayInv PROVE SentOnce BY Zenon
  <2>1. RelayTypeOK BY RelayTyped, Zenon
  <2>2. Shelves BY Zenon DEF RelayInv
  <2>3. Buffered \cap sent = {} BY <2>2, BufferedEntries, Zenon DEF Shelves
  <2>4. ASSUME NEW s \in Slots, NEW t \in Slots, buf.first[s] # Nil PROVE buf.first[s] # buf.second[t]
    <3>1. SUFFICES ASSUME buf.first[s] = buf.second[t] PROVE FALSE BY Zenon
    <3>2. buf.first[s] \in Entries(buf.first) BY <2>4, Zenon DEF Entries
    <3>3. buf.second[t] \in Entries(buf.second) BY <2>4, <3>1, Zenon DEF Entries
    <3>4. QED BY <2>2, <3>1, <3>2, <3>3, Zenon DEF Shelves
  <2>5. ASSUME NEW s \in Slots, NEW t \in Slots, s # t
        PROVE  /\ buf.first[s] = buf.first[t] => buf.first[s] = Nil
               /\ buf.second[s] = buf.second[t] => buf.second[s] = Nil
    BY <2>2, <2>5, ZenonT(30) DEF Shelves, Shelf
  <2>6. QED BY <2>1, <2>3, <2>4, <2>5, ZenonT(30) DEF SentOnce
<1>2. QED BY <1>1, RelayInvAlways, PTL

\* buffer and resend(): unless a resend() was cut short after it sent part of a
\* buffer, every entry for the API is sent, in a buffer or in the count of lost ones.
THEOREM EntriesAccounted == RelaySpec => []AccountedUnlessTorn
<1>1. RelayInv => AccountedUnlessTorn
  <2> SUFFICES ASSUME RelayInv, ~torn PROVE Cardinality(taken) = Tally BY Zenon DEF AccountedUnlessTorn
  <2>1. Shelves /\ Counted /\ Numbered BY Zenon DEF RelayInv, Whole
  <2>2. /\ buf.first \in [Slots -> Nat] /\ buf.second \in [Slots -> Nat]
        /\ Cardinality(Entries(buf.first)) = buf.firstSize
        /\ Cardinality(Entries(buf.second)) = buf.secondSize
        /\ Entries(buf.first) \cap Entries(buf.second) = {}
    BY <2>1, Zenon DEF Shelves, Shelf
  <2>3. IsFiniteSet(Entries(buf.first)) /\ IsFiniteSet(Entries(buf.second))
    BY <2>2, EntriesFinite, Zenon
  <2>4. Cardinality(Entries(buf.first) \cup Entries(buf.second))
          = Cardinality(Entries(buf.first)) + Cardinality(Entries(buf.second))
            - Cardinality(Entries(buf.first) \cap Entries(buf.second))
    BY <2>3, FS_Union, Zenon
  <2>5. Cardinality({}) = 0 BY FS_EmptySet, Zenon
  <2>6. Cardinality(Buffered) = buf.firstSize + buf.secondSize - 0
    BY <2>2, <2>4, <2>5, BufferedEntries, Zenon
  <2>7. QED BY <2>1, <2>6, CountedType DEF Tally, Counted
<1>2. QED BY <1>1, RelayInvAlways, PTL
=============================================================================
