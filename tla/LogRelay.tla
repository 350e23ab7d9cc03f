------------------------------ MODULE LogRelay ------------------------------
(***************************************************************************)
(* The log relay (log/relay.go): Run() takes log entries from logChan,     *)
(* sends them to the API while it is connected and keeps them in two       *)
(* buffers while it is not.  Its websocket client is not Start()ed, so     *)
(* only the relay, the Connect goroutines it starts and the command        *)
(* Reconnect of log/manager.go use it: the client here is WsClient seen    *)
(* from its callers.                                                       *)
(*                                                                         *)
(* An entry is its number.  Log levels decide only what goes to stdout and *)
(* which entries the API never gets; the latter is a choice in TakeEntry.  *)
(* Names that WsClient has too begin with Relay here.                      *)
(***************************************************************************)
EXTENDS Integers, Sequences, FiniteSets

CONSTANTS BufferSize,   \* BUFFER_SIZE
          ChanSize,     \* capacity of logChan
          MaxEntries,   \* bound: entries logged by the agent's loggers
          RelayConns    \* bound: the last connection never fails

ASSUME LogRelayAssumption ==
  {BufferSize, ChanSize, MaxEntries, RelayConns} \subseteq Nat \ {0}

VARIABLES
  logChan, next,      \* the channel of all loggers; the next entry's number
  relay,              \* Run(): [pc, back, i, connected], back after Disconnect
  buf,                \* firstBuf, secondBuf, their sizes, and lost
  relayLink,          \* the client's connection: up, broken, or down (~connected)
  relayChan,          \* its ConnectChan
  connecting,         \* Connect goroutines: [dial, notify, made]
  reconnect,          \* Handle(Reconnect): idle, or in notifyConnect holding mux
  taken, sent, dropped, \* history: entries for the API, sent, told as lost,
  torn, relayMissed     \* a buffer was sent in part; a notification timed out

relayVars == <<logChan, next, relay, buf, relayLink, relayChan, connecting, reconnect,
               taken, sent, dropped, torn, relayMissed>>
client == <<relayLink, relayChan, connecting, reconnect>>
history == <<taken, sent, dropped, torn>>

Nil == 0
Slots == 1..BufferSize
EmptyBuf == [s \in Slots |-> Nil]
Buffered == {b[s] : b \in {buf.first, buf.second}, s \in Slots} \ {Nil}

MayFail == connecting.made < RelayConns
-----------------------------------------------------------------------------
\* Mutant: a full secondBuf is thrown away without a count.
BufferUncounted(e) ==
  IF buf.firstSize < BufferSize
  THEN [buf EXCEPT !.first[buf.firstSize + 1] = e, !.firstSize = @ + 1]
  ELSE IF buf.secondSize < BufferSize
  THEN [buf EXCEPT !.second[buf.secondSize + 1] = e, !.secondSize = @ + 1]
  ELSE [buf EXCEPT !.second = [EmptyBuf EXCEPT ![1] = e], !.secondSize = 1]

\* buffer(e): firstBuf, then secondBuf, then secondBuf again from its start.
Buffer(e) ==
  IF buf.firstSize < BufferSize
  THEN [buf EXCEPT !.first[buf.firstSize + 1] = e, !.firstSize = @ + 1]
  ELSE IF buf.secondSize < BufferSize
  THEN [buf EXCEPT !.second[buf.secondSize + 1] = e, !.secondSize = @ + 1]
  ELSE [buf EXCEPT !.second = [EmptyBuf EXCEPT ![1] = e], !.secondSize = 1,
                   !.lost = @ + buf.secondSize]

\* pct.Logger: an entry is dropped when logChan is full.
Log ==
  /\ next <= MaxEntries
  /\ next' = next + 1
  /\ logChan' = IF Len(logChan) < ChanSize THEN Append(logChan, next) ELSE logChan
  /\ UNCHANGED <<relay, buf, client, history, relayMissed>>

\* An entry of level debug, or marked offline, is not for the API.
SkipEntry ==
  /\ relay.pc = "select" /\ logChan # <<>>
  /\ logChan' = Tail(logChan)
  /\ UNCHANGED <<next, relay, buf, client, history, relayMissed>>

\* send(entry, true).
TakeEntry ==
  /\ relay.pc = "select" /\ logChan # <<>>
  /\ logChan' = Tail(logChan) /\ taken' = taken \cup {Head(logChan)}
  /\ IF relay.connected /\ relayLink = "up"
     THEN sent' = sent \cup {Head(logChan)} /\ UNCHANGED <<buf, relay>>
     ELSE /\ buf' = Buffer(Head(logChan)) /\ UNCHANGED sent
          /\ relay' = IF relay.connected THEN [relay EXCEPT !.pc = "disc", !.back = "select"]
                      ELSE relay
  /\ UNCHANGED <<next, client, dropped, torn, relayMissed>>

\* Run() reads ConnectChan.
ReadConnect ==
  /\ relay.pc = "select" /\ relayChan # <<>>
  /\ relay' = [relay EXCEPT !.pc = "internal", !.connected = Head(relayChan)]
  /\ relayChan' = Tail(relayChan)
  /\ UNCHANGED <<logChan, next, buf, relayLink, connecting, reconnect, history, relayMissed>>

\* internal(): the relay sends to the channel that only it reads.
Internal ==
  /\ relay.pc = "internal" /\ Len(logChan) < ChanSize
  /\ logChan' = Append(logChan, next) /\ next' = next + 1
  /\ IF relay.connected
     THEN relay' = [relay EXCEPT !.pc = "resend", !.i = 1] /\ UNCHANGED connecting
     ELSE relay' = [relay EXCEPT !.pc = "select"] /\ connecting' = [connecting EXCEPT !.dial = TRUE]
  /\ UNCHANGED <<buf, relayLink, relayChan, reconnect, history, relayMissed>>
-----------------------------------------------------------------------------
(***************************************************************************)
(* resend(): the slots of firstBuf, the count of lost entries, the slots   *)
(* of secondBuf.  A send that fails calls Disconnect and goes on.          *)
(***************************************************************************)
Positions == 1..(2 * BufferSize + 1)
LostPos == BufferSize + 1
InSlot(i) == IF i < LostPos THEN buf.first[i] ELSE buf.second[i - LostPos]

\* A slot before i in the same buffer is empty.
HoleBefore(i) == \E j \in 1..(i - 1) : j # LostPos /\ (j < LostPos <=> i < LostPos) /\ InSlot(j) = Nil

\* Mutant: a sent entry stays in its slot.
WithoutSlotKeeps(i) ==
  IF i < LostPos THEN [buf EXCEPT !.firstSize = @ - 1]
  ELSE [buf EXCEPT !.secondSize = @ - 1]

WithoutSlot(i) ==
  IF i < LostPos THEN [buf EXCEPT !.first[i] = Nil, !.firstSize = @ - 1]
  ELSE [buf EXCEPT !.second[i - LostPos] = Nil, !.secondSize = @ - 1]

\* Where resend() is once position i is done with.
After(i, failed) ==
  [relay EXCEPT !.pc = IF failed THEN "disc" ELSE "resend", !.back = "resend", !.i = i + 1]

ResendEntry ==
  LET i == relay.i IN
  /\ relay.pc = "resend" /\ i \in Positions \ {LostPos}
  /\ IF InSlot(i) = Nil
     THEN relay' = After(i, FALSE) /\ UNCHANGED <<buf, sent>>
     ELSE /\ relay' = After(i, relayLink # "up")
          /\ IF relayLink = "up" THEN buf' = WithoutSlot(i) /\ sent' = sent \cup {InSlot(i)}
                            ELSE UNCHANGED <<buf, sent>>
  /\ torn' = (torn \/ (InSlot(i) # Nil /\ relayLink # "up" /\ HoleBefore(i)))
  /\ UNCHANGED <<logChan, next, client, taken, dropped, relayMissed>>

\* The warning is sent, or not; lost is reset.
ResendLost ==
  /\ relay.pc = "resend" /\ relay.i = LostPos
  /\ relay' = After(LostPos, buf.lost > 0 /\ relayLink # "up")
  /\ buf' = [buf EXCEPT !.lost = 0] /\ dropped' = dropped + buf.lost
  /\ UNCHANGED <<logChan, next, client, taken, sent, torn, relayMissed>>

ResendDone ==
  /\ relay.pc = "resend" /\ relay.i \notin Positions
  /\ relay' = [relay EXCEPT !.pc = "select", !.back = "select"]
  /\ UNCHANGED <<logChan, next, buf, client, history, relayMissed>>
-----------------------------------------------------------------------------
\* client.Disconnect() in the relay: it needs mux, then notifies itself.
RelayDisconnect ==
  /\ relay.pc = "disc" /\ reconnect = "idle"
  /\ relay' = [relay EXCEPT !.pc = IF relayLink = "down" THEN relay.back ELSE "notify"]
  /\ relayLink' = "down"
  /\ UNCHANGED <<logChan, next, buf, relayChan, connecting, reconnect, history, relayMissed>>

\* Mutant: the relay does not notify.
DisconnectQuiet ==
  /\ relay.pc = "notify"
  /\ relay' = [relay EXCEPT !.pc = relay.back]
  /\ UNCHANGED <<logChan, next, buf, client, history, relayMissed>>

\* notifyConnect(false) in the relay: when relayChan is full only the timeout can end it.
RelayDisconnectNotify ==
  /\ relay.pc = "notify"
  /\ IF relayChan = <<>> THEN relayChan' = <<FALSE>> /\ UNCHANGED relayMissed
     ELSE relayMissed' = TRUE /\ UNCHANGED relayChan
  /\ relay' = [relay EXCEPT !.pc = relay.back]
  /\ UNCHANGED <<logChan, next, buf, relayLink, connecting, reconnect, history>>

\* The relay may stay away from relayChan for 20 s: it waits for mux, for room in
\* a channel, sends one buffered entry after the other, or has returned.
Away ==
  \/ relay.pc \in {"notify", "stopped"}
  \/ relay.pc = "disc" /\ reconnect = "notify"
  \/ relay.pc = "internal" /\ Len(logChan) = ChanSize
  \/ relay.pc = "resend" /\ relayLink = "up"

\* Another goroutine's notifyConnect.
Notify(b) ==
  \/ relayChan = <<>> /\ relayChan' = <<b>> /\ UNCHANGED relayMissed
  \/ relayChan # <<>> /\ Away /\ relayMissed' = TRUE /\ UNCHANGED relayChan

\* Bound: no Disconnect after an error of an older connection is pending when
\* the last connection is made, for it would close that one.
RelayConnectOnce ==
  /\ connecting.dial /\ reconnect = "idle" /\ relay.pc # "notify"
  /\ connecting.made + 1 = RelayConns => relay.pc # "disc"
  /\ relayLink' = "up"
  /\ connecting' = [dial |-> FALSE, notify |-> connecting.notify + 1, made |-> connecting.made + 1]
  /\ UNCHANGED <<logChan, next, relay, buf, relayChan, reconnect, history, relayMissed>>

RelayConnectNotify ==
  /\ connecting.notify > 0 /\ Notify(TRUE)
  /\ connecting' = [connecting EXCEPT !.notify = @ - 1]
  /\ UNCHANGED <<logChan, next, relay, buf, relayLink, reconnect, history>>

\* Handle(Reconnect) of the log manager.
Reconnect ==
  /\ MayFail
  /\ reconnect = "idle" /\ relay.pc # "notify" /\ relayLink # "down"
  /\ relayLink' = "down" /\ reconnect' = "notify"
  /\ UNCHANGED <<logChan, next, relay, buf, relayChan, connecting, history, relayMissed>>

ReconnectNotify ==
  /\ reconnect = "notify" /\ Notify(FALSE)
  /\ reconnect' = "idle"
  /\ UNCHANGED <<logChan, next, relay, buf, relayLink, connecting, history>>

\* External: the connection fails.
RelayLinkBreaks ==
  /\ MayFail /\ relayLink = "up" /\ relayLink' = "broken"
  /\ UNCHANGED <<logChan, next, relay, buf, relayChan, connecting, reconnect, history, relayMissed>>

\* Stop closes stopChan; Run() returns.
Stop ==
  /\ relay.pc = "select"
  /\ relay' = [relay EXCEPT !.pc = "stopped"]
  /\ UNCHANGED <<logChan, next, buf, client, history, relayMissed>>
-----------------------------------------------------------------------------
RelayInit ==
  /\ logChan = <<>> /\ next = 1
  /\ relay = [pc |-> "select", back |-> "select", i |-> 1, connected |-> FALSE]
  /\ buf = [first |-> EmptyBuf, firstSize |-> 0, second |-> EmptyBuf, secondSize |-> 0, lost |-> 0]
  /\ relayLink = "down" /\ relayChan = <<>>
  /\ connecting = [dial |-> TRUE, notify |-> 0, made |-> 0]
  /\ reconnect = "idle" /\ taken = {} /\ sent = {} /\ dropped = 0
  /\ torn = FALSE /\ relayMissed = FALSE

RelayStep ==
  \/ SkipEntry \/ TakeEntry \/ ReadConnect \/ Internal
  \/ ResendEntry \/ ResendLost \/ ResendDone
  \/ RelayDisconnect \/ RelayDisconnectNotify

RelayNext ==
  \/ Log \/ RelayStep \/ Stop
  \/ RelayConnectOnce \/ RelayConnectNotify \/ Reconnect \/ ReconnectNotify
  \/ RelayLinkBreaks

\* Run() and the goroutines of the client run; dialling does not fail for ever.
RelayFairness ==
  /\ WF_relayVars(RelayStep) /\ WF_relayVars(RelayConnectOnce)
  /\ WF_relayVars(RelayConnectNotify) /\ WF_relayVars(ReconnectNotify)

RelaySpec == RelayInit /\ [][RelayNext]_relayVars /\ RelayFairness
-----------------------------------------------------------------------------
\* The types of the fields of Relay: sizes stay within the buffers.
RelayTypeOK ==
  LET Entry == 0..(MaxEntries + 2 * RelayConns) IN
  /\ logChan \in Seq(Entry) /\ Len(logChan) <= ChanSize /\ next \in Nat \ {0}
  /\ relay.pc \in {"select", "internal", "resend", "disc", "notify", "stopped"}
  /\ relay.back \in {"select", "resend"} /\ relay.i \in 1..(2 * BufferSize + 2)
  /\ relay.connected \in BOOLEAN
  /\ buf \in [first : [Slots -> Entry], firstSize : 0..BufferSize,
              second : [Slots -> Entry], secondSize : 0..BufferSize, lost : Nat]
  /\ relayLink \in {"up", "broken", "down"} /\ relayChan \in {<<>>, <<TRUE>>, <<FALSE>>}
  /\ connecting \in [dial : BOOLEAN, notify : 0..RelayConns, made : 0..RelayConns]
  /\ reconnect \in {"idle", "notify"} /\ dropped \in Nat
  /\ torn \in BOOLEAN /\ relayMissed \in BOOLEAN

\* No entry is kept once it is sent, nor in two slots: resend() never sends an
\* entry twice, whatever it could not send before.  Also, no index leaves its
\* buffer (RelayTypeOK).
SentOnce ==
  /\ RelayTypeOK
  /\ Buffered \cap sent = {}
  /\ \A s, t \in Slots :
       /\ buf.first[s] # Nil => buf.first[s] # buf.second[t]
       /\ s # t => /\ buf.first[s] = buf.first[t] => buf.first[s] = Nil
                   /\ buf.second[s] = buf.second[t] => buf.second[s] = Nil

Tally == Cardinality(sent) + Cardinality(Buffered) + buf.lost + dropped

\* "a tally of how many we've had to drop": every entry is sent, in a buffer or
\* counted as lost, unless a resend() was cut short after part of a buffer: then
\* entries behind the holes may be overwritten uncounted (buffer, resend).
AccountedUnlessTorn == torn \/ Cardinality(taken) = Tally

\* "Send log entries we saved while offline": when connections stop failing the
\* buffers run empty.  Only three things keep the relay from it: it is stopped; it
\* waits for room in the channel that only it reads; a notification was dropped (Run).
BuffersDrain ==
  <>[](\/ Buffered = {} \/ relay.pc = "stopped" \/ relayMissed
       \/ (relay.pc = "internal" /\ Len(logChan) = ChanSize))
=============================================================================
