---------------------------- MODULE AgentProofs ----------------------------
(***************************************************************************)
(* For every number of commands, every size of the queues and every limit: *)
(* a command is answered once, no token is lost or made, and stop() finds  *)
(* no command in flight when it stops the services.                        *)
(***************************************************************************)
EXTENDS Agent, FiniteSetTheorems, TLAPS

USE DEF vars, main, queues, client, out, Handlers, Received, Pong

\* The places of Run() at which it has a command in hand that it has to answer.
Owing == {"reply", "restart", "stopCmd", "waitCmd", "services", "stopStatus", "waitStatus", "stopReply"}

\* What Run() has in hand, it has not answered; of a Restart, an answer is left.
RunOwes ==
  run.pc \in Owing =>
    /\ run.cmd \in Received /\ cmd[run.cmd].pc = "run"
    /\ run.pc # "restart" => replied[run.cmd] = 0
    /\ run.pc = "restart" =>
         cmd[run.cmd].kind = "Restart" /\ run.owes >= 1 /\ replied[run.cmd] + run.owes <= 3

\* No command is answered before somebody answers it.
Unanswered ==
  /\ \A i \in (1..MaxCmds) \ Received : replied[i] = 0
  /\ \A i \in Received :
       /\ cmd[i].pc \in {"queued", "slot", "wait", "reply", "status"} => replied[i] = 0
       /\ cmd[i].pc = "run" => replied[i] = 0 \/ cmd[i].kind = "Restart"

\* And once by who does.
AnsweredOnce ==
  \A i \in Received : cmd[i].kind # "Restart" =>
    /\ replied[i] <= 1
    /\ cmd[i].pc \in {"release", "peek", "hold", "end"} => replied[i] = 1 \/ cmd[i].kind = "Reconnect"

\* The commands in the queue of a handler wait there, each once.
InQueue(chan, kinds) ==
  /\ \A k \in 1..Len(chan) : cmd[chan[k]].pc = "queued" /\ cmd[chan[k]].kind \in kinds
  /\ \A k, l \in 1..Len(chan) : chan[k] = chan[l] => k = l

Queued == InQueue(cmdChan, {"Work", "Reconnect"}) /\ InQueue(statusChan, {"Status"})

\* cmdHandler ends with nothing in flight, and Run() knows of its end by DoneChan.
Quiet ==
  /\ handler["cmd"] = "dead" => InFlight = {}
  /\ sync["cmd"].done => handler["cmd"] = "dead"
  /\ run.pc \in {"services", "stopStatus", "waitStatus", "stopReply"} => handler["cmd"] = "dead"

\* Run() counts no crash of statusHandler that was no panic.
Crashes ==
  /\ sync["status"].crash => handler["status"] = "dead" /\ ~sync["status"].graceful
  /\ sync["status"].graceful => handler["status"] \in {"done", "dead"}
  /\ errors <= panics
  /\ sync["status"].crash \/ (handler["status"] = "done" /\ ~sync["status"].graceful) => errors < panics

Holding == {i \in Received : cmd[i].pc = "hold"}

\* A token in the queue, or in the hand of a finishing command, for each one in flight.
TokensMatch == tokens + Cardinality(Holding) = Cardinality(InFlight)

Inv == TypeOK /\ RunOwes /\ Unanswered /\ AnsweredOnce /\ Queued /\ Quiet /\ Crashes /\ TokensMatch
-----------------------------------------------------------------------------
CmdPcs == {"run", "queued", "slot", "wait", "reply", "release", "peek", "hold", "status", "dropped", "end"}
Flying == {"wait", "reply", "release"}

RunRec == [pc : Owing \cup {"select", "ended"}, cmd : 0..MaxCmds, owes : 0..3]
HandlerPcs == {"select", "slot", "reply", "done", "dead"}
SyncRec == [graceful : BOOLEAN, crash : BOOLEAN, done : BOOLEAN]

\* The commands have their type.
CmdType == cmd \in Seq([kind : Kinds, pc : CmdPcs]) /\ Len(cmd) <= MaxCmds

\* The type invariant but for the commands and the queues.
RestType ==
  /\ run \in RunRec
  /\ connected \in BOOLEAN /\ errors \in 0..MaxPanics
  /\ tokens \in 0..Limit /\ sendChan \in 0..SendBuffer
  /\ handler \in [Handlers -> HandlerPcs]
  /\ sync \in [Handlers -> SyncRec]
  /\ link \in {"connecting", "up", "down"} /\ connectChan \in Seq(BOOLEAN) /\ Len(connectChan) <= 1
  /\ replied \in [1..MaxCmds -> 0..3]
  /\ panics \in 0..MaxPanics /\ fails \in 0..MaxFails

QueueType ==
  /\ cmdChan \in Seq(Received) /\ Len(cmdChan) <= CmdQueue
  /\ statusChan \in Seq(Received) /\ Len(statusChan) <= StatusQueue

\* What is used of sequences: elements, and what Append, Tail and EXCEPT do.
LEMMA SeqElement ==
  ASSUME NEW S, NEW s \in Seq(S)
  PROVE  Len(s) \in Nat /\ DOMAIN s = 1..Len(s) /\ \A k \in 1..Len(s) : s[k] \in S
OBVIOUS

\* A sequence stays one over a larger set.
LEMMA SeqLarger == \A S, T : S \subseteq T => Seq(S) \subseteq Seq(T)
OBVIOUS

\* One element of a sequence changes.
LEMMA SeqExcept ==
  ASSUME NEW S, NEW s \in Seq(S), NEW i \in 1..Len(s), NEW e \in S
  PROVE  /\ [s EXCEPT ![i] = e] \in Seq(S) /\ Len([s EXCEPT ![i] = e]) = Len(s)
         /\ \A k \in 1..Len(s) : [s EXCEPT ![i] = e][k] = IF k = i THEN e ELSE s[k]
OBVIOUS

\* An element is put at the end.
LEMMA SeqAppend ==
  ASSUME NEW S, NEW s \in Seq(S), NEW e \in S
  PROVE  /\ Append(s, e) \in Seq(S) /\ Len(Append(s, e)) = Len(s) + 1
         /\ \A k \in 1..Len(s) : Append(s, e)[k] = s[k]
         /\ Append(s, e)[Len(s) + 1] = e
OBVIOUS

\* The first element is taken away.
LEMMA SeqTail ==
  ASSUME NEW S, NEW s \in Seq(S), s # <<>>
  PROVE  /\ Head(s) \in S /\ Head(s) = s[1] /\ Len(s) \in Nat \ {0}
         /\ Tail(s) \in Seq(S) /\ Len(Tail(s)) = Len(s) - 1
         /\ \A k \in 1..Len(Tail(s)) : Tail(s)[k] = s[k + 1]
OBVIOUS

\* The parts make the whole.
LEMMA TypeParts == /\ TypeOK <=> CmdType /\ RestType /\ QueueType
                   /\ TypeOK' <=> CmdType' /\ RestType' /\ QueueType'
BY DEF TypeOK, CmdType, RestType, QueueType, CmdPcs, RunRec, Owing, HandlerPcs, SyncRec

\* The bounds are numbers.
LEMMA Bounds ==
  /\ MaxCmds \in Nat \ {0} /\ Limit \in Nat \ {0} /\ CmdQueue \in Nat \ {0} /\ StatusQueue \in Nat \ {0}
  /\ SendBuffer \in Nat \ {0} /\ MaxErrors \in Nat \ {0} /\ MaxPanics \in Nat /\ MaxFails \in Nat
BY AgentAssumption

\* Commands are numbered from 1.
LEMMA Numbered ==
  ASSUME CmdType
  PROVE  Len(cmd) \in Nat /\ Received = 1..Len(cmd) /\ Received \subseteq 1..MaxCmds
<1>1. Len(cmd) \in Nat /\ Received = 1..Len(cmd)
  BY SeqElement DEF CmdType
<1> QED
  BY <1>1, Bounds DEF CmdType

\* A command that goes on keeps its kind, and disturbs no other command.
LEMMA GotoCmd ==
  ASSUME CmdType, NEW i \in Received, NEW p \in CmdPcs, Goto(i, p)
  PROVE  /\ CmdType' /\ Received' = Received
         /\ \A j \in Received : cmd'[j].kind = cmd[j].kind /\ cmd'[j].pc = IF j = i THEN p ELSE cmd[j].pc
<1> DEFINE R == [kind : Kinds, pc : CmdPcs]
           e == [cmd[i] EXCEPT !.pc = p]
<1>1. cmd \in Seq(R) /\ Len(cmd) <= MaxCmds /\ i \in 1..Len(cmd) /\ Received = 1..Len(cmd)
  BY DEF CmdType
<1>2. cmd[i] \in R
  <2> HIDE DEF R
  <2> QED
    BY <1>1, SeqElement
<1>3. e \in R /\ e.kind = cmd[i].kind /\ e.pc = p
  BY <1>2
<1>4. cmd' = [cmd EXCEPT ![i] = e]
  BY DEF Goto
<1> HIDE DEF R, e
<1>5. /\ cmd' \in Seq(R) /\ Len(cmd') = Len(cmd)
      /\ \A j \in 1..Len(cmd) : cmd'[j] = IF j = i THEN e ELSE cmd[j]
  BY <1>1, <1>3, <1>4, SeqExcept
<1>6. Received' = 1..Len(cmd)
  BY <1>5
<1> QED
  BY <1>1, <1>3, <1>5, <1>6 DEF CmdType, R

\* A command that Run() receives is the last one.
LEMMA AppendCmd ==
  ASSUME CmdType, NEW kind \in Kinds, NEW p \in CmdPcs, Len(cmd) < MaxCmds,
         cmd' = Append(cmd, [kind |-> kind, pc |-> p])
  PROVE  /\ CmdType' /\ Len(cmd) + 1 \in 1..MaxCmds /\ Len(cmd) + 1 \notin Received
         /\ Received' = Received \cup {Len(cmd) + 1}
         /\ \A j \in Received : cmd'[j] = cmd[j]
         /\ cmd'[Len(cmd) + 1] = [kind |-> kind, pc |-> p]
<1> DEFINE c == [kind |-> kind, pc |-> p]
<1>1. c \in [kind : Kinds, pc : CmdPcs]
  OBVIOUS
<1> HIDE DEF c
<1>2. cmd' = Append(cmd, c)
  BY DEF c
<1> QED
  BY <1>1, <1>2, AgentAssumption DEF CmdType, c

\* The command that a handler drops is in no other hand.
LEMMA DropCmd ==
  ASSUME CmdType, NEW h \in Handlers, DropInHand(h)
  PROVE  /\ CmdType' /\ Received' = Received
         /\ \A j \in Received : /\ cmd'[j].kind = cmd[j].kind
                                /\ cmd'[j].pc = IF cmd[j].pc = Hand(h) THEN "dropped" ELSE cmd[j].pc
<1> DEFINE R == [kind : Kinds, pc : CmdPcs]
           n == Len(cmd)
           d(i) == IF cmd[i].pc = Hand(h) THEN [cmd[i] EXCEPT !.pc = "dropped"] ELSE cmd[i]
<1>1. cmd \in Seq(R) /\ n \in Nat /\ n <= MaxCmds /\ Received = 1..n
  BY DEF CmdType
<1>2. \A i \in 1..n : /\ d(i) \in R /\ d(i).kind = cmd[i].kind
                      /\ d(i).pc = IF cmd[i].pc = Hand(h) THEN "dropped" ELSE cmd[i].pc
  <2>1. \A i \in 1..n : cmd[i] \in R
    <3> HIDE DEF R
    <3> QED
      BY <1>1, SeqElement
  <2> QED
    BY <2>1 DEF CmdPcs
<1>3. cmd' = [i \in 1..n |-> d(i)]
  BY <1>1 DEF DropInHand
<1> HIDE DEF R, n, d
<1>4. cmd' \in [1..n -> R] /\ \A i \in 1..n : cmd'[i] = d(i)
  BY <1>2, <1>3
<1>5. cmd' \in Seq(R)
  BY <1>1, <1>4
<1>6. Len(cmd') = n /\ Received' = 1..n
  BY <1>1, <1>4, <1>5
<1> QED
  BY <1>1, <1>2, <1>4, <1>5, <1>6 DEF CmdType, R

\* The commands are finitely many.
LEMMA CmdsFinite ==
  ASSUME CmdType
  PROVE  IsFiniteSet(InFlight) /\ IsFiniteSet(Holding) /\ Cardinality(InFlight) \in Nat /\ Cardinality(Holding) \in Nat
<1>1. IsFiniteSet(Received)
  BY FS_Interval DEF CmdType
<1> QED
  BY <1>1, FS_Subset, FS_CardinalityType DEF InFlight, Holding

\* What a step of one command does to the set of those in flight, and to the
\* number of those that are, or hold a token.
LEMMA GotoCounts ==
  ASSUME CmdType, NEW i \in Received, NEW p \in CmdPcs, Goto(i, p)
  PROVE  /\ InFlight' = (InFlight \ {i}) \cup (IF p \in Flying THEN {i} ELSE {})
         /\ Cardinality(InFlight') = Cardinality(InFlight)
              + (IF p \in Flying THEN 1 ELSE 0) - (IF cmd[i].pc \in Flying THEN 1 ELSE 0)
         /\ Cardinality(Holding') = Cardinality(Holding)
              + (IF p = "hold" THEN 1 ELSE 0) - (IF cmd[i].pc = "hold" THEN 1 ELSE 0)
<1>1. Received' = Received /\ \A j \in Received : cmd'[j].pc = IF j = i THEN p ELSE cmd[j].pc
  BY GotoCmd
<1>2. InFlight' = (InFlight \ {i}) \cup (IF p \in Flying THEN {i} ELSE {}) /\ (i \in InFlight <=> cmd[i].pc \in Flying)
  BY <1>1 DEF InFlight, Flying
<1>3. Holding' = (Holding \ {i}) \cup (IF p = "hold" THEN {i} ELSE {}) /\ (i \in Holding <=> cmd[i].pc = "hold")
  BY <1>1 DEF Holding
<1>4. ASSUME NEW S, NEW T, IsFiniteSet(S), NEW b \in BOOLEAN, T = (S \ {i}) \cup (IF b THEN {i} ELSE {})
      PROVE  Cardinality(T) = Cardinality(S) + (IF b THEN 1 ELSE 0) - (IF i \in S THEN 1 ELSE 0)
  <2>1. IsFiniteSet(S \ {i}) /\ Cardinality(S \ {i}) = Cardinality(S) - (IF i \in S THEN 1 ELSE 0)
    BY <1>4, FS_RemoveElement, FS_CardinalityType
  <2>2. Cardinality((S \ {i}) \cup {i}) = Cardinality(S \ {i}) + 1
    BY <2>1, FS_AddElement
  <2>3. CASE b
    BY <1>4, <2>1, <2>2, <2>3, FS_CardinalityType
  <2>4. CASE ~b
    BY <1>4, <2>1, <2>4, FS_CardinalityType
  <2> QED
    BY <2>3, <2>4
<1>5. Cardinality(InFlight') = Cardinality(InFlight)
              + (IF p \in Flying THEN 1 ELSE 0) - (IF cmd[i].pc \in Flying THEN 1 ELSE 0)
  BY <1>2, <1>4, CmdsFinite, Zenon
<1>6. Cardinality(Holding') = Cardinality(Holding)
              + (IF p = "hold" THEN 1 ELSE 0) - (IF cmd[i].pc = "hold" THEN 1 ELSE 0)
  BY <1>3, <1>4, CmdsFinite, Zenon
<1> QED
  BY <1>2, <1>5, <1>6

\* Commands that go on elsewhere leave the queues as they are.
LEMMA QueuesKept ==
  ASSUME QueueType, Queued, UNCHANGED queues, Received \subseteq Received',
         \A j \in Received : cmd[j].pc = "queued" => cmd'[j].pc = "queued" /\ cmd'[j].kind = cmd[j].kind
  PROVE  QueueType' /\ Queued'
<1>1. QueueType'
  BY SeqLarger DEF QueueType
<1>2. \A k \in 1..Len(cmdChan) : cmdChan[k] \in Received
  BY SeqElement DEF QueueType
<1>3. \A k \in 1..Len(statusChan) : statusChan[k] \in Received
  BY SeqElement DEF QueueType
<1>4. InQueue(cmdChan, {"Work", "Reconnect"})'
  BY <1>2 DEF Queued, InQueue
<1>5. InQueue(statusChan, {"Status"})'
  BY <1>3 DEF Queued, InQueue
<1> QED
  BY <1>1, <1>4, <1>5 DEF Queued

\* A command goes on without an answer.
LEMMA GoesOn ==
  ASSUME Inv, NEW i \in Received, NEW p \in CmdPcs \ {"run", "queued"}, Goto(i, p),
         cmd[i].pc # "run", UNCHANGED <<run, replied>>,
         p \in {"slot", "wait", "reply", "status"} => cmd[i].pc \in {"queued", "slot", "wait", "reply", "status"},
         p \in {"release", "peek", "hold", "end"} =>
           cmd[i].pc \in {"release", "peek", "hold", "end"} \/ cmd[i].kind = "Reconnect"
  PROVE  CmdType' /\ RunOwes' /\ Unanswered' /\ AnsweredOnce'
<1>1. /\ CmdType' /\ Received' = Received
      /\ \A j \in Received : cmd'[j].kind = cmd[j].kind /\ cmd'[j].pc = IF j = i THEN p ELSE cmd[j].pc
  BY GotoCmd, TypeParts DEF Inv
<1>2. RunOwes'
  BY <1>1 DEF Inv, RunOwes
<1>3. Unanswered'
  BY <1>1 DEF Inv, Unanswered
<1>4. AnsweredOnce'
  BY <1>1 DEF Inv, AnsweredOnce, Unanswered
<1> QED
  BY <1>1, <1>2, <1>3, <1>4

\* A command is answered, and goes on.
LEMMA IsAnswered ==
  ASSUME Inv, NEW i \in Received, NEW p \in {"release", "end"}, Goto(i, p),
         replied[i] = 0 \/ (cmd[i].kind = "Restart" /\ replied[i] < 3),
         replied' = [replied EXCEPT ![i] = @ + 1]
  PROVE  /\ CmdType' /\ replied' \in [1..MaxCmds -> 0..3] /\ Unanswered' /\ AnsweredOnce'
         /\ run.cmd # i /\ UNCHANGED run => RunOwes'
<1>1. /\ CmdType' /\ Received' = Received
      /\ \A j \in Received : cmd'[j].kind = cmd[j].kind /\ cmd'[j].pc = IF j = i THEN p ELSE cmd[j].pc
  BY GotoCmd, TypeParts DEF Inv, CmdPcs
<1>2. i \in 1..MaxCmds /\ replied \in [1..MaxCmds -> 0..3]
  BY TypeParts, Numbered DEF Inv, RestType
<1>3. replied' \in [1..MaxCmds -> 0..3] /\ \A j \in 1..MaxCmds : replied'[j] = IF j = i THEN replied[i] + 1 ELSE replied[j]
  BY <1>2
<1>4. Received \subseteq 1..MaxCmds
  BY TypeParts, Numbered DEF Inv
<1>5. Unanswered'
  BY <1>1, <1>2, <1>3, <1>4 DEF Inv, Unanswered
<1>6. AnsweredOnce'
  BY <1>1, <1>2, <1>3, <1>4 DEF Inv, AnsweredOnce
<1>7. run.cmd # i /\ UNCHANGED run => RunOwes'
  BY <1>1, <1>2, <1>3, <1>4 DEF Inv, RunOwes
<1> QED
  BY <1>1, <1>3, <1>5, <1>6, <1>7

\* The agent before Run() receives anything satisfies Inv.
LEMMA InvInit == Init => Inv
<1> SUFFICES ASSUME Init PROVE Inv
  OBVIOUS
<1>1. cmd = <<>> /\ Received = {} /\ Len(cmd) = 0
  BY DEF Init
<1>2. CmdType /\ QueueType /\ Queued
  BY <1>1, Bounds DEF Init, CmdType, QueueType, Queued, InQueue
<1>3. RestType
  <2>1. connected \in BOOLEAN /\ sync \in [Handlers -> SyncRec]
    BY Zenon DEF Init, SyncRec
  <2>2. connectChan \in Seq(BOOLEAN) /\ Len(connectChan) = 0
    BY DEF Init
  <2> QED
    BY <2>1, <2>2, Bounds DEF Init, RestType, RunRec, Owing, HandlerPcs
<1>4. RunOwes /\ Unanswered /\ AnsweredOnce
  BY <1>1 DEF Init, RunOwes, Owing, Unanswered, AnsweredOnce
<1>5. Quiet /\ Crashes
  BY <1>1 DEF Init, Quiet, Crashes
<1>6. TokensMatch
  <2>1. InFlight = {} /\ Holding = {}
    BY <1>1 DEF InFlight, Holding
  <2> QED
    BY <2>1, FS_EmptySet DEF Init, TokensMatch
<1> QED
  BY <1>2, <1>3, <1>4, <1>5, <1>6, TypeParts DEF Inv

\* handleCmd and the goroutine around it: a command is answered, and gives back
\* its token.
LEMMA HandleCmdKeepsInv ==
  ASSUME Inv, NEW i \in Received, HandleCmd(i)
  PROVE  Inv'
<1>0. CmdType /\ RestType /\ QueueType /\ Cardinality(InFlight) \in Nat /\ Cardinality(Holding) \in Nat
  BY TypeParts, CmdsFinite DEF Inv
<1>1. UNCHANGED <<main, queues, handler, sync, client, panics>>
  BY DEF HandleCmd, HandleResult, HandleTimeout, HandleReply, Release, Peek, PutBack
<1>2. PICK p \in CmdPcs \ {"run", "queued"} :
        /\ Goto(i, p)
        /\ \/ /\ cmd[i].pc = "wait" /\ UNCHANGED <<tokens, replied>> /\ sendChan' = sendChan
              /\ p = "reply" \/ (p = "release" /\ cmd[i].kind = "Reconnect")
           \/ cmd[i].pc = "reply" /\ p = "release" /\ UNCHANGED tokens /\ Reply(i)
           \/ /\ cmd[i].pc = "release" /\ p = "peek" /\ UNCHANGED out
              /\ tokens > 0 /\ tokens' = tokens - 1
           \/ /\ cmd[i].pc = "peek" /\ p = "hold" /\ UNCHANGED out
              /\ tokens > 0 /\ tokens' = tokens - 1
           \/ cmd[i].pc = "peek" /\ p = "end" /\ UNCHANGED out /\ UNCHANGED tokens
           \/ /\ cmd[i].pc = "hold" /\ p = "end" /\ UNCHANGED out
              /\ tokens < Limit /\ tokens' = tokens + 1
  BY DEF HandleCmd, HandleResult, HandleTimeout, HandleReply, Release, Peek, PutBack, At, CmdPcs
<1>3. sendChan' \in 0..SendBuffer /\ tokens' \in 0..Limit
  <2>1. sendChan' = sendChan \/ (sendChan < SendBuffer /\ sendChan' = sendChan + 1)
    BY <1>2 DEF Reply
  <2>2. \/ tokens' = tokens
        \/ tokens > 0 /\ tokens' = tokens - 1
        \/ tokens < Limit /\ tokens' = tokens + 1
    BY <1>2
  <2> QED
    BY <1>0, <2>1, <2>2, Bounds DEF RestType
<1>4. CmdType' /\ replied' \in [1..MaxCmds -> 0..3] /\ RunOwes' /\ Unanswered' /\ AnsweredOnce'
  <2>1. CASE cmd[i].pc = "reply"
    <3>1. replied[i] = 0 /\ (RunOwes' \/ run.cmd # i)
      BY <2>1, <1>1 DEF Inv, Unanswered, RunOwes
    <3>2. p = "release" /\ Goto(i, p) /\ replied' = [replied EXCEPT ![i] = @ + 1]
      BY <1>0, <1>2, <2>1, Numbered, SMTT(30) DEF Reply
    <3> QED
      BY <1>1, <3>1, <3>2, IsAnswered, Zenon
  <2>2. CASE cmd[i].pc # "reply"
    BY <1>0, <1>1, <1>2, <2>2, GoesOn DEF RestType
  <2> QED
    BY <2>1, <2>2
<1>5. RestType'
  BY <1>0, <1>1, <1>3, <1>4 DEF RestType
<1>6. QueueType' /\ Queued'
  BY <1>0, <1>1, <1>2, GotoCmd, QueuesKept, Zenon DEF Inv
<1>7. TokensMatch'
  <2>1. /\ Cardinality(InFlight') = Cardinality(InFlight)
              + (IF p \in Flying THEN 1 ELSE 0) - (IF cmd[i].pc \in Flying THEN 1 ELSE 0)
        /\ Cardinality(Holding') = Cardinality(Holding)
              + (IF p = "hold" THEN 1 ELSE 0) - (IF cmd[i].pc = "hold" THEN 1 ELSE 0)
    BY <1>0, <1>2, GotoCounts
  <2>2. tokens + Cardinality(Holding) = Cardinality(InFlight) /\ tokens \in Nat
    BY <1>0, Bounds DEF Inv, TokensMatch, RestType
  <2>3. tokens' + Cardinality(Holding') = Cardinality(InFlight')
    BY <1>0, <1>2, <2>1, <2>2 DEF Flying
  <2> QED
    BY <2>3 DEF TokensMatch
<1>8. Quiet'
  <2>1. InFlight = {} => InFlight' = {}
    BY <1>0, <1>2, GotoCounts, Zenon DEF Flying, InFlight
  <2> QED
    BY <1>1, <2>1 DEF Inv, Quiet
<1> QED
  BY <1>1, <1>4, <1>5, <1>6, <1>7, <1>8, TypeParts DEF Inv, Crashes

\* The first element of a channel, and the rest of it.
LEMMA TakeFirst ==
  ASSUME NEW S, NEW q \in Seq(S), q # <<>>
  PROVE  /\ Len(q) >= 1 /\ Head(q) = q[1] /\ Head(q) \in S
         /\ Tail(q) \in Seq(S) /\ Len(Tail(q)) = Len(q) - 1
         /\ \A k \in 1..Len(Tail(q)) : k + 1 \in 1..Len(q) /\ Tail(q)[k] = q[k + 1]
<1>1. Len(q) \in Nat /\ Len(q) # 0 /\ Head(q) = q[1]
  BY SeqTail
<1> QED
  BY <1>1, SeqTail

\* A handler takes a command from its queue.
LEMMA TakesCmd ==
  ASSUME Inv, NEW p \in {"slot", "status"}, UNCHANGED <<run, replied>>,
         \/ /\ cmdChan # <<>> /\ Goto(Head(cmdChan), p)
            /\ cmdChan' = Tail(cmdChan) /\ UNCHANGED statusChan
         \/ /\ statusChan # <<>> /\ Goto(Head(statusChan), p)
            /\ statusChan' = Tail(statusChan) /\ UNCHANGED cmdChan
  PROVE  /\ CmdType' /\ QueueType' /\ RunOwes' /\ Unanswered' /\ AnsweredOnce' /\ Queued'
         /\ InFlight' = InFlight /\ Cardinality(Holding') = Cardinality(Holding)
<1>0. CmdType /\ QueueType /\ Cardinality(Holding) \in Nat
  BY TypeParts, CmdsFinite DEF Inv
<1>1. PICK chan, other, kinds, others, i :
        /\ \/ /\ chan = cmdChan /\ other = statusChan
              /\ kinds = {"Work", "Reconnect"} /\ others = {"Status"}
              /\ cmdChan' = Tail(chan) /\ statusChan' = other
           \/ /\ chan = statusChan /\ other = cmdChan
              /\ kinds = {"Status"} /\ others = {"Work", "Reconnect"}
              /\ statusChan' = Tail(chan) /\ cmdChan' = other
        /\ chan # <<>> /\ i = Head(chan) /\ Goto(i, p)
  BY Zenon
<1>2. /\ chan \in Seq(Received) /\ other \in Seq(Received) /\ kinds \cap others = {}
      /\ InQueue(chan, kinds) /\ InQueue(other, others)
  BY <1>0, <1>1, Zenon DEF Inv, Queued, QueueType
<1>3. /\ Len(chan) >= 1 /\ i = chan[1] /\ i \in Received /\ Len(chan) \in Nat
      /\ Tail(chan) \in Seq(Received) /\ Len(Tail(chan)) = Len(chan) - 1
      /\ \A k \in 1..Len(Tail(chan)) : k + 1 \in 1..Len(chan) /\ Tail(chan)[k] = chan[k + 1]
  BY <1>1, <1>2, TakeFirst, SeqElement
<1>4. cmd[i].pc = "queued" /\ cmd[i].kind \in kinds
  BY <1>2, <1>3 DEF InQueue
<1>5. CmdType' /\ RunOwes' /\ Unanswered' /\ AnsweredOnce'
  BY <1>1, <1>3, <1>4, GoesOn DEF CmdPcs
<1>6. /\ Received' = Received
      /\ \A j \in Received : cmd'[j].kind = cmd[j].kind /\ cmd'[j].pc = IF j = i THEN p ELSE cmd[j].pc
  BY <1>0, <1>1, <1>3, GotoCmd DEF CmdPcs
<1>7. InFlight' = InFlight /\ Cardinality(Holding') = Cardinality(Holding)
  <2>1. p \in CmdPcs /\ p \notin Flying /\ p # "hold" /\ i \notin InFlight /\ cmd[i].pc # "hold"
    BY <1>4 DEF CmdPcs, Flying, InFlight
  <2>2. /\ InFlight' = (InFlight \ {i}) \cup {}
        /\ Cardinality(Holding') = Cardinality(Holding) + 0 - 0
    BY <1>0, <1>1, <1>3, <2>1, GotoCounts
  <2> QED
    BY <1>0, <2>1, <2>2
<1>8. /\ \A k \in 1..Len(Tail(chan)) : cmd'[Tail(chan)[k]].pc = "queued" /\ cmd'[Tail(chan)[k]].kind \in kinds
      /\ \A k, l \in 1..Len(Tail(chan)) : Tail(chan)[k] = Tail(chan)[l] => k = l
  <2>1. \A k \in 1..Len(Tail(chan)) : k + 1 # 1 /\ chan[k + 1] # i /\ chan[k + 1] \in Received
    BY <1>2, <1>3, SeqElement DEF InQueue
  <2> QED
    BY <1>2, <1>3, <1>6, <2>1 DEF InQueue
<1>9. /\ \A k \in 1..Len(other) : cmd'[other[k]].pc = "queued" /\ cmd'[other[k]].kind \in others
      /\ \A k, l \in 1..Len(other) : other[k] = other[l] => k = l
  <2>1. \A k \in 1..Len(other) : other[k] \in Received /\ other[k] # i
    BY <1>2, <1>4, SeqElement DEF InQueue
  <2> QED
    BY <1>2, <1>6, <2>1 DEF InQueue
<1>10. CASE chan = cmdChan /\ other = statusChan /\ cmdChan' = Tail(chan) /\ statusChan' = other
           /\ kinds = {"Work", "Reconnect"} /\ others = {"Status"}
  <2>1. QueueType'
    <3>1. cmdChan' \in Seq(Received) /\ statusChan' \in Seq(Received)
      BY <1>2, <1>3, <1>10, Zenon
    <3>2. Len(cmdChan') <= CmdQueue /\ Len(statusChan') <= StatusQueue
      <4>1. Len(chan) <= CmdQueue /\ Len(other) <= StatusQueue
        BY <1>0, <1>10, Zenon DEF QueueType
      <4>2. Len(Tail(chan)) <= CmdQueue
        BY <1>3, <4>1, Bounds
      <4> QED
        BY <1>10, <4>1, <4>2, Zenon
    <3> QED
      BY <1>6, <3>1, <3>2, Zenon DEF QueueType
  <2>2. InQueue(cmdChan, {"Work", "Reconnect"})' /\ InQueue(statusChan, {"Status"})'
    BY <1>8, <1>9, <1>10 DEF InQueue
  <2> QED
    BY <1>5, <1>7, <2>1, <2>2 DEF Queued
<1>11. CASE chan = statusChan /\ other = cmdChan /\ statusChan' = Tail(chan) /\ cmdChan' = other
           /\ kinds = {"Status"} /\ others = {"Work", "Reconnect"}
  <2>1. QueueType'
    <3>1. statusChan' \in Seq(Received) /\ cmdChan' \in Seq(Received)
      BY <1>2, <1>3, <1>11, Zenon
    <3>2. Len(statusChan') <= StatusQueue /\ Len(cmdChan') <= CmdQueue
      <4>1. Len(chan) <= StatusQueue /\ Len(other) <= CmdQueue
        BY <1>0, <1>11, Zenon DEF QueueType
      <4>2. Len(Tail(chan)) <= StatusQueue
        BY <1>3, <4>1, Bounds
      <4> QED
        BY <1>11, <4>1, <4>2, Zenon
    <3> QED
      BY <1>6, <3>1, <3>2, Zenon DEF QueueType
  <2>2. InQueue(cmdChan, {"Work", "Reconnect"})' /\ InQueue(statusChan, {"Status"})'
    BY <1>8, <1>9, <1>11 DEF InQueue
  <2> QED
    BY <1>5, <1>7, <2>1, <2>2 DEF Queued
<1> QED
  BY <1>1, <1>10, <1>11

\* The SyncChan of a handler that ends.
LEMMA DoneType ==
  ASSUME NEW t \in SyncRec
  PROVE  /\ Done(t) \in SyncRec /\ Done(t).graceful = t.graceful
         /\ t.graceful => Done(t).crash = t.crash
BY Zenon DEF Done, SyncRec

\* cmdHandler: it starts a command only with a token, and ends only when none is in flight.
LEMMA CmdHandlerKeepsInv ==
  ASSUME Inv, CmdHandler
  PROVE  Inv'
<1>0. CmdType /\ RestType /\ QueueType /\ Cardinality(InFlight) \in Nat /\ Cardinality(Holding) \in Nat
  BY TypeParts, CmdsFinite DEF Inv
<1>1. CASE CmdTake
  <2>1. /\ UNCHANGED <<main, statusChan, tokens, sync, client, out, panics>> /\ handler["cmd"] = "select"
        /\ handler' = [handler EXCEPT !["cmd"] = "slot"]
        /\ cmdChan # <<>> /\ Goto(Head(cmdChan), "slot") /\ cmdChan' = Tail(cmdChan)
    BY <1>1 DEF CmdTake
  <2>2. /\ CmdType' /\ QueueType' /\ RunOwes' /\ Unanswered' /\ AnsweredOnce' /\ Queued'
        /\ InFlight' = InFlight /\ Cardinality(Holding') = Cardinality(Holding)
    BY <2>1, TakesCmd
  <2>3. handler' \in [Handlers -> HandlerPcs] /\ handler'["cmd"] = "slot"
        /\ handler'["status"] = handler["status"]
    BY <1>0, <2>1 DEF RestType, HandlerPcs
  <2>4. RestType'
    BY <1>0, <2>1, <2>3 DEF RestType
  <2>5. Quiet' /\ Crashes' /\ TokensMatch'
    BY <2>1, <2>2, <2>3 DEF Inv, Quiet, Crashes, TokensMatch
  <2> QED
    BY <2>2, <2>4, <2>5, TypeParts DEF Inv
<1>2. ASSUME NEW i \in Received, CmdSlot(i) PROVE Inv'
  <2>1. /\ UNCHANGED <<main, queues, sync, client, out, panics>> /\ handler["cmd"] = "slot"
        /\ handler' = [handler EXCEPT !["cmd"] = "select"]
        /\ tokens < Limit /\ tokens' = tokens + 1 /\ cmd[i].pc = "slot" /\ Goto(i, "wait")
    BY <1>2 DEF CmdSlot, At
  <2>2. CmdType' /\ RunOwes' /\ Unanswered' /\ AnsweredOnce'
    BY <2>1, GoesOn DEF CmdPcs
  <2>3. QueueType' /\ Queued'
    BY <1>0, <2>1, GotoCmd, QueuesKept DEF Inv, CmdPcs
  <2>4. handler' \in [Handlers -> HandlerPcs] /\ handler'["cmd"] = "select"
        /\ handler'["status"] = handler["status"]
    BY <1>0, <2>1 DEF RestType, HandlerPcs
  <2>5. RestType'
    BY <1>0, <2>1, <2>4, Bounds DEF RestType
  <2>6. Quiet' /\ Crashes'
    BY <2>1, <2>4 DEF Inv, Quiet, Crashes
  <2>7. TokensMatch'
    <3>1. "wait" \in CmdPcs /\ "wait" \in Flying /\ cmd[i].pc \notin Flying /\ cmd[i].pc # "hold"
      BY <2>1 DEF CmdPcs, Flying
    <3>2. Cardinality(InFlight') = Cardinality(InFlight) + 1 - 0 /\ Cardinality(Holding') = Cardinality(Holding) + 0 - 0
      BY <1>0, <2>1, <3>1, GotoCounts
    <3> QED
      BY <1>0, <2>1, <3>2, Bounds DEF Inv, TokensMatch, RestType
  <2> QED
    BY <2>2, <2>3, <2>5, <2>6, <2>7, TypeParts DEF Inv
<1>3. CASE CmdDone
  <2>1. /\ UNCHANGED <<main, cmd, queues, tokens, client, out, panics>> /\ InFlight = {}
        /\ handler' = [handler EXCEPT !["cmd"] = "dead"] /\ sync' = [sync EXCEPT !["cmd"] = Done(@)]
    BY <1>3 DEF CmdDone
  <2>2. handler' \in [Handlers -> HandlerPcs] /\ handler'["cmd"] = "dead"
        /\ handler'["status"] = handler["status"]
    BY <1>0, <2>1 DEF RestType, HandlerPcs
  <2>3. sync' \in [Handlers -> SyncRec] /\ sync'["status"] = sync["status"]
    BY <1>0, <2>1, DoneType DEF RestType, SyncRec
  <2>4. RestType' /\ CmdType' /\ QueueType'
    BY <1>0, <2>1, <2>2, <2>3 DEF RestType, CmdType, QueueType
  <2>5. Quiet' /\ Crashes'
    BY <2>1, <2>2, <2>3, SMTT(30) DEF Inv, Quiet, Crashes, InFlight
  <2>6. RunOwes' /\ Unanswered' /\ AnsweredOnce' /\ Queued' /\ TokensMatch'
    <3>1. RunOwes' /\ TokensMatch'
      BY <2>1 DEF Inv, RunOwes, TokensMatch, InFlight, Holding
    <3>2. Unanswered' /\ AnsweredOnce'
      BY <2>1 DEF Inv, Unanswered, AnsweredOnce
    <3>3. Queued'
      BY <2>1, Zenon DEF Inv, Queued, InQueue
    <3> QED
      BY <3>1, <3>2, <3>3
  <2> QED
    BY <2>4, <2>5, <2>6, TypeParts DEF Inv
<1> QED
  BY <1>1, <1>2, <1>3 DEF CmdHandler

\* Dropping the command in hand costs an answer, and nothing else.
LEMMA DropKeeps ==
  ASSUME Inv, NEW h \in Handlers, DropInHand(h), UNCHANGED <<queues, replied>>
  PROVE  /\ CmdType' /\ QueueType' /\ Unanswered' /\ AnsweredOnce' /\ Queued'
         /\ InFlight' = InFlight /\ Holding' = Holding /\ Received' = Received
         /\ \A j \in Received : cmd[j].pc = "run" => cmd'[j].pc = "run" /\ cmd'[j].kind = cmd[j].kind
<1>0. CmdType /\ QueueType /\ Hand(h) \in {"slot", "status"}
  BY TypeParts DEF Inv, Hand
<1>1. /\ CmdType' /\ Received' = Received
      /\ \A j \in Received : /\ cmd'[j].kind = cmd[j].kind
                             /\ cmd'[j].pc = IF cmd[j].pc = Hand(h) THEN "dropped" ELSE cmd[j].pc
  BY <1>0, DropCmd
<1>2. QueueType' /\ Queued'
  BY <1>0, <1>1, QueuesKept DEF Inv
<1>3. Unanswered'
  BY <1>0, <1>1 DEF Inv, Unanswered
<1>4. AnsweredOnce'
  BY <1>0, <1>1 DEF Inv, AnsweredOnce
<1>5. InFlight' = InFlight /\ Holding' = Holding
  BY <1>0, <1>1 DEF InFlight, Holding
<1> QED
  BY <1>0, <1>1, <1>2, <1>3, <1>4, <1>5

\* statusHandler: answers a command, or panics and is counted once by Run().
LEMMA StatusHandlerKeepsInv ==
  ASSUME Inv, StatusHandler \/ StatusPanic
  PROVE  Inv'
<1>0. CmdType /\ RestType /\ QueueType /\ Cardinality(InFlight) \in Nat /\ Cardinality(Holding) \in Nat
  BY TypeParts, CmdsFinite DEF Inv
<1>1. CASE StatusTake
  <2>1. /\ UNCHANGED <<main, cmdChan, tokens, sync, client, out, panics>> /\ handler["status"] = "select"
        /\ handler' = [handler EXCEPT !["status"] = "reply"]
        /\ statusChan # <<>> /\ Goto(Head(statusChan), "status") /\ statusChan' = Tail(statusChan)
    BY <1>1 DEF StatusTake
  <2>2. /\ CmdType' /\ QueueType' /\ RunOwes' /\ Unanswered' /\ AnsweredOnce' /\ Queued'
        /\ InFlight' = InFlight /\ Cardinality(Holding') = Cardinality(Holding)
    BY <2>1, TakesCmd
  <2>3. handler' \in [Handlers -> HandlerPcs] /\ handler'["status"] = "reply"
        /\ handler'["cmd"] = handler["cmd"]
    BY <1>0, <2>1 DEF RestType, HandlerPcs
  <2>4. RestType'
    BY <1>0, <2>1, <2>3 DEF RestType
  <2>5. Quiet' /\ Crashes' /\ TokensMatch'
    BY <2>1, <2>2, <2>3 DEF Inv, Quiet, Crashes, TokensMatch
  <2> QED
    BY <2>2, <2>4, <2>5, TypeParts DEF Inv
<1>2. ASSUME NEW i \in Received, StatusReply(i) PROVE Inv'
  <2>1. /\ UNCHANGED <<main, queues, tokens, sync, client, panics>> /\ handler["status"] = "reply"
        /\ handler' = [handler EXCEPT !["status"] = "select"] /\ sendChan < SendBuffer /\ sendChan' = sendChan + 1
        /\ cmd[i].pc = "status" /\ Goto(i, "end") /\ replied' = [replied EXCEPT ![i] = @ + 1]
    BY <1>2 DEF StatusReply, At
  <2>2. replied[i] = 0 /\ (RunOwes' \/ run.cmd # i)
    BY <2>1 DEF Inv, Unanswered, RunOwes
  <2>3. CmdType' /\ replied' \in [1..MaxCmds -> 0..3] /\ RunOwes' /\ Unanswered' /\ AnsweredOnce'
    BY <2>1, <2>2, IsAnswered, Zenon
  <2>4. QueueType' /\ Queued'
    BY <1>0, <2>1, GotoCmd, QueuesKept DEF Inv, CmdPcs
  <2>5. handler' \in [Handlers -> HandlerPcs] /\ handler'["status"] = "select"
        /\ handler'["cmd"] = handler["cmd"]
    BY <1>0, <2>1 DEF RestType, HandlerPcs
  <2>6. RestType'
    BY <1>0, <2>1, <2>3, <2>5, Bounds DEF RestType
  <2>7. "end" \in CmdPcs /\ "end" \notin Flying /\ cmd[i].pc \notin Flying /\ cmd[i].pc # "hold" /\ i \notin InFlight
    BY <2>1 DEF CmdPcs, Flying, InFlight
  <2>8. InFlight' = (InFlight \ {i}) \cup {} /\ Cardinality(Holding') = Cardinality(Holding) + 0 - 0
    BY <1>0, <2>1, <2>7, GotoCounts
  <2>9. Quiet' /\ Crashes'
    BY <2>1, <2>5, <2>7, <2>8 DEF Inv, Quiet, Crashes
  <2>10. TokensMatch'
    BY <1>0, <2>1, <2>7, <2>8 DEF Inv, TokensMatch
  <2> QED
    BY <2>3, <2>4, <2>6, <2>9, <2>10, TypeParts DEF Inv
<1>3. CASE StatusPanic
  <2>1. /\ UNCHANGED <<main, queues, tokens, sync, client, out>> /\ handler["status"] = "reply"
        /\ panics < MaxPanics /\ panics' = panics + 1
        /\ handler' = [handler EXCEPT !["status"] = "done"] /\ DropInHand("status")
    BY <1>3 DEF StatusPanic
  <2>2. /\ CmdType' /\ QueueType' /\ Unanswered' /\ AnsweredOnce' /\ Queued'
        /\ InFlight' = InFlight /\ Holding' = Holding /\ Received' = Received
        /\ \A j \in Received : cmd[j].pc = "run" => cmd'[j].pc = "run" /\ cmd'[j].kind = cmd[j].kind
    BY <2>1, DropKeeps
  <2>3. handler' \in [Handlers -> HandlerPcs] /\ handler'["status"] = "done"
        /\ handler'["cmd"] = handler["cmd"]
    BY <1>0, <2>1 DEF RestType, HandlerPcs
  <2>4. RestType'
    BY <1>0, <2>1, <2>3, Bounds, SMTT(30) DEF RestType
  <2>5. RunOwes'
    BY <2>1, <2>2 DEF Inv, RunOwes
  <2>6. Quiet' /\ TokensMatch'
    BY <2>1, <2>2, <2>3 DEF Inv, Quiet, TokensMatch
  <2>7. Crashes'
    BY <1>0, <2>1, <2>3, Bounds DEF Inv, Crashes, RestType
  <2> QED
    BY <2>2, <2>4, <2>5, <2>6, <2>7, TypeParts DEF Inv
<1>4. CASE StatusDone
  <2>1. /\ UNCHANGED <<main, cmd, queues, tokens, client, out, panics>> /\ handler["status"] = "done"
        /\ handler' = [handler EXCEPT !["status"] = "dead"] /\ sync' = [sync EXCEPT !["status"] = Done(@)]
    BY <1>4 DEF StatusDone
  <2>2. handler' \in [Handlers -> HandlerPcs] /\ handler'["status"] = "dead"
        /\ handler'["cmd"] = handler["cmd"]
    BY <1>0, <2>1 DEF RestType, HandlerPcs
  <2>3. sync["status"] \in SyncRec
    BY <1>0 DEF RestType, SyncRec
  <2>4. /\ sync' \in [Handlers -> SyncRec]
        /\ sync'["cmd"] = sync["cmd"] /\ sync'["status"] = Done(sync["status"])
    BY <1>0, <2>1, <2>3, DoneType DEF RestType, SyncRec
  <2>5. RestType' /\ CmdType' /\ QueueType'
    BY <1>0, <2>1, <2>2, <2>4, SMTT(30) DEF RestType, CmdType, QueueType
  <2>6. Quiet'
    BY <2>1, <2>2, <2>4 DEF Inv, Quiet, InFlight
  <2>7. Crashes'
    <3>1. sync'["status"].graceful = sync["status"].graceful
          /\ (sync["status"].graceful => sync'["status"].crash = sync["status"].crash)
      BY <2>3, <2>4, DoneType, SMTT(30) DEF SyncRec
    <3> QED
      BY <2>1, <2>2, <3>1 DEF Inv, Crashes
  <2>8. RunOwes' /\ Unanswered' /\ AnsweredOnce' /\ Queued' /\ TokensMatch'
    <3>1. RunOwes' /\ TokensMatch'
      BY <2>1 DEF Inv, RunOwes, TokensMatch, InFlight, Holding
    <3>2. Unanswered' /\ AnsweredOnce'
      BY <2>1 DEF Inv, Unanswered, AnsweredOnce
    <3>3. Queued'
      BY <2>1, Zenon DEF Inv, Queued, InQueue
    <3> QED
      BY <3>1, <3>2, <3>3
  <2> QED
    BY <2>5, <2>6, <2>7, <2>8, TypeParts DEF Inv
<1> QED
  BY <1>1, <1>2, <1>3, <1>4 DEF StatusHandler

\* Steps that leave the commands alone.
LEMMA CmdsAlone ==
  ASSUME Inv, UNCHANGED <<cmd, queues, tokens, replied>>, RestType', RunOwes', Quiet', Crashes'
  PROVE  Inv'
<1>1. CmdType' /\ QueueType'
  BY TypeParts DEF Inv, CmdType, QueueType
<1>2. Unanswered' /\ AnsweredOnce' /\ Queued' /\ TokensMatch'
  BY DEF Inv, Unanswered, AnsweredOnce, Queued, InQueue, TokensMatch, InFlight, Holding
<1> QED
  BY <1>1, <1>2, TypeParts DEF Inv

\* Run() answers the command in hand, and is done with it.
LEMMA RunAnswersKeepsInv ==
  ASSUME Inv, RunReply \/ StopReply \/ RestartReply
  PROVE  Inv'
<1> DEFINE i == run.cmd
<1>0. CmdType /\ RestType /\ QueueType /\ Cardinality(InFlight) \in Nat /\ Cardinality(Holding) \in Nat
  BY TypeParts, CmdsFinite DEF Inv
<1>1. /\ UNCHANGED <<connected, errors, queues, tokens, handler, sync, client, panics>> /\ Reply(i)
      /\ run.pc \in {"reply", "stopReply", "restart"}
      /\ \/ run' \in {[run EXCEPT !.pc = "select"], [run EXCEPT !.pc = "ended"]} /\ run.pc # "restart" /\ Goto(i, "end")
         \/ /\ run' = [run EXCEPT !.owes = @ - 1, !.pc = IF run.owes = 1 THEN "ended" ELSE "restart"]
            /\ run.pc = "restart"
            /\ IF run.owes = 1 THEN Goto(i, "end") ELSE UNCHANGED cmd
  BY DEF RunReply, StopReply, RestartReply, RunAt, RunTo
<1>2. /\ i \in Received /\ cmd[i].pc = "run" /\ i \in 1..MaxCmds
      /\ run.pc # "restart" => replied[i] = 0
      /\ run.pc = "restart" => cmd[i].kind = "Restart" /\ run.owes >= 1 /\ replied[i] + run.owes <= 3
  BY <1>0, <1>1, Numbered DEF Inv, RunOwes, Owing
<1>3. replied' = [replied EXCEPT ![i] = @ + 1] /\ sendChan' \in 0..SendBuffer
  <2>1. i # Pong
    BY <1>2
  <2>2. replied' = [replied EXCEPT ![i] = @ + 1]
    BY <1>1, <2>1 DEF Reply
  <2>3. sendChan' \in 0..SendBuffer
    <3>1. sendChan' = IF sendChan < SendBuffer THEN sendChan + 1 ELSE sendChan
      BY <1>1 DEF Reply
    <3>2. sendChan \in 0..SendBuffer /\ SendBuffer \in Nat
      BY <1>0, Bounds DEF RestType
    <3> QED
      BY <3>1, <3>2
  <2> QED
    BY <2>2, <2>3
<1>4. run.owes \in 0..3 /\ replied[i] \in 0..3
  BY <1>0, <1>2 DEF RestType, RunRec
<1>5. CASE Goto(i, "end")
  <2>1. /\ run' \in RunRec
        /\ run'.pc \in {"select", "ended"}
    <3>1. \/ run' = [run EXCEPT !.pc = "select"] \/ run' = [run EXCEPT !.pc = "ended"]
          \/ run.pc = "restart" /\ run' = [run EXCEPT !.owes = run.owes - 1, !.pc = "ended"]
      <4>1. CASE run.owes = 1 \/ run.pc # "restart"
        BY <1>1, <4>1, Zenon
      <4>2. CASE run.owes # 1 /\ run.pc = "restart"
        <5>1. cmd' = cmd /\ Goto(i, "end")
          BY <1>1, <1>5, <4>2
        <5> QED
          BY <1>0, <1>2, <5>1, GotoCmd DEF CmdPcs
      <4> QED
        BY <4>1, <4>2
    <3>2. run.pc = "restart" => run.owes - 1 \in 0..3
      BY <1>2, <1>4
    <3>3. run \in RunRec
      BY <1>0 DEF RestType, RunRec
    <3>4. CASE run' = [run EXCEPT !.pc = "select"] \/ run' = [run EXCEPT !.pc = "ended"]
      BY <3>3, <3>4 DEF RunRec, Owing
    <3>5. CASE run.pc = "restart" /\ run' = [run EXCEPT !.owes = run.owes - 1, !.pc = "ended"]
      BY <3>2, <3>3, <3>5, Zenon DEF RunRec, Owing
    <3> QED
      BY <3>1, <3>4, <3>5
  <2>2. CmdType' /\ replied' \in [1..MaxCmds -> 0..3] /\ Unanswered' /\ AnsweredOnce'
    <3>1. replied[i] = 0 \/ (cmd[i].kind = "Restart" /\ replied[i] < 3)
      BY <1>2, <1>4
    <3>2. i \in Received /\ replied' = [replied EXCEPT ![i] = @ + 1]
      BY <1>2, <1>3
    <3> HIDE DEF i
    <3> QED
      BY <1>5, <3>1, <3>2, IsAnswered, Zenon
  <2>3. RestType'
    BY <1>0, <1>1, <1>3, <2>1, <2>2 DEF RestType
  <2>4. RunOwes'
    BY <2>1 DEF RunOwes, Owing
  <2>5. QueueType' /\ Queued'
    BY <1>0, <1>1, <1>2, <1>5, GotoCmd, QueuesKept DEF Inv, CmdPcs
  <2>6. "end" \in CmdPcs /\ "end" \notin Flying /\ cmd[i].pc \notin Flying /\ cmd[i].pc # "hold" /\ i \notin InFlight
    BY <1>2 DEF CmdPcs, Flying, InFlight
  <2>7. InFlight' = (InFlight \ {i}) \cup {} /\ Cardinality(Holding') = Cardinality(Holding) + 0 - 0
    BY <1>0, <1>2, <1>5, <2>6, GotoCounts
  <2>8. Quiet' /\ Crashes'
    BY <1>1, <2>1, <2>6, <2>7 DEF Inv, Quiet, Crashes
  <2>9. TokensMatch'
    BY <1>0, <1>1, <2>6, <2>7 DEF Inv, TokensMatch
  <2> QED
    BY <2>2, <2>3, <2>4, <2>5, <2>8, <2>9, TypeParts DEF Inv
<1>6. CASE ~Goto(i, "end")
  <2>1. /\ run.pc = "restart" /\ run.owes # 1 /\ UNCHANGED cmd
        /\ run' = [run EXCEPT !.owes = @ - 1, !.pc = "restart"]
    BY <1>1, <1>6, Zenon
  <2>2. /\ run' \in RunRec
        /\ run'.pc = "restart" /\ run'.owes = run.owes - 1 /\ run'.cmd = i
    <3>1. run.owes - 1 \in 0..3
      BY <1>2, <1>4, <2>1
    <3> QED
      BY <1>0, <2>1, <3>1, Zenon DEF RestType, RunRec, Owing
  <2>3. replied' \in [1..MaxCmds -> 0..3] /\ \A j \in 1..MaxCmds : replied'[j] = IF j = i THEN replied[i] + 1 ELSE replied[j]
    <3>1. replied[i] + 1 \in 0..3
      BY <1>2, <1>4, <2>1
    <3> QED
      BY <1>0, <1>2, <1>3, <3>1 DEF RestType
  <2>4. RestType' /\ CmdType' /\ QueueType'
    BY <1>0, <1>1, <1>3, <2>1, <2>2, <2>3 DEF RestType, CmdType, QueueType
  <2>5. RunOwes'
    BY <1>2, <1>4, <2>1, <2>2, <2>3 DEF RunOwes
  <2>6. Received \subseteq 1..MaxCmds
    BY <1>0, Numbered
  <2>7. Unanswered' /\ AnsweredOnce'
    BY <1>2, <2>1, <2>3, <2>6 DEF Inv, Unanswered, AnsweredOnce
  <2>8. Queued' /\ TokensMatch' /\ Quiet' /\ Crashes'
    BY <1>1, <2>1, <2>2 DEF Inv, Queued, InQueue, TokensMatch, InFlight, Holding, Quiet, Crashes
  <2> QED
    BY <2>4, <2>5, <2>7, <2>8, TypeParts DEF Inv
<1> QED
  BY <1>5, <1>6

\* A flag of a SyncChan is set or cleared, the others stay.
LEMMA FlagType ==
  ASSUME RestType, NEW h \in Handlers, NEW b \in BOOLEAN,
         \/ sync' = [sync EXCEPT ![h].graceful = b]
         \/ sync' = [sync EXCEPT ![h].crash = b]
         \/ sync' = [sync EXCEPT ![h].done = b]
  PROVE  sync' \in [Handlers -> SyncRec]
<1> DEFINE S == SyncRec
<1>1. sync \in [Handlers -> S] /\ sync[h] \in S
  BY DEF RestType
<1>2. PICK s \in S : sync' = [sync EXCEPT ![h] = s]
  BY <1>1 DEF SyncRec
<1> QED
  BY <1>1, <1>2

\* Run() hears of the connection, of a crash, or that there is time for a pong.
LEMMA RunHearsKeepsInv ==
  ASSUME Inv, Keepalive \/ RunConnect \/ RunCrash
  PROVE  Inv'
<1>0. RestType
  BY TypeParts DEF Inv
<1>1. CASE Keepalive
  <2>1. UNCHANGED <<main, cmd, queues, tokens, handler, sync, client, panics, replied>>
        /\ sendChan' = IF sendChan < SendBuffer THEN sendChan + 1 ELSE sendChan
    BY <1>1 DEF Keepalive, Reply
  <2>2. sendChan' \in 0..SendBuffer
    BY <1>0, <2>1, Bounds DEF RestType
  <2>3. RestType'
    BY <1>0, <2>1, <2>2, SMTT(30) DEF RestType
  <2>4. RunOwes' /\ Quiet' /\ Crashes'
    BY <2>1 DEF Inv, RunOwes, Quiet, Crashes, InFlight
  <2> QED
    BY <2>1, <2>3, <2>4, CmdsAlone
<1>2. CASE RunConnect
  <2>1. /\ UNCHANGED <<run, cmd, queues, tokens, handler, sync, fails, out, panics>> /\ connectChan # <<>>
        /\ connected' = Head(connectChan) /\ connectChan' = Tail(connectChan)
        /\ errors' \in {0, errors} /\ link' \in {link, "connecting"}
    BY <1>2 DEF RunConnect
  <2>2. connected' \in BOOLEAN /\ connectChan' \in Seq(BOOLEAN) /\ Len(connectChan') <= 1
    <3>1. Head(connectChan) \in BOOLEAN /\ Tail(connectChan) \in Seq(BOOLEAN) /\ Len(Tail(connectChan)) = Len(connectChan) - 1
      BY <1>0, <2>1, SeqTail, Zenon DEF RestType
    <3>2. Len(connectChan) \in Nat /\ Len(connectChan) <= 1
      BY <1>0, SeqElement DEF RestType
    <3>3. Len(Tail(connectChan)) <= 1
      BY <3>1, <3>2
    <3> QED
      BY <2>1, <3>1, <3>3, Zenon
  <2>3. errors' \in 0..MaxPanics /\ errors' <= errors /\ errors \in Nat /\ panics \in Nat
    BY <1>0, <2>1, Bounds DEF RestType
  <2>4. link' \in {"connecting", "up", "down"}
    BY <1>0, <2>1 DEF RestType
  <2>5. RestType'
    BY <1>0, <2>1, <2>2, <2>3, <2>4, Zenon DEF RestType
  <2>6. RunOwes' /\ Quiet'
    BY <2>1 DEF Inv, RunOwes, Quiet, InFlight
  <2>7. Crashes'
    BY <2>1, <2>3 DEF Inv, Crashes
  <2> QED
    BY <2>1, <2>5, <2>6, <2>7, CmdsAlone
<1>3. CASE RunCrash
  <2>1. /\ UNCHANGED <<run, connected, cmd, queues, tokens, client, out, panics>>
        /\ sync["status"].crash /\ sync' = [sync EXCEPT !["status"].crash = FALSE] /\ errors' = errors + 1
        /\ handler' = [handler EXCEPT !["status"] = "select"] \/ handler' = handler
    BY <1>3 DEF RunCrash, SyncRec
  <2>2. sync' \in [Handlers -> SyncRec]
    BY <1>0, <2>1, FlagType, Zenon
  <2>3. /\ sync'["cmd"] = sync["cmd"] /\ ~sync'["status"].crash
        /\ sync'["status"].graceful = sync["status"].graceful
    BY <1>0, <2>1 DEF RestType, SyncRec
  <2>4. /\ handler' \in [Handlers -> HandlerPcs]
        /\ handler'["cmd"] = handler["cmd"] /\ handler'["status"] \in {"select", handler["status"]}
    BY <1>0, <2>1 DEF RestType, HandlerPcs
  <2>5. handler["status"] = "dead" /\ ~sync["status"].graceful /\ errors < panics
    BY <2>1 DEF Inv, Crashes
  <2>6. errors' \in 0..MaxPanics /\ errors' <= panics
    BY <1>0, <2>1, <2>5, Bounds DEF RestType
  <2>7. RestType'
    BY <1>0, <2>1, <2>2, <2>4, <2>6, Zenon DEF RestType
  <2>8. RunOwes' /\ Quiet'
    BY <2>1, <2>3, <2>4 DEF Inv, RunOwes, Quiet, InFlight
  <2>9. Crashes'
    BY <2>1, <2>3, <2>4, <2>5, <2>6 DEF Crashes
  <2> QED
    BY <2>1, <2>7, <2>8, <2>9, CmdsAlone
<1> QED
  BY <1>1, <1>2, <1>3

\* stop(): the services stop when cmdHandler has said that it is done.
LEMMA StopKeepsInv ==
  ASSUME Inv, RunStop, ~StopReply
  PROVE  Inv'
<1>0. RestType
  BY TypeParts DEF Inv
<1>1. ASSUME NEW h \in Handlers, NEW from \in Owing, NEW to \in Owing, Stop(h, from, to),
             <<h, from, to>> \in {<<"cmd", "stopCmd", "waitCmd">>, <<"status", "stopStatus", "waitStatus">>}
      PROVE  Inv'
  <2>1. /\ run.pc = from /\ run' = [run EXCEPT !.pc = to]
        /\ handler[h] \in {"select", "slot"} /\ handler' = [handler EXCEPT ![h] = "done"]
        /\ sync' = [sync EXCEPT ![h].graceful = TRUE] /\ DropInHand(h)
        /\ UNCHANGED <<connected, errors, queues, tokens, client, out, panics>>
    BY <1>1 DEF Stop, RunAt, RunTo, SyncRec
  <2>2. /\ CmdType' /\ QueueType' /\ Unanswered' /\ AnsweredOnce' /\ Queued'
        /\ InFlight' = InFlight /\ Holding' = Holding /\ Received' = Received
        /\ \A j \in Received : cmd[j].pc = "run" => cmd'[j].pc = "run" /\ cmd'[j].kind = cmd[j].kind
    BY <2>1, DropKeeps
  <2>3. sync' \in [Handlers -> SyncRec]
    BY <1>0, <2>1, FlagType, Zenon
  <2>4. /\ sync'[h].graceful /\ sync'[h].crash = sync[h].crash /\ sync'[h].done = sync[h].done
        /\ \A k \in Handlers \ {h} : sync'[k] = sync[k]
    BY <1>0, <2>1 DEF RestType, SyncRec
  <2>5. /\ handler' \in [Handlers -> HandlerPcs]
        /\ handler'[h] = "done" /\ \A k \in Handlers \ {h} : handler'[k] = handler[k]
    BY <1>0, <2>1 DEF RestType, HandlerPcs
  <2>6. run' \in RunRec /\ run'.pc = to /\ run'.cmd = run.cmd
    BY <1>0, <2>1 DEF RestType, Owing, RunRec
  <2>7. RestType'
    BY <1>0, <2>1, <2>3, <2>5, <2>6 DEF RestType
  <2>8. RunOwes'
    BY <1>1, <2>1, <2>2, <2>6 DEF Inv, RunOwes
  <2>9. Quiet' /\ TokensMatch'
    BY <1>1, <2>1, <2>2, <2>4, <2>5, <2>6 DEF Inv, Quiet, TokensMatch
  <2>10. Crashes'
    BY <1>1, <2>1, <2>4, <2>5 DEF Inv, Crashes
  <2> QED
    BY <2>2, <2>7, <2>8, <2>9, <2>10, TypeParts DEF Inv
<1>2. ASSUME NEW h \in Handlers, NEW from \in Owing, NEW to \in Owing, Wait(h, from, to),
             <<h, from, to>> \in {<<"cmd", "waitCmd", "services">>, <<"status", "waitStatus", "stopReply">>}
      PROVE  Inv'
  <2>1. /\ run.pc = from /\ run' = [run EXCEPT !.pc = to]
        /\ sync[h].done /\ sync' = [sync EXCEPT ![h].done = FALSE]
        /\ UNCHANGED <<connected, errors, cmd, queues, tokens, handler, client, out, panics>>
    BY <1>2 DEF Wait, RunAt, RunTo
  <2>2. sync' \in [Handlers -> SyncRec]
    BY <1>0, <2>1, FlagType, Zenon
  <2>3. /\ \A k \in Handlers : sync'[k].graceful = sync[k].graceful /\ sync'[k].crash = sync[k].crash
        /\ ~sync'[h].done /\ \A k \in Handlers \ {h} : sync'[k].done = sync[k].done
    BY <1>0, <2>1 DEF RestType, SyncRec
  <2>4. run' \in RunRec /\ run'.pc = to /\ run'.cmd = run.cmd
    BY <1>0, <2>1 DEF RestType, Owing, RunRec
  <2>5. RestType'
    BY <1>0, <2>1, <2>2, <2>4 DEF RestType
  <2>6. RunOwes'
    BY <1>2, <2>1, <2>4 DEF Inv, RunOwes
  <2>7. Quiet' /\ Crashes'
    BY <1>2, <2>1, <2>3, <2>4 DEF Inv, Quiet, Crashes, InFlight
  <2> QED
    BY <2>1, <2>5, <2>6, <2>7, CmdsAlone
<1>3. CASE StopServices
  <2>1. /\ run.pc = "services" /\ run' = [run EXCEPT !.pc = "stopStatus"]
        /\ UNCHANGED <<connected, errors, cmd, queues, tokens, handler, sync, client, out, panics>>
    BY <1>3 DEF StopServices, RunAt, RunTo
  <2>2. run' \in RunRec /\ run'.pc = "stopStatus" /\ run'.cmd = run.cmd
    BY <1>0, <2>1 DEF RestType, RunRec, Owing
  <2>3. RestType'
    BY <1>0, <2>1, <2>2 DEF RestType
  <2>4. RunOwes'
    BY <2>1, <2>2 DEF Inv, RunOwes, Owing
  <2>5. Quiet' /\ Crashes'
    BY <2>1, <2>2 DEF Inv, Quiet, Crashes, InFlight
  <2> QED
    BY <2>1, <2>3, <2>4, <2>5, CmdsAlone
<1> QED
  BY <1>1, <1>2, <1>3 DEF RunStop, Owing

\* The client tells of the connection, and takes replies.
LEMMA ClientKeepsInv ==
  ASSUME Inv, ClientConnects \/ ClientFails \/ ClientSends
  PROVE  Inv'
<1>0. RestType
  BY TypeParts DEF Inv
<1>1. UNCHANGED <<main, cmd, queues, tokens, handler, sync, replied, panics>>
  BY Zenon DEF ClientConnects, ClientFails, ClientSends
<1>2. connectChan' \in Seq(BOOLEAN) /\ Len(connectChan') <= 1
  <2>1. \A b \in BOOLEAN : <<b>> \in Seq(BOOLEAN) /\ Len(<<b>>) <= 1
    OBVIOUS
  <2>2. connectChan' = <<TRUE>> \/ connectChan' = <<FALSE>> \/ connectChan' = connectChan
    BY Zenon DEF ClientConnects, ClientFails, ClientSends
  <2>3. connectChan \in Seq(BOOLEAN) /\ Len(connectChan) <= 1
    BY <1>0 DEF RestType
  <2> QED
    BY <2>1, <2>2, <2>3, Zenon
<1>3. sendChan' \in 0..SendBuffer /\ fails' \in 0..MaxFails /\ link' \in {"connecting", "up", "down"}
  <2>1. /\ sendChan' = sendChan \/ (sendChan > 0 /\ sendChan' = sendChan - 1)
        /\ fails' = fails \/ (fails < MaxFails /\ fails' = fails + 1)
        /\ link' = link \/ link' = "up" \/ link' = "down"
    BY Zenon DEF ClientConnects, ClientFails, ClientSends
  <2> QED
    BY <1>0, <2>1, Bounds DEF RestType
<1>4. RestType'
  BY <1>0, <1>1, <1>2, <1>3, ZenonT(30) DEF RestType
<1>5. RunOwes' /\ Quiet' /\ Crashes'
  BY <1>1 DEF Inv, RunOwes, Quiet, Crashes, InFlight
<1> QED
  BY <1>1, <1>4, <1>5, CmdsAlone

\* Run() receives a command: it is the last, has no answer, and is in one place.
LEMMA ReceiveKeepsInv ==
  ASSUME Inv, NEW kind \in Kinds, Receive(kind)
  PROVE  Inv'
<1> DEFINE n == Len(cmd) + 1
<1>0. CmdType /\ RestType /\ QueueType /\ Cardinality(InFlight) \in Nat /\ Cardinality(Holding) \in Nat
  BY TypeParts, CmdsFinite DEF Inv
<1>1. /\ run.pc = "select" /\ Len(cmd) < MaxCmds
      /\ UNCHANGED <<connected, errors, tokens, handler, sync, client, out, panics>>
  BY DEF Receive, RunAt
<1>2. \/ /\ cmd' = Append(cmd, [kind |-> kind, pc |-> "queued"]) /\ UNCHANGED run
         /\ \/ /\ kind = "Status" /\ Len(statusChan) # StatusQueue
               /\ statusChan' = Append(statusChan, n) /\ UNCHANGED cmdChan
            \/ /\ kind \in {"Work", "Reconnect"} /\ Len(cmdChan) # CmdQueue
               /\ cmdChan' = Append(cmdChan, n) /\ UNCHANGED statusChan
      \/ /\ cmd' = Append(cmd, [kind |-> kind, pc |-> "run"]) /\ UNCHANGED queues
         /\ \E pc \in {"reply", "ended", "stopCmd", "restart"}, owes \in 0..3 :
              /\ run' = [pc |-> pc, cmd |-> n, owes |-> owes]
              /\ pc = "restart" => kind = "Restart" /\ owes >= 1
  <2>1. \A errs \in 0..2 : errs + 1 \in 0..3 /\ errs + 1 >= 1
    OBVIOUS
  <2> QED
    BY <2>1 DEF Receive
<1>3. PICK p \in {"queued", "run"} :
        /\ cmd' = Append(cmd, [kind |-> kind, pc |-> p])
        /\ p = "queued" =>
             /\ UNCHANGED run
             /\ \/ /\ kind = "Status" /\ Len(statusChan) # StatusQueue
                   /\ statusChan' = Append(statusChan, n) /\ UNCHANGED cmdChan
                \/ /\ kind \in {"Work", "Reconnect"} /\ Len(cmdChan) # CmdQueue
                   /\ cmdChan' = Append(cmdChan, n) /\ UNCHANGED statusChan
        /\ p = "run" =>
             /\ UNCHANGED queues
             /\ \E pc \in {"reply", "ended", "stopCmd", "restart"}, owes \in 0..3 :
                  /\ run' = [pc |-> pc, cmd |-> n, owes |-> owes]
                  /\ pc = "restart" => kind = "Restart" /\ owes >= 1
  <2>1. "queued" # "run"
    BY SMTT(30)
  <2> QED
    BY <1>2, <2>1, Zenon
<1>4. /\ CmdType' /\ n \in 1..MaxCmds /\ n \notin Received /\ Received' = Received \cup {n}
      /\ \A j \in Received : cmd'[j] = cmd[j]
      /\ cmd'[n] = [kind |-> kind, pc |-> p]
  <2>1. p \in CmdPcs
    BY SMTT(30) DEF CmdPcs
  <2> QED
    BY <1>0, <1>1, <1>3, <2>1, AppendCmd
<1>5. Len(cmd) \in Nat /\ replied[n] = 0
  BY <1>0, <1>4, Numbered DEF Inv, Unanswered
<1> HIDE DEF n
<1>6. InFlight' = InFlight /\ Holding' = Holding
  BY <1>4 DEF InFlight, Holding
<1>7. Unanswered' /\ AnsweredOnce'
  <2>1. Unanswered'
    BY <1>1, <1>4, <1>5, SMTT(30) DEF Inv, Unanswered
  <2>2. AnsweredOnce'
    BY <1>1, <1>4, <1>5 DEF Inv, AnsweredOnce
  <2> QED
    BY <2>1, <2>2, SMTT(30)
<1>8. Crashes' /\ TokensMatch'
  BY <1>1, <1>6, SMTT(30) DEF Inv, Crashes, TokensMatch
<1>9. RestType' /\ RunOwes' /\ Quiet'
  <2>1. CASE UNCHANGED run
    BY <1>0, <1>1, <1>6, <2>1 DEF Inv, RestType, RunOwes, Owing, Quiet
  <2>2. ASSUME NEW pc \in {"reply", "ended", "stopCmd", "restart"}, NEW owes \in 0..3,
               run' = [pc |-> pc, cmd |-> n, owes |-> owes], p = "run",
               pc = "restart" => kind = "Restart" /\ owes >= 1
        PROVE  RestType' /\ RunOwes' /\ Quiet'
    <3>1. run' \in RunRec /\ run'.pc = pc /\ run'.cmd = n /\ run'.owes = owes
      BY <1>4, <2>2 DEF RunRec, Owing
    <3>2. RestType'
      BY <1>0, <1>1, <3>1, SMTT(30) DEF RestType
    <3>3. RunOwes'
      BY <1>1, <1>4, <1>5, <2>2, <3>1, SMTT(30) DEF RunOwes
    <3>4. Quiet'
      BY <1>1, <1>6, <2>2, <3>1 DEF Inv, Quiet
    <3> QED
      BY <3>2, <3>3, <3>4, SMTT(30)
  <2> QED
    BY <1>3, <2>1, <2>2, SMTT(30)
<1>10. QueueType' /\ Queued'
  <2>1. CASE UNCHANGED queues
    BY <1>0, <1>4, <2>1, QueuesKept DEF Inv
  <2>2. ASSUME NEW chan \in Seq(Received), NEW kinds, InQueue(chan, kinds), kind \in kinds, p = "queued"
        PROVE  /\ Append(chan, n) \in Seq(Received') /\ Len(Append(chan, n)) = Len(chan) + 1 /\ Len(chan) \in Nat
               /\ \A k \in 1..(Len(chan) + 1) : /\ cmd'[Append(chan, n)[k]].pc = "queued"
                                                /\ cmd'[Append(chan, n)[k]].kind \in kinds
               /\ \A k, l \in 1..(Len(chan) + 1) : Append(chan, n)[k] = Append(chan, n)[l] => k = l
    <3>1. /\ Append(chan, n) \in Seq(Received') /\ Len(Append(chan, n)) = Len(chan) + 1 /\ Len(chan) \in Nat
          /\ \A k \in 1..(Len(chan) + 1) : Append(chan, n)[k] = IF k = Len(chan) + 1 THEN n ELSE chan[k]
      BY <1>4, SeqLarger, SeqAppend, SeqElement, SMTT(30)
    <3>2. \A k \in 1..Len(chan) : /\ chan[k] \in Received /\ chan[k] # n
                                  /\ cmd'[chan[k]].pc = "queued" /\ cmd'[chan[k]].kind \in kinds
      BY <1>4, <2>2, SeqElement DEF InQueue
    <3>3. \A k \in 1..(Len(chan) + 1) : k # Len(chan) + 1 => k \in 1..Len(chan)
      BY <3>1, SMTT(30)
    <3> DEFINE c == Append(chan, n)
    <3> HIDE DEF c
    <3>4. \A k \in 1..(Len(chan) + 1) : cmd'[c[k]].pc = "queued" /\ cmd'[c[k]].kind \in kinds
      BY <1>4, <2>2, <3>1, <3>2, <3>3 DEF c
    <3>5. \A k, l \in 1..(Len(chan) + 1) : c[k] = c[l] => k = l
      BY <2>2, <3>1, <3>2, <3>3, Zenon DEF c, InQueue
    <3> QED
      BY <3>1, <3>4, <3>5, SMTT(30) DEF c
  <2>3. ASSUME NEW chan \in Seq(Received), NEW kinds, InQueue(chan, kinds)
        PROVE  /\ chan \in Seq(Received')
               /\ \A k \in 1..Len(chan) : cmd'[chan[k]].pc = "queued" /\ cmd'[chan[k]].kind \in kinds
    <3>1. \A k \in 1..Len(chan) : chan[k] \in Received
      BY SeqElement
    <3> QED
      BY <1>4, <2>3, <3>1, SeqLarger DEF InQueue
  <2>4. /\ cmdChan \in Seq(Received) /\ Len(cmdChan) <= CmdQueue /\ InQueue(cmdChan, {"Work", "Reconnect"})
        /\ statusChan \in Seq(Received) /\ Len(statusChan) <= StatusQueue /\ InQueue(statusChan, {"Status"})
    BY <1>0, SMTT(30) DEF Inv, Queued, QueueType
  <2>5. CASE /\ p = "queued" /\ kind = "Status" /\ Len(statusChan) # StatusQueue
             /\ statusChan' = Append(statusChan, n) /\ UNCHANGED cmdChan
    <3>1. /\ statusChan' \in Seq(Received') /\ Len(statusChan') = Len(statusChan) + 1 /\ Len(statusChan) \in Nat
          /\ \A k \in 1..Len(statusChan') : /\ cmd'[statusChan'[k]].pc = "queued"
                                            /\ cmd'[statusChan'[k]].kind \in {"Status"}
          /\ \A k, l \in 1..Len(statusChan') : statusChan'[k] = statusChan'[l] => k = l
      BY <2>2, <2>4, <2>5
    <3>2. /\ cmdChan' \in Seq(Received')
          /\ \A k \in 1..Len(cmdChan') : /\ cmd'[cmdChan'[k]].pc = "queued"
                                         /\ cmd'[cmdChan'[k]].kind \in {"Work", "Reconnect"}
      BY <2>3, <2>4, <2>5
    <3>3. QueueType'
      BY <2>4, <2>5, <3>1, <3>2, Bounds, SMTT(30) DEF QueueType
    <3> QED
      BY <2>4, <2>5, <3>1, <3>2, <3>3, SMTT(30) DEF Queued, InQueue
  <2>6. CASE /\ p = "queued" /\ kind \in {"Work", "Reconnect"} /\ Len(cmdChan) # CmdQueue
             /\ cmdChan' = Append(cmdChan, n) /\ UNCHANGED statusChan
    <3>1. /\ cmdChan' \in Seq(Received') /\ Len(cmdChan') = Len(cmdChan) + 1 /\ Len(cmdChan) \in Nat
          /\ \A k \in 1..Len(cmdChan') : /\ cmd'[cmdChan'[k]].pc = "queued"
                                         /\ cmd'[cmdChan'[k]].kind \in {"Work", "Reconnect"}
          /\ \A k, l \in 1..Len(cmdChan') : cmdChan'[k] = cmdChan'[l] => k = l
      BY <2>2, <2>4, <2>6, SMTT(30)
    <3>2. /\ statusChan' \in Seq(Received')
          /\ \A k \in 1..Len(statusChan') : /\ cmd'[statusChan'[k]].pc = "queued"
                                            /\ cmd'[statusChan'[k]].kind \in {"Status"}
      BY <2>3, <2>4, <2>6, SMTT(30)
    <3>3. QueueType'
      BY <2>4, <2>6, <3>1, <3>2, Bounds, SMTT(30) DEF QueueType
    <3> QED
      BY <2>4, <2>6, <3>1, <3>2, <3>3, SMTT(30) DEF Queued, InQueue
  <2> QED
    BY <1>3, <2>1, <2>5, <2>6, SMTT(30)
<1> QED
  BY <1>4, <1>7, <1>8, <1>9, <1>10, TypeParts DEF Inv

\* No step of the agent, and none of the client, disturbs the invariant.
LEMMA InvNext == Inv /\ [Next]_vars => Inv'
<1> SUFFICES ASSUME Inv, [Next]_vars PROVE Inv'
  OBVIOUS
<1>1. ASSUME NEW kind \in Kinds, Receive(kind) PROVE Inv'
  BY <1>1, ReceiveKeepsInv
<1>2. CASE Keepalive
  BY <1>2, RunHearsKeepsInv
<1>3. CASE RunStep
  BY <1>3, RunAnswersKeepsInv, RunHearsKeepsInv DEF RunStep
<1>4. CASE RunStop
  BY <1>4, RunAnswersKeepsInv, StopKeepsInv
<1>5. CASE CmdHandler
  BY <1>5, CmdHandlerKeepsInv
<1>6. CASE StatusHandler \/ StatusPanic
  BY <1>6, StatusHandlerKeepsInv
<1>7. ASSUME NEW i \in Received, HandleCmd(i) PROVE Inv'
  BY <1>7, HandleCmdKeepsInv
<1>8. CASE ClientConnects \/ ClientFails \/ ClientSends
  BY <1>8, ClientKeepsInv
<1>9. CASE UNCHANGED vars
  <2>1. RestType' /\ RunOwes' /\ Quiet' /\ Crashes'
    <3>1. RestType'
      BY <1>9, TypeParts, SMTT(30) DEF Inv, RestType
    <3>2. RunOwes' /\ Quiet' /\ Crashes'
      BY <1>9 DEF Inv, RunOwes, Quiet, Crashes, InFlight
    <3> QED
      BY <3>1, <3>2, SMTT(30)
  <2> QED
    BY <1>9, <2>1, CmdsAlone
<1> QED
  BY <1>1, <1>2, <1>3, <1>4, <1>5, <1>6, <1>7, <1>8, <1>9 DEF Next

\* The invariant holds of every state of the agent.
LEMMA InvAlways == Spec => []Inv
BY InvInit, InvNext, PTL DEF Spec

(***************************************************************************)
(* However many commands the API sends, and whatever the sizes of the      *)
(* queues and the limit on what runs in parallel (agent.go, Run, reply,    *)
(* cmdHandler, handleCmd): a command that the agent is done with has one   *)
(* answer, none before, and the tokens of cmdHandler are those of the      *)
(* commands in flight, but for the ones that are being looked at.          *)
(***************************************************************************)
THEOREM EveryCommandOneReply == Spec => []OneReplyOneToken
<1>1. Inv => OneReplyOneToken
  BY DEF Inv, OneReplyOneToken, AnsweredOnce, TokensMatch, Holding
<1> QED
  BY <1>1, InvAlways, PTL

(***************************************************************************)
(* stop() stops the services when no handleCmd is running any more: its    *)
(* Wait() returns after cmdHandler's wg.Wait(), and cmdHandler is not      *)
(* started again.                                                          *)
(***************************************************************************)
THEOREM NoCommandWhenServicesStop == Spec => []ServicesStopQuietly
<1>1. Inv => ServicesStopQuietly
  BY DEF Inv, Quiet, ServicesStopQuietly
<1> QED
  BY <1>1, InvAlways, PTL
=============================================================================
