---------------------------- MODULE SenderProofs ----------------------------
(***************************************************************************)
(* For every set of reports, every MAX_SEND_ERRORS and every behaviour of  *)
(* the network: the sender acts on the right response, loses no report,    *)
(* skips none, and implements Delivery.  And of the spooler that it reads  *)
(* from and shares with run(): neither of the two goroutines panics unless *)
(* a purge or a restart runs into an iteration of the sender.              *)
(***************************************************************************)
EXTENDS Sender, Spooler, TLAPS

USE DEF world, local, vars

\* A file is never NoFile.
LEMMA NoFileIsNoFile == NoFile \notin Files
BY SenderAssumption DEF NoFile

\* Without a connection nothing is under way.
LEMMA DisconnectedType == Disconnected \in Connections
<1>1. <<>> \in Seq(Files) /\ <<>> \in Seq([file : Files, code : Codes])
  OBVIOUS
<1> QED
  BY <1>1, Zenon DEF Disconnected, Connections

\* The initial state of the agent satisfies the inductive invariant.
LEMMA LockstepInit == Init => Lockstep
<1> SUFFICES ASSUME Init PROVE Lockstep
  OBVIOUS
<1>0. 0 \in 0..MaxSendErrors /\ NoAck \in [file : Files \cup {NoFile}, code : Codes]
  BY SenderAssumption DEF NoAck, Codes
<1>1. TypeOK
  BY <1>0, DisconnectedType, Zenon DEF Init, TypeOK, Busy
<1>2. OneMessage /\ AckIsForCurrent /\ NoLoss
  BY DEF Init, OneMessage, AckIsForCurrent, NoLoss, Disconnected
<1> QED
  BY <1>1, <1>2 DEF Init, Lockstep, HoldsFile, Busy

(***************************************************************************)
(* However sendAllFiles and send() are left (return, error or panic), with *)
(* the spool as it was, the invariant holds again.                         *)
(***************************************************************************)
LEMMA LeaveKeepsLockstep ==
  ASSUME Lockstep, UNCHANGED <<written, purged, settled, stopping, calm>>,
         spool' \subseteq spool, NoLoss',
         LeaveOk \/ (LeaveErr /\ pc \in Busy \ {"loop"})
  PROVE  Lockstep'
<1>1. pc' \in {"idle", "loop", "crashed"} /\ snap' = {} /\ todo' = {} /\ cur' = NoFile
      /\ ack' = NoAck /\ conn' = Disconnected
  BY DEF LeaveOk, LeaveErr, Return, Fail, Crash, NoLocals
<1>2. errs' \in 0..MaxSendErrors
  BY SenderAssumption DEF Lockstep, TypeOK, LeaveOk, LeaveErr, Return, Fail, Crash
<1>2a. late' \in BOOLEAN
  BY Zenon DEF Lockstep, TypeOK, LeaveOk, LeaveErr, Return, Fail, Crash
<1>3. TypeOK'
  BY <1>1, <1>2, <1>2a, DisconnectedType DEF Lockstep, TypeOK, Busy, NoAck, Codes
<1>4. OneMessage' /\ AckIsForCurrent'
  BY <1>1 DEF OneMessage, AckIsForCurrent, Disconnected
<1> QED
  BY <1>1, <1>3, <1>4 DEF Lockstep, HoldsFile, Busy

\* RemoveCur, of a file that may go, keeps NoLoss.
LEMMA RemoveKeepsNoLoss ==
  ASSUME Lockstep, RemoveCur, cur \in settled \/ cur \in Unsendable
  PROVE  spool' \subseteq spool /\ NoLoss'
BY DEF Lockstep, RemoveCur, NoLoss, Unsendable

\* Continue: the file in hand has been dealt with.
LEMMA ContinueKeepsLockstep ==
  ASSUME Lockstep, RemoveCur, Continue, pc \in {"discard", "act"},
         cur \in settled \/ cur \in Unsendable
  PROVE  Lockstep'
<1>1. spool' \subseteq spool /\ NoLoss'
  BY RemoveKeepsNoLoss
<1>2. NoAck \in [file : Files \cup {NoFile}, code : Codes]
  BY DEF NoAck, Codes
<1>3. TypeOK'
  BY <1>1, <1>2 DEF Lockstep, TypeOK, RemoveCur, Continue, Busy
<1>4. OneMessage' /\ AckIsForCurrent'
  BY DEF Lockstep, OneMessage, AckIsForCurrent, Continue
<1>5. \A f \in snap' \ (todo' \cup {cur'}) : f \in purged' \cup settled' \cup Unsendable
  BY DEF Lockstep, RemoveCur, Continue
<1> QED
  BY <1>1, <1>3, <1>4, <1>5 DEF Lockstep, RemoveCur, Continue, HoldsFile, Busy, Unsendable

\* The steps of run().
LEMMA RunStepKeepsLockstep ==
  ASSUME Lockstep, RunStep
  PROVE  Lockstep'
<1>0. UNCHANGED world => NoLoss'
  BY DEF Lockstep, NoLoss, Unsendable
<1>1. CASE Loop
  <2>1. CASE Return
    BY <1>0, <1>1, <2>1, LeaveKeepsLockstep DEF Loop, LeaveOk
  <2>2. CASE ~Return
    <3>1. pc = "loop" /\ pc' = "connect" /\ errs < MaxSendErrors /\ UNCHANGED <<world, local, errs, late, conn>>
      BY <1>1, <2>2, SenderAssumption DEF Loop, Lockstep, TypeOK
    <3>2. TypeOK'
      BY <3>1 DEF Lockstep, TypeOK, Busy
    <3> QED
      BY <1>0, <3>1, <3>2 DEF Lockstep, OneMessage, AckIsForCurrent, HoldsFile, Busy, Unsendable
  <2> QED
    BY <2>1, <2>2
<1>2. CASE Dial
  <2>1. CASE Fail
    BY <1>0, <1>2, <2>1, LeaveKeepsLockstep DEF Dial, LeaveErr, Busy
  <2>2. CASE ~Fail
    <3>1. pc = "connect" /\ pc' = "handshake" /\ UNCHANGED <<world, local, errs, late, conn>>
      BY <1>2, <2>2 DEF Dial
    <3>2. TypeOK'
      BY <3>1 DEF Lockstep, TypeOK, Busy
    <3> QED
      BY <1>0, <3>1, <3>2 DEF Lockstep, OneMessage, AckIsForCurrent, HoldsFile, Busy, Unsendable
  <2> QED
    BY <2>1, <2>2
<1>3. CASE ListFiles
  <2>1. TypeOK'
    BY <1>3 DEF Lockstep, TypeOK, ListFiles, Busy
  <2> QED
    BY <1>0, <1>3, <2>1 DEF Lockstep, TypeOK, ListFiles, OneMessage, AckIsForCurrent, HoldsFile, Busy, Unsendable
<1>4. CASE NextFile
  <2>1. CASE LeaveOk
    BY <1>0, <1>4, <2>1, LeaveKeepsLockstep DEF NextFile
  <2>2. CASE ~LeaveOk
    <3>1. PICK f \in todo : /\ pc = "next" /\ pc' = "read" /\ cur' = f /\ todo' = todo \ {f}
                            /\ UNCHANGED <<world, snap, ack, errs, late, conn>>
      BY <1>4, <2>2 DEF NextFile
    <3>2. TypeOK'
      BY <3>1 DEF Lockstep, TypeOK, Busy
    <3>3. cur = NoFile /\ f \in snap \ todo' /\ f \in Files
      BY <3>1 DEF Lockstep, TypeOK, HoldsFile
    <3>4. OneMessage'
      BY <3>1 DEF Lockstep, OneMessage
    <3>5. \A g \in snap' \ (todo' \cup {cur'}) : g \in purged' \cup settled' \cup Unsendable
      BY <3>1, <3>3, NoFileIsNoFile DEF Lockstep, TypeOK
    <3> QED
      BY <1>0, <3>1, <3>2, <3>3, <3>4, <3>5 DEF Lockstep, AckIsForCurrent, HoldsFile, Busy, Unsendable
  <2> QED
    BY <2>1, <2>2
<1>5. CASE NoMoreFiles
  BY <1>0, <1>5, LeaveKeepsLockstep DEF NoMoreFiles
<1>6. CASE ReadFile
  <2>1. CASE LeaveErr
    BY <1>0, <1>6, <2>1, LeaveKeepsLockstep DEF ReadFile, Busy
  <2>2. CASE ~LeaveErr
    <3>1. pc = "read" /\ UNCHANGED <<world, local, errs, late, conn>>
          /\ pc' = IF Blackhole \/ cur \in Empty THEN "discard" ELSE "send"
      BY <1>6, <2>2 DEF ReadFile
    <3>2. TypeOK'
      BY <3>1 DEF Lockstep, TypeOK, Busy
    <3>3. pc' = "discard" => cur \in Unsendable
      BY <3>1 DEF Lockstep, TypeOK, HoldsFile, Unsendable
    <3> QED
      BY <1>0, <3>1, <3>2, <3>3 DEF Lockstep, OneMessage, AckIsForCurrent, HoldsFile, Busy, Unsendable
  <2> QED
    BY <2>1, <2>2
<1>7. CASE Discard
  BY <1>7, ContinueKeepsLockstep DEF Discard, Lockstep
<1>8. CASE SendFile
  <2>1. CASE LeaveErr
    BY <1>0, <1>8, <2>1, LeaveKeepsLockstep DEF SendFile, Busy
  <2>2. CASE ~LeaveErr
    <3>1. /\ pc = "send" /\ pc' = "recv" /\ UNCHANGED <<world, local, errs, late>>
          /\ conn' = IF conn.up THEN [conn EXCEPT !.req = Append(@, cur)] ELSE conn
      BY <1>8, <2>2 DEF SendFile
    <3>2. cur \in Files /\ conn.req = <<>> /\ conn.resp = <<>>
      BY <3>1 DEF Lockstep, TypeOK, HoldsFile, OneMessage
    <3>a. conn \in Connections
      BY DEF Lockstep, TypeOK
    <3>b. Append(conn.req, cur) \in Seq(Files)
      BY <3>2, <3>a DEF Connections
    <3>3. conn' \in Connections
      BY <3>1, <3>a, <3>b, Zenon DEF Connections
    <3>4. TypeOK'
      BY <3>1, <3>3 DEF Lockstep, TypeOK, Busy
    <3>5. conn'.resp = <<>> /\ conn'.req \in {<<>>, <<cur>>}
      BY <3>1, <3>2 DEF Lockstep, TypeOK, Connections
    <3>6. OneMessage'
      BY <3>1, <3>5 DEF OneMessage
    <3> QED
      BY <1>0, <3>1, <3>4, <3>6 DEF Lockstep, AckIsForCurrent, HoldsFile, Busy, Unsendable
  <2> QED
    BY <2>1, <2>2
<1>9. CASE RecvResponse
  <2>1. /\ pc = "recv" /\ pc' = "act" /\ ack' = Head(conn.resp)
        /\ conn' = [conn EXCEPT !.resp = Tail(@)]
        /\ UNCHANGED <<world, snap, todo, cur, errs, late>>
    BY <1>9 DEF RecvResponse
  <2>2. PICK code \in Codes : /\ conn.req = <<>> /\ conn.resp = <<[file |-> cur, code |-> code]>>
                              /\ code \in Final => cur \in settled
    BY <1>9, Zenon DEF RecvResponse, Lockstep, OneMessage
  <2>3. ack' = [file |-> cur, code |-> code] /\ conn'.req = <<>> /\ conn'.resp = <<>> /\ conn' \in Connections
    BY <2>1, <2>2 DEF Lockstep, TypeOK, Connections
  <2>4. TypeOK'
    BY <2>1, <2>3 DEF Lockstep, TypeOK, Busy
  <2>5. OneMessage'
    BY <2>3 DEF OneMessage
  <2> QED
    BY <1>0, <2>1, <2>2, <2>3, <2>4, <2>5 DEF Lockstep, AckIsForCurrent, HoldsFile, Busy, Unsendable
<1>10. CASE RecvError
  BY <1>0, <1>10, LeaveKeepsLockstep DEF RecvError, Busy
<1>11. CASE ActFinal
  <2>1. cur \in settled
    BY <1>11 DEF ActFinal, Lockstep
  <2>2. spool' \subseteq spool /\ NoLoss'
    BY <1>11, <2>1, RemoveKeepsNoLoss DEF ActFinal
  <2>3. CASE LeaveOk
    BY <1>11, <2>2, <2>3, LeaveKeepsLockstep DEF ActFinal, RemoveCur
  <2>4. CASE ~LeaveOk
    BY <1>11, <2>1, <2>4, ContinueKeepsLockstep DEF ActFinal
  <2> QED
    BY <2>3, <2>4
<1>12. CASE ActRetry
  BY <1>0, <1>12, LeaveKeepsLockstep DEF ActRetry, Busy
<1> QED
  BY <1>1, <1>2, <1>3, <1>4, <1>5, <1>6, <1>7, <1>8, <1>9, <1>10, <1>11, <1>12 DEF RunStep

\* Every step of the sender and of its surroundings.
LEMMA LockstepNext == Lockstep /\ [Next]_vars => Lockstep'
<1> SUFFICES ASSUME Lockstep, [Next]_vars PROVE Lockstep'
  OBVIOUS
<1>0. UNCHANGED world => NoLoss'
  BY DEF Lockstep, NoLoss, Unsendable
<1>1. CASE RunStep
  BY <1>1, RunStepKeepsLockstep
<1>2. CASE Tick \/ Start
  <2>0. 0 \in 0..MaxSendErrors
    BY SenderAssumption
  <2>1. TypeOK'
    BY <1>2, <2>0, Zenon DEF Lockstep, TypeOK, Tick, Start, Busy
  <2> QED
    BY <1>0, <1>2, <2>1 DEF Lockstep, Tick, Start, OneMessage, AckIsForCurrent, HoldsFile, Busy, Unsendable
<1>3. CASE Handshake
  <2>1. CASE Fail
    BY <1>0, <1>3, <2>1, LeaveKeepsLockstep DEF Handshake, LeaveErr, Busy
  <2>2. CASE ~Fail
    <3>1. /\ pc = "handshake" /\ pc' = "files" /\ UNCHANGED <<world, local, errs, late>>
          /\ conn' = [Disconnected EXCEPT !.open = TRUE, !.up = TRUE]
      BY <1>3, <2>2 DEF Handshake
    <3>2. conn' \in Connections /\ conn'.req = <<>> /\ conn'.resp = <<>>
      BY <3>1, DisconnectedType, Zenon DEF Connections, Disconnected
    <3>3. TypeOK'
      BY <3>1, <3>2 DEF Lockstep, TypeOK, Busy
    <3>4. OneMessage'
      BY <3>2 DEF OneMessage
    <3> QED
      BY <1>0, <3>1, <3>3, <3>4 DEF Lockstep, AckIsForCurrent, HoldsFile, Busy, Unsendable
  <2> QED
    BY <2>1, <2>2
<1>4. CASE Stop \/ Stopped \/ Calm \/ TimeIsUp
  <2>1. TypeOK'
    BY <1>4, Zenon DEF Lockstep, TypeOK, Stop, Stopped, Calm, TimeIsUp
  <2>2. UNCHANGED <<spool, written, purged, settled, local, errs, conn>>
        /\ (pc' = pc \/ (pc = "idle" /\ pc' = "stopped"))
    BY <1>4 DEF Stop, Stopped, Calm, TimeIsUp
  <2>3. NoLoss'
    BY <2>2 DEF Lockstep, NoLoss, Unsendable
  <2> QED
    BY <2>1, <2>2, <2>3, Zenon DEF Lockstep, OneMessage, AckIsForCurrent, HoldsFile, Busy, Unsendable
<1>5. ASSUME NEW code \in Codes, ApiAnswer(code) PROVE Lockstep'
  <2>1. /\ conn.req # <<>> /\ UNCHANGED <<spool, written, purged, pc, local, errs, late, stopping, calm>>
        /\ conn' = [conn EXCEPT !.req = Tail(@),
                       !.resp = Append(@, [file |-> Head(conn.req), code |-> code])]
        /\ settled' = IF code \in Final THEN settled \cup {Head(conn.req)} ELSE settled
    BY <1>5 DEF ApiAnswer
  <2>2. pc = "recv" /\ conn.req = <<cur>> /\ conn.resp = <<>> /\ cur \in snap \ todo
    BY <2>1 DEF Lockstep, OneMessage, HoldsFile
  <2>3. cur \in written /\ cur \in Files
    BY <2>2 DEF Lockstep, TypeOK
  <2>4. Head(conn.req) = cur /\ Tail(conn.req) = <<>>
        /\ Append(conn.resp, [file |-> cur, code |-> code]) = <<[file |-> cur, code |-> code]>>
    BY <2>2
  <2>a. conn \in Connections
    BY DEF Lockstep, TypeOK
  <2>b. <<>> \in Seq(Files) /\ <<[file |-> cur, code |-> code]>> \in Seq([file : Files, code : Codes])
    BY <2>3
  <2>c. conn' = [conn EXCEPT !.req = <<>>, !.resp = <<[file |-> cur, code |-> code]>>]
    BY <2>1, <2>4, Zenon
  <2>5. conn' \in Connections /\ conn'.req = <<>> /\ conn'.resp = <<[file |-> cur, code |-> code]>>
    BY <2>a, <2>b, <2>c, Zenon DEF Connections
  <2>6. settled \subseteq settled' /\ settled' \subseteq written /\ (code \in Final => cur \in settled')
    BY <2>1, <2>3, <2>4 DEF Lockstep
  <2>7. TypeOK'
    BY <2>1, <2>5, <2>6 DEF Lockstep, TypeOK
  <2>8. OneMessage'
    BY <2>1, <2>2, <2>5, <2>6 DEF OneMessage
  <2>9. NoLoss'
    BY <2>1, <2>6 DEF Lockstep, NoLoss, Unsendable
  <2> QED
    BY <2>1, <2>2, <2>6, <2>7, <2>8, <2>9 DEF Lockstep, AckIsForCurrent, HoldsFile, Busy, Unsendable
<1>6. CASE LinkBreaks
  <2>a. conn \in Connections
    BY DEF Lockstep, TypeOK
  <2>1. UNCHANGED <<world, pc, local, errs, late>>
        /\ \E resp \in {<<>>, conn.resp} :
             conn' = [conn EXCEPT !.up = FALSE, !.req = <<>>, !.resp = resp]
    BY <1>6, Zenon DEF LinkBreaks
  <2>b. PICK resp \in {<<>>, conn.resp} :
             conn' = [conn EXCEPT !.up = FALSE, !.req = <<>>, !.resp = resp]
    BY <2>1, Zenon
  <2>d. conn.resp \in Seq([file : Files, code : Codes])
    BY <2>a DEF Connections
  <2>e. <<>> \in Seq([file : Files, code : Codes]) /\ <<>> \in Seq(Files)
    OBVIOUS
  <2>c. resp \in Seq([file : Files, code : Codes]) /\ <<>> \in Seq(Files)
    BY <2>d, <2>e, Zenon
  <2>2. conn' \in Connections /\ conn'.req = <<>> /\ conn'.resp \in {<<>>, conn.resp}
    BY <2>a, <2>b, <2>c, Zenon DEF Connections
  <2>3. TypeOK'
    BY <2>1, <2>2 DEF Lockstep, TypeOK
  <2>4. OneMessage'
    BY <2>1, <2>2, Zenon DEF Lockstep, OneMessage
  <2> QED
    BY <1>0, <2>1, <2>3, <2>4 DEF Lockstep, AckIsForCurrent, HoldsFile, Busy, Unsendable
<1>7. ASSUME NEW f \in Files, WriteFile(f) \/ PurgeFile(f) PROVE Lockstep'
  <2>1. UNCHANGED <<settled, pc, local, errs, late, conn, stopping, calm>>
    BY <1>7 DEF WriteFile, PurgeFile
  <2>2. TypeOK'
    BY <1>7, <2>1 DEF WriteFile, PurgeFile, Lockstep, TypeOK
  <2>3. NoLoss' /\ written \subseteq written' /\ purged \subseteq purged'
        /\ purged' \subseteq written' /\ spool' \cap purged' = {}
    BY <1>7, <2>1 DEF WriteFile, PurgeFile, Lockstep, TypeOK, NoLoss, Unsendable
  <2>4. OneMessage' /\ AckIsForCurrent'
    BY <2>1, Zenon DEF Lockstep, OneMessage, AckIsForCurrent
  <2> QED
    BY <2>1, <2>2, <2>3, <2>4 DEF Lockstep, HoldsFile, Busy, Unsendable
<1>8. CASE UNCHANGED vars
  <2>1. TypeOK' /\ OneMessage' /\ AckIsForCurrent' /\ NoLoss'
    BY <1>8, Zenon DEF Lockstep, TypeOK, OneMessage, AckIsForCurrent, NoLoss, Unsendable
  <2> QED
    BY <1>8, <2>1 DEF Lockstep, HoldsFile, Unsendable
<1> QED
  BY <1>1, <1>2, <1>3, <1>4, <1>5, <1>6, <1>7, <1>8 DEF Next

\* The sender and the API go in lockstep, for ever.
THEOREM LockstepAlways == Spec => []Lockstep
<1> QED
  BY LockstepInit, LockstepNext, PTL DEF Spec

\* The type invariant of the sender.
THEOREM TypesCorrect == Spec => []TypeOK
<1>1. Lockstep => TypeOK
  BY DEF Lockstep
<1> QED
  BY <1>1, LockstepAlways, PTL

(***************************************************************************)
(* sendAllFiles never takes the response to another send for the one to    *)
(* the file it holds.                                                      *)
(***************************************************************************)
THEOREM RightAck == Spec => []AckIsForCurrent
<1>1. Lockstep => AckIsForCurrent
  BY DEF Lockstep
<1> QED
  BY <1>1, LockstepAlways, PTL

\* No report leaves the spool without a purge, a rule of the code or a verdict.
THEOREM NothingLost == Spec => []NoLoss
<1>1. Lockstep => NoLoss
  BY DEF Lockstep
<1> QED
  BY <1>1, LockstepAlways, PTL

\* The iteration over the spool passes over no report.
THEOREM NothingSkipped == Spec => []NoFileSkipped
<1>1. Lockstep => NoFileSkipped
  BY DEF Lockstep, NoFileSkipped
<1> QED
  BY <1>1, LockstepAlways, PTL

-----------------------------------------------------------------------------
Status == [f \in Files |-> StatusOf(f)]

\* A step that touches no report's standing is a stutter of Delivery.
LEMMA SameStatus ==
  ASSUME UNCHANGED <<spool, written, purged, settled>>
  PROVE  Status' = Status
BY DEF Status, StatusOf

\* A step that changes the standing of one report is a move of that report.
LEMMA OneStatus ==
  ASSUME NEW g \in Files, NEW new, StatusOf(g)' = new,
         \A f \in Files : f # g => StatusOf(f)' = StatusOf(f)
  PROVE  Status' = [Status EXCEPT ![g] = new]
BY Zenon DEF Status

\* Removing the file in hand is Delivery's Remove or Discard, or a stutter.
LEMMA RemoveIsAllowed ==
  ASSUME Lockstep, RemoveCur, cur \in Files, cur \in settled \/ cur \in Unsendable
  PROVE  Promise!Next \/ Status' = Status
<1>0. PICK g \in Files : g = cur
  OBVIOUS
<1>1. CASE spool' = spool
  BY <1>1, SameStatus DEF RemoveCur
<1>2. CASE spool' = spool \ {g} /\ g \in spool
  <2>1. StatusOf(g) = (IF g \in settled THEN "settled" ELSE "spooled")
        /\ StatusOf(g)' = "removed"
    BY <1>0, <1>2 DEF Lockstep, TypeOK, RemoveCur, StatusOf
  <2>2. \A f \in Files : f # g => StatusOf(f)' = StatusOf(f)
    BY <1>2 DEF RemoveCur, StatusOf
  <2>3. Status' = [Status EXCEPT ![g] = "removed"] /\ Status[g] = StatusOf(g)
    BY <2>1, <2>2, OneStatus DEF Status
  <2>4. Promise!Remove(g) \/ Promise!Discard(g)
    BY <1>0, <2>1, <2>3 DEF Promise!Remove, Promise!Discard, Promise!Move, Status
  <2> QED
    BY <2>4 DEF Promise!Next
<1> QED
  BY <1>0, <1>1, <1>2 DEF RemoveCur

\* Every step of the sender is a step of Delivery or a stutter.
LEMMA StepIsAllowed ==
  ASSUME Lockstep, [Next]_vars
  PROVE  [Promise!Next]_Status
<1>1. CASE UNCHANGED <<spool, written, purged, settled>>
  BY <1>1, SameStatus
<1>2. CASE Discard \/ ActFinal
  <2>1. RemoveCur /\ cur \in Files /\ (cur \in settled \/ cur \in Unsendable)
    BY <1>2 DEF Discard, ActFinal, Lockstep, TypeOK, HoldsFile
  <2> QED
    BY <2>1, RemoveIsAllowed
<1>3. ASSUME NEW code \in Codes, ApiAnswer(code) PROVE [Promise!Next]_Status
  <2>1. CASE code \in Final /\ cur \in spool /\ cur \notin settled
    <3>1. conn.req = <<cur>> /\ cur \in Files
      BY <1>3 DEF ApiAnswer, Lockstep, TypeOK, OneMessage, HoldsFile
    <3>a. PICK g \in Files : g = cur
      BY <3>1
    <3>2. settled' = settled \cup {g} /\ UNCHANGED <<spool, written, purged>>
      BY <1>3, <2>1, <3>1, <3>a DEF ApiAnswer
    <3>3. StatusOf(g) = "spooled" /\ StatusOf(g)' = "settled"
      BY <2>1, <3>a, <3>2 DEF Lockstep, TypeOK, StatusOf
    <3>4. \A f \in Files : f # g => StatusOf(f)' = StatusOf(f)
      BY <3>2 DEF StatusOf
    <3>5. Status' = [Status EXCEPT ![g] = "settled"] /\ Status[g] = "spooled"
      BY <3>2, <3>3, <3>4, OneStatus DEF Status
    <3> QED
      BY <3>2, <3>5, Zenon DEF Promise!Next, Promise!Settle, Promise!Move, Status
  <2>2. CASE ~(code \in Final /\ cur \in spool /\ cur \notin settled)
    <3>1. UNCHANGED <<spool, written, purged>> /\ settled' \in {settled, settled \cup {cur}}
          /\ (settled' = settled \/ cur \notin spool)
      BY <1>3, <2>2 DEF ApiAnswer, Lockstep, OneMessage
    <3>2. \A f \in Files : StatusOf(f)' = StatusOf(f)
      BY <3>1 DEF StatusOf
    <3> QED
      BY <3>2 DEF Status
  <2> QED
    BY <2>1, <2>2
<1>4. ASSUME NEW f \in Files, WriteFile(f) PROVE [Promise!Next]_Status
  <2>1. StatusOf(f) = "new" /\ StatusOf(f)' = "spooled"
    BY <1>4 DEF WriteFile, StatusOf, Lockstep
  <2>2. \A g \in Files : g # f => StatusOf(g)' = StatusOf(g)
    BY <1>4 DEF WriteFile, StatusOf
  <2>3. Status' = [Status EXCEPT ![f] = "spooled"] /\ Status[f] = "new"
    BY <2>1, <2>2, OneStatus DEF Status
  <2> QED
    BY <2>3, Zenon DEF Promise!Next, Promise!Write, Promise!Move, Status
<1>5. ASSUME NEW f \in Files, PurgeFile(f) PROVE [Promise!Next]_Status
  <2>1. StatusOf(f) \in {"spooled", "settled"} /\ StatusOf(f)' = "purged"
    BY <1>5 DEF PurgeFile, StatusOf, Lockstep, TypeOK
  <2>2. \A g \in Files : g # f => StatusOf(g)' = StatusOf(g)
    BY <1>5 DEF PurgeFile, StatusOf
  <2>3. Status' = [Status EXCEPT ![f] = "purged"] /\ Status[f] \in {"spooled", "settled"}
    BY <2>1, <2>2, OneStatus DEF Status
  <2> QED
    BY <2>3, Zenon DEF Promise!Next, Promise!Purge, Promise!Move, Status
<1>6. CASE Tick \/ Loop \/ Dial \/ Handshake \/ ListFiles \/ NextFile \/ NoMoreFiles \/ ReadFile
  BY <1>1, <1>6 DEF Tick, Loop, Dial, Handshake, ListFiles, NextFile, NoMoreFiles, ReadFile
<1>7. CASE SendFile \/ RecvResponse \/ RecvError \/ ActRetry
  BY <1>1, <1>7, SMTT(30) DEF SendFile, RecvResponse, RecvError, ActRetry
<1>8. CASE Stop \/ Stopped \/ Start \/ LinkBreaks \/ TimeIsUp \/ Calm \/ UNCHANGED vars
  BY <1>1, <1>8, Zenon DEF Stop, Stopped, Start, LinkBreaks, TimeIsUp, Calm
<1> QED
  BY <1>2, <1>3, <1>4, <1>5, <1>6, <1>7, <1>8 DEF Next, RunStep

(***************************************************************************)
(* The sender implements Delivery: a report stays spooled until the API's  *)
(* verdict on it, a purge, or the rule that it is not to be sent.          *)
(***************************************************************************)
THEOREM SenderDelivers == Spec => ImplementsDelivery
<1>1. Init => Promise!Init
  BY DEF Init, Promise!Init, StatusOf
<1>2. Lockstep /\ [Next]_vars => [Promise!Next]_[f \in Files |-> StatusOf(f)]
  BY StepIsAllowed DEF Status
<1> QED
  BY <1>1, <1>2, LockstepAlways, PTL DEF Spec, ImplementsDelivery, Promise!Spec
-----------------------------------------------------------------------------
(***************************************************************************)
(* The spooler, which the sender's iterations share with run().  It is not *)
(* composed with the sender above; its client may do more than the sender  *)
(* does.                                                                   *)
(***************************************************************************)
\* What the writers and the manager own, with the files on disk.
SpooledType ==
  /\ created \subseteq Keys /\ disk \subseteq created /\ expired \subseteq created
  /\ writers \subseteq [key : created, locked : BOOLEAN]
  /\ concurrent \in BOOLEAN
  /\ dataChan \in Seq(created) /\ Len(dataChan) <= WriteBuffer
  /\ bound \in [old : SUBSET Keys, concurrent : BOOLEAN, faults : BOOLEAN,
                restarts : Nat, expired : Nat]

\* The totals, and what the last Start found in them.
TotalsType ==
  /\ count \in 0..(UintMod - 1) /\ size \in 0..(UintMod - 1)
  /\ fileSize \in [Keys -> Nat \cup {NoSize}]
  /\ extra \in [count : 0..(UintMod - 1), size : 0..(UintMod - 1)]

\* A walk offers a file that it has seen on disk.
WalkType ==
  /\ cancelChan \in [owner : Walkers \cup {"none"}, closed : BOOLEAN]
  /\ walk \in [Walkers -> [st : {"list", "stat", "offer", "closed"},
                                 todo : SUBSET created, cancelled : BOOLEAN]]
  /\ \A g \in Walkers :
       walk[g].st = "offer" => Min(walk[g].todo) \in created

\* A goroutine that is about to count, read or erase has a file in hand.
ProcType ==
  /\ mux \in {"free", "run", "write"} /\ alone \in BOOLEAN /\ drift \in BOOLEAN
  /\ run \in [pc : RunStates, key : created \cup {0}, size : Nat, ok : BOOLEAN,
              panic : BOOLEAN]
  /\ client \in [pc : ClientStates, key : created \cup {0}, size : Nat, ok : BOOLEAN]
  /\ run.pc \in {"count", "erase"} => run.key \in created
  /\ client.pc \in {"got", "read", "remove", "erase", "count"} => client.key \in created

\* The client is within an iteration, between its Files and its CancelFiles.
Iterating == client.pc \in {"next", "got", "read", "remove", "erase", "count", "cancel"}

(***************************************************************************)
(* Why cancelChan is closed when somebody is about to close it: run() did  *)
(* so in a purge that has not called Files again yet, or the client did so *)
(* since the purge began.                                                  *)
(***************************************************************************)
CancelledInCompany ==
  /\ alone => client.pc \in {"new", "idle"}
  /\ cancelChan.closed /\ Iterating => run.pc = "reset"
  /\ cancelChan.closed /\ alone => run.pc \notin {"purge", "erase"}
  /\ run.panic => run.pc \in {"reset", "stats"} /\ ~alone
  /\ run.pc = "crashed" \/ client.pc = "crashed" => drift

SpoolInv == SpooledType /\ TotalsType /\ WalkType /\ ProcType /\ CancelledInCompany
-----------------------------------------------------------------------------
(***************************************************************************)
(* Which steps change what.                                                *)
(***************************************************************************)
SpoolsOrErases ==
  \/ Writer \/ RunSpool \/ PurgeErase
  \/ \E k \in Keys : CountFile(k)
  \/ SpoolerStop \/ StartCache \/ ClientReject \/ ClientErase
  \/ \E k \in Keys : Expire(k)
Counts ==
  \/ RunCount \/ PurgeErase \/ StatsReset
  \/ \E k \in Keys : PurgeNext(k) \/ CountFile(k)
  \/ ClientRead \/ ClientRemove \/ ClientCount
Walks ==
  \/ PurgeBegin \/ PurgeCancel \/ StatsReset \/ StartCount
  \/ \E k \in Keys : PurgeNext(k) \/ CountFile(k) \/ ClientNext(k)
  \/ ClientFiles \/ ClientRead \/ ClientRemove \/ ClientErase
  \/ ClientCancel
  \/ \E g \in Walkers : WalkStep(g)

spooled == <<created, disk, expired, writers, concurrent, dataChan, bound>>

\* A step of the writers spools, one of the manager restarts.
LEMMA WriterChanges ==
  Writer => UNCHANGED <<count, size, fileSize, cancelChan, walk>> /\ History
BY Zenon DEF Writer, WriteBegin, WriteQueued, WriteTimeout,
   WriteReturn, totals, iter

\* Every step of run() changes only what the above says of it.
LEMMA RunChanges ==
  ASSUME Run
  PROVE  /\ UNCHANGED spooled \/ SpoolsOrErases
         /\ UNCHANGED <<count, size, fileSize>> \/ Counts
         /\ UNCHANGED <<cancelChan, walk>> \/ Walks
         /\ History
<1>1. CASE RunSpool
  BY <1>1, Zenon DEF RunSpool, SpoolsOrErases, totals, iter
<1>2. CASE RunCount
  BY <1>2, Zenon DEF RunCount, Counts, input, iter, spooled
<1>3. CASE PurgeTick
  BY <1>3, Zenon DEF PurgeTick, input, iter, totals, spooled
<1>4. CASE PurgeBegin
  BY <1>4, Zenon DEF PurgeBegin, Walks, input, totals, spooled
<1>5. CASE PurgeErase
  BY <1>5, Zenon DEF PurgeErase, Counts, SpoolsOrErases, iter
<1>6. CASE PurgeCancel
  BY <1>6, Zenon DEF PurgeCancel, Walks, input, totals, spooled
<1>7. CASE StatsReset
  BY <1>7, Zenon DEF StatsReset, Counts, Walks, input, spooled
<1>8. CASE StatsEnd
  BY <1>8, Zenon DEF StatsEnd, input, iter, totals, spooled
<1>9. CASE \E k \in Keys : PurgeNext(k)
  BY <1>9, Zenon DEF PurgeNext, Counts, Walks, input, spooled
<1>10. CASE \E k \in Keys : CountFile(k)
  BY <1>10, Zenon DEF CountFile, Counts, Walks, SpoolsOrErases
<1> QED
  BY <1>1, <1>2, <1>3, <1>4, <1>5, <1>6, <1>7, <1>8, <1>9, <1>10, Zenon
     DEF Run, Purge

\* So does every step of the manager.
LEMMA ManagerChanges ==
  ASSUME Manager
  PROVE  /\ UNCHANGED spooled \/ SpoolsOrErases
         /\ UNCHANGED <<count, size, fileSize>>
         /\ UNCHANGED <<cancelChan, walk>> \/ Walks
         /\ History
BY Zenon DEF Manager, SpoolerStop, StartCache, StartCount,
   SpoolsOrErases, Walks, input, iter, totals, spooled

\* So does every step of the client.
LEMMA ClientChanges ==
  ASSUME Client
  PROVE  /\ UNCHANGED spooled \/ SpoolsOrErases
         /\ UNCHANGED <<count, size, fileSize>> \/ Counts
         /\ UNCHANGED <<cancelChan, walk>> \/ Walks
         /\ History
         /\ UNCHANGED run
<1> USE DEF Frame, input
<1>1. CASE ClientStart
  BY <1>1, Zenon DEF ClientStart, iter, totals, spooled
<1>2. CASE ClientFiles
  BY <1>2, Zenon DEF ClientFiles, Walks, totals, spooled
<1>3. CASE ClientRead
  <2>1. UNCHANGED disk
    BY <1>3, Zenon DEF ClientRead, ClientPanics
  <2> QED
    BY <1>3, <2>1, Zenon DEF ClientRead, Walks, Counts, spooled
<1>4. CASE ClientReject
  BY <1>4, Zenon DEF ClientReject, SpoolsOrErases, iter, totals
<1>5. CASE ClientRemove
  <2>1. UNCHANGED disk
    BY <1>5, Zenon DEF ClientRemove, ClientPanics
  <2> QED
    BY <1>5, <2>1, Zenon DEF ClientRemove, Walks, Counts, spooled
<1>6. CASE ClientErase
  BY <1>6, Zenon DEF ClientErase, ClientPanics, Walks, SpoolsOrErases, totals
<1>7. CASE ClientCount
  BY <1>7, Zenon DEF ClientCount, Counts, spooled
<1>8. CASE ClientLeave
  BY <1>8, Zenon DEF ClientLeave, iter, totals, spooled
<1>9. CASE ClientCancel
  BY <1>9, Zenon DEF ClientCancel, Walks, totals, spooled
<1>10. CASE \E k \in Keys : ClientNext(k)
  BY <1>10, Zenon DEF ClientNext, Walks, totals, spooled
<1> QED
  BY <1>1, <1>2, <1>3, <1>4, <1>5, <1>6, <1>7, <1>8, <1>9, <1>10, Zenon DEF Client

\* So does every step.
LEMMA SpoolChanges ==
  ASSUME [SpoolerNext]_spoolerVars
  PROVE  /\ UNCHANGED spooled \/ SpoolsOrErases
         /\ UNCHANGED <<count, size, fileSize>> \/ Counts
         /\ UNCHANGED <<cancelChan, walk>> \/ Walks
         /\ History \/ UNCHANGED spoolerVars
<1>1. CASE Writer
  BY <1>1, WriterChanges, Zenon DEF SpoolsOrErases
<1>2. CASE \E g \in Walkers : WalkStep(g)
  BY <1>2, Zenon DEF WalkStep, Walks, input, totals, spooled
<1>3. CASE \E k \in Keys : Expire(k)
  BY <1>3, Zenon DEF Expire, SpoolsOrErases, iter, totals
<1>4. CASE UNCHANGED spoolerVars
  BY <1>4, Zenon DEF spoolerVars, spooled
<1> QED
  BY <1>1, <1>2, <1>3, <1>4, RunChanges, ManagerChanges, ClientChanges, Zenon DEF SpoolerNext
-----------------------------------------------------------------------------
(***************************************************************************)
(* The parts of the invariant, one lemma each.                             *)
(***************************************************************************)
\* A report that is appended to dataChan.
LEMMA QueueAppend ==
  ASSUME NEW T, NEW s \in Seq(T), NEW x \in T
  PROVE  Append(s, x) \in Seq(T) /\ Len(Append(s, x)) = Len(s) + 1 /\ Len(s) \in Nat
OBVIOUS

\* The reports and the files stay among the reports handed to Write.
LEMMA SpooledNext ==
  ASSUME SpoolInv, [SpoolerNext]_spoolerVars
  PROVE  SpooledType' /\ created \subseteq created'
<1> SpooledType /\ ProcType
  BY Zenon DEF SpoolInv
<1>1. CASE \E k \in Keys : WriteBegin(k)
  <2>1. PICK k \in Keys : WriteBegin(k)
    BY <1>1, Zenon
  <2>2. /\ created' = created \cup {k}
        /\ UNCHANGED <<concurrent, dataChan, disk, expired, bound>>
    BY <2>1, Zenon DEF WriteBegin
  <2>3. (~concurrent) \in BOOLEAN
    BY Zenon
  <2>4. \/ writers' = writers
        \/ \E b \in BOOLEAN : writers' = writers \cup {[key |-> k, locked |-> b]}
    BY <2>1, <2>3, Zenon DEF WriteBegin
  <2>5. writers' \subseteq [key : created', locked : BOOLEAN]
    BY <2>2, <2>4 DEF SpooledType
  <2>6. dataChan' \in Seq(created') /\ Len(dataChan') <= WriteBuffer
    BY <2>2 DEF SpooledType
  <2> QED
    BY <2>2, <2>5, <2>6, Zenon DEF SpooledType
<1>2. CASE \E w \in writers : WriteQueued(w) \/ WriteTimeout(w)
  <2>1. PICK w \in writers : WriteQueued(w) \/ WriteTimeout(w)
    BY <1>2, Zenon
  <2>2. /\ UNCHANGED <<created, concurrent, disk, expired, bound>>
        /\ writers' = writers \ {w}
    BY <2>1, Zenon DEF WriteQueued, WriteTimeout, WriteReturn
  <2>3. \/ dataChan' = dataChan
        \/ Len(dataChan) < WriteBuffer /\ dataChan' = Append(dataChan, w.key)
    BY <2>1, Zenon DEF WriteQueued, WriteTimeout
  <2>4. w.key \in created
    BY Zenon DEF SpooledType
  <2>5. dataChan' \in Seq(created') /\ Len(dataChan') <= WriteBuffer
    <3>1. CASE dataChan' = dataChan
      BY <2>2, <3>1, Zenon DEF SpooledType
    <3>2. CASE Len(dataChan) < WriteBuffer /\ dataChan' = Append(dataChan, w.key)
      <4>1. /\ dataChan' \in Seq(created)
            /\ Len(dataChan') = Len(dataChan) + 1 /\ Len(dataChan) \in Nat
        BY <2>4, <3>2, QueueAppend, Zenon DEF SpooledType
      <4>2. Len(dataChan') <= WriteBuffer
        BY SpoolerAssumption, <3>2, <4>1
      <4> QED
        BY <2>2, <4>1, <4>2, Zenon
    <3> QED
      BY <2>3, <3>1, <3>2, Zenon
  <2> QED
    BY <2>2, <2>5, Zenon DEF SpooledType
<1>3. CASE RunSpool
  <2>1. dataChan # <<>> /\ Head(dataChan) \in created /\ Tail(dataChan) \in Seq(created)
        /\ Len(Tail(dataChan)) <= WriteBuffer
    BY SpoolerAssumption, <1>3 DEF RunSpool, SpooledType
  <2> QED
    BY <1>3, <2>1, Zenon DEF RunSpool, SpooledType
<1>4. CASE PurgeErase
  BY <1>4, Zenon DEF PurgeErase, input, SpooledType
<1>5. CASE \E k \in Keys : CountFile(k)
  BY <1>5, Zenon DEF CountFile, input, SpooledType
<1>6. CASE SpoolerStop
  BY <1>6 DEF SpoolerStop, SpooledType
<1>7. CASE StartCache
  <2>1. concurrent' \in BOOLEAN /\ UNCHANGED <<created, disk, expired, writers, dataChan, bound>>
    BY <1>7, Zenon DEF StartCache
  <2> QED
    BY <2>1, Zenon DEF SpooledType
<1>8. CASE ClientReject
  BY <1>8, Zenon DEF ClientReject, Frame, input, SpooledType
<1>9. CASE ClientErase
  BY <1>9, Zenon DEF ClientErase, ClientPanics, Frame, input, SpooledType
<1>10. CASE \E k \in Keys : Expire(k)
  BY <1>10, Zenon DEF Expire, SpooledType
<1>11. CASE UNCHANGED spooled
  BY <1>11, Zenon DEF spooled, SpooledType
<1> QED
  BY <1>1, <1>2, <1>3, <1>4, <1>5, <1>6, <1>7, <1>8, <1>9, <1>10, <1>11, SpoolChanges, Zenon
     DEF SpoolsOrErases, Writer

\* The totals stay uints, whatever is added and subtracted.
LEMMA UintArithmetic ==
  ASSUME NEW n \in Int, NEW m \in Int
  PROVE  Add(n, m) \in 0..(UintMod - 1) /\ Subtract(n, m) \in 0..(UintMod - 1)
BY SpoolerAssumption DEF Add, Subtract

\* Read leaves a size in fileSize.
LEMMA ReadType ==
  ASSUME TotalsType, NEW k \in Keys, NEW ok, Read(k, ok)
  PROVE  fileSize' \in [Keys -> Nat \cup {NoSize}]
BY SpoolerAssumption, Zenon DEF TotalsType, Read

\* Removing an entry leaves the others.
LEMMA ForgetType ==
  ASSUME TotalsType, NEW k, NEW ok,
         fileSize' = IF ok THEN [fileSize EXCEPT ![k] = NoSize] ELSE fileSize
  PROVE  fileSize' \in [Keys -> Nat \cup {NoSize}]
BY Zenon DEF TotalsType

\* The totals are uints and fileSize has sizes.
LEMMA TotalsNext ==
  ASSUME SpoolInv, [SpoolerNext]_spoolerVars
  PROVE  TotalsType'
<1> DEFINE Uint == 0..(UintMod - 1)
           Totals(n, m) == n \in Uint /\ m \in Uint
           Sized(f) == f \in [Keys -> Nat \cup {NoSize}]
<1> SpooledType /\ TotalsType /\ ProcType
  BY Zenon DEF SpoolInv
<1>1. Totals(count, size) /\ Sized(fileSize) /\ 0 \in Uint /\ 1 \in Int /\ count \in Int /\ size \in Int
      /\ SizeOf \in [Keys -> Nat] /\ created \subseteq Keys
  BY SpoolerAssumption DEF TotalsType, SpooledType
<1>2. Totals(count', size') /\ Sized(fileSize')
  <2>1. CASE RunCount
    <3>1. SizeOf[run.key] \in Int
      BY <1>1, <2>1 DEF ProcType, RunCount
    <3>2. Totals(Add(count, 1), Add(size, SizeOf[run.key]))
      BY <1>1, <3>1, UintArithmetic, Zenon
    <3> QED
      BY <1>1, <2>1, <3>2, Zenon DEF RunCount
  <2>2. CASE PurgeErase
    <3>1. run.size \in Int
      BY DEF ProcType
    <3>2. Totals(Subtract(count, 1), Subtract(size, run.size))
      BY <1>1, <3>1, UintArithmetic, Zenon
    <3> QED
      BY <1>1, <2>2, <3>2, ForgetType, Zenon DEF PurgeErase
  <2>3. CASE StatsReset
    BY <1>1, <2>3, Zenon DEF StatsReset
  <2>4. CASE \E k \in Keys : PurgeNext(k)
    BY <1>1, <2>4, ReadType, Zenon DEF PurgeNext
  <2>5. CASE \E k \in Keys : CountFile(k)
    <3>1. PICK k \in Keys : CountFile(k)
      BY <2>5, Zenon
    <3>2. SizeOf[k] \in Int
      BY <1>1
    <3>3. Totals(Add(count, 1), Add(size, SizeOf[k]))
      BY <1>1, <3>2, UintArithmetic, Zenon
    <3> QED
      BY <1>1, <3>1, <3>3, Zenon DEF CountFile
  <2>6. CASE ClientRead
    <3>1. client.key \in Keys
      BY <1>1, <2>6, Zenon DEF ProcType, ClientRead
    <3> QED
      BY <1>1, <2>6, <3>1, ReadType, Zenon DEF ClientRead, ClientPanics, totals
  <2>7. CASE ClientRemove
    <3>1. client.key \in Keys
      BY <1>1, <2>7, Zenon DEF ProcType, ClientRemove
    <3> QED
      BY <1>1, <2>7, <3>1, ReadType, Zenon DEF ClientRemove, ClientPanics, totals
  <2>8. CASE ClientCount
    <3>1. client.size \in Int
      BY DEF ProcType
    <3>2. Totals(Subtract(count, 1), Subtract(size, client.size))
      BY <1>1, <3>1, UintArithmetic, Zenon
    <3> QED
      BY <1>1, <2>8, <3>2, ForgetType, Zenon DEF ClientCount
  <2>9. CASE UNCHANGED <<count, size, fileSize>>
    BY <1>1, <2>9, Zenon
  <2> QED
    BY <2>1, <2>2, <2>3, <2>4, <2>5, <2>6, <2>7, <2>8, <2>9, SpoolChanges, Zenon DEF Counts
<1>3. extra' \in {extra, [count |-> count, size |-> size], [count |-> 0, size |-> 0]}
  BY SpoolChanges, Zenon DEF History, spoolerVars
<1>4. extra' \in [count : Uint, size : Uint]
  BY <1>1, <1>3 DEF TotalsType
<1> QED
  BY <1>2, <1>4, Zenon DEF TotalsType

\* What a walk is at any time, given the reports written so far.
WalkIn(w, cs) ==
  /\ w \in [st : {"list", "stat", "offer", "closed"}, todo : SUBSET cs, cancelled : BOOLEAN]
  /\ w.st = "offer" => Min(w.todo) \in cs

\* WalkType, by walk.
LEMMA WalkTypeBy ==
  ASSUME NEW cs, NEW w
  PROVE  (/\ w \in [Walkers -> [st : {"list", "stat", "offer", "closed"},
                                      todo : SUBSET cs, cancelled : BOOLEAN]]
          /\ \A g \in Walkers : w[g].st = "offer" => Min(w[g].todo) \in cs)
         <=> /\ w = [g \in Walkers |-> w[g]]
             /\ \A g \in Walkers : WalkIn(w[g], cs)
BY Zenon DEF WalkIn

\* More reports do not disturb a walk.
LEMMA WalkInMore ==
  ASSUME NEW cs, NEW ds, cs \subseteq ds, NEW w, WalkIn(w, cs)
  PROVE  WalkIn(w, ds)
BY Zenon DEF WalkIn

\* The walk that Files begins, one that is over, one that has its list, one that
\* found its next file on disk, one that had it taken, and one that is cancelled.
LEMMA WalkInSteps ==
  ASSUME NEW cs, NEW w, WalkIn(w, cs)
  PROVE  /\ WalkIn([st |-> "list", todo |-> {}, cancelled |-> FALSE], cs)
         /\ WalkIn(NoWalk, cs)
         /\ \A fs \in SUBSET cs : WalkIn([w EXCEPT !.st = "stat", !.todo = fs], cs)
         /\ Min(w.todo) \in cs => WalkIn([w EXCEPT !.st = "offer"], cs)
         /\ \A k : WalkIn([w EXCEPT !.st = "stat", !.todo = w.todo \ {k}], cs)
         /\ WalkIn([w EXCEPT !.cancelled = TRUE], cs)
<1>1. /\ w \in [st : {"list", "stat", "offer", "closed"}, todo : SUBSET cs, cancelled : BOOLEAN]
      /\ w.st = "offer" => Min(w.todo) \in cs
  BY Zenon DEF WalkIn
<1>2. /\ WalkIn([st |-> "list", todo |-> {}, cancelled |-> FALSE], cs)
      /\ WalkIn(NoWalk, cs)
  BY Zenon DEF WalkIn, NoWalk
<1>3. \A fs \in SUBSET cs : WalkIn([w EXCEPT !.st = "stat", !.todo = fs], cs)
  BY <1>1, Zenon DEF WalkIn
<1>4. Min(w.todo) \in cs => WalkIn([w EXCEPT !.st = "offer"], cs)
  BY <1>1, Zenon DEF WalkIn
<1>5. \A k : WalkIn([w EXCEPT !.st = "stat", !.todo = w.todo \ {k}], cs)
  BY <1>1, Zenon DEF WalkIn
<1>6. WalkIn([w EXCEPT !.cancelled = TRUE], cs)
  BY <1>1, Zenon DEF WalkIn
<1> QED
  BY <1>2, <1>3, <1>4, <1>5, <1>6, Zenon

\* A step of one walk leaves the others as they are.
LEMMA WalkExcept ==
  ASSUME NEW cs, NEW w, w = [g \in Walkers |-> w[g]],
         \A g \in Walkers : WalkIn(w[g], cs),
         NEW g \in Walkers, NEW x, WalkIn(x, cs),
         walk' = [w EXCEPT ![g] = x]
  PROVE  walk' = [h \in Walkers |-> walk'[h]] /\ \A h \in Walkers : WalkIn(walk'[h], cs)
OBVIOUS

\* CancelFiles, called by either goroutine.
LEMMA CancelFilesType ==
  ASSUME WalkType, CancelFiles
  PROVE  /\ cancelChan' \in [owner : Walkers \cup {"none"}, closed : BOOLEAN]
         /\ walk' = [g \in Walkers |-> walk'[g]]
         /\ \A g \in Walkers : WalkIn(walk'[g], created)
<1>1. walk = [g \in Walkers |-> walk[g]] /\ \A g \in Walkers : WalkIn(walk[g], created)
  BY WalkTypeBy, Zenon DEF WalkType
<1>2. cancelChan' \in [owner : Walkers \cup {"none"}, closed : BOOLEAN]
  BY Zenon DEF WalkType, CancelFiles
<1>3. CASE walk' = walk
  BY <1>1, <1>2, <1>3, ZenonT(30)
<1>4. CASE /\ cancelChan.owner \in Walkers
           /\ walk' = [walk EXCEPT ![cancelChan.owner].cancelled = TRUE]
  <2> DEFINE g == cancelChan.owner
  <2>1. walk' = [walk EXCEPT ![g] = [walk[g] EXCEPT !.cancelled = TRUE]]
    BY <1>4, Zenon
  <2>2. WalkIn([walk[g] EXCEPT !.cancelled = TRUE], created)
    BY <1>1, <1>4, WalkInSteps, Zenon
  <2> QED
    BY <1>1, <1>2, <1>4, <2>1, <2>2, WalkExcept, ZenonT(30)
<1> QED
  BY <1>3, <1>4, Zenon DEF CancelFiles

\* Files, called by either goroutine.
LEMMA FilesType ==
  ASSUME WalkType, NEW g \in Walkers, SpoolerFiles(g)
  PROVE  /\ cancelChan' \in [owner : Walkers \cup {"none"}, closed : BOOLEAN]
         /\ walk' = [h \in Walkers |-> walk'[h]]
         /\ \A h \in Walkers : WalkIn(walk'[h], created)
<1>1. walk = [h \in Walkers |-> walk[h]] /\ \A h \in Walkers : WalkIn(walk[h], created)
  BY WalkTypeBy, Zenon DEF WalkType
<1>2. cancelChan' \in [owner : Walkers \cup {"none"}, closed : BOOLEAN]
  BY Zenon DEF SpoolerFiles
<1>3. WalkIn([st |-> "list", todo |-> {}, cancelled |-> FALSE], created)
  BY <1>1, WalkInSteps, Zenon
<1> QED
  BY <1>1, <1>2, <1>3, WalkExcept, Zenon DEF SpoolerFiles

\* The range loop of either goroutine.
LEMMA ReceiveType ==
  ASSUME WalkType, NEW g \in Walkers, NEW k, Receive(g, k)
  PROVE  /\ k \in created
         /\ walk' = [h \in Walkers |-> walk'[h]]
         /\ \A h \in Walkers : WalkIn(walk'[h], created)
<1>1. walk = [h \in Walkers |-> walk[h]] /\ \A h \in Walkers : WalkIn(walk[h], created)
  BY WalkTypeBy, Zenon DEF WalkType
<1>2. WalkIn([walk[g] EXCEPT !.st = "stat", !.todo = walk[g].todo \ {k}], created)
  BY <1>1, WalkInSteps, Zenon
<1>3. walk' = [walk EXCEPT ![g] = [walk[g] EXCEPT !.st = "stat", !.todo = walk[g].todo \ {k}]]
  BY <1>1, Zenon DEF Receive
<1>4. k \in created
  BY <1>1, Zenon DEF Receive, WalkIn
<1> QED
  BY <1>1, <1>2, <1>3, <1>4, WalkExcept, ZenonT(30)

\* The walks themselves.
LEMMA WalkStepType ==
  ASSUME SpooledType, WalkType, NEW g \in Walkers, WalkStep(g)
  PROVE  /\ walk' = [h \in Walkers |-> walk'[h]]
         /\ \A h \in Walkers : WalkIn(walk'[h], created)
<1>1. walk = [h \in Walkers |-> walk[h]] /\ \A h \in Walkers : WalkIn(walk[h], created)
  BY WalkTypeBy, Zenon DEF WalkType
<1>2. CASE WalkList(g)
  <2>1. WalkIn([walk[g] EXCEPT !.st = "stat", !.todo = disk], created)
    BY <1>1, WalkInSteps, Zenon DEF SpooledType
  <2>2. walk' = [walk EXCEPT ![g] = [walk[g] EXCEPT !.st = "stat", !.todo = disk]]
    BY <1>1, <1>2, Zenon DEF WalkList
  <2> QED
    BY <1>1, <2>1, <2>2, WalkExcept, ZenonT(30)
<1>3. CASE WalkStat(g)
  <2>1. CASE Min(walk[g].todo) \in disk /\ walk' = [walk EXCEPT ![g].st = "offer"]
    <3>1. WalkIn([walk[g] EXCEPT !.st = "offer"], created)
      BY <1>1, <2>1, WalkInSteps, ZenonT(30) DEF SpooledType
    <3>2. walk' = [walk EXCEPT ![g] = [walk[g] EXCEPT !.st = "offer"]]
      BY <1>1, <2>1, Zenon
    <3> QED
      BY <1>1, <3>1, <3>2, WalkExcept, ZenonT(30)
  <2>2. CASE walk' = [walk EXCEPT ![g] = NoWalk]
    <3>1. WalkIn(NoWalk, created)
      BY <1>1, WalkInSteps, Zenon
    <3> QED
      BY <1>1, <2>2, <3>1, WalkExcept, ZenonT(30)
  <2> QED
    BY <1>3, <2>1, <2>2, Zenon DEF WalkStat
<1>4. CASE WalkCancel(g)
  <2>1. WalkIn(NoWalk, created)
    BY <1>1, WalkInSteps, Zenon
  <2> QED
    BY <1>1, <1>4, <2>1, WalkExcept, ZenonT(30) DEF WalkCancel
<1> QED
  BY <1>2, <1>3, <1>4, Zenon DEF WalkStep

\* A walk lists and offers only reports that were written.
LEMMA WalkNext ==
  ASSUME SpoolInv, [SpoolerNext]_spoolerVars
  PROVE  WalkType'
<1> SpooledType /\ WalkType
  BY Zenon DEF SpoolInv
<1> "run" \in Walkers /\ "client" \in Walkers
  BY Zenon DEF Walkers
<1> DEFINE CancelOk == cancelChan' \in [owner : Walkers \cup {"none"}, closed : BOOLEAN]
           WalkOk == /\ walk' = [h \in Walkers |-> walk'[h]]
                     /\ \A h \in Walkers : WalkIn(walk'[h], created)
<1>0. cancelChan' = cancelChan => CancelOk
  BY Zenon DEF WalkType
<1>1. UNCHANGED <<cancelChan, walk>> => CancelOk /\ WalkOk
  <2>1. walk = [h \in Walkers |-> walk[h]] /\ \A h \in Walkers : WalkIn(walk[h], created)
    BY WalkTypeBy, Zenon DEF WalkType
  <2>2. walk' = walk => WalkOk
    BY <2>1, Zenon
  <2> QED
    BY <1>0, <2>2, Zenon
<1> HIDE DEF CancelOk, WalkOk
<1>2. \A g \in Walkers : SpoolerFiles(g) => CancelOk /\ WalkOk
  BY FilesType, Zenon DEF CancelOk, WalkOk
<1>3. CancelFiles => CancelOk /\ WalkOk
  BY CancelFilesType, Zenon DEF CancelOk, WalkOk
<1>4. \A g \in Walkers, k \in Keys : Receive(g, k) /\ cancelChan' = cancelChan => CancelOk /\ WalkOk
  BY <1>0, ReceiveType, Zenon DEF WalkOk
<1>5. CancelOk /\ WalkOk
  <2>1. CASE PurgeBegin \/ StatsReset \/ StartCount
    BY <1>2, <2>1, Zenon DEF PurgeBegin, StatsReset, StartCount
  <2>2. CASE PurgeCancel \/ ClientCancel
    BY <1>3, <2>2, Zenon DEF PurgeCancel, ClientCancel
  <2>3. CASE \E k \in Keys : PurgeNext(k) \/ CountFile(k) \/ ClientNext(k)
    BY <1>4, <2>3, Zenon DEF PurgeNext, CountFile, ClientNext
  <2>4. CASE ClientFiles
    <3>1. CASE cancelChan' = [owner |-> "client", closed |-> TRUE] /\ UNCHANGED walk
      <4>1. CancelOk
        BY <3>1, ZenonT(30) DEF CancelOk
      <4>2. walk = [h \in Walkers |-> walk[h]]
            /\ \A h \in Walkers : WalkIn(walk[h], created)
        BY WalkTypeBy, Zenon DEF WalkType
      <4> QED
        BY <3>1, <4>1, <4>2, ZenonT(30) DEF WalkOk
    <3> QED
      BY <1>2, <2>4, <3>1, Zenon DEF ClientFiles
  <2>5. CASE ClientRead \/ ClientRemove \/ ClientErase
    BY <1>1, <1>3, <2>5, Zenon DEF ClientRead, ClientRemove, ClientErase,
       ClientPanics, iter
  <2>6. CASE \E g \in Walkers : WalkStep(g)
    BY <1>0, <2>6, WalkStepType, Zenon DEF WalkStep, WalkOk
  <2> QED
    BY <1>1, <2>1, <2>2, <2>3, <2>4, <2>5, <2>6, SpoolChanges, Zenon DEF Walks
<1>6. \A h \in Walkers : WalkIn(walk'[h], created')
  BY <1>5, SpooledNext, WalkInMore, Zenon DEF WalkOk
<1>7. walk' = [h \in Walkers |-> walk'[h]]
  BY <1>5, Zenon DEF WalkOk
<1>8. CancelOk
  BY <1>5, Zenon
<1> QED
  BY <1>6, <1>7, <1>8, WalkTypeBy, Zenon DEF WalkType, CancelOk
-----------------------------------------------------------------------------
(***************************************************************************)
(* How run() and the client move.                                          *)
(***************************************************************************)
InHand == {"got", "read", "remove", "erase", "count"}

RunMoves ==
  \/ run' = run
  \/ \E at \in RunStates \ {"count", "erase"} : run' = RunAt(at)
  \/ \E at \in {"count", "erase"}, k \in created, n \in Nat, ok \in BOOLEAN :
       run' = [run EXCEPT !.pc = at, !.key = k, !.size = n, !.ok = ok]
  \/ \E at \in {"reset", "stats"}, panic \in BOOLEAN :
       run' = [run EXCEPT !.pc = at, !.panic = panic]

ClientMoves ==
  \/ client' = client
  \/ \E at \in ClientStates \ InHand : client' = ClientAt(at)
  \/ \E at \in InHand, k \in created, n \in Nat, ok \in BOOLEAN :
       client' = [client EXCEPT !.pc = at, !.key = k, !.size = n, !.ok = ok]

\* A size that is known is a size.
LEMMA KnownSize ==
  ASSUME TotalsType, NEW k \in Keys, fileSize[k] # NoSize
  PROVE  fileSize[k] \in Nat
BY Zenon DEF TotalsType

\* A file that is read has its size, one that is not has none.
LEMMA FoundSize ==
  ASSUME NEW k \in Keys, NEW ok
  PROVE  (IF ok THEN SizeOf[k] ELSE 0) \in Nat
BY SpoolerAssumption, Zenon

\* Every step moves run() in one of these ways.
LEMMA RunMovesNext ==
  ASSUME SpoolInv, [SpoolerNext]_spoolerVars
  PROVE  RunMoves
<1> SpooledType /\ TotalsType /\ WalkType /\ ProcType
  BY Zenon DEF SpoolInv
<1>0. run = [run EXCEPT !.pc = run.pc, !.key = run.key, !.size = run.size, !.ok = run.ok,
                        !.panic = run.panic]
      /\ run.size \in Nat /\ run.ok \in BOOLEAN /\ run.panic \in BOOLEAN
      /\ run \in [pc : RunStates, key : created \cup {0}, size : Nat, ok : BOOLEAN, panic : BOOLEAN]
  BY Zenon DEF ProcType
<1>1. CASE RunSpool
  <2>1. Head(dataChan) \in created
    BY <1>1 DEF RunSpool, SpooledType
  <2>2. run' = [run EXCEPT !.pc = "count", !.key = Head(dataChan)]
    BY <1>1, Zenon DEF RunSpool
  <2>3. run' = [run EXCEPT !.pc = "count", !.key = Head(dataChan), !.size = run.size, !.ok = run.ok]
    BY <1>0, <2>2, Zenon
  <2> QED
    BY <1>0, <2>1, <2>3, Zenon DEF RunMoves
<1>2. CASE RunCount \/ PurgeTick \/ PurgeBegin \/ PurgeErase \/ StatsEnd
  <2>1. {"select", "tick", "purge", "crashed"} \subseteq RunStates \ {"count", "erase"}
    BY Zenon DEF RunStates
  <2>2. \E at \in {"select", "tick", "purge", "crashed"} : run' = RunAt(at)
    BY <1>2, Zenon DEF RunCount, PurgeTick, PurgeBegin, PurgeErase, StatsEnd
  <2> QED
    BY <2>1, <2>2, Zenon DEF RunMoves
<1>3. CASE Manager
  <2>1. {"stopped", "starting", "start"} \subseteq RunStates \ {"count", "erase"}
    BY Zenon DEF RunStates
  <2>2. \E at \in {"stopped", "starting", "start"} : run' = RunAt(at)
    BY <1>3, Zenon DEF Manager, SpoolerStop, StartCache, StartCount
  <2> QED
    BY <2>1, <2>2, Zenon DEF RunMoves
<1>4. CASE PurgeCancel
  <2>1. CancelPanics \in BOOLEAN
    BY Zenon DEF WalkType, CancelPanics
  <2> QED
    BY <1>4, <2>1, Zenon DEF RunMoves, PurgeCancel
<1>5. CASE StatsReset
  <2>1. run' = [run EXCEPT !.pc = "stats"]
    BY <1>5, Zenon DEF StatsReset
  <2>2. run' = [run EXCEPT !.pc = "stats", !.panic = run.panic]
    BY <1>0, <2>1, Zenon
  <2> QED
    BY <1>0, <2>2, Zenon DEF RunMoves
<1>6. CASE \E k \in Keys : PurgeNext(k)
  <2>1. PICK k \in Keys : PurgeNext(k)
    BY <1>6, Zenon
  <2>2. k \in created
    BY <2>1, ReceiveType, Zenon DEF PurgeNext, Walkers
  <2>3. CASE fileSize[k] # NoSize
             /\ run' = [run EXCEPT !.pc = "erase", !.key = k, !.size = fileSize[k], !.ok = TRUE]
    BY <2>2, <2>3, KnownSize, Zenon DEF RunMoves
  <2>4. CASE \E ok \in BOOLEAN :
               run' = [run EXCEPT !.pc = "erase", !.key = k, !.ok = FALSE,
                                  !.size = IF ok THEN SizeOf[k] ELSE 0]
    <3>1. PICK ok \in BOOLEAN :
                 run' = [run EXCEPT !.pc = "erase", !.key = k, !.ok = FALSE,
                                    !.size = IF ok THEN SizeOf[k] ELSE 0]
      BY <2>4, Zenon
    <3>2. run' = [run EXCEPT !.pc = "erase", !.key = k, !.size = IF ok THEN SizeOf[k] ELSE 0,
                             !.ok = FALSE]
      BY <1>0, <3>1, ZenonT(30)
    <3> QED
      BY <2>2, <3>2, FoundSize, Zenon DEF RunMoves
  <2> QED
    BY <2>1, <2>3, <2>4, Zenon DEF PurgeNext, RunMoves
<1>7. CASE UNCHANGED run
  BY <1>7, Zenon DEF RunMoves
<1>8. \A k \in Keys : CountFile(k) => UNCHANGED run
  BY Zenon DEF CountFile
<1>9. Writer \/ Client \/ (\E g \in Walkers : WalkStep(g))
        \/ (\E k \in Keys : Expire(k)) \/ UNCHANGED spoolerVars => UNCHANGED run
  BY ClientChanges, Zenon DEF Writer, WriteBegin, WriteQueued, WriteTimeout,
     WriteReturn, WalkStep, Expire, spoolerVars
<1> QED
  BY <1>1, <1>2, <1>3, <1>4, <1>5, <1>6, <1>7, <1>8, <1>9, Zenon
     DEF SpoolerNext, Run, Purge

\* Every step but those of the client leaves it where it is.
LEMMA OthersLeaveClient ==
  ASSUME [SpoolerNext]_spoolerVars
  PROVE  Client \/ UNCHANGED client
<1>1. Writer => UNCHANGED client
  BY Zenon DEF Writer, WriteBegin, WriteQueued, WriteTimeout, WriteReturn
<1>2. Purge => UNCHANGED client
  BY Zenon DEF Purge, PurgeBegin, PurgeErase, PurgeCancel, StatsReset,
     StatsEnd, PurgeNext, CountFile
<1>3. Run => UNCHANGED client
  BY <1>2, Zenon DEF Run, RunSpool, RunCount, PurgeTick
<1>4. Manager => UNCHANGED client
  BY Zenon DEF Manager, SpoolerStop, StartCache, StartCount
<1>5. (\E g \in Walkers : WalkStep(g)) \/ (\E k \in Keys : Expire(k))
        \/ UNCHANGED spoolerVars => UNCHANGED client
  BY Zenon DEF WalkStep, Expire, spoolerVars
<1> QED
  BY <1>1, <1>3, <1>4, <1>5, Zenon DEF SpoolerNext

\* Every step moves the client in one of these ways.
LEMMA ClientMovesNext ==
  ASSUME SpoolInv, [SpoolerNext]_spoolerVars
  PROVE  ClientMoves
<1> SpooledType /\ TotalsType /\ WalkType /\ ProcType
  BY Zenon DEF SpoolInv
<1>0. /\ client.size \in Nat /\ client.ok \in BOOLEAN
      /\ client \in [pc : ClientStates, key : created \cup {0}, size : Nat, ok : BOOLEAN]
      /\ created \subseteq Keys
  BY Zenon DEF ProcType, SpooledType
<1>1. {"idle", "next", "cancel", "crashed"} \subseteq ClientStates \ InHand
  BY Zenon DEF ClientStates, InHand
<1>2. \A at \in {"idle", "next", "cancel", "crashed"} : client' = ClientAt(at) => ClientMoves
  BY <1>1, Zenon DEF ClientMoves
<1>3. ClientPanics => ClientMoves
  BY <1>2, Zenon DEF ClientPanics
<1>4. CASE ClientStart \/ ClientFiles \/ ClientLeave \/ ClientCancel
  <2>1. \E at \in {"idle", "next", "cancel", "crashed"} : client' = ClientAt(at)
    BY <1>4, Zenon DEF ClientStart, ClientFiles, ClientLeave, ClientCancel
  <2> QED
    BY <1>2, <2>1, Zenon
<1>5. CASE ClientCount
  <2>1. \E at \in {"next", "cancel"} : client' = ClientAt(at)
    BY <1>5, Zenon DEF ClientCount
  <2> QED
    BY <1>2, <2>1, Zenon
<1>6. CASE \E k \in Keys : ClientNext(k)
  <2>1. PICK k \in Keys : ClientNext(k)
    BY <1>6
  <2>2. k \in created
    BY <2>1, ReceiveType, Zenon DEF ClientNext, Walkers
  <2>3. client' = [client EXCEPT !.pc = "got", !.key = k]
    BY <2>1, Zenon DEF ClientNext
  <2>4. client' = [client EXCEPT !.pc = "got", !.key = k, !.size = client.size, !.ok = client.ok]
    BY <1>0, <2>3, Zenon
  <2> QED
    BY <1>0, <2>2, <2>4, Zenon DEF ClientMoves, InHand
<1>7. ASSUME NEW at \in InHand, client.key \in created, client' = [client EXCEPT !.pc = at]
      PROVE  ClientMoves
  <2>1. client' = [client EXCEPT !.pc = at, !.key = client.key, !.size = client.size, !.ok = client.ok]
    BY <1>0, <1>7, Zenon
  <2>2. client.size \in Nat /\ client.ok \in BOOLEAN
    BY <1>0, Zenon
  <2>3. \E n \in Nat, ok \in BOOLEAN :
          client' = [client EXCEPT !.pc = at, !.key = client.key, !.size = n, !.ok = ok]
    BY <2>1, <2>2, Zenon
  <2>4. at \in InHand /\ client.key \in created
    BY <1>7, Zenon
  <2> QED
    BY <2>3, <2>4, Zenon DEF ClientMoves
<1>8. client.pc \in InHand => client.key \in created
  BY Zenon DEF ProcType, InHand
<1>9. CASE ClientRead
  BY <1>2, <1>3, <1>7, <1>8, <1>9, Zenon DEF ClientRead, InHand
<1>10. CASE ClientReject
  BY <1>7, <1>8, <1>10, Zenon DEF ClientReject, InHand
<1>11. CASE ClientErase
  BY <1>2, <1>3, <1>7, <1>8, <1>11, Zenon DEF ClientErase, InHand
<1>12. CASE ClientRemove
  <2>1. client.key \in created /\ client.key \in Keys
    BY <1>0, <1>8, <1>12, Zenon DEF ClientRemove, InHand
  <2>2. CASE fileSize[client.key] # NoSize
             /\ client' = [client EXCEPT !.pc = "erase", !.size = fileSize[client.key], !.ok = TRUE]
    <3>1. client' = [client EXCEPT !.pc = "erase", !.key = client.key, !.size = fileSize[client.key],
                                   !.ok = TRUE]
      BY <1>0, <2>2, Zenon
    <3> QED
      BY <2>1, <2>2, <3>1, KnownSize, Zenon DEF ClientMoves, InHand
  <2>3. CASE \E ok \in BOOLEAN :
               client' = [client EXCEPT !.pc = "erase", !.ok = FALSE,
                                        !.size = IF ok THEN SizeOf[client.key] ELSE 0]
    <3>1. PICK ok \in BOOLEAN :
                 client' = [client EXCEPT !.pc = "erase", !.ok = FALSE,
                                          !.size = IF ok THEN SizeOf[client.key] ELSE 0]
      BY <2>3, Zenon
    <3>2. client' = [client EXCEPT !.pc = "erase", !.key = client.key,
                                   !.size = IF ok THEN SizeOf[client.key] ELSE 0, !.ok = FALSE]
      BY <1>0, <3>1, Zenon
    <3> QED
      BY <2>1, <3>2, FoundSize, Zenon DEF ClientMoves, InHand
  <2> QED
    BY <1>3, <1>12, <2>2, <2>3, Zenon DEF ClientRemove
<1>13. CASE UNCHANGED client
  BY <1>13, Zenon DEF ClientMoves
<1> QED
  BY <1>4, <1>5, <1>6, <1>9, <1>10, <1>11, <1>12, <1>13, OthersLeaveClient, Zenon DEF Client

\* Whoever needs a file has one, and mux is free, run()'s or a writer's.
LEMMA ProcNext ==
  ASSUME SpoolInv, [SpoolerNext]_spoolerVars
  PROVE  ProcType'
<1> ProcType
  BY Zenon DEF SpoolInv
<1>1. created \subseteq created'
  BY SpooledNext, Zenon
<1>2. /\ run' \in [pc : RunStates, key : created' \cup {0}, size : Nat, ok : BOOLEAN,
                   panic : BOOLEAN]
      /\ run'.pc \in {"count", "erase"} => run'.key \in created'
  <2>1. /\ run \in [pc : RunStates, key : created \cup {0}, size : Nat, ok : BOOLEAN,
                    panic : BOOLEAN]
        /\ run.pc \in {"count", "erase"} => run.key \in created
    BY Zenon DEF ProcType
  <2>2. CASE run' = run
    BY <1>1, <2>1, <2>2, ZenonT(30)
  <2>3. CASE \E at \in RunStates \ {"count", "erase"} : run' = RunAt(at)
    BY <2>3 DEF RunAt
  <2>4. CASE \E at \in {"count", "erase"}, k \in created, n \in Nat, ok \in BOOLEAN :
               run' = [run EXCEPT !.pc = at, !.key = k, !.size = n, !.ok = ok]
    BY <1>1, <2>1, <2>4, ZenonT(30) DEF RunStates
  <2>5. CASE \E at \in {"reset", "stats"}, panic \in BOOLEAN :
               run' = [run EXCEPT !.pc = at, !.panic = panic]
    BY <1>1, <2>1, <2>5, Zenon DEF RunStates
  <2> QED
    BY <2>2, <2>3, <2>4, <2>5, RunMovesNext, Zenon DEF RunMoves
<1>3. /\ client' \in [pc : ClientStates, key : created' \cup {0}, size : Nat, ok : BOOLEAN]
      /\ client'.pc \in InHand => client'.key \in created'
  <2>1. /\ client \in [pc : ClientStates, key : created \cup {0}, size : Nat, ok : BOOLEAN]
        /\ client.pc \in InHand => client.key \in created
    BY Zenon DEF ProcType, InHand
  <2>2. CASE client' = client
    BY <1>1, <2>1, <2>2, ZenonT(30)
  <2>3. CASE \E at \in ClientStates \ InHand : client' = ClientAt(at)
    BY <2>3 DEF ClientAt
  <2>4. CASE \E at \in InHand, k \in created, n \in Nat, ok \in BOOLEAN :
               client' = [client EXCEPT !.pc = at, !.key = k, !.size = n, !.ok = ok]
    BY <1>1, <2>1, <2>4, ZenonT(30) DEF ClientStates, InHand
  <2> QED
    BY <2>2, <2>3, <2>4, ClientMovesNext, Zenon DEF ClientMoves
<1>4. alone' \in BOOLEAN /\ drift' \in BOOLEAN
  <2>1. CASE History
    BY <2>1, Zenon DEF History, ProcType
  <2>2. CASE UNCHANGED spoolerVars
    BY <2>2, Zenon DEF spoolerVars, ProcType
  <2> QED
    BY <2>1, <2>2, SpoolChanges, Zenon
<1>5. mux' \in {mux, "free", "run", "write"}
  <2>1. CASE Writer
    BY <2>1, Zenon DEF Writer, WriteBegin, WriteQueued, WriteTimeout,
       WriteReturn
  <2>2. CASE Run
    BY <2>2, Zenon DEF Run, Purge, RunSpool, RunCount, PurgeTick,
       PurgeBegin, PurgeErase, PurgeCancel, StatsReset, StatsEnd,
       PurgeNext, CountFile
  <2>3. CASE Manager
    BY <2>3, Zenon DEF Manager, SpoolerStop, StartCache, StartCount
  <2>4. CASE Client
    BY <2>4, Zenon DEF Client, ClientStart, ClientFiles, ClientRead,
       ClientReject, ClientRemove, ClientErase, ClientCount,
       ClientLeave, ClientCancel, ClientNext, ClientPanics
  <2>5. CASE (\E g \in Walkers : WalkStep(g)) \/ (\E k \in Keys : Expire(k))
               \/ UNCHANGED spoolerVars
    BY <2>5, Zenon DEF WalkStep, Expire, spoolerVars
  <2> QED
    BY <2>1, <2>2, <2>3, <2>4, <2>5, Zenon DEF SpoolerNext
<1>6. mux' \in {"free", "run", "write"}
  BY <1>5, Zenon DEF ProcType
<1> QED
  BY <1>2, <1>3, <1>4, <1>6, Zenon DEF ProcType, InHand

(***************************************************************************)
(* What a step can do to cancelChan and to the two goroutines that close   *)
(* it.  run() moves:                                                       *)
(***************************************************************************)
RunAlone ==
  /\ UNCHANGED <<client, cancelChan>> /\ run'.panic = run.panic
  /\ \/ run.pc = "select" /\ run'.pc \in {"count", "tick", "stopped"}
     \/ run.pc \in {"count", "stopped"} /\ run'.pc \in {"select", "starting"}
     \/ run.pc \in {"purge", "erase"} /\ run'.pc \in {"purge", "erase"}
RunLists ==
  /\ UNCHANGED client /\ ~cancelChan'.closed /\ run'.panic = run.panic
  /\ \/ run.pc = "tick" /\ run'.pc = "purge"
     \/ run.pc = "reset" /\ run'.pc = "stats"
     \/ run.pc = "starting" /\ run'.pc = "start"
RunCancels ==
  /\ UNCHANGED client /\ cancelChan'.closed
  /\ run.pc = "purge" /\ run'.pc = "reset" /\ run'.panic = cancelChan.closed
RunEnds ==
  /\ UNCHANGED <<client, cancelChan>> /\ run.pc \in {"stats", "start"} /\ ~run'.panic
  /\ run'.pc = IF run.panic THEN "crashed" ELSE "select"

\* The client moves:
ClientBegins ==
  /\ UNCHANGED run
  /\ \/ client.pc = "new" /\ client'.pc = "idle" /\ UNCHANGED cancelChan
     \/ client.pc = "idle" /\ client'.pc = "next" /\ ~cancelChan'.closed
ClientGoesOn == UNCHANGED <<run, cancelChan>> /\ Iterating /\ Iterating'
ClientDown   == UNCHANGED run /\ run.pc = "stopped" /\ client'.pc = "crashed"
ClientEnds   ==
  /\ UNCHANGED run /\ client.pc = "cancel" /\ cancelChan'.closed
  /\ client'.pc = IF cancelChan.closed THEN "crashed" ELSE "idle"

CompanyMoves ==
  \/ RunAlone \/ RunLists \/ RunCancels \/ RunEnds
  \/ ClientBegins \/ ClientGoesOn \/ ClientDown \/ ClientEnds
  \/ UNCHANGED <<run, client, cancelChan>>

\* CancelFiles closes the channel, closed or not.
LEMMA CancelFilesCloses == WalkType /\ CancelFiles => cancelChan'.closed
BY Zenon DEF WalkType, CancelFiles

\* Files has a new channel.
LEMMA FilesOpens == \A g : SpoolerFiles(g) => ~cancelChan'.closed
BY DEF SpoolerFiles

\* run() that is told where to be.
LEMMA RunAtPc == \A at : RunAt(at).pc = at /\ RunAt(at).panic = FALSE
BY Zenon DEF RunAt

\* The client that is told where to be.
LEMMA ClientAtPc == \A at : ClientAt(at).pc = at
BY Zenon DEF ClientAt

\* Every step is one of these.
LEMMA CompanyMovesNext ==
  ASSUME SpoolInv, [SpoolerNext]_spoolerVars
  PROVE  CompanyMoves
<1> WalkType /\ ProcType /\ CancelledInCompany
  BY Zenon DEF SpoolInv
<1>0. run \in [pc : RunStates, key : created \cup {0}, size : Nat, ok : BOOLEAN, panic : BOOLEAN]
  BY Zenon DEF ProcType
<1>1. \A at : [run EXCEPT !.pc = at].pc = at /\ [run EXCEPT !.pc = at].panic = run.panic
  BY <1>0, Zenon
<1>2. run.pc \notin {"reset", "stats"} => run.panic = FALSE
  BY Zenon DEF ProcType, CancelledInCompany
<1>3. CASE RunSpool \/ RunCount \/ PurgeTick
  <2>1. CASE RunSpool
    <3>1. run' = [run EXCEPT !.pc = "count", !.key = Head(dataChan)]
      BY <2>1, Zenon DEF RunSpool
    <3>2. run'.pc = "count" /\ run'.panic = run.panic
      BY <1>0, <3>1, Zenon
    <3> QED
      BY <2>1, <3>2, Zenon DEF RunSpool, iter, RunAlone, CompanyMoves
  <2>2. CASE RunCount
    BY <1>2, <2>2, RunAtPc, Zenon DEF RunCount, iter, RunAlone, CompanyMoves
  <2>3. CASE PurgeTick
    BY <1>2, <2>3, RunAtPc, Zenon DEF PurgeTick, iter, RunAlone, CompanyMoves
  <2> QED
    BY <1>3, <2>1, <2>2, <2>3, Zenon
<1>4. CASE PurgeErase
  BY <1>2, <1>4, RunAtPc, Zenon DEF PurgeErase, iter, RunAlone, CompanyMoves
<1>5. CASE \E k \in Keys : PurgeNext(k)
  <2>1. PICK k \in Keys : PurgeNext(k)
    BY <1>5
  <2>2. \/ run' = run
        \/ run' = [run EXCEPT !.pc = "erase", !.key = k, !.size = fileSize[k], !.ok = TRUE]
        \/ \E ok \in BOOLEAN : run' = [run EXCEPT !.pc = "erase", !.key = k, !.ok = FALSE,
                                                  !.size = IF ok THEN SizeOf[k] ELSE 0]
    BY <2>1, Zenon DEF PurgeNext
  <2>3. run.pc = "purge" /\ UNCHANGED <<client, cancelChan>>
    BY <2>1, Zenon DEF PurgeNext
  <2>4. run'.pc \in {"purge", "erase"} /\ run'.panic = run.panic
    BY <1>0, <2>2, <2>3, Zenon
  <2> QED
    BY <2>3, <2>4, Zenon DEF RunAlone, CompanyMoves
<1>6. CASE PurgeBegin
  BY <1>2, <1>6, RunAtPc, FilesOpens, Zenon DEF PurgeBegin, RunLists, CompanyMoves
<1>7. CASE StatsReset
  BY <1>1, <1>7, FilesOpens, Zenon DEF StatsReset, RunLists, CompanyMoves
<1>8. CASE StartCount
  BY <1>2, <1>8, RunAtPc, FilesOpens, Zenon DEF StartCount, RunLists, CompanyMoves
<1>9. CASE PurgeCancel
  <2>1. run' = [run EXCEPT !.pc = "reset", !.panic = cancelChan.closed]
    BY <1>9, Zenon DEF PurgeCancel, CancelPanics
  <2>2. run'.pc = "reset" /\ run'.panic = cancelChan.closed
    BY <1>0, <2>1, Zenon
  <2> QED
    BY <1>9, <2>2, CancelFilesCloses, Zenon DEF PurgeCancel, RunCancels, CompanyMoves
<1>10. CASE StatsEnd
  BY <1>10, RunAtPc, Zenon DEF StatsEnd, iter, RunEnds, CompanyMoves
<1>11. CASE SpoolerStop
  BY <1>2, <1>11, RunAtPc, Zenon DEF SpoolerStop, iter, RunAlone, CompanyMoves
<1>12. CASE StartCache
  BY <1>2, <1>12, RunAtPc, Zenon DEF StartCache, iter, RunAlone, CompanyMoves
<1>13. CASE Client
  <2>0. UNCHANGED run
    BY <1>13, ClientChanges, Zenon
  <2>1. client \in [pc : ClientStates, key : created \cup {0}, size : Nat, ok : BOOLEAN]
    BY Zenon DEF ProcType
  <2>2. \A at : [client EXCEPT !.pc = at].pc = at
    BY <2>1, Zenon
  <2>3. ClientPanics => ClientDown
    BY <2>0, ClientAtPc, Zenon DEF ClientPanics, Down, ClientDown
  <2>4. CASE ClientStart
    BY <2>0, <2>4, ClientAtPc, Zenon DEF ClientStart, iter, ClientBegins, CompanyMoves
  <2>5. CASE ClientFiles
    BY <2>0, <2>5, ClientAtPc, FilesOpens, Zenon DEF ClientFiles, Down, ClientBegins, ClientDown, CompanyMoves
  <2>6. CASE \E k \in Keys : ClientNext(k)
    <3>1. PICK k \in Keys : ClientNext(k)
      BY <2>6
    <3>2. client' = [client EXCEPT !.pc = "got", !.key = k]
      BY <3>1, Zenon DEF ClientNext
    <3>3. client'.pc = "got"
      BY <2>1, <3>2, Zenon
    <3> QED
      BY <2>0, <3>1, <3>3, Zenon DEF ClientNext, ClientGoesOn, Iterating, CompanyMoves
  <2>7. CASE ClientRead
    <3>1. ClientDown \/ (UNCHANGED cancelChan /\ client'.pc \in {"read", "cancel"})
      BY <2>2, <2>3, <2>7, ClientAtPc, Zenon DEF ClientRead, iter
    <3>2. client.pc = "got"
      BY <2>7, Zenon DEF ClientRead
    <3> QED
      BY <2>0, <3>1, <3>2, Zenon DEF ClientGoesOn, Iterating, CompanyMoves
  <2>8. CASE ClientReject
    BY <2>0, <2>2, <2>8, Zenon DEF ClientReject, iter, ClientGoesOn, Iterating, CompanyMoves
  <2>9. CASE ClientRemove
    <3>1. \/ ClientDown
          \/ /\ UNCHANGED cancelChan
             /\ \E n, ok : \/ client' = [client EXCEPT !.pc = "erase", !.size = n, !.ok = ok]
                           \/ client' = [client EXCEPT !.pc = "erase", !.ok = ok, !.size = n]
      BY <2>3, <2>9, Zenon DEF ClientRemove, iter
    <3>2. client.pc \in {"read", "remove"}
      BY <2>9, Zenon DEF ClientRemove
    <3>3. ClientDown \/ (UNCHANGED cancelChan /\ client'.pc = "erase")
      BY <2>1, <3>1, Zenon
    <3> QED
      BY <2>0, <3>2, <3>3, Zenon DEF ClientGoesOn, Iterating, CompanyMoves
  <2>10. CASE ClientErase
    <3>1. ClientDown \/ (UNCHANGED cancelChan /\ client'.pc \in {"count", "next"})
      BY <2>2, <2>3, <2>10, ClientAtPc, Zenon DEF ClientErase, iter
    <3>2. client.pc = "erase"
      BY <2>10, Zenon DEF ClientErase
    <3> QED
      BY <2>0, <3>1, <3>2, Zenon DEF ClientGoesOn, Iterating, CompanyMoves
  <2>11. CASE ClientCount
    BY <2>0, <2>11, ClientAtPc, Zenon DEF ClientCount, ClientGoesOn, Iterating, CompanyMoves
  <2>12. CASE ClientLeave
    BY <2>0, <2>12, ClientAtPc, Zenon DEF ClientLeave, iter, ClientGoesOn, Iterating, CompanyMoves
  <2>13. CASE ClientCancel
    BY <2>0, <2>13, ClientAtPc, CancelFilesCloses, Zenon DEF ClientCancel, CancelPanics, ClientEnds, CompanyMoves
  <2> QED
    BY <1>13, <2>4, <2>5, <2>6, <2>7, <2>8, <2>9, <2>10, <2>11, <2>12, <2>13, Zenon DEF Client
<1>14. CASE Writer
  BY <1>14, Zenon DEF Writer, WriteBegin, WriteQueued, WriteTimeout,
     WriteReturn, iter, CompanyMoves
<1>15. CASE \E k \in Keys : CountFile(k)
  BY <1>15, Zenon DEF CountFile, CompanyMoves
<1>16. CASE (\E g \in Walkers : WalkStep(g)) \/ (\E k \in Keys : Expire(k))
              \/ UNCHANGED spoolerVars
  BY <1>16, Zenon DEF WalkStep, Expire, iter, spoolerVars, CompanyMoves
<1> QED
  BY <1>3, <1>4, <1>5, <1>6, <1>7, <1>8, <1>9, <1>10, <1>11, <1>12, <1>13, <1>14, <1>15, <1>16, Zenon
     DEF SpoolerNext, Run, Purge, Manager

(***************************************************************************)
(* alone and drift: alone lasts only while the client is between two       *)
(* iterations; drift ends only with a purge that was alone.                *)
(***************************************************************************)
LEMMA HistoryNext ==
  ASSUME History
  PROVE  /\ alone' => client'.pc \in {"new", "idle"} /\ (alone \/ run.pc \in {"select", "tick"})
         /\ drift => drift' \/ (run.pc = "stats" /\ run'.pc # "stats" /\ alone')
         /\ run.pc = "stats" /\ run'.pc = "crashed" /\ ~alone' => drift'
         /\ run'.pc \in {"reset", "stopped"} /\ ~alone' /\ run.pc # "stats" => drift'
<1>1. alone' => client'.pc \in {"new", "idle"} /\ (alone \/ run.pc \in {"select", "tick"})
  BY Zenon DEF History
<1>2. drift' = IF run.pc = "stats" /\ run'.pc # "stats" THEN ~alone'
               ELSE \/ drift
                    \/ (Purging \/ Restarting)' /\ ~alone'
                    \/ run.pc = "select" /\ run'.pc = "count" /\ disk' = disk
  BY Zenon DEF History
<1>3. run'.pc \in {"reset", "stopped"} => (Purging \/ Restarting)'
  BY Zenon DEF Purging, Restarting
<1> QED
  BY <1>1, <1>2, <1>3, Zenon

\* Nobody closes cancelChan again, nor meets a nil cache, but in company.
LEMMA CompanyNext ==
  ASSUME SpoolInv, [SpoolerNext]_spoolerVars
  PROVE  CancelledInCompany'
<1> CancelledInCompany
  BY Zenon DEF SpoolInv
<1>0. CASE UNCHANGED spoolerVars
  BY <1>0, Zenon DEF spoolerVars, CancelledInCompany, Iterating
<1> SUFFICES ASSUME History PROVE CancelledInCompany'
  BY <1>0, SpoolChanges, Zenon
<1>1. CASE RunAlone
  BY <1>1, HistoryNext, Zenon DEF RunAlone, CancelledInCompany, Iterating
<1>2. CASE RunLists
  BY <1>2, HistoryNext, Zenon DEF RunLists, CancelledInCompany, Iterating
<1>3. CASE RunCancels
  BY <1>3, HistoryNext, Zenon DEF RunCancels, CancelledInCompany, Iterating
<1>4. CASE RunEnds
  BY <1>4, HistoryNext, Zenon DEF RunEnds, CancelledInCompany, Iterating
<1>5. CASE ClientBegins
  BY <1>5, HistoryNext, Zenon DEF ClientBegins, CancelledInCompany, Iterating
<1>6. CASE ClientGoesOn
  BY <1>6, HistoryNext, Zenon DEF ClientGoesOn, CancelledInCompany, Iterating
<1>7. CASE ClientDown
  BY <1>7, HistoryNext, Zenon DEF ClientDown, CancelledInCompany, Iterating
<1>8. CASE ClientEnds
  BY <1>8, HistoryNext, Zenon DEF ClientEnds, CancelledInCompany, Iterating
<1>9. CASE UNCHANGED <<run, client, cancelChan>>
  BY <1>9, HistoryNext, Zenon DEF CancelledInCompany, Iterating
<1> QED
  BY <1>1, <1>2, <1>3, <1>4, <1>5, <1>6, <1>7, <1>8, <1>9, CompanyMovesNext, Zenon DEF CompanyMoves

\* A spooler whose first Start is under way satisfies the invariant.
LEMMA SpoolInit == SpoolerInit => SpoolInv
<1> SUFFICES ASSUME SpoolerInit PROVE SpoolInv
  OBVIOUS
<1>1. SpooledType
  <2>1. bound \in [old : SUBSET Keys, concurrent : BOOLEAN, faults : BOOLEAN, restarts : Nat, expired : Nat]
    BY SpoolerAssumption, Zenon DEF SpoolerInit
  <2>2. created \subseteq Keys /\ disk \subseteq created /\ concurrent \in BOOLEAN
    BY <2>1, Zenon DEF SpoolerInit
  <2>3. expired = {} /\ writers = {} /\ dataChan = <<>>
    BY Zenon DEF SpoolerInit
  <2>4. dataChan \in Seq(created) /\ Len(dataChan) <= WriteBuffer
    BY SpoolerAssumption, <2>3
  <2> QED
    BY <2>1, <2>2, <2>3, <2>4, ZenonT(30) DEF SpooledType
<1>2. TotalsType
  BY SpoolerAssumption DEF SpoolerInit, TotalsType
<1>3. WalkType
  BY Zenon DEF SpoolerInit, NoWalk, Walkers, WalkType
<1>4. run = RunAt("starting") /\ client = ClientAt("new") /\ mux = "free"
      /\ alone = TRUE /\ drift = FALSE /\ cancelChan = [owner |-> "none", closed |-> FALSE]
  BY Zenon DEF SpoolerInit
<1>5. ProcType
  BY <1>4, Zenon DEF RunAt, ClientAt, RunStates, ClientStates, ProcType
<1>6. CancelledInCompany
  BY <1>4, Zenon DEF RunAt, ClientAt, CancelledInCompany, Iterating
<1> QED
  BY <1>1, <1>2, <1>3, <1>5, <1>6, Zenon DEF SpoolInv

\* The invariant says what is to be shown.
LEMMA SpoolInvIsEnough == SpoolInv => CrashOnlyInCompany
<1> SUFFICES ASSUME SpoolInv PROVE CrashOnlyInCompany
  OBVIOUS
<1>1. SpooledType /\ TotalsType /\ WalkType /\ ProcType /\ CancelledInCompany
  BY Zenon DEF SpoolInv
<1>2. bound.restarts \in Nat
  BY <1>1, Zenon DEF SpooledType
<1>3. SpoolerTypeOK
  BY <1>1, <1>2, Zenon DEF SpooledType, TotalsType, WalkType, ProcType, SpoolerTypeOK
<1> QED
  BY <1>1, <1>3, Zenon DEF CancelledInCompany, CrashOnlyInCompany

(***************************************************************************)
(* However many reports, files, writers, faults, changes of the encoding   *)
(* and purges: run() of spooler.go and the sender's goroutine panic, on    *)
(* the second close of cancelChan or on the nil cache, only when a purge   *)
(* or a restart has run into an iteration of the sender.                   *)
(***************************************************************************)
THEOREM PanicsOnlyInCompany ==
  SpoolerSpec => []CrashOnlyInCompany
<1>1. SpoolerInit => SpoolInv
  BY SpoolInit, Zenon
<1>2. SpoolInv /\ [SpoolerNext]_spoolerVars => SpoolInv'
  BY SpooledNext, TotalsNext, WalkNext, ProcNext, CompanyNext, Zenon DEF SpoolInv
<1>3. SpoolInv => CrashOnlyInCompany
  BY SpoolInvIsEnough, Zenon
<1> QED
  BY <1>1, <1>2, <1>3, PTL DEF SpoolerSpec
=============================================================================
