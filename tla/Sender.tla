------------------------------- MODULE Sender -------------------------------
(***************************************************************************)
(* The data sender of data/sender.go: at every tick it connects to the     *)
(* API, sends the spooled files one by one, waits for the response to each *)
(* and removes the file or not according to the code in it.  A response    *)
(* does not name the file it is about: the sender relies on one websocket  *)
(* connection answering in order, and on a fresh connection after errors.  *)
(*                                                                         *)
(* The spool is a set here, with the purge and the writers acting on it;   *)
(* how the goroutines share it is the matter of module Spooler.  The API   *)
(* and the network are external: they may be slow, fail or refuse, until   *)
(* (if ever) calm.                                                         *)
(***************************************************************************)
EXTENDS Integers, Sequences, FiniteSets

CONSTANTS Files,         \* the reports, numbered in the order of their names
          Empty,         \* those whose file is empty
          Blackhole,     \* s.blackhole
          MaxSendErrors, \* MAX_SEND_ERRORS
          PurgeRaces,    \* TRUE: a purge may have closed the spool's cancelChan
          SilentServer   \* TRUE: a server may accept a connection and never answer

ASSUME SenderAssumption ==
  /\ Files \subseteq Nat /\ Empty \subseteq Files
  /\ Blackhole \in BOOLEAN /\ PurgeRaces \in BOOLEAN /\ SilentServer \in BOOLEAN
  /\ MaxSendErrors \in Nat \ {0}

VARIABLES
  spool, written,  \* files on disk; files ever written
  purged, settled, \* history: purged by the spooler; answered 2xx or 4xx by the API
  pc,              \* where the goroutine of run() is
  snap, todo,      \* the names the walk of Files listed; those not yet received
  cur,             \* the file in hand
  ack,             \* the response just received, and the file it is about
  errs,            \* sent.Errs; sent.ApiErrs and sent.Timeouts end send() at once
  late,            \* run time > s.timeout
  conn,            \* c.conn: connected, link up, messages in both directions
  stopping,        \* Stop() waits on StopChan
  calm             \* from now on no fault: see Trouble

vars == <<spool, written, purged, settled, pc, snap, todo, cur, ack, errs, late, conn,
          stopping, calm>>
world == <<spool, written, purged, settled, stopping, calm>>
local == <<snap, todo, cur, ack>>

NoFile == -1
Codes  == {"1xx", "2xx", "299", "3xx", "4xx", "5xx"}
Final  == {"2xx", "299", "4xx"}      \* the codes after which the file is removed
NoAck  == [file |-> NoFile, code |-> "1xx"]
Disconnected == [open |-> FALSE, up |-> FALSE, req |-> <<>>, resp |-> <<>>]

Oldest(fs, f) == f \in fs /\ \A g \in fs : f <= g

\* A fault, of the network, the API, the disk or the clock.
Trouble == ~calm

NoLocals == snap' = {} /\ todo' = {} /\ cur' = NoFile /\ ack' = NoAck
-----------------------------------------------------------------------------
(***************************************************************************)
(* send() returns: the deferred DisconnectOnce.  (The statistics it then   *)
(* updates are only reported.)                                             *)
(***************************************************************************)
Return ==
  /\ pc' = "idle" /\ conn' = Disconnected
  /\ errs' = 0 /\ late' = FALSE /\ NoLocals

\* Mutant: after an error the files are sent again on the same connection.
FailSameConn ==
  /\ pc' = "files" /\ NoLocals
  /\ UNCHANGED <<errs, late, conn>>

\* sendAllFiles returns an error: count it, DisconnectOnce, try again.
Fail ==
  /\ pc' = "loop" /\ conn' = Disconnected
  /\ errs' = errs + 1 /\ NoLocals
  /\ UNCHANGED late

(***************************************************************************)
(* The deferred CancelFiles of sendAllFiles panics when a purge has closed *)
(* the shared cancelChan.  The panic runs the deferred calls of send() and *)
(* ends run().                                                             *)
(***************************************************************************)
Crash ==
  /\ PurgeRaces /\ Trouble
  /\ pc' = "crashed" /\ conn' = Disconnected
  /\ errs' = 0 /\ late' = FALSE /\ NoLocals

LeaveOk  == Return \/ Crash
LeaveErr == Fail \/ Crash

Tick ==
  /\ pc = "idle"
  /\ pc' = "loop" /\ errs' = 0 /\ late' = FALSE
  /\ UNCHANGED <<world, local, conn>>

Loop ==
  /\ pc = "loop"
  /\ IF errs >= MaxSendErrors \/ late
     THEN Return
     ELSE pc' = "connect" /\ UNCHANGED <<local, errs, late, conn>>
  /\ UNCHANGED world

(***************************************************************************)
(* ConnectOnce: the dial has a timeout, the websocket handshake after it   *)
(* has none.                                                               *)
(***************************************************************************)
Dial ==
  /\ pc = "connect"
  /\ \/ pc' = "handshake" /\ UNCHANGED <<local, errs, late, conn>>
     \/ Trouble /\ Fail
  /\ UNCHANGED world

Handshake ==
  /\ pc = "handshake"
  /\ \/ /\ pc' = "files"
        /\ conn' = [Disconnected EXCEPT !.open = TRUE, !.up = TRUE]
        /\ UNCHANGED <<local, errs, late>>
     \/ Trouble /\ Fail
  /\ UNCHANGED world

ListFiles ==
  /\ pc = "files"
  /\ pc' = "next" /\ snap' = spool /\ todo' = spool
  /\ UNCHANGED <<world, cur, ack, errs, late, conn>>

(***************************************************************************)
(* The range loop.  The walk looks up each name before it offers it, and   *)
(* ends at a name that has vanished by then.                               *)
(***************************************************************************)
NextFile ==
  /\ pc = "next"
  /\ \E f \in todo :
       /\ Oldest(todo, f)
       /\ IF late THEN LeaveOk
          ELSE /\ pc' = "read" /\ cur' = f /\ todo' = todo \ {f}
               /\ UNCHANGED <<snap, ack, errs, late, conn>>
  /\ UNCHANGED world

NoMoreFiles ==
  /\ pc = "next"
  /\ todo = {} \/ \E f \in todo : Oldest(todo, f) /\ f \notin spool
  /\ LeaveOk
  /\ UNCHANGED world

\* Mutant: a file that cannot be read is passed over.
ReadFileSkips ==
  /\ pc = "read"
  /\ \/ cur \in spool /\ pc' = "send" /\ UNCHANGED <<local, errs, late, conn>>
     \/ /\ cur \notin spool \/ Trouble
        /\ pc' = "next" /\ cur' = NoFile /\ UNCHANGED <<snap, todo, ack, errs, late, conn>>
  /\ UNCHANGED world

ReadFile ==
  /\ pc = "read"
  /\ \/ /\ cur \in spool
        /\ pc' = IF Blackhole \/ cur \in Empty THEN "discard" ELSE "send"
        /\ UNCHANGED <<local, errs, late, conn>>
     \/ /\ cur \notin spool \/ Trouble
        /\ LeaveErr
  /\ UNCHANGED world

\* Mutant: Remove leaves the file where it is.
RemoveCurNot == UNCHANGED world

\* Remove; its error is ignored.
RemoveCur ==
  /\ spool' = spool \ {cur} \/ (Trouble /\ spool' = spool)
  /\ UNCHANGED <<written, purged, settled, stopping, calm>>

Continue ==
  /\ pc' = "next" /\ cur' = NoFile /\ ack' = NoAck
  /\ UNCHANGED <<snap, todo, errs, late, conn>>

Discard ==
  /\ pc = "discard"
  /\ RemoveCur /\ Continue

\* SendBytes: a write to a dead link may still succeed, and goes nowhere.
SendFile ==
  /\ pc = "send"
  /\ \/ /\ pc' = "recv"
        /\ conn' = IF conn.up THEN [conn EXCEPT !.req = Append(@, cur)] ELSE conn
        /\ UNCHANGED <<local, errs, late>>
     \/ Trouble /\ LeaveErr
  /\ UNCHANGED world

RecvResponse ==
  /\ pc = "recv" /\ conn.resp # <<>>
  /\ pc' = "act" /\ ack' = Head(conn.resp)
  /\ conn' = [conn EXCEPT !.resp = Tail(@)]
  /\ UNCHANGED <<world, snap, todo, cur, errs, late>>

\* The deadline of 5 seconds passes, or the link is down.
RecvError ==
  /\ pc = "recv" /\ (Trouble \/ ~conn.up)
  /\ LeaveErr
  /\ UNCHANGED world

\* The switch on resp.Code.
ActFinal ==
  /\ pc = "act" /\ ack.code \in Final
  /\ RemoveCur
  /\ IF ack.code = "299" THEN LeaveOk ELSE Continue

\* Mutant: every response but an unknown one removes the file.
ActRetryRemoves ==
  /\ pc = "act" /\ ack.code \notin Final
  /\ RemoveCur /\ LeaveOk

ActRetry ==
  /\ pc = "act" /\ ack.code \notin Final
  /\ IF ack.code = "5xx" THEN LeaveOk ELSE LeaveErr
  /\ UNCHANGED world
-----------------------------------------------------------------------------
(***************************************************************************)
(* Stop waits until run() is in its select; it waits for ever if run() has *)
(* crashed.  SetConfig with a new interval starts the sender again.        *)
(***************************************************************************)
Stop ==
  /\ pc # "stopped" /\ ~stopping
  /\ stopping' = TRUE
  /\ UNCHANGED <<spool, written, purged, settled, pc, local, errs, late, conn, calm>>

\* Mutant: run() sees the stop request only when the spool is empty.
StoppedWhenEmpty ==
  /\ pc = "idle" /\ stopping /\ spool = {}
  /\ pc' = "stopped" /\ stopping' = FALSE
  /\ UNCHANGED <<spool, written, purged, settled, local, errs, late, conn, calm>>

Stopped ==
  /\ pc = "idle" /\ stopping
  /\ pc' = "stopped" /\ stopping' = FALSE
  /\ UNCHANGED <<spool, written, purged, settled, local, errs, late, conn, calm>>

Start ==
  /\ pc = "stopped"
  /\ pc' = "idle"
  /\ UNCHANGED <<world, local, errs, late, conn>>
-----------------------------------------------------------------------------
\* External: the API and the link.
ApiAnswer(code) ==
  /\ conn.up /\ conn.req # <<>>
  /\ code \in Final \/ Trouble
  /\ conn' = [conn EXCEPT !.req = Tail(@),
                          !.resp = Append(@, [file |-> Head(conn.req), code |-> code])]
  /\ settled' = IF code \in Final THEN settled \cup {Head(conn.req)} ELSE settled
  /\ UNCHANGED <<spool, written, purged, pc, local, errs, late, stopping, calm>>

LinkBreaks ==
  /\ Trouble /\ conn.up
  /\ \E lost \in BOOLEAN :
       conn' = [conn EXCEPT !.up = FALSE, !.req = <<>>, !.resp = IF lost THEN <<>> ELSE @]
  /\ UNCHANGED <<world, pc, local, errs, late>>

\* The clock: more than s.timeout has passed since the tick.
TimeIsUp ==
  /\ Trouble /\ ~late /\ pc \notin {"idle", "stopped", "crashed"}
  /\ late' = TRUE
  /\ UNCHANGED <<world, pc, local, errs, conn>>

\* The spooler, see module Spooler.
WriteFile(f) ==
  /\ f \notin written
  /\ spool' = spool \cup {f} /\ written' = written \cup {f}
  /\ UNCHANGED <<purged, settled, pc, local, errs, late, conn, stopping, calm>>

PurgeFile(f) ==
  /\ f \in spool
  /\ spool' = spool \ {f} /\ purged' = purged \cup {f}
  /\ UNCHANGED <<written, settled, pc, local, errs, late, conn, stopping, calm>>

Calm ==
  /\ ~calm
  /\ calm' = TRUE
  /\ UNCHANGED <<spool, written, purged, settled, pc, local, errs, late, conn, stopping>>
-----------------------------------------------------------------------------
Init ==
  /\ spool = {} /\ written = {} /\ purged = {} /\ settled = {}
  /\ pc = "idle" /\ snap = {} /\ todo = {} /\ cur = NoFile /\ ack = NoAck
  /\ errs = 0 /\ late = FALSE /\ conn = Disconnected
  /\ stopping = FALSE /\ calm = FALSE

\* The steps run() takes by itself, all within their time limits.
RunStep == \/ Loop \/ Dial \/ ListFiles \/ NextFile \/ NoMoreFiles
           \/ ReadFile \/ Discard \/ SendFile \/ RecvResponse \/ RecvError
           \/ ActFinal \/ ActRetry

Next == \/ Tick \/ RunStep \/ Handshake \/ Stop \/ Stopped \/ Start
        \/ \E code \in Codes : ApiAnswer(code)
        \/ LinkBreaks \/ TimeIsUp \/ Calm
        \/ \E f \in Files : WriteFile(f) \/ PurgeFile(f)

Spec == Init /\ [][Next]_vars

(***************************************************************************)
(* Fairness: the ticker ticks, run() goes on, its select is fair to the    *)
(* stop request; a server that is not silent ends the handshake.  The API  *)
(* owes an answer only when all is calm.                                   *)
(***************************************************************************)
Fairness ==
  /\ WF_vars(Tick) /\ WF_vars(RunStep) /\ SF_vars(Stopped)
  /\ WF_vars((calm \/ ~SilentServer) /\ Handshake)
  /\ WF_vars(calm /\ \E code \in Codes : ApiAnswer(code))

FairSpec == Spec /\ Fairness
-----------------------------------------------------------------------------
Busy == {"loop", "connect", "handshake", "files", "next", "read", "discard", "send",
         "recv", "act"}

Connections == [open : BOOLEAN, up : BOOLEAN, req : Seq(Files),
                resp : Seq([file : Files, code : Codes])]

\* Types.
TypeOK ==
  /\ spool \subseteq written /\ written \subseteq Files
  /\ purged \subseteq Files /\ settled \subseteq Files
  /\ pc \in Busy \cup {"idle", "stopped", "crashed"}
  /\ snap \subseteq Files /\ todo \subseteq snap /\ cur \in Files \cup {NoFile}
  /\ ack \in [file : Files \cup {NoFile}, code : Codes]
  /\ errs \in 0..MaxSendErrors
  /\ conn \in Connections
  /\ late \in BOOLEAN /\ stopping \in BOOLEAN /\ calm \in BOOLEAN

(***************************************************************************)
(* The response that sendAllFiles acts on is the one to the file it holds, *)
(* although nothing in a response says so: no response to an earlier send  *)
(* (one that timed out, say) is ever taken for it.                         *)
(***************************************************************************)
AckIsForCurrent == pc = "act" => ack.file = cur

\* Files that sendAllFiles removes without sending them.
Unsendable == IF Blackhole THEN Files ELSE Empty

(***************************************************************************)
(* A report that is no longer in the spool was purged, or was discarded    *)
(* unsent as the code says, or has got its final verdict from the API.     *)
(***************************************************************************)
NoLoss == \A f \in written \ spool : f \in purged \cup settled \cup Unsendable

(***************************************************************************)
(* The iteration skips no file: when a file is in hand, all those before   *)
(* it in the listing have been settled, purged or discarded.               *)
(***************************************************************************)
NoFileSkipped ==
  pc \in {"read", "discard", "send", "recv", "act"} =>
    \A f \in snap \ (todo \cup {cur}) : f \in purged \cup settled \cup Unsendable

HoldsFile == pc \in {"read", "discard", "send", "recv", "act"}

\* At most one message is under way, and it is about the file in hand.
OneMessage ==
  /\ pc # "recv" => conn.req = <<>> /\ conn.resp = <<>>
  /\ \/ conn.req = <<>> /\ conn.resp = <<>>
     \/ conn.req = <<cur>> /\ conn.resp = <<>>
     \/ /\ conn.req = <<>>
        /\ \E code \in Codes : /\ conn.resp = <<[file |-> cur, code |-> code]>>
                               /\ code \in Final => cur \in settled

(***************************************************************************)
(* The inductive invariant behind the three above: sends and responses go  *)
(* in lockstep on a connection that carries nothing else, so that a file   *)
(* is removed only after its own verdict.                                  *)
(***************************************************************************)
Lockstep ==
  /\ TypeOK
  /\ snap \subseteq written /\ settled \subseteq written
  /\ purged \subseteq written /\ spool \cap purged = {}
  /\ pc \in Busy \ {"loop"} => errs < MaxSendErrors
  /\ IF HoldsFile THEN cur \in snap \ todo ELSE cur = NoFile
  /\ OneMessage
  /\ AckIsForCurrent
  /\ pc = "act" /\ ack.code \in Final => cur \in settled
  /\ pc = "discard" => cur \in Unsendable
  /\ NoLoss
  /\ \A f \in snap \ (todo \cup {cur}) : f \in purged \cup settled \cup Unsendable

\* The status of a report as Delivery describes it.
StatusOf(f) ==
  IF f \notin written THEN "new"
  ELSE IF f \in spool THEN (IF f \in settled THEN "settled" ELSE "spooled")
  ELSE IF f \in purged THEN "purged" ELSE "removed"

Promise == INSTANCE Delivery WITH status <- [f \in Files |-> StatusOf(f)]

\* The sender, with the purge and the API around it, keeps Delivery's promise.
ImplementsDelivery == Promise!Spec

\* Stop() comes back, unless run() has crashed, or a server that accepted the
\* connection never ends the handshake.
StopCompletes == stopping ~> (~stopping \/ pc = "crashed" \/ [](pc = "handshake"))

(***************************************************************************)
(* Once there are no more faults, every spooled report leaves the spool,   *)
(* unless the sender is stopped or has crashed.                            *)
(***************************************************************************)
Drains == \A f \in Files : (calm /\ f \in spool)
                             ~> (f \notin spool \/ stopping \/ pc \in {"stopped", "crashed"})
=============================================================================
