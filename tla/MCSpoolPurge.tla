---------------------------- MODULE MCSpoolPurge ----------------------------
(***************************************************************************)
(* One undisturbed purge() of every spool directory within the bounds: the *)
(* initial states are the inputs, the only step is the call.               *)
(***************************************************************************)
EXTENDS SpoolPurge

CONSTANTS MaxTick,       \* time stamps and now are in 0..MaxTick
          MaxLen,        \* at most this many files in the spool
          Sizes,         \* file sizes
          AgeLimits, SizeLimits, FileLimits,
          Names          \* {TRUE}: all names parse; BOOLEAN: some do not

VARIABLES now, limits, files, result

vars == <<now, limits, files, result>>

FileSet == [ts : 0..MaxTick, size : Sizes, valid : Names]

\* One service writes to the spool, so the order by name is the order by time.
InTimeOrder(fs) == \A i, j \in DOMAIN fs : i < j => fs[i].ts < fs[j].ts

NotYet == [count |-> 0, size |-> 0, fate |-> <<>>]

Init ==
  /\ now \in 0..MaxTick
  /\ limits \in [MaxAge : AgeLimits, MaxSize : SizeLimits, MaxFiles : FileLimits]
  /\ files \in {fs \in UNION {[1..n -> FileSet] : n \in 1..MaxLen} : InTimeOrder(fs)}
  /\ result = NotYet

Call ==
  /\ result = NotYet
  /\ result' = LET totals == UpdateStats(files)   \* as Start and run() keep them
               IN Purge(now, limits, files, totals.count, totals.size)
  /\ UNCHANGED <<now, limits, files>>

Next == Call

Spec == Init /\ [][Next]_vars

-----------------------------------------------------------------------------
Done      == result # NotYet
Kept      == {i \in DOMAIN files : result.fate[i] = "keep"}
ClockSane == \A i \in DOMAIN files : files[i].ts <= now
NamesParse == \A i \in DOMAIN files : files[i].valid
Expired(i) == now - files[i].ts >= (limits.MaxAge + 1) * TicksPerSec

\* The reference: of the files that are not too old, the newest ones that
\* together respect both MaxSize and MaxFiles, as many as possible.
Fits(n) == LET tail == SubSeq(files, n, Len(files))
           IN TotalSize(tail) <= limits.MaxSize /\ Len(tail) <= limits.MaxFiles
KeepFrom == CHOOSE n \in 1..(Len(files) + 1) :
              /\ Fits(n) /\ \A i \in n..Len(files) : ~Expired(i)
              /\ \A m \in 1..(n - 1) : ~(Fits(m) /\ \A i \in m..Len(files) : ~Expired(i))

(***************************************************************************)
(* purge() keeps exactly the newest files that respect the three limits,   *)
(* nothing when a limit is zero ("no limit = purge all", data_test.go),    *)
(* and leaves totals that describe what it kept; if the names of the files *)
(* parse.                                                                  *)
(***************************************************************************)
PurgeKeepsNewest ==
  Done /\ ClockSane /\ NamesParse =>
    LET first == IF PurgeAll(limits) THEN Len(files) + 1 ELSE KeepFrom
    IN /\ Kept = first..Len(files)
       /\ result.count = Len(files) - first + 1
       /\ result.size = TotalSize(SubSeq(files, first, Len(files)))

(***************************************************************************)
(* A file is removed only for a cause that it gives.  "Data files older    *)
(* than this are purged" (docs/agent.rst): one removed for its age is      *)
(* older than MaxAge, or a second or more in the future, when the          *)
(* difference, converted to uint, is enormous.  "When the spool is larger  *)
(* than this, the oldest files are purged": while all the files together   *)
(* stay within MaxSize, none is removed for the size of the spool, unless  *)
(* a file whose name does not parse came before it: such a file is not in  *)
(* the total that remove() subtracts it from, and the total wraps.         *)
(***************************************************************************)
PurgedForCause ==
  Done => \A i \in DOMAIN files :
    /\ result.fate[i] = "age" => \/ now - files[i].ts > limits.MaxAge * TicksPerSec
                                 \/ files[i].ts - now >= TicksPerSec
    /\ result.fate[i] = "size" /\ TotalSize(files) <= limits.MaxSize
         => \E j \in 1..(i - 1) : ~files[j].valid
=============================================================================
