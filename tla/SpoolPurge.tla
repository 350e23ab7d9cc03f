----------------------------- MODULE SpoolPurge -----------------------------
(***************************************************************************)
(* The purge policy of the data spool (data/spooler.go), as a pure         *)
(* function: which of the files on disk does one undisturbed call of       *)
(* purge() remove, and for which reason.  The concurrent purge, one file   *)
(* at a time, is in module Spooler, which shares PurgeReason.              *)
(*                                                                         *)
(* A file is a record with the time stamp in its name, its size, and       *)
(* whether its name parses as <service>_<nano unix ts>.  Times are in      *)
(* ticks of 1/TicksPerSec second, so that the rounding of the age to       *)
(* seconds is visible; uints wrap at UintMod.                              *)
(***************************************************************************)
EXTENDS Integers, Sequences, FiniteSetsExt

CONSTANTS UintMod,      \* number of values of a Go uint
          TicksPerSec   \* resolution of a time stamp (1e9 in the code)

ASSUME UintModAssumption == UintMod \in Nat \ {0}
ASSUME TicksAssumption == TicksPerSec \in Nat \ {0}

(***************************************************************************)
(* Go's integer division truncates toward zero, and the conversion of a    *)
(* negative difference to uint wraps.                                      *)
(***************************************************************************)
Seconds(ticks) == IF ticks >= 0 THEN ticks \div TicksPerSec
                                ELSE -((-ticks) \div TicksPerSec)

Age(now, ts) == Seconds(now - ts) % UintMod

PurgeAll(limits) == limits.MaxAge = 0 \/ limits.MaxSize = 0 \/ limits.MaxFiles = 0

\* Mutant: >= for > in the test of the number of files.
PurgeReasonAtLimit(all, old, size, count, limits) ==
  IF all THEN "purged"
  ELSE IF old THEN "age"
  ELSE IF size > limits.MaxSize THEN "size"
  ELSE IF count >= limits.MaxFiles THEN "files"
  ELSE "keep"

(***************************************************************************)
(* The if / else if chain of purge().  old says that the file's age is     *)
(* above MaxAge; size and count are the spooler's own totals.              *)
(***************************************************************************)
PurgeReason(all, old, size, count, limits) ==
  IF all THEN "purged"
  ELSE IF old THEN "age"
  ELSE IF size > limits.MaxSize THEN "size"
  ELSE IF count > limits.MaxFiles THEN "files"
  ELSE "keep"

\* Mutant: >= for > in the test of the age.
PurgeStepAtAge(now, limits, acc, file) ==
  LET reason == IF file.valid
                THEN PurgeReason(PurgeAll(limits), Age(now, file.ts) >= limits.MaxAge,
                                 acc.size, acc.count, limits)
                ELSE "invalid"
      gone   == reason # "keep"
  IN [count |-> IF gone THEN (acc.count - 1) % UintMod ELSE acc.count,
      size  |-> IF gone THEN (acc.size - file.size) % UintMod ELSE acc.size,
      fate  |-> Append(acc.fate, reason)]

(***************************************************************************)
(* The loop body: a file whose name does not parse is removed and not      *)
(* reported; remove() subtracts from the totals in both cases.  The        *)
(* accumulator holds the totals and, for every file seen, its fate.        *)
(***************************************************************************)
PurgeStep(now, limits, acc, file) ==
  LET reason == IF file.valid
                THEN PurgeReason(PurgeAll(limits), Age(now, file.ts) > limits.MaxAge,
                                 acc.size, acc.count, limits)
                ELSE "invalid"
      gone   == reason # "keep"
  IN [count |-> IF gone THEN (acc.count - 1) % UintMod ELSE acc.count,
      size  |-> IF gone THEN (acc.size - file.size) % UintMod ELSE acc.size,
      fate  |-> Append(acc.fate, reason)]

(***************************************************************************)
(* The loop of purge(): files is the spool directory in the order of       *)
(* filepath.Walk (by name), count and size the totals when it begins.      *)
(***************************************************************************)
PurgeLoop(now, limits, files, count, size) ==
  MapThenFoldSet(LAMBDA file, acc : PurgeStep(now, limits, acc, file),
                 [count |-> count, size |-> size, fate |-> <<>>],
                 LAMBDA i : files[i], Max, DOMAIN files)

TotalSize(files) == MapThenSumSet(LAMBDA i : files[i].size, DOMAIN files)

\* updateStats(): the totals of what is on disk, files with a bad name erased.
UpdateStats(files) ==
  LET counted == SelectSeq(files, LAMBDA file : file.valid)
  IN [count |-> Len(counted) % UintMod, size |-> TotalSize(counted) % UintMod]

\* purge(): the loop, then the deferred updateStats on what the loop kept.
Purge(now, limits, files, count, size) ==
  LET fate == PurgeLoop(now, limits, files, count, size).fate
      kept == SelectSeq([i \in DOMAIN files |-> i], LAMBDA i : fate[i] = "keep")
      stats == UpdateStats([i \in DOMAIN kept |-> files[kept[i]]])
  IN [fate |-> fate, count |-> stats.count, size |-> stats.size]
=============================================================================
