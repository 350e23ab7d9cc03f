-------------------------- MODULE PerfSchemaProofs --------------------------
(***************************************************************************)
(* For any number of rows, of executions, of truncates and of faults: the  *)
(* differences that the performance schema worker reports add up.          *)
(***************************************************************************)
EXTENDS PerfSchema, TLAPS

USE DEF vars, table, ghosts

\* What All holds of a row once Curr is merged into it.
Now(r) == IF r \in DOMAIN Curr THEN Curr[r] ELSE Prev(r)

\* Of a row last seen with this count, everything is accounted for: nothing
\* twice, and after no torn read and no truncate, nothing is missing.
Settled(r, seen) ==
  /\ reported[r] + (count[r] - seen) <= since[r]
  /\ ~torn => reported[r] + (count[r] - seen) = since[r]

\* Without an iterator, which is how Prepare leaves the worker when it resets
\* it, there is no baseline; and only a read is under way in "fetch".
Control ==
  /\ pc \in {"connect", "query", "fetch", "prepare"} => iter
  /\ pc = "cleanup" /\ ~iter => All = Empty
  /\ pc = "prepare" => todo = {}
  /\ pc = "fetch" => todo \cap DOMAIN Curr = {}

\* Between two reads All is what was reported last, and has the last Curr in it.
BetweenReads ==
  pc \in {"idle", "connect", "query"} /\ All # Empty =>
    \A r \in Rows : Settled(r, Prev(r)) /\ (r \in DOMAIN Curr => Prev(r) = Curr[r])

\* While a baseline is read, what has been read is settled.
BaselineRead ==
  pc \in {"fetch", "prepare"} /\ All = Empty =>
    \A r \in Rows : reported[r] = 0 /\ (r \notin todo => Settled(r, Now(r)))

\* Later reads: settled with respect to All; what was read can be reported, or
\* merged without having been reported, and it is not too much.
LaterRead ==
  pc \in {"fetch", "prepare"} /\ All # Empty =>
    \A r \in Rows :
      /\ Settled(r, Prev(r))
      /\ r \in DOMAIN Curr => /\ reported[r] + (count[r] - Curr[r]) <= since[r]
                              /\ reported[r] + (Curr[r] - Prev(r)) <= since[r]

\* Curr can be merged.
BeforeMerge ==
  pc = "cleanup" /\ iter /\ (All # Empty \/ Curr # Empty) => \A r \in Rows : Settled(r, Now(r))

NotTooMuch == \A r \in Rows : reported[r] <= since[r]

Inv ==
  /\ TypeOK /\ Control
  /\ ~partial => NotTooMuch /\ BetweenReads /\ BaselineRead /\ LaterRead /\ BeforeMerge
-----------------------------------------------------------------------------
\* A Snapshot holds some of the rows.
IsSnapshot(f) ==
  f = [r \in DOMAIN f |-> f[r]] /\ DOMAIN f \subseteq Rows /\ \A r \in DOMAIN f : f[r] \in 1..MaxCount

Pcs == {"idle", "connect", "query", "fetch", "prepare", "cleanup"}

\* The type invariant but for the digests.
RestType ==
  /\ count \in [Rows -> 0..MaxCount] /\ recent \subseteq Rows /\ todo \subseteq Rows
  /\ iter \in BOOLEAN /\ torn \in BOOLEAN /\ partial \in BOOLEAN
  /\ pc \in Pcs
  /\ since \in [Rows -> Nat] /\ reported \in [Rows -> Nat]
  /\ truncates \in 0..MaxTruncates /\ faults \in 0..MaxFaults

\* What a Snapshot is.
LEMMA Snapshots ==
  ASSUME NEW f
  PROVE  f \in UNION {[R -> 1..MaxCount] : R \in SUBSET Rows} <=> IsSnapshot(f)
<1>1. ASSUME NEW R \in SUBSET Rows, f \in [R -> 1..MaxCount] PROVE IsSnapshot(f)
  BY <1>1 DEF IsSnapshot
<1>2. IsSnapshot(f) => f \in [DOMAIN f -> 1..MaxCount] /\ DOMAIN f \in SUBSET Rows
  BY DEF IsSnapshot
<1> QED
  BY <1>1, <1>2

\* The empty one is the one without rows.
LEMMA EmptySnapshot ==
  ASSUME NEW f, IsSnapshot(f)
  PROVE  f = Empty <=> DOMAIN f = {}
BY DEF IsSnapshot, Empty

\* There is an empty one.
LEMMA EmptyIsSnapshot == IsSnapshot(Empty) /\ DOMAIN Empty = {}
BY DEF IsSnapshot, Empty

\* The parts make the whole.
LEMMA TypeParts ==
  /\ TypeOK <=> RestType /\ IsSnapshot(All) /\ IsSnapshot(Curr)
  /\ TypeOK' <=> RestType' /\ IsSnapshot(All') /\ IsSnapshot(Curr')
<1>1. TypeOK <=> RestType /\ IsSnapshot(All) /\ IsSnapshot(Curr)
  BY Snapshots, Zenon DEF TypeOK, RestType, Pcs
<1>2. TypeOK' <=> RestType' /\ IsSnapshot(All') /\ IsSnapshot(Curr')
  BY Snapshots, Zenon DEF TypeOK, RestType, Pcs
<1> QED
  BY <1>1, <1>2

\* The numbers that are compared.
LEMMA Numbers ==
  ASSUME TypeOK, NEW r \in Rows
  PROVE  /\ count[r] \in Nat /\ since[r] \in Nat /\ reported[r] \in Nat
         /\ Prev(r) \in Nat /\ Now(r) \in Nat /\ (r \in DOMAIN Curr => Curr[r] \in Nat)
<1>1. MaxCount \in Nat
  BY PerfSchemaAssumption
<1> QED
  BY <1>1, TypeParts DEF RestType, IsSnapshot, Prev, Now

\* A worker that is made satisfies the invariant.
LEMMA InvInit == Init => Inv
<1> SUFFICES ASSUME Init PROVE Inv
  OBVIOUS
<1>1. iter \in BOOLEAN /\ torn \in BOOLEAN /\ partial \in BOOLEAN
  BY Zenon DEF Init
<1>2. 0..1 \subseteq 0..MaxCount /\ 0 \in 0..MaxTruncates /\ 0 \in 0..MaxFaults
  BY PerfSchemaAssumption
<1>3. RestType
  BY <1>1, <1>2 DEF Init, RestType, Zero, Pcs
<1>4. Control /\ BetweenReads /\ BaselineRead /\ LaterRead /\ BeforeMerge
  BY DEF Init, Control, BetweenReads, BaselineRead, LaterRead, BeforeMerge
<1>5. NotTooMuch
  BY DEF Init, NotTooMuch, Zero
<1> QED
  BY <1>3, <1>4, <1>5, TypeParts, EmptyIsSnapshot DEF Init, Inv

\* While MySQL counts on, or is truncated, no row grows by more than it was executed.
LEMMA TableKeepsInv ==
  ASSUME Inv, RestType', UNCHANGED <<All, Curr, iter, pc, todo, reported, partial>>,
         torn => torn',
         \A r \in Rows : /\ since[r] <= since'[r] /\ count'[r] - count[r] <= since'[r] - since[r]
                         /\ ~torn' => count'[r] - count[r] = since'[r] - since[r]
  PROVE  Inv'
<1>0. TypeOK /\ TypeOK' /\ \A r \in Rows : Prev(r)' = Prev(r) /\ Now(r)' = Now(r)
  BY TypeParts DEF Inv, Prev, Now
<1>1. \A r \in Rows : /\ count[r] \in Nat /\ since[r] \in Nat /\ reported[r] \in Nat
                      /\ count'[r] \in Nat /\ since'[r] \in Nat
                      /\ Prev(r) \in Nat /\ Now(r) \in Nat /\ (r \in DOMAIN Curr => Curr[r] \in Nat)
  BY <1>0, Numbers, TypeParts DEF RestType
<1>2. \A r \in Rows : /\ Settled(r, Prev(r)) => Settled(r, Prev(r))'
                      /\ Settled(r, Now(r)) => Settled(r, Now(r))'
  <2> TAKE r \in Rows
  <2> DEFINE s == Prev(r)
             t == Now(r)
  <2>1. /\ s \in Nat /\ s' = s /\ t \in Nat /\ t' = t /\ UNCHANGED reported
        /\ count[r] \in Nat /\ since[r] \in Nat /\ reported[r] \in Nat /\ count'[r] \in Nat /\ since'[r] \in Nat
        /\ since[r] <= since'[r] /\ count'[r] - count[r] <= since'[r] - since[r]
        /\ ~torn' => ~torn /\ count'[r] - count[r] = since'[r] - since[r]
    BY <1>0, <1>1
  <2> HIDE DEF s, t
  <2>2. Settled(r, s) => Settled(r, s)'
    BY <2>1 DEF Settled
  <2>3. Settled(r, t) => Settled(r, t)'
    BY <2>1 DEF Settled
  <2> QED
    BY <2>2, <2>3 DEF s, t
<1>3. NotTooMuch => NotTooMuch'
  BY <1>1 DEF NotTooMuch
<1>4. BetweenReads => BetweenReads'
  BY <1>0, <1>1, <1>2 DEF BetweenReads
<1>5. BaselineRead => BaselineRead'
  BY <1>0, <1>1, <1>2 DEF BaselineRead
<1>6. LaterRead => LaterRead'
  <2>1. ASSUME NEW r \in Rows, r \in DOMAIN Curr, reported[r] + (count[r] - Curr[r]) <= since[r],
               reported[r] + (Curr[r] - Prev(r)) <= since[r]
        PROVE  reported[r] + (count'[r] - Curr[r]) <= since'[r] /\ reported[r] + (Curr[r] - Prev(r)) <= since'[r]
    BY <1>1, <2>1
  <2> QED
    BY <1>0, <1>2, <2>1 DEF LaterRead
<1>7. BeforeMerge => BeforeMerge'
  BY <1>0, <1>1, <1>2 DEF BeforeMerge
<1> QED
  BY <1>0, <1>3, <1>4, <1>5, <1>6, <1>7 DEF Inv, Control

\* A statement is executed.
LEMMA ExecuteKeepsInv ==
  ASSUME Inv, NEW x \in Rows, Execute(x)
  PROVE  Inv'
<1>0. RestType
  BY TypeParts DEF Inv
<1>1. /\ UNCHANGED <<All, Curr, iter, pc, todo, reported, torn, partial, truncates, faults>>
      /\ count[x] < MaxCount /\ count' = [count EXCEPT ![x] = @ + 1]
      /\ since' = [since EXCEPT ![x] = @ + 1] /\ recent' \subseteq Rows
  BY <1>0 DEF Execute, RestType
<1>2. \A r \in Rows : /\ count[r] \in 0..MaxCount /\ since[r] \in Nat
                      /\ count'[r] = (IF r = x THEN count[r] + 1 ELSE count[r])
                      /\ since'[r] = (IF r = x THEN since[r] + 1 ELSE since[r])
  BY <1>0, <1>1 DEF RestType
<1>3. count' \in [Rows -> 0..MaxCount] /\ since' \in [Rows -> Nat]
  BY <1>0, <1>1, PerfSchemaAssumption DEF RestType
<1>4. RestType'
  BY <1>0, <1>1, <1>3 DEF RestType
<1>5. \A r \in Rows : since[r] <= since'[r] /\ count'[r] - count[r] = since'[r] - since[r]
                      /\ count'[r] - count[r] <= since'[r] - since[r]
  BY <1>2, PerfSchemaAssumption
<1> QED
  BY <1>1, <1>4, <1>5, TableKeepsInv

\* The table is truncated, which is what makes the history torn.
LEMMA TruncateKeepsInv ==
  ASSUME Inv, Truncate
  PROVE  Inv'
<1>0. RestType
  BY TypeParts DEF Inv
<1>1. /\ UNCHANGED <<All, Curr, iter, pc, todo, since, reported, partial, faults>>
      /\ count' = Zero /\ recent' = {} /\ truncates < MaxTruncates /\ truncates' = truncates + 1
  BY DEF Truncate
<1>2. torn' /\ torn' \in BOOLEAN
  BY Zenon DEF Truncate
<1>3. count' \in [Rows -> 0..MaxCount] /\ \A r \in Rows : count'[r] = 0 /\ count[r] \in Nat /\ since[r] \in Nat
  BY <1>0, <1>1, PerfSchemaAssumption DEF Zero, RestType
<1>4. truncates' \in 0..MaxTruncates
  BY <1>0, <1>1, PerfSchemaAssumption DEF RestType
<1>5. RestType'
  BY <1>0, <1>1, <1>2, <1>3, <1>4 DEF RestType
<1>6. \A r \in Rows : since[r] <= since'[r] /\ count'[r] - count[r] <= since'[r] - since[r]
  BY <1>1, <1>3
<1> QED
  BY <1>1, <1>2, <1>5, <1>6, TableKeepsInv

\* Setup and connecting: a reset forgets the baseline, and a failed connection
\* merges an old Curr again, which is known then to be no whole snapshot.
LEMMA BeginKeepsInv ==
  ASSUME Inv, (\E inSequence \in BOOLEAN : Setup(inSequence)) \/ Connect \/ ConnectFails
  PROVE  Inv'
<1>0. RestType /\ IsSnapshot(All) /\ IsSnapshot(Curr) /\ IsSnapshot(Empty)
  BY TypeParts, EmptyIsSnapshot DEF Inv
<1>1. CASE \E inSequence \in BOOLEAN : Setup(inSequence)
  <2>1. /\ pc = "idle" /\ pc' = "connect" /\ All' \in {All, Empty} /\ UNCHANGED <<table, Curr, todo, ghosts, faults>>
    BY <1>1 DEF Setup
  <2>2. iter' /\ iter' \in BOOLEAN
    BY <1>1, Zenon DEF Setup
  <2>3. RestType' /\ IsSnapshot(All') /\ IsSnapshot(Curr')
    BY <1>0, <2>1, <2>2 DEF RestType, Pcs
  <2>4. Control' /\ BaselineRead' /\ LaterRead' /\ BeforeMerge'
    BY <2>1, <2>2 DEF Control, BaselineRead, LaterRead, BeforeMerge
  <2>5. BetweenReads => BetweenReads'
    BY <2>1 DEF BetweenReads, Settled, Prev
  <2> QED
    BY <2>1, <2>3, <2>4, <2>5, TypeParts DEF Inv, NotTooMuch
<1>2. CASE Connect
  <2>1. pc = "connect" /\ pc' = "query" /\ UNCHANGED <<table, All, Curr, iter, todo, ghosts, faults>>
    BY <1>2 DEF Connect
  <2>2. RestType' /\ IsSnapshot(All') /\ IsSnapshot(Curr')
    BY <1>0, <2>1 DEF RestType, Pcs
  <2>3. Control' /\ BaselineRead' /\ LaterRead' /\ BeforeMerge'
    BY <2>1 DEF Inv, Control, BaselineRead, LaterRead, BeforeMerge
  <2>4. BetweenReads => BetweenReads'
    BY <2>1 DEF BetweenReads, Settled, Prev
  <2> QED
    BY <2>1, <2>2, <2>3, <2>4, TypeParts DEF Inv, NotTooMuch
<1>3. CASE ConnectFails
  <2>1. /\ pc = "connect" /\ pc' = "cleanup" /\ UNCHANGED <<table, All, Curr, iter, todo, since, reported, torn>>
        /\ faults < MaxFaults /\ faults' = faults + 1
    BY <1>3 DEF ConnectFails
  <2>2. /\ partial' \in BOOLEAN /\ (partial' <=> partial \/ (All = Empty /\ Curr # Empty))
    BY <1>0, <1>3, Zenon DEF ConnectFails, RestType
  <2>3. faults' \in 0..MaxFaults
    BY <1>0, <2>1, PerfSchemaAssumption DEF RestType
  <2>4. RestType' /\ IsSnapshot(All') /\ IsSnapshot(Curr')
    BY <1>0, <2>1, <2>2, <2>3 DEF RestType, Pcs
  <2>5. Control' /\ BaselineRead' /\ LaterRead' /\ BetweenReads'
    BY <2>1 DEF Inv, Control, BaselineRead, LaterRead, BetweenReads
  <2>6. ~partial' => BeforeMerge'
    BY <2>1, <2>2 DEF Inv, BetweenReads, BeforeMerge, Settled, Prev, Now
  <2> QED
    BY <2>1, <2>2, <2>4, <2>5, <2>6, TypeParts DEF Inv, NotTooMuch
<1> QED
  BY <1>1, <1>2, <1>3

\* The query: a baseline opens new accounts, a later read goes on with the old ones.
LEMMA QueryKeepsInv ==
  ASSUME Inv, Query
  PROVE  Inv'
<1>0. RestType /\ IsSnapshot(All) /\ IsSnapshot(Empty) /\ DOMAIN Empty = {}
  BY TypeParts, EmptyIsSnapshot DEF Inv
<1>1. pc = "query" /\ pc' = "fetch" /\ Curr' = Empty /\ DOMAIN Curr' = {} /\ UNCHANGED <<table, All, iter, faults>>
  BY <1>0 DEF Query
<1>2. Control'
  BY <1>1 DEF Inv, Control
<1>3. BetweenReads' /\ BeforeMerge'
  BY <1>1 DEF BetweenReads, BeforeMerge
<1>4. CASE All = Empty
  <2>1. todo' = {r \in Rows : count[r] > 0} /\ since' = Zero /\ reported' = Zero
    BY <1>4 DEF Query
  <2>2. torn' \in BOOLEAN /\ partial' \in BOOLEAN
    BY <1>4, Zenon DEF Query
  <2>3. since' \in [Rows -> Nat] /\ reported' \in [Rows -> Nat] /\ \A r \in Rows : since'[r] = 0 /\ reported'[r] = 0
    BY <2>1 DEF Zero
  <2>4. RestType'
    BY <1>0, <1>1, <2>1, <2>2, <2>3 DEF RestType, Pcs
  <2>5. \A r \in Rows : Prev(r)' = 0 /\ Now(r)' = 0
    BY <1>0, <1>1, <1>4 DEF Prev, Now
  <2>6. \A r \in Rows \ todo' : count'[r] = 0
    BY <1>0, <1>1, <2>1 DEF RestType
  <2>7. NotTooMuch' /\ BaselineRead' /\ LaterRead'
    BY <1>1, <1>4, <2>3, <2>5, <2>6 DEF NotTooMuch, BaselineRead, LaterRead, Settled
  <2> QED
    BY <1>0, <1>1, <1>2, <1>3, <2>4, <2>7, TypeParts DEF Inv
<1>5. CASE All # Empty
  <2>1. todo' \subseteq Rows /\ UNCHANGED ghosts
    BY <1>0, <1>5 DEF Query, RestType
  <2>2. RestType'
    BY <1>0, <1>1, <2>1 DEF RestType, Pcs
  <2>3. BaselineRead' /\ (NotTooMuch => NotTooMuch')
    BY <1>1, <1>5, <2>1 DEF BaselineRead, NotTooMuch
  <2>4. BetweenReads => LaterRead'
    BY <1>1, <1>5, <2>1 DEF BetweenReads, LaterRead, Settled, Prev
  <2> QED
    BY <1>0, <1>1, <1>2, <1>3, <2>1, <2>2, <2>3, <2>4, TypeParts DEF Inv
<1> QED
  BY <1>4, <1>5

\* The query fails, or a read: what Curr holds is merged all the same.
LEMMA FailureKeepsInv ==
  ASSUME Inv, QueryFails \/ FetchFails
  PROVE  Inv'
<1>0. RestType /\ IsSnapshot(All) /\ IsSnapshot(Curr) /\ IsSnapshot(Empty) /\ DOMAIN Empty = {} /\ TypeOK
  BY TypeParts, EmptyIsSnapshot DEF Inv
<1>1. /\ pc' = "cleanup" /\ recent' = {} /\ faults < MaxFaults /\ faults' = faults + 1
      /\ UNCHANGED <<count, truncates, All, iter, since, reported>>
  BY DEF QueryFails, FetchFails
<1>2. faults' \in 0..MaxFaults
  BY <1>0, <1>1, PerfSchemaAssumption DEF RestType
<1>3. iter /\ Control' /\ BetweenReads' /\ BaselineRead' /\ LaterRead'
  BY <1>1 DEF Inv, Control, BetweenReads, BaselineRead, LaterRead, QueryFails, FetchFails
<1>4. CASE QueryFails
  <2>1. pc = "query" /\ Curr' = Empty /\ UNCHANGED <<todo, torn, partial>>
    BY <1>4 DEF QueryFails
  <2>2. RestType'
    BY <1>0, <1>1, <1>2, <2>1 DEF RestType, Pcs
  <2>3. BetweenReads => BeforeMerge'
    BY <1>0, <1>1, <2>1 DEF BetweenReads, BeforeMerge, Settled, Prev, Now
  <2> QED
    BY <1>0, <1>1, <1>3, <2>1, <2>2, <2>3, TypeParts DEF Inv, NotTooMuch
<1>5. CASE FetchFails
  <2>1. pc = "fetch" /\ todo' = {} /\ UNCHANGED Curr
    BY <1>5 DEF FetchFails
  <2>2. torn' /\ torn' \in BOOLEAN /\ partial' \in BOOLEAN /\ (partial' <=> partial \/ All = Empty)
    BY <1>0, <1>5, Zenon DEF FetchFails, RestType
  <2>3. RestType'
    BY <1>0, <1>1, <1>2, <2>1, <2>2 DEF RestType, Pcs
  <2>4. ~partial' => BeforeMerge'
    BY <1>1, <2>1, <2>2 DEF Inv, LaterRead, BeforeMerge, Settled, Prev, Now
  <2> QED
    BY <1>0, <1>1, <1>3, <2>1, <2>2, <2>3, <2>4, TypeParts DEF Inv, NotTooMuch
<1> QED
  BY <1>4, <1>5

\* A row is read with its count of this moment.
LEMMA FetchRowKeepsInv ==
  ASSUME Inv, NEW x \in Rows, FetchRow(x)
  PROVE  Inv'
<1>0. RestType /\ IsSnapshot(All) /\ IsSnapshot(Curr) /\ TypeOK
  BY TypeParts DEF Inv
<1>1. /\ pc = "fetch" /\ x \in todo /\ todo' = todo \ {x} /\ x \notin DOMAIN Curr
      /\ UNCHANGED <<table, All, iter, pc, reported, torn, partial, faults>>
  BY DEF Inv, Control, FetchRow
<1>2. /\ IsSnapshot(Curr') /\ DOMAIN Curr' = IF count[x] > 0 THEN DOMAIN Curr \cup {x} ELSE DOMAIN Curr
      /\ \A r \in DOMAIN Curr' : Curr'[r] = IF r = x THEN count[x] ELSE Curr[r]
  <2>1. count[x] > 0 => count[x] \in 1..MaxCount
    BY <1>0, PerfSchemaAssumption DEF RestType
  <2>2. CASE count[x] > 0
    BY <1>0, <2>1, <2>2, Zenon DEF FetchRow, IsSnapshot
  <2>3. CASE ~(count[x] > 0)
    BY <1>0, <1>1, <2>3 DEF FetchRow
  <2> QED
    BY <2>2, <2>3
<1>3. /\ since' \in [Rows -> Nat]
      /\ All = Empty => \A r \in Rows : since'[r] = IF r = x THEN 0 ELSE since[r]
      /\ All # Empty => since' = since
  BY <1>0 DEF FetchRow, RestType
<1>4. RestType' /\ Control' /\ BetweenReads' /\ BeforeMerge'
  BY <1>0, <1>1, <1>2, <1>3 DEF Inv, RestType, Control, BetweenReads, BeforeMerge
<1>5. \A r \in Rows : /\ count[r] \in Nat /\ since[r] \in Nat /\ reported[r] \in Nat
                      /\ Prev(r) \in Nat /\ Now(r) \in Nat /\ (r \in DOMAIN Curr => Curr[r] \in Nat)
  BY <1>0, Numbers
<1>6. CASE All = Empty
  <2>1. LaterRead'
    BY <1>1, <1>6 DEF LaterRead
  <2>2. \A r \in Rows \ {x} : Now(r)' = Now(r) /\ (r \in todo' <=> r \in todo)
    BY <1>1, <1>2 DEF Now, Prev
  <2>3. Now(x)' = count[x]
    BY <1>0, <1>1, <1>2, <1>5, <1>6, EmptyIsSnapshot DEF Now, Prev
  <2>4. BaselineRead => BaselineRead' /\ NotTooMuch'
    BY <1>1, <1>3, <1>5, <1>6, <2>2, <2>3, SMTT(30) DEF BaselineRead, NotTooMuch, Settled
  <2> QED
    BY <1>0, <1>1, <1>2, <1>4, <2>1, <2>4, TypeParts DEF Inv
<1>7. CASE All # Empty
  <2>1. BaselineRead' /\ (NotTooMuch => NotTooMuch')
    BY <1>1, <1>3, <1>7 DEF BaselineRead, NotTooMuch
  <2>2. \A r \in Rows : Prev(r)' = Prev(r)
    BY <1>1, SMTT(30) DEF Prev
  <2>3. LaterRead /\ NotTooMuch => LaterRead'
    BY <1>1, <1>2, <1>3, <1>5, <1>7, <2>2 DEF LaterRead, NotTooMuch, Settled
  <2> QED
    BY <1>0, <1>1, <1>2, <1>4, <2>1, <2>3, TypeParts DEF Inv
<1> QED
  BY <1>6, <1>7

\* The snapshot is complete.
LEMMA FetchEndKeepsInv ==
  ASSUME Inv, FetchEnd
  PROVE  Inv'
<1>0. RestType /\ IsSnapshot(All) /\ IsSnapshot(Curr)
  BY TypeParts DEF Inv
<1>1. /\ pc = "fetch" /\ pc' = "prepare" /\ todo = {} /\ recent' = {}
      /\ UNCHANGED <<count, truncates, All, Curr, iter, todo, ghosts, faults>>
  BY DEF FetchEnd
<1>2. RestType' /\ Control'
  BY <1>0, <1>1 DEF Inv, RestType, Pcs, Control
<1>3. BetweenReads' /\ BeforeMerge' /\ (NotTooMuch => NotTooMuch')
  BY <1>1 DEF BetweenReads, BeforeMerge, NotTooMuch
<1>4. BaselineRead => BaselineRead'
  BY <1>1 DEF BaselineRead, Settled, Now, Prev
<1>5. LaterRead => LaterRead'
  BY <1>1 DEF LaterRead, Settled, Prev
<1> QED
  BY <1>0, <1>1, <1>2, <1>3, <1>4, <1>5, TypeParts DEF Inv

\* The differences are reported, unless one is negative.
LEMMA PrepareKeepsInv ==
  ASSUME Inv, Prepare
  PROVE  Inv'
<1>0. RestType /\ IsSnapshot(All) /\ IsSnapshot(Curr) /\ IsSnapshot(Empty) /\ DOMAIN Empty = {} /\ TypeOK
  BY TypeParts, EmptyIsSnapshot DEF Inv
<1>1. /\ pc = "prepare" /\ pc' = "cleanup" /\ todo = {}
      /\ UNCHANGED <<table, Curr, todo, since, torn, partial, faults>>
  BY DEF Inv, Control, Prepare
<1>2. BetweenReads' /\ BaselineRead' /\ LaterRead'
  BY <1>1 DEF BetweenReads, BaselineRead, LaterRead
<1>3. \A r \in Rows : /\ count[r] \in Nat /\ since[r] \in Nat /\ reported[r] \in Nat
                      /\ Prev(r) \in Nat /\ Now(r) \in Nat /\ (r \in DOMAIN Curr => Curr[r] \in Nat)
  BY <1>0, Numbers
<1>4. CASE \E r \in DOMAIN Curr : Curr[r] < Prev(r)
  <2>1. All' = Empty /\ UNCHANGED reported
    BY <1>4 DEF Prepare
  <2>2. iter' \in BOOLEAN /\ ~iter'
    BY <1>4, Zenon DEF Prepare
  <2>3. RestType' /\ Control'
    BY <1>0, <1>1, <2>1, <2>2 DEF RestType, Pcs, Control
  <2>4. BeforeMerge' /\ (NotTooMuch => NotTooMuch')
    BY <1>1, <2>1, <2>2 DEF BeforeMerge, NotTooMuch
  <2> QED
    BY <1>0, <1>1, <1>2, <2>1, <2>3, <2>4, TypeParts DEF Inv
<1>5. CASE ~(\E r \in DOMAIN Curr : Curr[r] < Prev(r)) /\ All = Empty
  <2>1. UNCHANGED <<All, iter, reported>>
    BY <1>5 DEF Prepare
  <2>2. RestType' /\ Control'
    BY <1>0, <1>1, <2>1 DEF Inv, RestType, Pcs, Control
  <2>3. BaselineRead => BeforeMerge'
    BY <1>1, <1>5, <2>1 DEF BaselineRead, BeforeMerge, Settled, Now, Prev
  <2> QED
    BY <1>0, <1>1, <1>2, <2>1, <2>2, <2>3, TypeParts DEF Inv, NotTooMuch
<1>6. CASE ~(\E r \in DOMAIN Curr : Curr[r] < Prev(r)) /\ All # Empty
  <2>1. /\ UNCHANGED <<All, iter>>
        /\ reported' = [r \in Rows |-> reported[r] + IF r \in DOMAIN Curr THEN Curr[r] - Prev(r) ELSE 0]
    BY <1>6 DEF Prepare
  <2>2. \A r \in Rows : /\ reported'[r] = reported[r] + (IF r \in DOMAIN Curr THEN Curr[r] - Prev(r) ELSE 0)
                        /\ reported'[r] \in Nat /\ Prev(r)' = Prev(r) /\ Now(r)' = Now(r)
    BY <1>1, <1>3, <1>6, <2>1 DEF Prev, Now
  <2>3. reported' \in [Rows -> Nat]
    BY <2>1, <2>2
  <2>4. RestType' /\ Control'
    BY <1>0, <1>1, <2>1, <2>3 DEF Inv, RestType, Pcs, Control
  <2>5. LaterRead /\ NotTooMuch => NotTooMuch'
    BY <1>1, <1>3, <1>6, <2>2, SMTT(30) DEF LaterRead, NotTooMuch
  <2>6. LaterRead => BeforeMerge'
    BY <1>1, <1>3, <1>6, <2>2 DEF LaterRead, BeforeMerge, Settled, Now
  <2> QED
    BY <1>0, <1>1, <1>2, <2>1, <2>4, <2>5, <2>6, TypeParts DEF Inv
<1> QED
  BY <1>4, <1>5, <1>6

\* MergeCurr makes of Curr what All knows.
LEMMA CleanupKeepsInv ==
  ASSUME Inv, Cleanup
  PROVE  Inv'
<1>0. RestType /\ IsSnapshot(All) /\ IsSnapshot(Curr) /\ TypeOK
  BY TypeParts DEF Inv
<1>1. pc = "cleanup" /\ pc' = "idle" /\ UNCHANGED <<table, Curr, iter, todo, ghosts, faults>>
  BY DEF Cleanup
<1>2. RestType' /\ Control'
  BY <1>0, <1>1 DEF RestType, Pcs, Control
<1>3. BaselineRead' /\ LaterRead' /\ BeforeMerge' /\ (NotTooMuch => NotTooMuch')
  BY <1>1 DEF BaselineRead, LaterRead, BeforeMerge, NotTooMuch
<1>4. CASE iter
  <2>1. All' = MergeCurr
    BY <1>4 DEF Cleanup
  <2>2. IsSnapshot(All') /\ DOMAIN All' = DOMAIN All \cup DOMAIN Curr
    BY <1>0, <2>1 DEF MergeCurr, IsSnapshot
  <2>3. \A r \in Rows : Prev(r)' = Now(r) /\ (r \in DOMAIN Curr' => Prev(r)' = Curr'[r])
    BY <1>1, <2>1 DEF MergeCurr, Prev, Now
  <2>4. All' # Empty => All # Empty \/ Curr # Empty
    BY <1>0, <2>2, EmptySnapshot, Zenon
  <2>5. BeforeMerge => BetweenReads'
    BY <1>1, <1>4, <2>3, <2>4 DEF BeforeMerge, BetweenReads, Settled
  <2> QED
    BY <1>0, <1>1, <1>2, <1>3, <2>2, <2>5, TypeParts DEF Inv
<1>5. CASE ~iter
  <2>1. All' = All /\ All = Empty
    BY <1>1, <1>5 DEF Cleanup, Inv, Control
  <2>2. BetweenReads'
    BY <2>1 DEF BetweenReads
  <2> QED
    BY <1>0, <1>1, <1>2, <1>3, <2>1, <2>2, TypeParts DEF Inv
<1> QED
  BY <1>4, <1>5

\* No step of MySQL and none of the worker disturbs the invariant.
LEMMA InvNext == Inv /\ [Next]_vars => Inv'
<1> SUFFICES ASSUME Inv, [Next]_vars PROVE Inv'
  OBVIOUS
<1>1. ASSUME NEW r \in Rows, Execute(r) PROVE Inv'
  BY <1>1, ExecuteKeepsInv
<1>2. ASSUME NEW r \in Rows, FetchRow(r) PROVE Inv'
  BY <1>2, FetchRowKeepsInv
<1>3. CASE Truncate
  BY <1>3, TruncateKeepsInv
<1>4. CASE (\E inSequence \in BOOLEAN : Setup(inSequence)) \/ Connect \/ ConnectFails
  BY <1>4, BeginKeepsInv
<1>5. CASE Query
  BY <1>5, QueryKeepsInv
<1>6. CASE QueryFails \/ FetchFails
  BY <1>6, FailureKeepsInv
<1>7. CASE FetchEnd
  BY <1>7, FetchEndKeepsInv
<1>8. CASE Prepare
  BY <1>8, PrepareKeepsInv
<1>9. CASE Cleanup
  BY <1>9, CleanupKeepsInv
<1>10. CASE UNCHANGED vars
  <2>1. RestType'
    BY <1>10, TypeParts DEF Inv, RestType
  <2>2. \A r \in Rows : count[r] \in Nat /\ since[r] \in Nat
    BY Numbers DEF Inv
  <2> QED
    BY <1>10, <2>1, <2>2, TableKeepsInv
<1> QED
  BY <1>1, <1>2, <1>3, <1>4, <1>5, <1>6, <1>7, <1>8, <1>9, <1>10 DEF Next

\* The invariant holds of every state of the worker.
LEMMA InvAlways == Spec => []Inv
BY InvInit, InvNext, PTL DEF Spec

(***************************************************************************)
(* Whatever the rows of the table, and however often it is truncated and   *)
(* reads of it fail (perfschema/worker.go, Setup, Run, getSnapshot,        *)
(* prepareResult, Cleanup): no execution is reported twice, and between    *)
(* two truncates and failed reads, none is forgotten.                      *)
(***************************************************************************)
THEOREM DifferencesAddUp == Spec => []ExactlyReported
<1>1. Inv => ExactlyReported
  BY DEF Inv, ExactlyReported, NotTooMuch, BetweenReads, Settled
<1> QED
  BY <1>1, InvAlways, PTL
=============================================================================
