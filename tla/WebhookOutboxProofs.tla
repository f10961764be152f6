------------------------ MODULE WebhookOutboxProofs ------------------------
(* Proofs about WebhookOutbox and WebhookLate, for every number of hooks,  *)
(* deliveries and processes, every ladder, lease and budgets.              *)
EXTENDS WebhookLate, TLAPS

------------------------------------------------------------------------------
(* Type correctness.                                                       *)

(* A pending delivery has an attempt left.                                 *)
AttemptsLeft == \A r \in Rows : Pending(r) => row[r].attempts < MaxAttempts

AllHandsOK == \A p \in Procs : HandsOK(p)

LEMMA InitTypeOK == Init => TypeOK
BY OutboxAssumption
DEF Init, TypeOK, DbTypeOK, ProcTypeOK, HandsOK, Pending, RowType, UnusedRow, SeenType,
    NothingSeen, HookStates, RowStates, PCs, AfterSettle, Procs

LEMMA FloorInt == ASSUME NEW t \in Int PROVE Floor(t) \in Int
BY OutboxAssumption DEF Floor

LEMMA RowFields ==
  ASSUME DbTypeOK, NEW r \in Rows, NEW st \in RowStates,
         NEW n \in 0 .. MaxAttempts, NEW d \in Int
  PROVE  /\ RowWith(r, st, n, d) \in RowType
         /\ [row[r] EXCEPT !.due = d] \in RowType
BY DEF RowType, RowWith, DbTypeOK

(* A process that stops, or moves on to its next row.                      *)
LEMMA StopTypes ==
  ASSUME ProcTypeOK, AllHandsOK, NEW p \in Procs, Stop(p)
  PROVE  ProcTypeOK' /\ AllHandsOK'
<1>0. [r \in Rows |-> NothingSeen] \in SeenType
  BY OutboxAssumption DEF NothingSeen, SeenType
<1>1. ProcTypeOK'
  BY <1>0 DEF ProcTypeOK, Stop, Goto, PCs
<1>2. AllHandsOK'
  BY DEF ProcTypeOK, Stop, Goto, AllHandsOK, HandsOK, AfterSettle
<1>3. QED BY <1>1, <1>2

LEMMA NextRowTypes ==
  ASSUME ProcTypeOK, AllHandsOK, NEW p \in Procs, cur[p] \in claimed[p], NextRow(p)
  PROVE  ProcTypeOK' /\ AllHandsOK'
<1>1. CASE p \in Pingers \/ claimed[p] = {cur[p]}
  BY <1>1, StopTypes DEF NextRow
<1>2. CASE ~(p \in Pingers \/ claimed[p] = {cur[p]})
  <2>0. NothingSeen \in [attempts : 0 .. MaxAttempts, due : Int] /\ cur[p] \in Rows
    BY OutboxAssumption DEF NothingSeen, ProcTypeOK
  <2>1. [seen[p] EXCEPT ![cur[p]] = NothingSeen] \in SeenType
    BY <2>0 DEF SeenType, ProcTypeOK
  <2>2. ProcTypeOK'
    <3>1. seen' = [seen EXCEPT ![p] = [seen[p] EXCEPT ![cur[p]] = NothingSeen]]
      BY <1>2 DEF NextRow
    <3>2. seen' \in [Procs -> SeenType]
      BY <2>1, <3>1 DEF ProcTypeOK
    <3>3. QED
      BY <1>2, <3>2 DEF ProcTypeOK, NextRow, Goto, PCs
  <2>3. AllHandsOK'
    BY <1>2 DEF ProcTypeOK, NextRow, Goto, AllHandsOK, HandsOK, AfterSettle
  <2>4. QED BY <2>2, <2>3
<1>3. QED BY <1>1, <1>2

LEMMA SameProcTypes ==
  ASSUME ProcTypeOK, AllHandsOK, UNCHANGED procVars
  PROVE  ProcTypeOK' /\ AllHandsOK'
BY DEF ProcTypeOK, AllHandsOK, HandsOK, procVars

------------------------------------------------------------------------------
(* The owner's doors, the queueing and the pruning leave every process     *)
(* where it was.                                                           *)
LEMMA SameRows ==
  ASSUME TypeOK, UNCHANGED row PROVE row' \in [Rows -> RowType] /\ AttemptsLeft'
BY DEF TypeOK, DbTypeOK, AttemptsLeft, Pending

LEMMA CreateTypes ==
  ASSUME TypeOK, NEW h \in Hooks, Create(h) PROVE DbTypeOK' /\ AttemptsLeft'
BY SameRows DEF TypeOK, DbTypeOK, Create, HookStates

LEMMA SwitchOnTypes ==
  ASSUME TypeOK, NEW h \in Hooks, SwitchOn(h) PROVE DbTypeOK' /\ AttemptsLeft'
BY SameRows DEF TypeOK, DbTypeOK, SwitchOn, Exists, HookStates

LEMMA SwitchOffTypes ==
  ASSUME TypeOK, NEW h \in Hooks, SwitchOff(h) PROVE DbTypeOK' /\ AttemptsLeft'
BY SameRows DEF TypeOK, DbTypeOK, SwitchOff, On, HookStates

LEMMA DeleteTypes ==
  ASSUME TypeOK, NEW h \in Hooks, Delete(h) PROVE DbTypeOK' /\ AttemptsLeft'
BY SameRows DEF TypeOK, DbTypeOK, Delete, Exists, HookStates

LEMMA EmitCheckTypes ==
  ASSUME TypeOK, NEW h \in Hooks, EmitCheck(h) PROVE DbTypeOK' /\ AttemptsLeft'
BY SameRows DEF TypeOK, DbTypeOK, EmitCheck, HookStates

(* Each row of a set rewritten with a typed value.                         *)
LEMMA RowsRewritten ==
  ASSUME TypeOK, NEW S \in SUBSET Rows, NEW f \in [S -> RowType],
         \A r \in S : f[r].st = "pending" => f[r].attempts < MaxAttempts,
         row' = [r \in Rows |-> IF r \in S THEN f[r] ELSE row[r]]
  PROVE  row' \in [Rows -> RowType] /\ AttemptsLeft'
<1>1. row \in [Rows -> RowType]
  BY DEF TypeOK, DbTypeOK
<1>2. row' \in [Rows -> RowType]
  BY <1>1
<1>3. \A r \in Rows : Pending(r)' => row'[r].attempts < MaxAttempts
  BY <1>1 DEF TypeOK, Pending
<1>4. QED
  BY <1>2, <1>3 DEF AttemptsLeft

LEMMA OneRowRewritten ==
  ASSUME TypeOK, NEW r \in Rows, NEW x \in RowType,
         x.st = "pending" => x.attempts < MaxAttempts,
         row' = [row EXCEPT ![r] = x]
  PROVE  row' \in [Rows -> RowType] /\ AttemptsLeft'
BY DEF TypeOK, DbTypeOK, AttemptsLeft, Pending

LEMMA GoneType ==
  ASSUME TypeOK, NEW r \in Rows
  PROVE  Gone(r) \in RowType /\ Gone(r).st = "pruned"
BY RowFields DEF Gone, RowWith, RowStates, DbTypeOK, RowType, TypeOK

LEMMA DeleteSweepTypes ==
  ASSUME TypeOK, NEW h \in Hooks, DeleteSweep(h) PROVE DbTypeOK' /\ AttemptsLeft'
<1> DEFINE S == {r \in Rows : row[r].hook = h /\ row[r].st # "unused"}
           f == [r \in S |-> Gone(r)]
<1>1. f \in [S -> RowType] /\ \A r \in S : f[r].st # "pending"
  BY GoneType
<1>2. row' = [r \in Rows |-> IF r \in S THEN f[r] ELSE row[r]]
  BY DEF DeleteSweep
<1>3. row' \in [Rows -> RowType] /\ AttemptsLeft'
  <2> HIDE DEF S, f
  <2> QED BY <1>1, <1>2, RowsRewritten, S \in SUBSET Rows DEF S
<1>4. QED
  BY <1>3 DEF TypeOK, DbTypeOK, DeleteSweep

LEMMA PruneTypes ==
  ASSUME TypeOK, Prune PROVE DbTypeOK' /\ AttemptsLeft'
<1>1. PICK old \in SUBSET Rows :
        row' = [r \in Rows |-> IF r \in old \/ Orphan(r) THEN Gone(r) ELSE row[r]]
  BY DEF Prune
<1> DEFINE S == {r \in Rows : r \in old \/ Orphan(r)}
           f == [r \in S |-> Gone(r)]
<1>2. f \in [S -> RowType] /\ \A r \in S : f[r].st # "pending"
  BY GoneType
<1>3. row' = [r \in Rows |-> IF r \in S THEN f[r] ELSE row[r]]
  BY <1>1
<1>4. row' \in [Rows -> RowType] /\ AttemptsLeft'
  <2> S \in SUBSET Rows
    OBVIOUS
  <2> HIDE DEF S, f
  <2> QED BY <1>2, <1>3, RowsRewritten
<1>5. QED
  BY <1>4 DEF TypeOK, DbTypeOK, Prune

LEMMA NewRowType ==
  ASSUME NEW h \in Hooks, NEW d \in Int
  PROVE  NewRow(h, d) \in RowType /\ NewRow(h, d).attempts < MaxAttempts
BY OutboxAssumption DEF NewRow, RowType, RowStates

LEMMA EmitCommitTypes ==
  ASSUME TypeOK, NEW h \in Hooks, EmitCommit(h) PROVE DbTypeOK' /\ AttemptsLeft'
<1>1. PICK r \in Rows : row' = [row EXCEPT ![r] = NewRow(h, 0)]
  BY DEF EmitCommit
<1>2. row' \in [Rows -> RowType] /\ AttemptsLeft'
  <2> DEFINE x == NewRow(h, 0)
  <2>1. x \in RowType /\ x.attempts < MaxAttempts /\ row' = [row EXCEPT ![r] = x]
    BY <1>1, NewRowType
  <2> HIDE DEF x
  <2> QED BY <2>1, OneRowRewritten
<1>3. QED
  BY <1>2 DEF TypeOK, DbTypeOK, EmitCommit

------------------------------------------------------------------------------
(* The steps of one process.  Each leaves the others as they were.         *)
LEMMA GotoTypes ==
  ASSUME TypeOK, NEW p \in Procs, NEW to \in PCs, NEW time \in Nat, Goto(p, to, time),
         UNCHANGED <<elapsed, claimed, seen>>,
         cur' \in [Procs -> Rows \cup {0}], answer' \in [Procs -> {"none", "ok", "fail"}],
         \A q \in Procs \ {p} : cur'[q] = cur[q] /\ answer'[q] = answer[q],
         to \notin {"idle", "claim"}, pc[p] \notin {"idle", "claim"},
         to \in {"read", "post", "sending", "settle"} \cup AfterSettle => cur'[p] \in claimed[p],
         to \in {"settle"} \cup AfterSettle => answer'[p] # "none"
  PROVE  ProcTypeOK' /\ AllHandsOK'
<1>1. ProcTypeOK'
  BY DEF TypeOK, ProcTypeOK, Goto
<1>2. AllHandsOK'
  BY DEF TypeOK, ProcTypeOK, Goto, AllHandsOK, HandsOK
<1>3. QED BY <1>1, <1>2

LEMMA StartPassTypes ==
  ASSUME TypeOK, NEW p \in Drainers, StartPass(p)
  PROVE  ProcTypeOK' /\ AllHandsOK'
<1>0. p \in Procs /\ StepTime \in Nat
  BY OutboxAssumption DEF Procs
<1>1. ProcTypeOK'
  BY <1>0 DEF TypeOK, ProcTypeOK, StartPass, Goto, PCs
<1>2. AllHandsOK'
  BY <1>0 DEF TypeOK, ProcTypeOK, StartPass, Goto, AllHandsOK, HandsOK, AfterSettle
<1>3. QED BY <1>1, <1>2

LEMMA ClaimTypes ==
  ASSUME TypeOK, NEW p \in Drainers, Claim(p)
  PROVE  row' \in [Rows -> RowType] /\ AttemptsLeft' /\ ProcTypeOK' /\ AllHandsOK'
<1>0. p \in Procs /\ Lease \in Nat
  BY OutboxAssumption DEF Procs
<1>1. PICK S \in SUBSET Rows :
        /\ IsClaim(S, elapsed[p])
        /\ IF S = {}
           THEN Stop(p) /\ UNCHANGED row
           ELSE /\ row' = [r \in Rows |-> IF r \in S THEN Leased(p, r) ELSE row[r]]
                /\ claimed' = [claimed EXCEPT ![p] = S]
                /\ seen' = [seen EXCEPT ![p] = [r \in Rows |->
                    IF r \in S THEN [attempts |-> row[r].attempts, due |-> row[r].due]
                               ELSE NothingSeen]]
                /\ Goto(p, "check", 0)
                /\ UNCHANGED <<elapsed, cur, answer>>
  BY DEF Claim
<1>2. CASE S = {}
  BY <1>0, <1>1, <1>2, SameRows, StopTypes DEF TypeOK, AllHandsOK
<1>3. CASE S # {}
  <2> DEFINE f == [r \in S |-> Leased(p, r)]
             g == [r \in Rows |->
                    IF r \in S THEN [attempts |-> row[r].attempts, due |-> row[r].due]
                               ELSE NothingSeen]
  <2>1. \A r \in Rows : Leased(p, r) \in RowType /\ Leased(p, r).attempts = row[r].attempts
                        /\ Leased(p, r).st = row[r].st
    <3> SUFFICES ASSUME NEW r \in Rows
                 PROVE  Leased(p, r) \in RowType /\ Leased(p, r).attempts = row[r].attempts
                          /\ Leased(p, r).st = row[r].st
      OBVIOUS
    <3>1. row[r] \in RowType /\ Lease - elapsed[p] \in Int
      BY <1>0 DEF TypeOK, DbTypeOK, ProcTypeOK
    <3> QED BY <3>1 DEF Leased, RowType
  <2>2. row' \in [Rows -> RowType] /\ AttemptsLeft'
    <3>1. f \in [S -> RowType]
      BY <2>1
    <3>2. \A r \in S : f[r].st = "pending" => f[r].attempts < MaxAttempts
      BY <2>1 DEF TypeOK, Pending
    <3>3. row' = [r \in Rows |-> IF r \in S THEN f[r] ELSE row[r]]
      BY <1>1, <1>3
    <3> HIDE DEF f
    <3> QED BY <3>1, <3>2, <3>3, RowsRewritten
  <2>3. g \in SeenType
    BY OutboxAssumption DEF TypeOK, DbTypeOK, RowType, SeenType, NothingSeen
  <2>4. seen' = [seen EXCEPT ![p] = g]
    BY <1>1, <1>3
  <2> HIDE DEF f, g
  <2>5. ProcTypeOK'
    BY <1>0, <1>1, <1>3, <2>3, <2>4 DEF TypeOK, ProcTypeOK, Goto, PCs
  <2>6. AllHandsOK'
    BY <1>0, <1>1, <1>3, <2>4 DEF TypeOK, ProcTypeOK, Goto, AllHandsOK, HandsOK, AfterSettle
  <2>7. QED BY <2>2, <2>5, <2>6
<1>4. QED BY <1>2, <1>3

LEMMA PingTypes ==
  ASSUME TypeOK, NEW p \in Pingers, NEW h \in Hooks, Ping(p, h)
  PROVE  row' \in [Rows -> RowType] /\ AttemptsLeft' /\ ProcTypeOK' /\ AllHandsOK'
<1>0. p \in Procs /\ Lease \in Nat /\ StepTime \in Nat
  BY OutboxAssumption DEF Procs
<1>1. PICK r \in Rows :
        /\ row' = [row EXCEPT ![r] = NewRow(h, Lease)]
        /\ claimed' = [claimed EXCEPT ![p] = {r}]
        /\ cur' = [cur EXCEPT ![p] = r]
  BY DEF Ping
<1>2. row' \in [Rows -> RowType] /\ AttemptsLeft'
  <2> DEFINE x == NewRow(h, Lease)
  <2>1. x \in RowType /\ x.attempts < MaxAttempts /\ row' = [row EXCEPT ![r] = x]
    BY <1>0, <1>1, NewRowType
  <2> HIDE DEF x
  <2> QED BY <2>1, OneRowRewritten
<1>3. ProcTypeOK'
  BY <1>0, <1>1 DEF TypeOK, ProcTypeOK, Ping, Goto, PCs
<1>4. AllHandsOK'
  BY <1>0, <1>1 DEF TypeOK, ProcTypeOK, Ping, Goto, AllHandsOK, HandsOK, AfterSettle
<1>5. QED BY <1>2, <1>3, <1>4

LEMMA CheckBudgetTypes ==
  ASSUME TypeOK, NEW p \in Procs, CheckBudget(p)
  PROVE  ProcTypeOK' /\ AllHandsOK'
<1>0. StepTime \in Nat
  BY OutboxAssumption
<1>1. CASE elapsed[p] >= Budget
  BY <1>0, <1>1, GotoTypes DEF CheckBudget, TypeOK, ProcTypeOK, PCs, AfterSettle
<1>2. CASE ~(elapsed[p] >= Budget)
  <2>1. PICK r \in Rows : r \in claimed[p] /\ cur' = [cur EXCEPT ![p] = r]
    BY <1>2 DEF CheckBudget, OldestClaimed
  <2>2. cur' \in [Procs -> Rows \cup {0}] /\ cur'[p] \in claimed[p]
          /\ \A q \in Procs \ {p} : cur'[q] = cur[q]
    BY <2>1 DEF TypeOK, ProcTypeOK
  <2>3. QED
    BY <1>0, <1>2, <2>2, GotoTypes DEF CheckBudget, TypeOK, ProcTypeOK, PCs, AfterSettle
<1>3. QED BY <1>1, <1>2

LEMMA PostTypes ==
  ASSUME TypeOK, NEW p \in Procs, Post(p) \/ Answered(p)
  PROVE  ProcTypeOK' /\ AllHandsOK'
<1>0. StepTime \in Nat /\ Deadline \in Nat
  BY OutboxAssumption
<1>1. cur[p] \in claimed[p]
  BY DEF TypeOK, HandsOK, Post, Answered
<1>2. CASE Goto(p, "sending", Deadline) /\ Post(p) /\ UNCHANGED answer
  BY <1>0, <1>1, <1>2, GotoTypes DEF Post, TypeOK, ProcTypeOK, PCs, AfterSettle
<1>3. CASE /\ Goto(p, "settle", StepTime)
           /\ \E a \in {"ok", "fail"} : answer' = [answer EXCEPT ![p] = a]
  <2>1. /\ answer' \in [Procs -> {"none", "ok", "fail"}] /\ answer'[p] # "none"
        /\ \A q \in Procs \ {p} : answer'[q] = answer[q]
    BY <1>3 DEF TypeOK, ProcTypeOK
  <2>2. UNCHANGED <<elapsed, claimed, seen, cur>> /\ pc[p] \notin {"idle", "claim"}
    BY DEF Post, Answered
  <2>3. QED
    BY <1>0, <1>1, <1>3, <2>1, <2>2, GotoTypes DEF TypeOK, ProcTypeOK, PCs, AfterSettle
<1>4. QED BY <1>2, <1>3 DEF Post, Answered

LEMMA ReleasedTypes ==
  ASSUME TypeOK, NEW p \in Procs, NEW r \in Rows, Released(p, r)
  PROVE  row' \in [Rows -> RowType] /\ AttemptsLeft'
<1>1. CASE UNCHANGED row
  BY <1>1, SameRows
<1>2. CASE SameAttempt(p, r)
  <2> DEFINE d == Floor(seen[p][r].due - elapsed[p])
             x == [row[r] EXCEPT !.due = d]
  <2>1. seen[p][r].due - elapsed[p] \in Int
    BY DEF TypeOK, ProcTypeOK, SeenType
  <2>2. d \in Int
    BY <2>1, FloorInt
  <2>3. x \in RowType /\ x.st = row[r].st /\ x.attempts = row[r].attempts
    <3> HIDE DEF d
    <3> QED BY <2>2 DEF TypeOK, DbTypeOK, RowType
  <2>4. row' = [row EXCEPT ![r] = x]
    BY <1>2 DEF Released, TypeOK, DbTypeOK
  <2> HIDE DEF d, x
  <2>5. x.st = "pending" => x.attempts < MaxAttempts
    BY <2>3 DEF TypeOK, Pending
  <2>6. QED BY <2>3, <2>4, <2>5, OneRowRewritten
<1>3. QED BY <1>1, <1>2 DEF Released

LEMMA ReadHookTypes ==
  ASSUME TypeOK, NEW p \in Procs, ReadHook(p)
  PROVE  row' \in [Rows -> RowType] /\ AttemptsLeft' /\ ProcTypeOK' /\ AllHandsOK'
<1> DEFINE h == row[cur[p]].hook
<1>0. cur[p] \in claimed[p] /\ StepTime \in Nat /\ timer[p] \in Nat /\ cur[p] \in Rows
  BY OutboxAssumption DEF TypeOK, HandsOK, ProcTypeOK, ReadHook
<1>1. CASE /\ Goto(p, "release", StepTime)
           /\ cur' = [cur EXCEPT ![p] = 0]
           /\ UNCHANGED <<row, elapsed, claimed, seen, answer>>
  BY <1>0, <1>1, SameRows, GotoTypes DEF ReadHook, TypeOK, ProcTypeOK, PCs, AfterSettle
<1>2. CASE Released(p, cur[p]) /\ NextRow(p)
  <2>1. row' \in [Rows -> RowType] /\ AttemptsLeft'
    BY <1>0, <1>2, ReleasedTypes
  <2>2. ProcTypeOK' /\ AllHandsOK'
    BY <1>0, <1>2, NextRowTypes DEF TypeOK, AllHandsOK
  <2>3. QED BY <2>1, <2>2
<1>3. CASE /\ Goto(p, "post", timer[p])
           /\ UNCHANGED <<row, elapsed, claimed, seen, cur, answer>>
  BY <1>0, <1>3, SameRows, GotoTypes DEF ReadHook, TypeOK, ProcTypeOK, PCs, AfterSettle
<1>4. CASE /\ Goto(p, "settle", StepTime)
           /\ answer' = [answer EXCEPT ![p] = "fail"]
           /\ UNCHANGED <<row, elapsed, claimed, seen, cur>>
  BY <1>0, <1>4, SameRows, GotoTypes DEF ReadHook, TypeOK, ProcTypeOK, PCs, AfterSettle
<1>5. QED BY <1>1, <1>2, <1>3, <1>4 DEF ReadHook

LEMMA ReleaseTypes ==
  ASSUME TypeOK, NEW p \in Procs, Release(p)
  PROVE  row' \in [Rows -> RowType] /\ AttemptsLeft' /\ ProcTypeOK' /\ AllHandsOK'
<1>1. PICK r \in Rows :
        /\ r \in claimed[p] /\ Released(p, r)
        /\ IF claimed[p] = {r}
           THEN Stop(p)
           ELSE /\ claimed' = [claimed EXCEPT ![p] = @ \ {r}]
                /\ seen' = [seen EXCEPT ![p][r] = NothingSeen]
                /\ UNCHANGED <<pc, timer, elapsed, cur, answer>>
  BY DEF Release, OldestClaimed
<1>2. row' \in [Rows -> RowType] /\ AttemptsLeft'
  BY <1>1, ReleasedTypes
<1>3. CASE claimed[p] = {r}
  BY <1>1, <1>2, <1>3, StopTypes DEF TypeOK, AllHandsOK
<1>4. CASE claimed[p] # {r}
  <2>0. NothingSeen \in [attempts : 0 .. MaxAttempts, due : Int]
    BY OutboxAssumption DEF NothingSeen
  <2>1. [seen[p] EXCEPT ![r] = NothingSeen] \in SeenType
    BY <2>0 DEF SeenType, ProcTypeOK, TypeOK
  <2>2. seen' = [seen EXCEPT ![p] = [seen[p] EXCEPT ![r] = NothingSeen]]
    BY <1>1, <1>4
  <2>3. seen' \in [Procs -> SeenType]
    BY <2>1, <2>2 DEF ProcTypeOK, TypeOK
  <2>4. ProcTypeOK'
    BY <1>1, <1>4, <2>3 DEF ProcTypeOK, TypeOK
  <2>5. AllHandsOK'
    BY <1>1, <1>4 DEF ProcTypeOK, TypeOK, Release, AllHandsOK, HandsOK, AfterSettle
  <2>6. QED BY <1>2, <2>4, <2>5
<1>5. QED BY <1>3, <1>4

LEMMA SettledRowType ==
  ASSUME TypeOK, NEW p \in Procs, pc[p] = "settle", SameAttempt(p, cur[p])
  PROVE  /\ SettledRow(p, cur[p]) \in RowType
         /\ SettledRow(p, cur[p]).st = "pending" => SettledRow(p, cur[p]).attempts < MaxAttempts
<1> DEFINE r == cur[p]
           n == seen[p][r].attempts + 1
<1>1. r \in Rows /\ row[r] \in RowType
  BY DEF TypeOK, HandsOK, ProcTypeOK, DbTypeOK
<1>2. n \in 1 .. MaxAttempts
  <2>1. row[r].attempts = seen[p][r].attempts /\ row[r].attempts < MaxAttempts
    BY <1>1 DEF TypeOK, SameAttempt
  <2>2. row[r].attempts \in 0 .. MaxAttempts
    BY <1>1 DEF RowType
  <2>3. MaxAttempts \in Nat
    BY OutboxAssumption
  <2>4. QED BY <2>1, <2>2, <2>3
<1>3. n < MaxAttempts => Floor(Backoff[n] - elapsed[p]) \in Int
  <2>1. n < MaxAttempts => Backoff[n] - elapsed[p] \in Int
    BY <1>2, OutboxAssumption DEF TypeOK, ProcTypeOK
  <2>2. QED BY <2>1, FloorInt
<1>4. ASSUME NEW st \in RowStates, NEW d \in Int
      PROVE  RowWith(r, st, n, d) \in RowType
  <2>1. n \in 0 .. MaxAttempts
    BY <1>2
  <2> HIDE DEF n
  <2>2. QED BY <1>1, <2>1, RowFields DEF TypeOK
<1> DEFINE d == Floor(Backoff[n] - elapsed[p])
<1>5. \/ SettledRow(p, r) \in {RowWith(r, "delivered", n, 0), RowWith(r, "failed", n, 0)}
      \/ SettledRow(p, r) = RowWith(r, "pending", n, d) /\ n < MaxAttempts
  <2>1. SettledRow(p, r) = IF answer[p] = "ok" THEN RowWith(r, "delivered", n, 0)
          ELSE IF n >= MaxAttempts THEN RowWith(r, "failed", n, 0)
          ELSE RowWith(r, "pending", n, d)
    BY DEF SettledRow
  <2>2. n \in Int /\ MaxAttempts \in Int
    BY <1>2, OutboxAssumption
  <2> HIDE DEF n, d
  <2>3. ~(n >= MaxAttempts) => n < MaxAttempts
    BY <2>2
  <2>4. QED BY <2>1, <2>3, Zenon
<1>6. CASE SettledRow(p, r) \in {RowWith(r, "delivered", n, 0), RowWith(r, "failed", n, 0)}
  <2>1. SettledRow(p, r) \in RowType
    BY <1>4, <1>6 DEF RowStates
  <2>2. SettledRow(p, r).st # "pending"
    BY <1>6 DEF RowWith
  <2>3. QED BY <2>1, <2>2
<1>7. CASE SettledRow(p, r) = RowWith(r, "pending", n, d) /\ n < MaxAttempts
  <2>1. SettledRow(p, r) \in RowType
    BY <1>3, <1>4, <1>7 DEF RowStates
  <2>2. SettledRow(p, r).attempts = n
    BY <1>7 DEF RowWith
  <2>3. QED BY <1>7, <2>1, <2>2
<1>8. QED BY <1>5, <1>6, <1>7

LEMMA SettleRowTypes ==
  ASSUME TypeOK, NEW p \in Procs, SettleRow(p)
  PROVE  row' \in [Rows -> RowType] /\ AttemptsLeft' /\ ProcTypeOK' /\ AllHandsOK'
<1>0. cur[p] \in claimed[p] /\ cur[p] \in Rows /\ answer[p] # "none" /\ timer[p] \in Nat
  BY DEF TypeOK, HandsOK, ProcTypeOK, SettleRow
<1>1. CASE SameAttempt(p, cur[p])
  <2> DEFINE x == SettledRow(p, cur[p])
  <2>1. x \in RowType /\ (x.st = "pending" => x.attempts < MaxAttempts)
    BY <1>1, SettledRowType DEF SettleRow
  <2>2. row' = [row EXCEPT ![cur[p]] = x]
    BY <1>1 DEF SettleRow
  <2> HIDE DEF x
  <2>3. row' \in [Rows -> RowType] /\ AttemptsLeft'
    BY <1>0, <2>1, <2>2, OneRowRewritten
  <2>4. ProcTypeOK' /\ AllHandsOK'
    BY <1>0, <1>1, GotoTypes DEF SettleRow, TypeOK, ProcTypeOK, PCs, AfterSettle
  <2>5. QED BY <2>3, <2>4
<1>2. CASE ~SameAttempt(p, cur[p])
  <2>1. NextRow(p) /\ UNCHANGED row
    BY <1>2 DEF SettleRow
  <2>2. QED BY <1>0, <2>1, SameRows, NextRowTypes DEF TypeOK, AllHandsOK
<1>3. QED BY <1>1, <1>2

LEMMA HookOkTypes ==
  ASSUME TypeOK, NEW p \in Procs, HookOk(p)
  PROVE  DbTypeOK' /\ AttemptsLeft' /\ ProcTypeOK' /\ AllHandsOK'
<1>1. ProcTypeOK' /\ AllHandsOK'
  BY NextRowTypes DEF HookOk, TypeOK, AllHandsOK, HandsOK, AfterSettle
<1>2. DbTypeOK' /\ AttemptsLeft'
  BY SameRows DEF HookOk, TypeOK, DbTypeOK, HookStates
<1>3. QED BY <1>1, <1>2

LEMMA HookFailTypes ==
  ASSUME TypeOK, NEW p \in Procs, HookFail(p)
  PROVE  DbTypeOK' /\ AttemptsLeft' /\ ProcTypeOK' /\ AllHandsOK'
<1> DEFINE h == row[cur[p]].hook
<1>0. cur[p] \in claimed[p] /\ cur[p] \in Rows /\ answer[p] # "none" /\ timer[p] \in Nat
  BY DEF TypeOK, HandsOK, ProcTypeOK, HookFail, AfterSettle
<1>1. ProcTypeOK' /\ AllHandsOK'
  <2>1. CASE NextRow(p)
    BY <1>0, <2>1, NextRowTypes DEF TypeOK, AllHandsOK
  <2>2. CASE Goto(p, "disable", timer[p]) /\ UNCHANGED <<elapsed, claimed, seen, cur, answer>>
    BY <1>0, <2>2, GotoTypes DEF HookFail, TypeOK, ProcTypeOK, PCs, AfterSettle
  <2>3. QED BY <2>1, <2>2 DEF HookFail
<1>2. DbTypeOK' /\ AttemptsLeft'
  <2>1. UNCHANGED hook \/ hook' = [hook EXCEPT ![h].failures = hook[h].failures + 1]
    BY DEF HookFail
  <2>2. hook' \in [Hooks -> [st : HookStates, failures : Nat]]
    BY <2>1 DEF TypeOK, DbTypeOK
  <2>3. QED
    BY <2>2, SameRows DEF HookFail, TypeOK, DbTypeOK
<1>3. QED BY <1>1, <1>2

LEMMA DisableTypes ==
  ASSUME TypeOK, NEW p \in Procs, Disable(p)
  PROVE  DbTypeOK' /\ AttemptsLeft' /\ ProcTypeOK' /\ AllHandsOK'
<1>0. cur[p] \in claimed[p] /\ answer[p] # "none" /\ timer[p] \in Nat
  BY DEF TypeOK, HandsOK, ProcTypeOK, Disable, AfterSettle
<1>1. ProcTypeOK' /\ AllHandsOK'
  BY <1>0, GotoTypes DEF Disable, TypeOK, ProcTypeOK, PCs, AfterSettle
<1>2. DbTypeOK' /\ AttemptsLeft'
  BY SameRows DEF Disable, TypeOK, DbTypeOK, HookStates
<1>3. QED BY <1>1, <1>2

LEMMA FailQueueTypes ==
  ASSUME TypeOK, NEW p \in Procs, FailQueue(p)
  PROVE  row' \in [Rows -> RowType] /\ AttemptsLeft' /\ ProcTypeOK' /\ AllHandsOK'
<1>1. ProcTypeOK' /\ AllHandsOK'
  BY NextRowTypes DEF FailQueue, TypeOK, AllHandsOK, HandsOK, AfterSettle
<1> DEFINE S == {r \in Rows : row[r].hook = row[cur[p]].hook /\ Pending(r)}
           f == [r \in S |-> RowWith(r, "failed", row[r].attempts, 0)]
<1>2. \A r \in Rows : RowWith(r, "failed", row[r].attempts, 0) \in RowType
                       /\ RowWith(r, "failed", row[r].attempts, 0).st # "pending"
  BY RowFields DEF RowStates, TypeOK, DbTypeOK, RowType, RowWith
<1>3. f \in [S -> RowType] /\ \A r \in S : f[r].st # "pending"
  BY <1>2
<1>4. row' = [r \in Rows |-> IF r \in S THEN f[r] ELSE row[r]]
  BY DEF FailQueue
<1>5. row' \in [Rows -> RowType] /\ AttemptsLeft'
  <2> S \in SUBSET Rows
    OBVIOUS
  <2> HIDE DEF S, f
  <2> QED BY <1>3, <1>4, RowsRewritten
<1>6. QED BY <1>1, <1>5

LEMMA TickTypes ==
  ASSUME TypeOK, Tick
  PROVE  row' \in [Rows -> RowType] /\ AttemptsLeft' /\ ProcTypeOK' /\ AllHandsOK'
<1> DEFINE S == {r \in Rows : Pending(r)}
           f == [r \in S |-> [row[r] EXCEPT !.due = Floor(row[r].due - 1)]]
<1>1. \A r \in Rows : [row[r] EXCEPT !.due = Floor(row[r].due - 1)] \in RowType
                       /\ [row[r] EXCEPT !.due = Floor(row[r].due - 1)].attempts = row[r].attempts
  <2> SUFFICES ASSUME NEW r \in Rows
               PROVE  [row[r] EXCEPT !.due = Floor(row[r].due - 1)] \in RowType
                       /\ [row[r] EXCEPT !.due = Floor(row[r].due - 1)].attempts = row[r].attempts
    OBVIOUS
  <2>1. row[r] \in RowType /\ row[r].due - 1 \in Int
    BY DEF TypeOK, DbTypeOK, RowType
  <2>2. Floor(row[r].due - 1) \in Int
    BY <2>1, FloorInt
  <2>3. QED BY <2>1, <2>2 DEF RowType
<1>2. f \in [S -> RowType] /\ \A r \in S : f[r].st = "pending" => f[r].attempts < MaxAttempts
  BY <1>1 DEF TypeOK
<1>3. row' = [r \in Rows |-> IF r \in S THEN f[r] ELSE row[r]]
  BY DEF Tick
<1>4. row' \in [Rows -> RowType] /\ AttemptsLeft'
  <2> S \in SUBSET Rows
    OBVIOUS
  <2> HIDE DEF S, f
  <2> QED BY <1>2, <1>3, RowsRewritten
<1>5. ProcTypeOK'
  BY DEF Tick, TypeOK, ProcTypeOK
<1>6. AllHandsOK'
  BY DEF Tick, TypeOK, AllHandsOK, HandsOK
<1>7. QED BY <1>4, <1>5, <1>6

LEMMA TypeOKStep == TypeOK /\ [Next]_vars => TypeOK'
<1> SUFFICES ASSUME TypeOK, [Next]_vars PROVE TypeOK'
  OBVIOUS
<1>0. TypeOK' <=> /\ DbTypeOK' /\ ProcTypeOK' /\ AllHandsOK' /\ AttemptsLeft'
                  /\ crashes' \in 0 .. MaxCrashes
  BY DEF TypeOK, AllHandsOK, AttemptsLeft
<1>a. UNCHANGED <<procVars, crashes>> => ProcTypeOK' /\ AllHandsOK' /\ crashes' \in 0 .. MaxCrashes
  BY SameProcTypes DEF TypeOK, AllHandsOK
<1>b. UNCHANGED <<hook, household, emitting, deleting>> /\ row' \in [Rows -> RowType]
        => DbTypeOK'
  BY DEF TypeOK, DbTypeOK
<1>c. UNCHANGED crashes => crashes' \in 0 .. MaxCrashes
  BY DEF TypeOK
<1>1. ASSUME NEW h \in Hooks,
             \/ Create(h) \/ SwitchOn(h) \/ SwitchOff(h) \/ Delete(h) \/ DeleteSweep(h)
             \/ EmitCheck(h) \/ EmitCommit(h)
      PROVE  TypeOK'
  <2>1. DbTypeOK' /\ AttemptsLeft'
    BY <1>1, CreateTypes, SwitchOnTypes, SwitchOffTypes, DeleteTypes, DeleteSweepTypes,
       EmitCheckTypes, EmitCommitTypes
  <2>2. UNCHANGED <<procVars, crashes>>
    BY <1>1 DEF Create, SwitchOn, SwitchOff, Delete, DeleteSweep, EmitCheck, EmitCommit
  <2>3. QED BY <1>0, <1>a, <2>1, <2>2
<1>2. CASE Suspend \/ Reactivate \/ Prune \/ UNCHANGED vars
  <2>1. DbTypeOK' /\ AttemptsLeft'
    BY <1>2, PruneTypes, SameRows DEF Suspend, Reactivate, vars, TypeOK, DbTypeOK
  <2>2. UNCHANGED <<procVars, crashes>>
    BY <1>2 DEF Suspend, Reactivate, Prune, vars, procVars
  <2>3. QED BY <1>0, <1>a, <2>1, <2>2
<1>3. CASE Tick
  BY <1>0, <1>b, <1>c, <1>3, TickTypes DEF Tick
<1>4. ASSUME NEW h \in Hooks, NEW p \in Pingers, Ping(p, h) PROVE TypeOK'
  BY <1>0, <1>b, <1>c, <1>4, PingTypes DEF Ping
<1>5. ASSUME NEW p \in Drainers, Claim(p) PROVE TypeOK'
  BY <1>0, <1>b, <1>c, <1>5, ClaimTypes DEF Claim
<1>6. ASSUME NEW p \in Drainers, StartPass(p) PROVE TypeOK'
  BY <1>0, <1>b, <1>c, <1>6, StartPassTypes, SameRows DEF StartPass, dbVars
<1>7. ASSUME NEW p \in Procs, CheckBudget(p) \/ Post(p) \/ Answered(p) PROVE TypeOK'
  BY <1>0, <1>b, <1>c, <1>7, CheckBudgetTypes, PostTypes, SameRows
     DEF CheckBudget, Post, Answered, dbVars
<1>8. ASSUME NEW p \in Procs, ReadHook(p) \/ Release(p) \/ SettleRow(p) \/ FailQueue(p)
      PROVE  TypeOK'
  BY <1>0, <1>b, <1>c, <1>8, ReadHookTypes, ReleaseTypes, SettleRowTypes, FailQueueTypes
     DEF ReadHook, Release, SettleRow, FailQueue
<1>9. ASSUME NEW p \in Procs, HookOk(p) \/ HookFail(p) \/ Disable(p) PROVE TypeOK'
  BY <1>0, <1>c, <1>9, HookOkTypes, HookFailTypes, DisableTypes DEF HookOk, HookFail, Disable
<1>10. ASSUME NEW p \in Procs, Crash(p) PROVE TypeOK'
  <2>1. ProcTypeOK' /\ AllHandsOK'
    BY <1>10, StopTypes DEF Crash, TypeOK, AllHandsOK
  <2>2. DbTypeOK' /\ AttemptsLeft'
    BY <1>10, SameRows DEF Crash, TypeOK, DbTypeOK, dbVars
  <2>3. crashes' \in 0 .. MaxCrashes
    BY <1>10, OutboxAssumption DEF Crash, TypeOK
  <2>4. QED BY <1>0, <2>1, <2>2, <2>3
<1>11. QED
  BY <1>1, <1>2, <1>3, <1>4, <1>5, <1>6, <1>7, <1>8, <1>9, <1>10 DEF Next, Step

(* Every variable stays in its type and what a statement of webhooks.py    *)
(* goes on to use is there, for every instance.                            *)
THEOREM TypeCorrect == Spec => []TypeOK
BY InitTypeOK, TypeOKStep, PTL DEF Spec

------------------------------------------------------------------------------
(* One sender per row.  A pass is over within PassMax: each step starts    *)
(* while what is left of the steps after it still fits.                    *)
TimeBound(at) ==
  CASE at = "idle" -> 0
    [] at = "claim" -> StepTime
    [] at \in {"read", "post"} -> Budget + StepTime
    [] at = "sending" -> Budget + StepTime + Deadline
    [] at = "release" -> PassMax
    [] OTHER -> Budget + 2 * StepTime + Deadline

InTime == \A p \in Procs : elapsed[p] + timer[p] <= TimeBound(pc[p])

(* The terms at each place, as integers.                                   *)
LEMMA TimeBounds ==
  /\ StepTime \in Nat /\ Budget \in Nat /\ Deadline \in Nat
  /\ PassMax = Budget + Deadline + 3 * StepTime
  /\ TimeBound("idle") = 0
  /\ TimeBound("claim") = StepTime
  /\ TimeBound("read") = Budget + StepTime
  /\ TimeBound("post") = Budget + StepTime
  /\ TimeBound("sending") = Budget + StepTime + Deadline
  /\ TimeBound("release") = PassMax
  /\ \A at \in {"check", "settle"} \cup AfterSettle :
       TimeBound(at) = Budget + 2 * StepTime + Deadline
  /\ \A at \in PCs : TimeBound(at) \in Nat /\ TimeBound(at) <= PassMax
<1>1. StepTime \in Nat /\ Budget \in Nat /\ Deadline \in Nat
  BY OutboxAssumption
<1>2. /\ TimeBound("idle") = 0
      /\ TimeBound("claim") = StepTime
      /\ TimeBound("read") = Budget + StepTime
      /\ TimeBound("post") = Budget + StepTime
      /\ TimeBound("sending") = Budget + StepTime + Deadline
      /\ TimeBound("release") = PassMax
      /\ \A at \in {"check", "settle"} \cup AfterSettle :
           TimeBound(at) = Budget + 2 * StepTime + Deadline
  BY DEF TimeBound, AfterSettle
<1>3. PassMax = Budget + Deadline + 3 * StepTime
  BY DEF PassMax
<1>4. \A at \in PCs : TimeBound(at) \in Nat /\ TimeBound(at) <= PassMax
  BY <1>1, <1>2, <1>3 DEF PCs, AfterSettle
<1>5. QED BY <1>1, <1>2, <1>3, <1>4

LEMMA GotoTime ==
  ASSUME TypeOK, InTime, NEW p \in Procs, NEW to \in PCs, NEW time \in Nat,
         Goto(p, to, time), UNCHANGED elapsed,
         elapsed[p] + time <= TimeBound(to)
  PROVE  InTime'
BY DEF TypeOK, ProcTypeOK, InTime, Goto

LEMMA StopTime ==
  ASSUME TypeOK, InTime, NEW p \in Procs, Stop(p) PROVE InTime'
BY TimeBounds DEF TypeOK, ProcTypeOK, InTime, Stop, Goto

LEMMA NextRowTime ==
  ASSUME TypeOK, InTime, NEW p \in Procs, NextRow(p),
         pc[p] \in {"read", "settle"} \cup AfterSettle
  PROVE  InTime'
<1>1. CASE Stop(p)
  BY <1>1, StopTime
<1>2. CASE Goto(p, "check", 0) /\ UNCHANGED elapsed
  <2>1. elapsed[p] \in Nat /\ timer[p] \in Nat /\ elapsed[p] + timer[p] <= TimeBound(pc[p])
    BY DEF InTime, TypeOK, ProcTypeOK
  <2>2. TimeBound(pc[p]) <= TimeBound("check") /\ TimeBound("check") \in Nat /\ TimeBound(pc[p]) \in Nat
    BY TimeBounds DEF PCs, AfterSettle
  <2>3. elapsed[p] + 0 <= TimeBound("check")
    BY <2>1, <2>2
  <2>4. QED BY <1>2, <2>3, GotoTime DEF PCs
<1>3. QED BY <1>1, <1>2 DEF NextRow

LEMMA InTimeStep == TypeOK /\ InTime /\ [Next]_vars => InTime'
<1> SUFFICES ASSUME TypeOK, InTime, [Next]_vars PROVE InTime'
  OBVIOUS
<1>0. \A p \in Procs : /\ elapsed[p] \in Nat /\ timer[p] \in Nat /\ pc[p] \in PCs
                        /\ elapsed[p] + timer[p] <= TimeBound(pc[p])
  BY DEF InTime, TypeOK, ProcTypeOK
<1>d. Drainers \subseteq Procs /\ Pingers \subseteq Procs
  BY DEF Procs
<1>1. CASE UNCHANGED procVars
  BY <1>1 DEF procVars, InTime
<1>2. CASE Tick
  <2> SUFFICES ASSUME NEW p \in Procs PROVE elapsed'[p] + timer'[p] <= TimeBound(pc'[p])
    BY DEF InTime
  <2>1. pc'[p] = pc[p]
    BY <1>2 DEF Tick
  <2>2. CASE pc[p] = "idle"
    BY <1>2, <2>1, <2>2, TimeBounds DEF Tick
  <2>3. CASE pc[p] # "idle"
    <3>1. timer[p] > 0 /\ elapsed'[p] = elapsed[p] + 1 /\ timer'[p] = timer[p] - 1
      BY <1>2, <2>3 DEF Tick
    <3>2. QED BY <1>0, <2>1, <3>1
  <2>4. QED BY <2>2, <2>3
<1>3. ASSUME NEW p \in Drainers, StartPass(p) PROVE InTime'
  <2>1. p \in Procs /\ elapsed[p] + StepTime <= TimeBound("claim")
    BY <1>0, <1>3, <1>d, TimeBounds DEF StartPass
  <2>2. QED BY <1>3, <2>1, GotoTime, TimeBounds DEF StartPass, PCs
<1>4. ASSUME NEW p \in Drainers, Claim(p) PROVE InTime'
  <2>0. p \in Procs
    BY <1>d
  <2>1. CASE Stop(p)
    BY <2>0, <2>1, StopTime
  <2>2. CASE Goto(p, "check", 0) /\ UNCHANGED elapsed
    <3>1. elapsed[p] + 0 <= TimeBound("check")
      BY <1>0, <1>4, <2>0, TimeBounds DEF Claim
    <3>2. QED BY <2>0, <2>2, <3>1, GotoTime DEF PCs
  <2>3. QED BY <1>4, <2>1, <2>2 DEF Claim
<1>5. ASSUME NEW p \in Pingers, NEW h \in Hooks, Ping(p, h) PROVE InTime'
  <2>1. p \in Procs /\ elapsed[p] = 0
    BY <1>0, <1>5, <1>d, TimeBounds DEF Ping
  <2>2. elapsed[p] + StepTime <= TimeBound("post") /\ elapsed[p] + StepTime <= TimeBound("settle")
    BY <2>1, TimeBounds
  <2>3. UNCHANGED elapsed /\ (Goto(p, "post", StepTime) \/ Goto(p, "settle", StepTime))
    BY <1>5 DEF Ping
  <2>4. QED BY <2>1, <2>2, <2>3, GotoTime, TimeBounds DEF PCs
<1>6. ASSUME NEW p \in Procs, CheckBudget(p) PROVE InTime'
  <2>1. CASE elapsed[p] >= Budget
    <3>1. elapsed[p] + StepTime <= TimeBound("release")
      BY <1>0, <1>6, TimeBounds DEF CheckBudget
    <3>2. QED BY <1>6, <2>1, <3>1, GotoTime, TimeBounds DEF CheckBudget, PCs
  <2>2. CASE ~(elapsed[p] >= Budget)
    <3>1. elapsed[p] + StepTime <= TimeBound("read")
      BY <1>0, <1>6, <2>2, TimeBounds DEF CheckBudget
    <3>2. QED BY <1>6, <2>2, <3>1, GotoTime, TimeBounds DEF CheckBudget, PCs
  <2>3. QED BY <2>1, <2>2
<1>7. ASSUME NEW p \in Procs, ReadHook(p) PROVE InTime'
  <2>0. pc[p] = "read"
    BY <1>7 DEF ReadHook
  <2>1. /\ elapsed[p] + StepTime <= TimeBound("release")
        /\ elapsed[p] + timer[p] <= TimeBound("post")
        /\ elapsed[p] + StepTime <= TimeBound("settle")
    BY <1>0, <2>0, TimeBounds
  <2>2. \/ NextRow(p)
        \/ /\ UNCHANGED elapsed
           /\ \/ Goto(p, "release", StepTime) \/ Goto(p, "post", timer[p])
              \/ Goto(p, "settle", StepTime)
    BY <1>7 DEF ReadHook
  <2>3. QED BY <1>0, <2>0, <2>1, <2>2, GotoTime, NextRowTime, TimeBounds DEF PCs
<1>8. ASSUME NEW p \in Procs, Release(p) PROVE InTime'
  <2>1. Stop(p) \/ UNCHANGED <<pc, timer, elapsed>>
    BY <1>8 DEF Release
  <2>2. QED BY <2>1, StopTime DEF InTime
<1>9. ASSUME NEW p \in Procs, Post(p) PROVE InTime'
  <2>1. elapsed[p] + Deadline <= TimeBound("sending") /\ elapsed[p] + StepTime <= TimeBound("settle")
    BY <1>0, <1>9, TimeBounds DEF Post
  <2>2. QED BY <1>9, <2>1, GotoTime, TimeBounds DEF Post, PCs
<1>10. ASSUME NEW p \in Procs, Answered(p) PROVE InTime'
  <2>1. elapsed[p] + StepTime <= TimeBound("settle")
    BY <1>0, <1>10, TimeBounds DEF Answered
  <2>2. QED BY <1>10, <2>1, GotoTime, TimeBounds DEF Answered, PCs
<1>11. ASSUME NEW p \in Procs,
              SettleRow(p) \/ HookOk(p) \/ HookFail(p) \/ Disable(p) \/ FailQueue(p)
       PROVE  InTime'
  <2>1. pc[p] \in {"settle"} \cup AfterSettle
    BY <1>11 DEF SettleRow, HookOk, HookFail, Disable, FailQueue, AfterSettle
  <2>2. \/ NextRow(p)
        \/ /\ UNCHANGED elapsed
           /\ \E to \in AfterSettle : Goto(p, to, timer[p])
    BY <1>11 DEF SettleRow, HookOk, HookFail, Disable, FailQueue, AfterSettle
  <2>3. \A to \in AfterSettle : to \in PCs /\ elapsed[p] + timer[p] <= TimeBound(to)
    BY <1>0, <2>1, TimeBounds DEF PCs, AfterSettle
  <2>4. QED BY <1>0, <2>1, <2>2, <2>3, GotoTime, NextRowTime
<1>12. ASSUME NEW p \in Procs, Crash(p) PROVE InTime'
  BY <1>12, StopTime DEF Crash
<1>13. ASSUME NEW h \in Hooks,
              \/ Create(h) \/ SwitchOn(h) \/ SwitchOff(h) \/ Delete(h) \/ DeleteSweep(h)
              \/ EmitCheck(h) \/ EmitCommit(h)
       PROVE  UNCHANGED procVars
  BY <1>13 DEF Create, SwitchOn, SwitchOff, Delete, DeleteSweep, EmitCheck, EmitCommit
<1>14. Suspend \/ Reactivate \/ Prune \/ UNCHANGED vars => UNCHANGED procVars
  BY DEF Suspend, Reactivate, Prune, vars, procVars
<1>15. QED
  BY <1>1, <1>2, <1>3, <1>4, <1>5, <1>6, <1>7, <1>8, <1>9, <1>10, <1>11, <1>12, <1>13, <1>14
     DEF Next, Step

(* A row in process p's hands has been written, and while it is pending it *)
(* is the attempt p read and is leased past the time p has been at it.     *)
Held(p, r) ==
  /\ row[r].st # "unused"
  /\ Pending(r) => /\ row[r].attempts = seen[p][r].attempts
                   /\ row[r].due >= Lease - elapsed[p]

Holding == \A p \in Procs : \A r \in Open(p) : Held(p, r)

SenderInv == TypeOK /\ InTime /\ OneSenderPerRow /\ Holding

(* What a row written by a step looks like to those who do not hold it.    *)
Closed(r) == row'[r].st \in {"delivered", "failed", "pruned"}

LEMMA OthersKeep ==
  ASSUME OneSenderPerRow, Holding, NEW p \in Procs,
         Open(p)' \subseteq Open(p),
         \A q \in Procs \ {p} : Open(q)' = Open(q) /\ seen'[q] = seen[q] /\ elapsed'[q] = elapsed[q],
         \A r \in Open(p)' : seen'[p][r] = seen[p][r] /\ elapsed'[p] = elapsed[p],
         \A q \in Procs : \A r \in Open(q) :
            \/ q = p /\ r \notin Open(p)'
            \/ row'[r] = row[r]
            \/ Closed(r)
  PROVE  OneSenderPerRow' /\ Holding'
<1>1. \A q \in Procs : Open(q)' \subseteq Open(q)
  OBVIOUS
<1>2. OneSenderPerRow'
  BY <1>1 DEF OneSenderPerRow
<1>3. ASSUME NEW q \in Procs, NEW r \in Open(q)' PROVE Held(q, r)'
  <2>1. Held(q, r) /\ r \in Open(q)
    BY <1>1, <1>3 DEF Holding
  <2>2. seen'[q][r] = seen[q][r] /\ elapsed'[q] = elapsed[q]
    BY <1>3
  <2>3. row'[r] = row[r] \/ Closed(r)
    BY <1>3, <2>1
  <2>4. QED BY <2>1, <2>2, <2>3 DEF Held, Pending, Closed
<1>4. QED BY <1>2, <1>3 DEF Holding

LEMMA OwnersKeep ==
  ASSUME OneSenderPerRow, Holding, UNCHANGED procVars,
         \A r \in Rows : row[r].st = "unused" \/ row'[r] = row[r] \/ Closed(r),
         \A q \in Procs : Open(q) \subseteq Rows
  PROVE  OneSenderPerRow' /\ Holding'
<1>1. \A q \in Procs : Open(q)' = Open(q) /\ seen'[q] = seen[q] /\ elapsed'[q] = elapsed[q]
  BY DEF procVars, Open
<1>2. OneSenderPerRow'
  BY <1>1 DEF OneSenderPerRow
<1>3. ASSUME NEW q \in Procs, NEW r \in Open(q)' PROVE Held(q, r)'
  <2>1. Held(q, r) /\ r \in Rows
    BY <1>1, <1>3 DEF Holding
  <2>2. row'[r] = row[r] \/ Closed(r)
    BY <2>1 DEF Held
  <2>3. QED BY <1>1, <2>1, <2>2 DEF Held, Pending, Closed
<1>4. QED BY <1>2, <1>3 DEF Holding

LEMMA OpenRows ==
  ASSUME TypeOK, NEW q \in Procs PROVE Open(q) \subseteq Rows
BY DEF TypeOK, ProcTypeOK, Open

LEMMA StopOpen ==
  ASSUME TypeOK, NEW p \in Procs, Stop(p)
  PROVE  /\ Open(p)' = {}
         /\ \A q \in Procs \ {p} : Open(q)' = Open(q) /\ seen'[q] = seen[q] /\ elapsed'[q] = elapsed[q]
<1>1. Open(p)' = {}
  BY DEF Stop, Goto, Open, TypeOK, ProcTypeOK
<1>2. \A q \in Procs \ {p} : Open(q)' = Open(q) /\ seen'[q] = seen[q] /\ elapsed'[q] = elapsed[q]
  BY DEF Stop, Goto, Open, TypeOK, ProcTypeOK
<1>3. QED BY <1>1, <1>2

(* The next row: what was in hand is let go, the rest is as it was.        *)
LEMMA NextRowOpen ==
  ASSUME TypeOK, NEW p \in Procs, NextRow(p), cur[p] \in claimed[p]
  PROVE  /\ Open(p)' \subseteq Open(p) /\ cur[p] \notin Open(p)'
         /\ \A q \in Procs \ {p} : Open(q)' = Open(q) /\ seen'[q] = seen[q] /\ elapsed'[q] = elapsed[q]
         /\ \A r \in Open(p)' : seen'[p][r] = seen[p][r] /\ elapsed'[p] = elapsed[p]
<1>1. CASE Stop(p)
  BY <1>1, StopOpen
<1>2. CASE /\ Goto(p, "check", 0)
           /\ claimed' = [claimed EXCEPT ![p] = @ \ {cur[p]}]
           /\ seen' = [seen EXCEPT ![p][cur[p]] = NothingSeen]
           /\ cur' = [cur EXCEPT ![p] = 0]
           /\ UNCHANGED elapsed
  <2>1. Open(p)' = claimed[p] \ {cur[p]}
    BY <1>2 DEF Goto, Open, AfterSettle, TypeOK, ProcTypeOK
  <2>2. \A q \in Procs \ {p} : Open(q)' = Open(q) /\ seen'[q] = seen[q] /\ elapsed'[q] = elapsed[q]
    BY <1>2 DEF Goto, Open, TypeOK, ProcTypeOK
  <2>3. \A r \in claimed[p] \ {cur[p]} : seen'[p][r] = seen[p][r]
    <3>1. seen' = [seen EXCEPT ![p] = [seen[p] EXCEPT ![cur[p]] = NothingSeen]]
      BY <1>2
    <3>2. seen'[p] = [seen[p] EXCEPT ![cur[p]] = NothingSeen]
      BY <3>1 DEF TypeOK, ProcTypeOK
    <3>3. seen[p] \in SeenType /\ claimed[p] \subseteq Rows
      BY DEF TypeOK, ProcTypeOK
    <3>4. QED BY <3>2, <3>3 DEF SeenType
  <2>4. QED BY <1>2, <2>1, <2>2, <2>3 DEF Open
<1>3. QED BY <1>1, <1>2 DEF NextRow

(* A step to another place with the same rows in hand.                     *)
LEMMA GotoOpen ==
  ASSUME TypeOK, NEW p \in Procs, NEW to \in PCs, NEW time, Goto(p, to, time),
         UNCHANGED <<elapsed, claimed, seen>>,
         to \in AfterSettle => UNCHANGED cur,
         pc[p] \in AfterSettle => to \in AfterSettle,
         \A q \in Procs \ {p} : cur'[q] = cur[q]
  PROVE  /\ Open(p)' \subseteq Open(p)
         /\ to \in AfterSettle => cur[p] \notin Open(p)'
         /\ \A q \in Procs \ {p} : Open(q)' = Open(q) /\ seen'[q] = seen[q] /\ elapsed'[q] = elapsed[q]
         /\ \A r \in Open(p)' : seen'[p][r] = seen[p][r] /\ elapsed'[p] = elapsed[p]
BY DEF Goto, Open, TypeOK, ProcTypeOK

(* A claimed row was due, and nobody's lease had run out.                  *)
LEMMA ClaimSender ==
  ASSUME LeaseOutlastsPass, SenderInv, NEW p \in Drainers, Claim(p)
  PROVE  OneSenderPerRow' /\ Holding'
<1>0. /\ p \in Procs /\ Lease \in Nat
      /\ \A q \in Procs : /\ elapsed[q] \in Nat /\ timer[q] \in Nat /\ pc[q] \in PCs
                           /\ claimed[q] \subseteq Rows
      /\ row \in [Rows -> RowType]
  BY OutboxAssumption DEF Procs, SenderInv, TypeOK, ProcTypeOK, DbTypeOK
<1>1. PICK S \in SUBSET Rows :
        /\ IsClaim(S, elapsed[p])
        /\ IF S = {}
           THEN Stop(p) /\ UNCHANGED row
           ELSE /\ row' = [r \in Rows |-> IF r \in S THEN Leased(p, r) ELSE row[r]]
                /\ claimed' = [claimed EXCEPT ![p] = S]
                /\ seen' = [seen EXCEPT ![p] = [r \in Rows |->
                    IF r \in S THEN [attempts |-> row[r].attempts, due |-> row[r].due]
                               ELSE NothingSeen]]
                /\ Goto(p, "check", 0)
                /\ UNCHANGED <<elapsed, cur, answer>>
  BY DEF Claim
<1>2. Open(p) = {}
  BY DEF Claim, SenderInv, TypeOK, HandsOK, Open, AfterSettle, Procs
<1>3. CASE S = {}
  BY <1>0, <1>1, <1>3, StopOpen, OthersKeep DEF SenderInv
<1>4. CASE S # {}
  <2>1. \A q \in Procs : elapsed[q] <= PassMax
    <3> SUFFICES ASSUME NEW q \in Procs PROVE elapsed[q] <= PassMax
      OBVIOUS
    <3>1. elapsed[q] + timer[q] <= TimeBound(pc[q])
      BY DEF SenderInv, InTime
    <3>2. QED BY <1>0, <3>1, TimeBounds
  <2>2. \A r \in S : Pending(r) /\ row[r].due <= -elapsed[p]
    BY <1>1 DEF IsClaim, Due
  <2>3. \A q \in Procs : \A r \in Open(q) : r \notin S
    <3> SUFFICES ASSUME NEW q \in Procs, NEW r \in Open(q), r \in S PROVE FALSE
      OBVIOUS
    <3>1. row[r].due >= Lease - elapsed[q] /\ row[r].due <= -elapsed[p] /\ row[r].due \in Int
      BY <1>0, <2>2 DEF SenderInv, Holding, Held, RowType
    <3>2. Lease > PassMax /\ elapsed[q] <= PassMax /\ PassMax \in Nat
      BY <2>1, TimeBounds DEF LeaseOutlastsPass
    <3>3. QED BY <1>0, <3>1, <3>2
  <2>4. Open(p)' = S
    BY <1>0, <1>1, <1>4 DEF Goto, Open, AfterSettle, SenderInv, TypeOK, ProcTypeOK
  <2>5. \A q \in Procs \ {p} : Open(q)' = Open(q) /\ seen'[q] = seen[q] /\ elapsed'[q] = elapsed[q]
    BY <1>0, <1>1, <1>4 DEF Goto, Open, SenderInv, TypeOK, ProcTypeOK
  <2>6. OneSenderPerRow'
    <3> SUFFICES ASSUME NEW q \in Procs, NEW t \in Procs, q # t
                 PROVE  Open(q)' \cap Open(t)' = {}
      BY DEF OneSenderPerRow
    <3>1. CASE q = p
      BY <2>3, <2>4, <2>5, <3>1
    <3>2. CASE t = p
      BY <2>3, <2>4, <2>5, <3>2
    <3>3. CASE q # p /\ t # p
      BY <2>5, <3>3 DEF SenderInv, OneSenderPerRow
    <3>4. QED BY <3>1, <3>2, <3>3
  <2>7. ASSUME NEW r \in S PROVE Held(p, r)'
    <3>1. row'[r] = [row[r] EXCEPT !.due = Lease - elapsed[p]]
      BY <1>1, <1>4 DEF Leased
    <3>2. row[r] \in RowType /\ Lease - elapsed[p] \in Int
      BY <1>0
    <3>3. row'[r].due = Lease - elapsed[p] /\ row'[r].attempts = row[r].attempts
            /\ row'[r].st = row[r].st
      BY <3>1, <3>2 DEF RowType
    <3>4. seen'[p][r].attempts = row[r].attempts
      BY <1>0, <1>1, <1>4 DEF SenderInv, TypeOK, ProcTypeOK
    <3>5. elapsed'[p] = elapsed[p] /\ row[r].st = "pending"
      BY <1>1, <1>4, <2>2 DEF Pending
    <3>6. QED BY <3>2, <3>3, <3>4, <3>5 DEF Held
  <2>8. ASSUME NEW q \in Procs \ {p}, NEW r \in Open(q) PROVE Held(q, r)'
    <3>1. row'[r] = row[r]
      BY <1>0, <1>1, <1>4, <2>3, OpenRows DEF SenderInv
    <3>2. Held(q, r)
      BY DEF SenderInv, Holding
    <3>3. QED BY <2>5, <3>1, <3>2 DEF Held, Pending
  <2>9. Holding'
    BY <2>4, <2>5, <2>7, <2>8 DEF Holding
  <2>10. QED BY <2>6, <2>9
<1>5. QED BY <1>3, <1>4

LEMMA PingSender ==
  ASSUME SenderInv, NEW p \in Pingers, NEW h \in Hooks, Ping(p, h)
  PROVE  OneSenderPerRow' /\ Holding'
<1>0. /\ p \in Procs /\ Lease \in Nat /\ pc[p] = "idle" /\ row \in [Rows -> RowType]
      /\ elapsed[p] = 0 /\ claimed[p] = {}
  <2>1. p \in Procs /\ Lease \in Nat /\ pc[p] = "idle" /\ row \in [Rows -> RowType]
    BY OutboxAssumption DEF Procs, SenderInv, TypeOK, DbTypeOK, Ping
  <2>2. elapsed[p] \in Nat /\ timer[p] \in Nat /\ elapsed[p] + timer[p] <= 0
    BY <2>1, TimeBounds DEF SenderInv, InTime, TypeOK, ProcTypeOK
  <2>3. claimed[p] = {}
    BY <2>1 DEF SenderInv, TypeOK, HandsOK
  <2>4. QED BY <2>1, <2>2, <2>3
<1>1. PICK r \in Rows :
        /\ row[r].st = "unused"
        /\ row' = [row EXCEPT ![r] = NewRow(h, Lease)]
        /\ claimed' = [claimed EXCEPT ![p] = {r}]
        /\ cur' = [cur EXCEPT ![p] = r]
  BY DEF Ping, IsNextRow
<1>2. Open(p)' = {r}
  <2>1. pc'[p] \in {"post", "settle"} /\ claimed'[p] = {r}
    BY <1>0, <1>1 DEF Ping, Goto, SenderInv, TypeOK, ProcTypeOK
  <2>2. QED BY <2>1 DEF Open, AfterSettle
<1>3. \A q \in Procs \ {p} : Open(q)' = Open(q) /\ seen'[q] = seen[q] /\ elapsed'[q] = elapsed[q]
  <2>1. \A q \in Procs \ {p} : /\ pc'[q] = pc[q] /\ claimed'[q] = claimed[q]
                                /\ cur'[q] = cur[q]
    BY <1>0, <1>1 DEF Ping, Goto, SenderInv, TypeOK, ProcTypeOK
  <2>2. UNCHANGED <<seen, elapsed>>
    BY DEF Ping
  <2>3. QED BY <2>1, <2>2 DEF Open
<1>4. \A q \in Procs : r \notin Open(q)
  BY <1>1 DEF SenderInv, Holding, Held
<1>5. OneSenderPerRow'
  <2> SUFFICES ASSUME NEW q \in Procs, NEW t \in Procs, q # t
               PROVE  Open(q)' \cap Open(t)' = {}
    BY DEF OneSenderPerRow
  <2>1. CASE q = p
    BY <1>2, <1>3, <1>4, <2>1
  <2>2. CASE t = p
    BY <1>2, <1>3, <1>4, <2>2
  <2>3. CASE q # p /\ t # p
    BY <1>3, <2>3 DEF SenderInv, OneSenderPerRow
  <2>4. QED BY <2>1, <2>2, <2>3
<1>6. Held(p, r)'
  <2>1. row'[r] = NewRow(h, Lease)
    BY <1>0, <1>1
  <2>2. seen'[p][r].attempts = 0 /\ elapsed'[p] = 0
    BY <1>0 DEF Ping, SenderInv, TypeOK, HandsOK, NothingSeen
  <2>3. QED BY <1>0, <2>1, <2>2 DEF Held, NewRow
<1>7. ASSUME NEW q \in Procs \ {p}, NEW x \in Open(q) PROVE Held(q, x)'
  <2>1. row'[x] = row[x]
    BY <1>1, <1>4, OpenRows DEF SenderInv
  <2>2. Held(q, x)
    BY DEF SenderInv, Holding
  <2>3. QED BY <1>3, <2>1, <2>2 DEF Held, Pending
<1>8. QED BY <1>2, <1>3, <1>5, <1>6, <1>7 DEF Holding

(* Time moves a lease and the age of its holder together.                  *)
LEMMA TickSender ==
  ASSUME SenderInv, Tick PROVE OneSenderPerRow' /\ Holding'
<1>1. \A q \in Procs : Open(q)' = Open(q) /\ seen'[q] = seen[q]
  BY DEF Tick, Open
<1>2. OneSenderPerRow'
  BY <1>1 DEF SenderInv, OneSenderPerRow
<1>3. ASSUME NEW q \in Procs, NEW r \in Open(q) PROVE Held(q, r)'
  <2>0. /\ Lease \in Nat /\ r \in Rows /\ row[r] \in RowType /\ elapsed[q] \in Nat
        /\ MaxOverdue \in Nat
    BY OpenRows, OutboxAssumption DEF SenderInv, TypeOK, DbTypeOK, ProcTypeOK
  <2>1. Held(q, r)
    BY DEF SenderInv, Holding
  <2>2. pc[q] # "idle"
    BY DEF SenderInv, TypeOK, HandsOK, Open, AfterSettle
  <2>3. elapsed'[q] = elapsed[q] + 1
    BY <2>2 DEF Tick
  <2>4. CASE Pending(r)
    <3> DEFINE d == Floor(row[r].due - 1)
    <3>1. row'[r] = [row[r] EXCEPT !.due = d]
      BY <2>0, <2>4 DEF Tick
    <3>2. row[r].due \in Int /\ d \in Int /\ d >= row[r].due - 1
      <4>1. row[r].due \in Int
        BY <2>0 DEF RowType
      <4>2. row[r].due - 1 \in Int
        BY <4>1
      <4>3. QED BY <2>0, <4>1, <4>2, FloorInt DEF Floor
    <3> HIDE DEF d
    <3>3. row'[r].due = d /\ row'[r].attempts = row[r].attempts /\ row'[r].st = row[r].st
      BY <2>0, <3>1 DEF RowType
    <3>4. row[r].due >= Lease - elapsed[q] /\ row[r].attempts = seen[q][r].attempts
      BY <2>1, <2>4 DEF Held
    <3>5. row'[r].due >= Lease - elapsed'[q]
      BY <2>0, <2>3, <3>2, <3>3, <3>4
    <3>6. QED BY <1>1, <2>1, <3>3, <3>4, <3>5 DEF Held
  <2>5. CASE ~Pending(r)
    <3>1. row'[r] = row[r]
      BY <2>0, <2>5 DEF Tick
    <3>2. QED BY <2>1, <2>5, <3>1 DEF Held, Pending
  <2>6. QED BY <2>4, <2>5
<1>4. QED BY <1>1, <1>2, <1>3 DEF Holding

(* Only the row in hand is written by _settle and _release.                *)
LEMMA WrittenAlone ==
  ASSUME SenderInv, NEW p \in Procs, NEW c \in Open(p), NEW x,
         row' = [row EXCEPT ![c] = x] \/ UNCHANGED row
  PROVE  \A q \in Procs : \A r \in Open(q) : (q = p /\ r = c) \/ row'[r] = row[r]
<1> SUFFICES ASSUME NEW q \in Procs, NEW r \in Open(q), ~(q = p /\ r = c)
             PROVE  row'[r] = row[r]
  OBVIOUS
<1>1. r # c
  BY DEF SenderInv, OneSenderPerRow
<1>2. r \in Rows /\ row \in [Rows -> RowType]
  BY OpenRows DEF SenderInv, TypeOK, DbTypeOK
<1>3. QED BY <1>1, <1>2

LEMMA ReadHookSender ==
  ASSUME SenderInv, NEW p \in Procs, ReadHook(p) PROVE OneSenderPerRow' /\ Holding'
<1>0. cur[p] \in claimed[p] /\ cur[p] \in Open(p) /\ pc[p] = "read"
  BY DEF SenderInv, TypeOK, HandsOK, ReadHook, Open, AfterSettle
<1>1. CASE Released(p, cur[p]) /\ NextRow(p)
  <2>1. \A q \in Procs : \A r \in Open(q) : (q = p /\ r = cur[p]) \/ row'[r] = row[r]
    <3> DEFINE x == [row[cur[p]] EXCEPT !.due = Floor(seen[p][cur[p]].due - elapsed[p])]
    <3>1. row' = [row EXCEPT ![cur[p]] = x] \/ UNCHANGED row
      BY <1>1 DEF Released
    <3> HIDE DEF x
    <3>2. QED BY <1>0, <3>1, WrittenAlone
  <2>2. QED BY <1>0, <1>1, <2>1, NextRowOpen, OthersKeep DEF SenderInv
<1>2. CASE /\ UNCHANGED <<row, elapsed, claimed, seen>>
           /\ \E to \in PCs \ AfterSettle, time \in {StepTime, timer[p]} : Goto(p, to, time)
           /\ \A q \in Procs \ {p} : cur'[q] = cur[q]
  BY <1>0, <1>2, GotoOpen, OthersKeep DEF SenderInv, AfterSettle
<1>3. \A q \in Procs \ {p} : [cur EXCEPT ![p] = 0][q] = cur[q]
  BY DEF SenderInv, TypeOK, ProcTypeOK
<1>4. QED BY <1>1, <1>2, <1>3 DEF ReadHook, PCs, AfterSettle

LEMMA ReleaseSender ==
  ASSUME SenderInv, NEW p \in Procs, Release(p) PROVE OneSenderPerRow' /\ Holding'
<1>1. PICK c \in Rows :
        /\ c \in claimed[p] /\ Released(p, c)
        /\ IF claimed[p] = {c}
           THEN Stop(p)
           ELSE /\ claimed' = [claimed EXCEPT ![p] = @ \ {c}]
                /\ seen' = [seen EXCEPT ![p][c] = NothingSeen]
                /\ UNCHANGED <<pc, timer, elapsed, cur, answer>>
  BY DEF Release, OldestClaimed
<1>2. c \in Open(p) /\ Open(p) = claimed[p] /\ pc[p] = "release"
  BY <1>1 DEF Release, Open, AfterSettle
<1>3. \A q \in Procs : \A r \in Open(q) : (q = p /\ r = c) \/ row'[r] = row[r]
  <2> DEFINE x == [row[c] EXCEPT !.due = Floor(seen[p][c].due - elapsed[p])]
  <2>1. row' = [row EXCEPT ![c] = x] \/ UNCHANGED row
    BY <1>1 DEF Released
  <2> HIDE DEF x
  <2>2. QED BY <1>2, <2>1, WrittenAlone
<1>4. CASE claimed[p] = {c}
  BY <1>1, <1>3, <1>4, StopOpen, OthersKeep DEF SenderInv
<1>5. CASE claimed[p] # {c}
  <2>1. Open(p)' = claimed[p] \ {c}
    BY <1>1, <1>2, <1>5 DEF Open, AfterSettle, SenderInv, TypeOK, ProcTypeOK
  <2>2. \A q \in Procs \ {p} : Open(q)' = Open(q) /\ seen'[q] = seen[q] /\ elapsed'[q] = elapsed[q]
    BY <1>1, <1>5 DEF Open, SenderInv, TypeOK, ProcTypeOK
  <2>3. \A r \in claimed[p] \ {c} : seen'[p][r] = seen[p][r] /\ elapsed'[p] = elapsed[p]
    <3>1. seen' = [seen EXCEPT ![p] = [seen[p] EXCEPT ![c] = NothingSeen]]
      BY <1>1, <1>5
    <3>2. seen'[p] = [seen[p] EXCEPT ![c] = NothingSeen]
      BY <3>1 DEF SenderInv, TypeOK, ProcTypeOK
    <3>3. seen[p] \in SeenType /\ claimed[p] \subseteq Rows /\ UNCHANGED elapsed
      BY <1>1, <1>5 DEF SenderInv, TypeOK, ProcTypeOK
    <3>4. QED BY <3>2, <3>3 DEF SeenType
  <2>4. QED BY <1>2, <1>3, <2>1, <2>2, <2>3, OthersKeep DEF SenderInv
<1>6. QED BY <1>4, <1>5

LEMMA SettleRowSender ==
  ASSUME SenderInv, NEW p \in Procs, SettleRow(p) PROVE OneSenderPerRow' /\ Holding'
<1>0. cur[p] \in claimed[p] /\ cur[p] \in Open(p) /\ pc[p] = "settle"
  BY DEF SenderInv, TypeOK, HandsOK, SettleRow, Open, AfterSettle
<1>1. \A q \in Procs : \A r \in Open(q) : (q = p /\ r = cur[p]) \/ row'[r] = row[r]
  <2>1. row' = [row EXCEPT ![cur[p]] = SettledRow(p, cur[p])] \/ UNCHANGED row
    BY DEF SettleRow
  <2>2. QED BY <1>0, <2>1, WrittenAlone
<1>2. CASE NextRow(p)
  BY <1>0, <1>1, <1>2, NextRowOpen, OthersKeep DEF SenderInv
<1>3. CASE /\ \E to \in {"hookOk", "hookFail"} : Goto(p, to, timer[p])
           /\ UNCHANGED <<elapsed, claimed, seen, cur, answer>>
  BY <1>0, <1>1, <1>3, GotoOpen, OthersKeep DEF SenderInv, AfterSettle, PCs
<1>4. QED BY <1>2, <1>3 DEF SettleRow

LEMMA AfterSettleSender ==
  ASSUME SenderInv, NEW p \in Procs,
         HookOk(p) \/ HookFail(p) \/ Disable(p) \/ FailQueue(p)
  PROVE  OneSenderPerRow' /\ Holding'
<1>0. cur[p] \in claimed[p] /\ pc[p] \in AfterSettle
  BY DEF SenderInv, TypeOK, HandsOK, HookOk, HookFail, Disable, FailQueue, AfterSettle
<1>1. \A r \in Rows : row'[r] = row[r] \/ Closed(r)
  BY DEF HookOk, HookFail, Disable, FailQueue, Closed, RowWith
<1>2. \A q \in Procs : Open(q) \subseteq Rows
  BY OpenRows DEF SenderInv
<1>3. CASE NextRow(p)
  BY <1>0, <1>1, <1>2, <1>3, NextRowOpen, OthersKeep DEF SenderInv
<1>4. CASE /\ \E to \in AfterSettle : Goto(p, to, timer[p])
           /\ UNCHANGED <<elapsed, claimed, seen, cur, answer>>
  <2>1. AfterSettle \subseteq PCs
    BY DEF AfterSettle, PCs
  <2>2. QED BY <1>0, <1>1, <1>2, <1>4, <2>1, GotoOpen, OthersKeep DEF SenderInv
<1>5. QED BY <1>3, <1>4 DEF HookOk, HookFail, Disable, FailQueue, AfterSettle

LEMMA SameRowsSender ==
  ASSUME SenderInv, NEW p \in Procs,
         CheckBudget(p) \/ Post(p) \/ Answered(p) \/ (StartPass(p) /\ p \in Drainers)
  PROVE  OneSenderPerRow' /\ Holding'
<1>1. UNCHANGED <<row, elapsed, claimed, seen>> /\ pc[p] \notin AfterSettle
  BY DEF CheckBudget, Post, Answered, StartPass, dbVars, AfterSettle
<1>2. \E to \in PCs \ AfterSettle, time \in Nat : Goto(p, to, time)
  BY TimeBounds DEF CheckBudget, Post, Answered, StartPass, PCs, AfterSettle
<1>3. \A q \in Procs \ {p} : cur'[q] = cur[q]
  BY DEF CheckBudget, Post, Answered, StartPass, SenderInv, TypeOK, ProcTypeOK
<1>4. QED BY <1>1, <1>2, <1>3, GotoOpen, OthersKeep DEF SenderInv

LEMMA CrashSender ==
  ASSUME SenderInv, NEW p \in Procs, Crash(p) PROVE OneSenderPerRow' /\ Holding'
BY StopOpen, OthersKeep DEF SenderInv, Crash, dbVars

LEMMA OwnerSender ==
  ASSUME SenderInv,
         \/ \E h \in Hooks :
              \/ Create(h) \/ SwitchOn(h) \/ SwitchOff(h) \/ Delete(h) \/ DeleteSweep(h)
              \/ EmitCheck(h) \/ EmitCommit(h)
         \/ Suspend \/ Reactivate \/ Prune \/ UNCHANGED vars
  PROVE  OneSenderPerRow' /\ Holding'
<1>1. UNCHANGED procVars
  BY DEF Create, SwitchOn, SwitchOff, Delete, DeleteSweep, EmitCheck, EmitCommit, Suspend,
         Reactivate, Prune, vars, procVars
<1>2. \A r \in Rows : row[r].st = "unused" \/ row'[r] = row[r] \/ Closed(r)
  <2>0. row \in [Rows -> RowType]
    BY DEF SenderInv, TypeOK, DbTypeOK
  <2>1. CASE UNCHANGED row
    BY <2>1
  <2>2. ASSUME NEW h \in Hooks, DeleteSweep(h)
        PROVE  \A r \in Rows : row'[r] = row[r] \/ Closed(r)
    BY <2>2 DEF DeleteSweep, Gone, RowWith, Closed
  <2>3. ASSUME NEW h \in Hooks, EmitCommit(h)
        PROVE  \A r \in Rows : row[r].st = "unused" \/ row'[r] = row[r]
    BY <2>0, <2>3 DEF EmitCommit, IsNextRow
  <2>4. CASE Prune
    BY <2>4 DEF Prune, Gone, RowWith, Closed
  <2>5. QED
    BY <2>1, <2>2, <2>3, <2>4
       DEF Create, SwitchOn, SwitchOff, Delete, EmitCheck, Suspend, Reactivate, vars
<1>3. QED BY <1>1, <1>2, OwnersKeep, OpenRows DEF SenderInv

LEMMA SenderInvStep ==
  ASSUME LeaseOutlastsPass, SenderInv, [Next]_vars PROVE SenderInv'
<1>1. TypeOK' /\ InTime'
  BY TypeOKStep, InTimeStep DEF SenderInv
<1>d. Drainers \subseteq Procs
  BY DEF Procs
<1>2. OneSenderPerRow' /\ Holding'
  BY <1>d, ClaimSender, PingSender, TickSender, ReadHookSender, ReleaseSender, SettleRowSender,
     AfterSettleSender, SameRowsSender, CrashSender, OwnerSender
     DEF Next, Step
<1>3. QED BY <1>1, <1>2 DEF SenderInv

LEMMA InitSenderInv == Init => SenderInv
<1> SUFFICES ASSUME Init PROVE SenderInv
  OBVIOUS
<1>1. TypeOK
  BY InitTypeOK
<1>2. InTime
  BY TimeBounds DEF Init, InTime
<1>3. \A p \in Procs : Open(p) = {}
  BY DEF Init, Open
<1>4. QED BY <1>1, <1>2, <1>3 DEF SenderInv, OneSenderPerRow, Holding

(* While a lease outlasts the longest pass, no delivery is ever in the     *)
(* hands of two senders: _claim and ping_prepare against every drain pass, *)
(* test button, release, settlement, switch-off and death of a worker.     *)
THEOREM OneSender == ASSUME LeaseOutlastsPass PROVE Spec => []OneSenderPerRow
<1>1. SenderInv /\ [Next]_vars => SenderInv'
  BY SenderInvStep
<1>2. SenderInv => OneSenderPerRow
  BY DEF SenderInv
<1>3. QED BY InitSenderInv, <1>1, <1>2, PTL DEF Spec

------------------------------------------------------------------------------
(* The outbox implements DeliveryLadder.                                   *)

(* A row names a hook that was made, and a deleted hook is never back.     *)
RowsNameHooks ==
  /\ \A r \in Rows : IF row[r].st = "unused"
                     THEN row[r] = UnusedRow
                     ELSE row[r].hook \in Hooks /\ hook[row[r].hook].st # "unmade"
  /\ \A h \in emitting : hook[h].st # "unmade"
  /\ \A h \in deleting : hook[h].st = "deleted"

LadderInv == TypeOK /\ RowsNameHooks

(* The steps that rewrite no row but its due time, its outcome or its      *)
(* place in the table keep the row's hook.                                 *)
LEMMA HookKept ==
  ASSUME LadderInv, [Next]_vars, NEW r \in Rows, row[r].st # "unused"
  PROVE  row'[r].hook = row[r].hook /\ row'[r].st # "unused"
<1>0. row \in [Rows -> RowType] /\ row[r] \in RowType
  BY DEF LadderInv, TypeOK, DbTypeOK
<1>1. CASE UNCHANGED row
  BY <1>1
<1>2. ASSUME NEW q \in Rows, row[q].st = "unused", NEW x, row' = [row EXCEPT ![q] = x]
      PROVE  row'[r] = row[r]
  BY <1>0, <1>2
<1>3. ASSUME NEW p \in Procs, NEW q \in Rows, Released(p, q)
      PROVE  row'[r].hook = row[r].hook /\ row'[r].st = row[r].st
  <2> DEFINE d == Floor(seen[p][q].due - elapsed[p])
  <2>1. row' = [row EXCEPT ![q].due = d] \/ UNCHANGED row
    BY <1>3 DEF Released
  <2> HIDE DEF d
  <2>2. QED BY <1>0, <2>1 DEF RowType
<1>4. ASSUME NEW p \in Procs, SettleRow(p)
      PROVE  row'[r].hook = row[r].hook /\ row'[r].st # "unused"
  <2>1. CASE r = cur[p] /\ SameAttempt(p, r)
    <3>1. row'[r] = SettledRow(p, r)
      BY <1>0, <1>4, <2>1 DEF SettleRow
    <3>2. QED BY <3>1 DEF SettledRow, RowWith
  <2>2. CASE r # cur[p] \/ ~SameAttempt(p, r)
    BY <1>0, <1>4, <2>2 DEF SettleRow
  <2>3. QED BY <2>1, <2>2
<1>5. ASSUME NEW p \in Drainers, Claim(p)
      PROVE  row'[r].hook = row[r].hook /\ row'[r].st = row[r].st
  <2>1. row'[r] = row[r] \/ row'[r] = [row[r] EXCEPT !.due = Lease - elapsed[p]]
    BY <1>5 DEF Claim, Leased
  <2>2. QED BY <1>0, <2>1 DEF RowType
<1>6. CASE Tick
  <2> DEFINE d == Floor(row[r].due - 1)
  <2>1. row'[r] = row[r] \/ row'[r] = [row[r] EXCEPT !.due = d]
    BY <1>6 DEF Tick
  <2> HIDE DEF d
  <2>2. QED BY <1>0, <2>1 DEF RowType
<1>7. ASSUME NEW h \in Hooks, DeleteSweep(h) \/ EmitCommit(h)
      PROVE  row'[r].hook = row[r].hook /\ row'[r].st # "unused"
  <2>1. CASE DeleteSweep(h)
    BY <2>1 DEF DeleteSweep, Gone, RowWith
  <2>2. CASE EmitCommit(h)
    <3>1. PICK q \in Rows : row[q].st = "unused" /\ row' = [row EXCEPT ![q] = NewRow(h, 0)]
      BY <2>2 DEF EmitCommit, IsNextRow
    <3>2. QED BY <1>0, <3>1
  <2>3. QED BY <1>7, <2>1, <2>2
<1>8. CASE Prune
  BY <1>8 DEF Prune, Gone, RowWith
<1>9. ASSUME NEW p \in Pingers, NEW h \in Hooks, Ping(p, h)
      PROVE  row'[r] = row[r]
  <2>1. PICK q \in Rows : row[q].st = "unused" /\ row' = [row EXCEPT ![q] = NewRow(h, Lease)]
    BY <1>9 DEF Ping, IsNextRow
  <2>2. QED BY <1>0, <2>1
<1>10. ASSUME NEW p \in Procs, FailQueue(p)
       PROVE  row'[r].hook = row[r].hook /\ row'[r].st # "unused"
  BY <1>10 DEF FailQueue, RowWith
<1>11. ASSUME NEW p \in Procs, ReadHook(p)
       PROVE  row'[r].hook = row[r].hook /\ row'[r].st # "unused"
  <2>1. cur[p] \in Rows
    BY <1>11 DEF LadderInv, TypeOK, HandsOK, ProcTypeOK, ReadHook
  <2>2. Released(p, cur[p]) \/ UNCHANGED row
    BY <1>11 DEF ReadHook
  <2>3. QED BY <1>3, <2>1, <2>2
<1>12. ASSUME NEW p \in Procs, Release(p)
       PROVE  row'[r].hook = row[r].hook /\ row'[r].st # "unused"
  BY <1>3, <1>12 DEF Release
<1>13. QED
  BY <1>1, <1>4, <1>5, <1>6, <1>7, <1>8, <1>9, <1>10, <1>11, <1>12
     DEF Next, Step, Create, SwitchOn, SwitchOff, Delete, EmitCheck, Suspend, Reactivate,
         StartPass, CheckBudget, Post, Answered, HookOk, HookFail, Disable, Crash, dbVars, vars

(* A hook once made stays made, and once deleted stays deleted.            *)
LEMMA HooksAge ==
  ASSUME LadderInv, [Next]_vars, NEW h \in Hooks
  PROVE  /\ hook[h].st # "unmade" => hook'[h].st # "unmade"
         /\ hook[h].st = "deleted" => hook'[h].st = "deleted"
<1>0. hook \in [Hooks -> [st : HookStates, failures : Nat]]
  BY DEF LadderInv, TypeOK, DbTypeOK
<1>1. CASE UNCHANGED hook
  BY <1>1
<1>2. ASSUME NEW g \in Hooks, Create(g) \/ SwitchOn(g) \/ SwitchOff(g) \/ Delete(g)
      PROVE  /\ hook[h].st # "unmade" => hook'[h].st # "unmade"
             /\ hook[h].st = "deleted" => hook'[h].st = "deleted"
  BY <1>0, <1>2 DEF Create, SwitchOn, SwitchOff, Delete, Exists, On
<1>3. ASSUME NEW p \in Procs, HookOk(p) \/ HookFail(p) \/ Disable(p)
      PROVE  /\ hook[h].st # "unmade" => hook'[h].st # "unmade"
             /\ hook[h].st = "deleted" => hook'[h].st = "deleted"
  <2> DEFINE g == row[cur[p]].hook
  <2>1. \/ UNCHANGED hook
        \/ hook' = [hook EXCEPT ![g].failures = 0]
        \/ hook' = [hook EXCEPT ![g].failures = hook[g].failures + 1]
        \/ Exists(g) /\ hook' = [hook EXCEPT ![g].st = "off"]
    BY <1>3 DEF HookOk, HookFail, Disable
  <2> HIDE DEF g
  <2>2. QED BY <1>0, <2>1 DEF Exists
<1>4. QED
  BY <1>1, <1>2, <1>3
     DEF Next, Step, DeleteSweep, EmitCheck, EmitCommit, Suspend, Reactivate, Prune, Tick, Ping,
         StartPass, Claim, CheckBudget, ReadHook, Release, Post, Answered, SettleRow, FailQueue,
         Crash, dbVars, vars

LEMMA LadderInvStep == LadderInv /\ [Next]_vars => LadderInv'
<1> SUFFICES ASSUME LadderInv, [Next]_vars PROVE LadderInv'
  OBVIOUS
<1>0. TypeOK'
  BY TypeOKStep DEF LadderInv
<1>t. /\ row \in [Rows -> RowType] /\ row' \in [Rows -> RowType]
      /\ emitting \subseteq Hooks /\ deleting \subseteq Hooks
      /\ hook \in [Hooks -> [st : HookStates, failures : Nat]]
  BY <1>0 DEF LadderInv, TypeOK, DbTypeOK
<1>1. ASSUME NEW h \in deleting' PROVE hook'[h].st = "deleted"
  <2>1. h \in deleting \/ (h \in Hooks /\ Delete(h))
    BY DEF Next, Step, Create, SwitchOn, SwitchOff, Delete, DeleteSweep, EmitCheck, EmitCommit,
           Suspend, Reactivate, Prune, Tick, Ping, StartPass, Claim, CheckBudget, ReadHook,
           Release, Post, Answered, SettleRow, HookOk, HookFail, Disable, FailQueue, Crash,
           dbVars, vars
  <2>2. QED BY <1>t, <2>1, HooksAge DEF LadderInv, RowsNameHooks, Delete
<1>2. ASSUME NEW h \in emitting' PROVE hook'[h].st # "unmade"
  <2>1. h \in emitting \/ (h \in Hooks /\ EmitCheck(h))
    BY DEF Next, Step, Create, SwitchOn, SwitchOff, Delete, DeleteSweep, EmitCheck, EmitCommit,
           Suspend, Reactivate, Prune, Tick, Ping, StartPass, Claim, CheckBudget, ReadHook,
           Release, Post, Answered, SettleRow, HookOk, HookFail, Disable, FailQueue, Crash,
           dbVars, vars
  <2>2. QED BY <1>t, <2>1, HooksAge DEF LadderInv, RowsNameHooks, EmitCheck, On
<1>3. ASSUME NEW r \in Rows, row[r].st # "unused"
      PROVE  /\ row'[r].st # "unused" /\ row'[r].hook \in Hooks
             /\ hook'[row'[r].hook].st # "unmade"
  BY <1>3, HookKept, HooksAge DEF LadderInv, RowsNameHooks
<1>4. ASSUME NEW r \in Rows, row[r].st = "unused"
      PROVE  \/ row'[r] = row[r]
             \/ \E h \in Hooks, d \in Int : /\ row'[r] = NewRow(h, d)
                                          /\ hook'[h].st # "unmade"
  <2>1. ASSUME NEW h \in Hooks, EmitCommit(h)
        PROVE  row'[r] = row[r] \/ (row'[r] = NewRow(h, 0) /\ hook'[h].st # "unmade")
    BY <1>t, <2>1 DEF EmitCommit, LadderInv, RowsNameHooks
  <2>2. ASSUME NEW p \in Pingers, NEW h \in Hooks, Ping(p, h)
        PROVE  row'[r] = row[r] \/ (row'[r] = NewRow(h, Lease) /\ hook'[h].st # "unmade")
    BY <1>t, <2>2 DEF Ping, Exists
  <2>3. ASSUME NEW h \in Hooks, DeleteSweep(h) PROVE row'[r] = row[r]
    BY <1>4, <2>3 DEF DeleteSweep
  <2>4. CASE Prune
    BY <1>4, <2>4 DEF Prune, Orphan, Settled
  <2>5. CASE Tick
    BY <1>4, <2>5 DEF Tick, Pending
  <2>6. ASSUME NEW p \in Drainers, Claim(p) PROVE row'[r] = row[r]
    BY <1>4, <2>6 DEF Claim, IsClaim, Due, Pending
  <2>7. ASSUME NEW p \in Procs, NEW q \in Rows, Released(p, q) PROVE row'[r] = row[r]
    <3> DEFINE d == Floor(seen[p][q].due - elapsed[p])
    <3>1. (row' = [row EXCEPT ![q].due = d] /\ Pending(q)) \/ UNCHANGED row
      BY <2>7 DEF Released, SameAttempt
    <3> HIDE DEF d
    <3>2. QED BY <1>4, <1>t, <3>1 DEF Pending
  <2>8. ASSUME NEW p \in Procs, ReadHook(p) \/ Release(p) PROVE row'[r] = row[r]
    <3>1. UNCHANGED row \/ \E q \in Rows : Released(p, q)
      BY <2>8 DEF ReadHook, Release, LadderInv, TypeOK, HandsOK, ProcTypeOK
    <3>2. QED BY <2>7, <3>1
  <2>9. ASSUME NEW p \in Procs, SettleRow(p) PROVE row'[r] = row[r]
    <3>1. (Pending(cur[p]) /\ row' = [row EXCEPT ![cur[p]] = SettledRow(p, cur[p])])
            \/ UNCHANGED row
      BY <2>9 DEF SettleRow, SameAttempt
    <3>2. QED BY <1>4, <1>t, <3>1 DEF Pending
  <2>10. ASSUME NEW p \in Procs, FailQueue(p) PROVE row'[r] = row[r]
    BY <1>4, <2>10 DEF FailQueue, Pending
  <2>11. Lease \in Int /\ 0 \in Int
    BY OutboxAssumption
  <2>12. CASE UNCHANGED row
    BY <2>12
  <2>13. ASSUME NEW h \in Hooks, EmitCommit(h) \/ \E p \in Pingers : Ping(p, h)
         PROVE  \/ row'[r] = row[r]
                \/ \E g \in Hooks, d \in Int : row'[r] = NewRow(g, d) /\ hook'[g].st # "unmade"
    BY <2>1, <2>2, <2>11, <2>13
  <2>14. QED
    BY <2>3, <2>4, <2>5, <2>6, <2>8, <2>9, <2>10, <2>12, <2>13
       DEF Next, Step, Create, SwitchOn, SwitchOff, Delete, EmitCheck, Suspend, Reactivate,
           StartPass, CheckBudget, Post, Answered, HookOk, HookFail, Disable, Crash, dbVars, vars
<1>5. ASSUME NEW r \in Rows
      PROVE  IF row'[r].st = "unused"
             THEN row'[r] = UnusedRow
             ELSE row'[r].hook \in Hooks /\ hook'[row'[r].hook].st # "unmade"
  <2>1. CASE row[r].st # "unused"
    BY <1>3, <2>1
  <2>2. CASE row[r].st = "unused" /\ row'[r] = row[r]
    BY <2>2 DEF LadderInv, RowsNameHooks, UnusedRow
  <2>3. ASSUME NEW h \in Hooks, NEW d \in Int, row'[r] = NewRow(h, d), hook'[h].st # "unmade"
        PROVE  row'[r].st # "unused" /\ row'[r].hook \in Hooks /\ hook'[row'[r].hook].st # "unmade"
    BY <2>3 DEF NewRow
  <2>4. QED BY <1>4, <2>1, <2>2, <2>3
<1>6. QED BY <1>0, <1>1, <1>2, <1>5 DEF LadderInv, RowsNameHooks, UnusedRow

LEMMA InitLadderInv == Init => LadderInv
BY InitTypeOK DEF Init, LadderInv, RowsNameHooks, UnusedRow

LEMMA GoneHooksSame ==
  ASSUME LadderInv, [Next]_vars,
         \A h \in Hooks : ~(Delete(h))
  PROVE  GoneHooks' = GoneHooks
<1>0. hook \in [Hooks -> [st : HookStates, failures : Nat]]
  BY DEF LadderInv, TypeOK, DbTypeOK
<1>1. CASE UNCHANGED hook
  BY <1>1 DEF GoneHooks
<1>2. ASSUME NEW g \in Hooks, Create(g) \/ SwitchOn(g) \/ SwitchOff(g)
      PROVE  GoneHooks' = GoneHooks
  BY <1>0, <1>2 DEF Create, SwitchOn, SwitchOff, Exists, On, GoneHooks
<1>3. ASSUME NEW p \in Procs, HookOk(p) \/ HookFail(p) \/ Disable(p)
      PROVE  GoneHooks' = GoneHooks
  <2> DEFINE g == row[cur[p]].hook
  <2>1. \/ UNCHANGED hook
        \/ hook' = [hook EXCEPT ![g].failures = 0]
        \/ hook' = [hook EXCEPT ![g].failures = hook[g].failures + 1]
        \/ Exists(g) /\ hook' = [hook EXCEPT ![g].st = "off"]
    BY <1>3 DEF HookOk, HookFail, Disable
  <2> HIDE DEF g
  <2>2. \A h \in Hooks : hook'[h].st = "deleted" <=> hook[h].st = "deleted"
    BY <1>0, <2>1 DEF Exists
  <2>3. QED BY <2>2 DEF GoneHooks
<1>4. QED
  BY <1>1, <1>2, <1>3
     DEF Next, Step, DeleteSweep, EmitCheck, EmitCommit, Suspend, Reactivate, Prune, Tick, Ping,
         StartPass, Claim, CheckBudget, ReadHook, Release, Post, Answered, SettleRow, FailQueue,
         Crash, dbVars, vars

(* Moving due times only does not show.                                    *)
LEMMA DueOnly ==
  ASSUME \A r \in Rows : /\ row'[r].st = row[r].st /\ row'[r].hook = row[r].hook
                         /\ row'[r].attempts = row[r].attempts
  PROVE  LadderRows' = LadderRows
BY DEF LadderRows

LEMMA ReleasedDueOnly ==
  ASSUME LadderInv, NEW p \in Procs, NEW q \in Rows, Released(p, q)
  PROVE  LadderRows' = LadderRows
<1>0. row \in [Rows -> RowType]
  BY DEF LadderInv, TypeOK, DbTypeOK
<1> DEFINE d == Floor(seen[p][q].due - elapsed[p])
<1>1. row' = [row EXCEPT ![q].due = d] \/ UNCHANGED row
  BY DEF Released
<1> HIDE DEF d
<1>2. \A r \in Rows : /\ row'[r].st = row[r].st /\ row'[r].hook = row[r].hook
                      /\ row'[r].attempts = row[r].attempts
  BY <1>0, <1>1 DEF RowType
<1>3. QED BY <1>2, DueOnly

LEMMA QueueStep ==
  ASSUME LadderInv, NEW q \in Rows, row[q].st = "unused", NEW h \in Hooks, NEW d \in Int,
         row' = [row EXCEPT ![q] = NewRow(h, d)], GoneHooks' = GoneHooks
  PROVE  Ladder!Next
<1>0. row \in [Rows -> RowType] /\ row[q] = UnusedRow
  BY DEF LadderInv, TypeOK, DbTypeOK, RowsNameHooks
<1>1. LadderRows[q] = Ladder!Unused
  BY <1>0 DEF LadderRows, Ladder!Unused, UnusedRow
<1>2. LadderRows' = [LadderRows EXCEPT ![q] =
                       [st |-> "pending", hook |-> h, attempts |-> 0]]
  BY <1>0 DEF LadderRows, NewRow
<1>3. Ladder!Queue(q, h)
  BY <1>1, <1>2 DEF Ladder!Queue
<1>4. QED BY <1>3 DEF Ladder!Next

LEMMA DropStep ==
  ASSUME LadderInv, NEW S \in SUBSET Rows,
         \A r \in S : row[r].st # "unused" /\ (~Settled(r) /\ row[r].st # "pruned"
                        => hook[row[r].hook].st = "deleted"),
         row' = [r \in Rows |-> IF r \in S THEN Gone(r) ELSE row[r]],
         GoneHooks' = GoneHooks
  PROVE  Ladder!Next
<1>1. \A r \in S : \/ LadderRows[r].st \in {"delivered", "failed", "pruned"}
                   \/ LadderRows[r].hook \in GoneHooks
  BY DEF LadderRows, GoneHooks, Settled, LadderInv, RowsNameHooks
<1>2. LadderRows' = [r \in Rows |-> IF r \in S THEN [LadderRows[r] EXCEPT !.st = "pruned"]
                                               ELSE LadderRows[r]]
  BY DEF LadderRows, Gone, RowWith
<1>3. Ladder!Drop(S)
  BY <1>1, <1>2 DEF Ladder!Drop
<1>4. QED BY <1>3 DEF Ladder!Next

LEMMA AttemptStep ==
  ASSUME LadderInv, NEW p \in Procs, pc[p] = "settle", SameAttempt(p, cur[p]),
         row' = [row EXCEPT ![cur[p]] = SettledRow(p, cur[p])], GoneHooks' = GoneHooks
  PROVE  Ladder!Next
<1> DEFINE r == cur[p]
           n == row[r].attempts + 1
<1>0. r \in Rows /\ row \in [Rows -> RowType] /\ row[r] \in RowType
  BY DEF LadderInv, TypeOK, HandsOK, ProcTypeOK, DbTypeOK
<1>1. /\ n \in Nat /\ MaxAttempts \in Nat /\ n <= MaxAttempts
      /\ seen[p][r].attempts + 1 = n /\ row[r].st = "pending"
  <2>1. row[r].attempts = seen[p][r].attempts /\ row[r].attempts < MaxAttempts
          /\ row[r].st = "pending"
    BY <1>0 DEF LadderInv, TypeOK, SameAttempt, Pending
  <2>2. row[r].attempts \in 0 .. MaxAttempts /\ MaxAttempts \in Nat
    BY <1>0, OutboxAssumption DEF RowType
  <2>3. QED BY <2>1, <2>2
<1>2. \E st \in {"pending", "delivered", "failed"} : \E d :
         /\ SettledRow(p, r) = RowWith(r, st, n, d)
         /\ st = "pending" => n < MaxAttempts
         /\ st = "failed" => n = MaxAttempts
  <2> DEFINE again == Floor(Backoff[n] - elapsed[p])
  <2>1. SettledRow(p, r) = IF answer[p] = "ok" THEN RowWith(r, "delivered", n, 0)
          ELSE IF n >= MaxAttempts THEN RowWith(r, "failed", n, 0)
          ELSE RowWith(r, "pending", n, again)
    BY <1>1 DEF SettledRow
  <2> HIDE DEF again, n
  <2>2. CASE answer[p] = "ok"
    BY <2>1, <2>2
  <2>3. CASE answer[p] # "ok" /\ n >= MaxAttempts
    <3>1. n = MaxAttempts
      BY <1>1, <2>3
    <3>2. QED BY <2>1, <2>3, <3>1
  <2>4. CASE answer[p] # "ok" /\ ~(n >= MaxAttempts)
    <3>1. n < MaxAttempts
      BY <1>1, <2>4
    <3>2. QED BY <2>1, <2>4, <3>1
  <2>5. QED BY <2>2, <2>3, <2>4
<1>2a. PICK st \in {"pending", "delivered", "failed"} : \E d :
         /\ SettledRow(p, r) = RowWith(r, st, n, d)
         /\ st = "pending" => n < MaxAttempts
         /\ st = "failed" => n = MaxAttempts
  BY <1>2
<1>3. PICK d : /\ SettledRow(p, r) = RowWith(r, st, n, d)
               /\ st = "pending" => n < MaxAttempts
               /\ st = "failed" => n = MaxAttempts
  BY <1>2a
<1>4. /\ LadderRows[r].st = "pending" /\ LadderRows[r].attempts = row[r].attempts
      /\ LadderRows[r].hook = row[r].hook
  BY <1>0, <1>1 DEF LadderRows
<1>5. LadderRows' = [LadderRows EXCEPT ![r] = [st |-> st, hook |-> row[r].hook, attempts |-> n]]
  <2>1. row'[r] = RowWith(r, st, n, d)
    BY <1>0, <1>3
  <2>2. \A q \in Rows \ {r} : row'[q] = row[q]
    BY <1>0
  <2> HIDE DEF n
  <2>3. LadderRows'[r] = [st |-> st, hook |-> row[r].hook, attempts |-> n]
    BY <1>0, <2>1 DEF LadderRows, RowWith
  <2>4. \A q \in Rows \ {r} : LadderRows'[q] = LadderRows[q]
    BY <2>2 DEF LadderRows
  <2>5. DOMAIN LadderRows = Rows /\ LadderRows' = [q \in Rows |-> LadderRows'[q]]
    BY DEF LadderRows
  <2> HIDE DEF r
  <2>6. LadderRows' = [q \in Rows |-> IF q = r THEN LadderRows'[r] ELSE LadderRows[q]]
    BY <2>4, <2>5
  <2>7. LadderRows = [q \in Rows |-> LadderRows[q]]
    BY DEF LadderRows
  <2>8. QED BY <2>3, <2>6, <2>7
<1>6. Ladder!Attempt(r)
  BY <1>2a, <1>3, <1>4, <1>5 DEF Ladder!Attempt, Ladder!Pending
<1>7. QED BY <1>0, <1>6 DEF Ladder!Next

LEMMA GiveUpStep ==
  ASSUME LadderInv, NEW p \in Procs, FailQueue(p), GoneHooks' = GoneHooks
  PROVE  [Ladder!Next]_<<LadderRows, GoneHooks>>
<1> DEFINE h == row[cur[p]].hook
<1>1. CASE h \in Hooks
  <2>1. LadderRows' = [r \in Rows |-> IF LadderRows[r].hook = h /\ Ladder!Pending(r)
                                     THEN [LadderRows[r] EXCEPT !.st = "failed"]
                                     ELSE LadderRows[r]]
    BY DEF FailQueue, LadderRows, Ladder!Pending, Pending, RowWith
  <2>2. Ladder!GiveUp(h)
    BY <2>1 DEF Ladder!GiveUp
  <2>3. QED BY <1>1, <2>2 DEF Ladder!Next
<1>2. CASE h \notin Hooks
  <2>1. \A r \in Rows : row[r].hook = h => ~Pending(r)
    BY <1>2 DEF LadderInv, RowsNameHooks, Pending
  <2>2. \A r \in Rows : row'[r] = row[r]
    BY <2>1 DEF FailQueue
  <2>3. QED BY <2>2, DueOnly
<1>3. QED BY <1>1, <1>2

LEMMA LadderStep ==
  ASSUME LadderInv, [Next]_vars PROVE [Ladder!Next]_<<LadderRows, GoneHooks>>
<1>0. row \in [Rows -> RowType] /\ hook \in [Hooks -> [st : HookStates, failures : Nat]]
  BY DEF LadderInv, TypeOK, DbTypeOK
<1>1. ASSUME NEW h \in Hooks, Delete(h) PROVE [Ladder!Next]_<<LadderRows, GoneHooks>>
  <2>1. GoneHooks' = GoneHooks \cup {h}
    BY <1>0, <1>1 DEF Delete, GoneHooks
  <2>2. LadderRows' = LadderRows
    BY <1>1 DEF Delete, LadderRows
  <2>3. QED BY <2>1, <2>2 DEF Ladder!Next, Ladder!DeleteHook
<1>2. CASE \A h \in Hooks : ~Delete(h)
  <2>0. GoneHooks' = GoneHooks
    BY <1>2, GoneHooksSame
  <2>1. CASE UNCHANGED row
    BY <2>0, <2>1 DEF LadderRows
  <2>2. ASSUME NEW h \in Hooks, EmitCommit(h) PROVE Ladder!Next
    <3>1. PICK q \in Rows : row[q].st = "unused" /\ row' = [row EXCEPT ![q] = NewRow(h, 0)]
      BY <2>2 DEF EmitCommit, IsNextRow
    <3>2. 0 \in Int
      OBVIOUS
    <3>3. QED BY <2>0, <3>1, <3>2, QueueStep
  <2>3. ASSUME NEW h \in Hooks, NEW p \in Pingers, Ping(p, h) PROVE Ladder!Next
    <3>1. PICK q \in Rows : row[q].st = "unused" /\ row' = [row EXCEPT ![q] = NewRow(h, Lease)]
      BY <2>3 DEF Ping, IsNextRow
    <3>2. Lease \in Int
      BY OutboxAssumption
    <3>3. QED BY <2>0, <3>1, <3>2, QueueStep
  <2>4. ASSUME NEW h \in Hooks, DeleteSweep(h) PROVE Ladder!Next
    <3> DEFINE S == {r \in Rows : row[r].hook = h /\ row[r].st # "unused"}
    <3>1. S \in SUBSET Rows
      OBVIOUS
    <3>2. \A r \in S : row[r].st # "unused" /\ hook[row[r].hook].st = "deleted"
      BY <2>4 DEF DeleteSweep, LadderInv, RowsNameHooks
    <3>3. row' = [r \in Rows |-> IF r \in S THEN Gone(r) ELSE row[r]]
      BY <2>4 DEF DeleteSweep
    <3> HIDE DEF S
    <3>4. QED BY <2>0, <3>1, <3>2, <3>3, DropStep
  <2>5. CASE Prune
    <3>1. PICK old \in SUBSET {r \in Rows : Settled(r)} :
            row' = [r \in Rows |-> IF r \in old \/ Orphan(r) THEN Gone(r) ELSE row[r]]
      BY <2>5 DEF Prune
    <3> DEFINE S == {r \in Rows : r \in old \/ Orphan(r)}
    <3>2. S \in SUBSET Rows
      OBVIOUS
    <3>3. \A r \in S : row[r].st # "unused" /\ (~Settled(r) /\ row[r].st # "pruned"
                        => hook[row[r].hook].st = "deleted")
      BY <1>0 DEF Orphan, Exists, Settled, LadderInv, RowsNameHooks, HookStates
    <3>4. row' = [r \in Rows |-> IF r \in S THEN Gone(r) ELSE row[r]]
      BY <3>1
    <3> HIDE DEF S
    <3>5. QED BY <2>0, <3>2, <3>3, <3>4, DropStep
  <2>6. CASE Tick
    <3>1. \A r \in Rows : \/ row'[r] = row[r]
                          \/ row'[r] = [row[r] EXCEPT !.due = Floor(row[r].due - 1)]
      BY <2>6 DEF Tick
    <3>2. \A r \in Rows : /\ row'[r].st = row[r].st /\ row'[r].hook = row[r].hook
                          /\ row'[r].attempts = row[r].attempts
      BY <1>0, <3>1 DEF RowType
    <3>3. QED BY <2>0, <3>2, DueOnly
  <2>7. ASSUME NEW p \in Drainers, Claim(p) PROVE LadderRows' = LadderRows
    <3>1. \A r \in Rows : \/ row'[r] = row[r]
                          \/ row'[r] = [row[r] EXCEPT !.due = Lease - elapsed[p]]
      BY <2>7 DEF Claim, Leased
    <3>2. \A r \in Rows : /\ row'[r].st = row[r].st /\ row'[r].hook = row[r].hook
                          /\ row'[r].attempts = row[r].attempts
      BY <1>0, <3>1 DEF RowType
    <3>3. QED BY <3>2, DueOnly
  <2>8. ASSUME NEW p \in Procs, ReadHook(p) \/ Release(p) PROVE LadderRows' = LadderRows
    <3>1. UNCHANGED row \/ \E q \in Rows : Released(p, q)
      BY <2>8 DEF ReadHook, Release, LadderInv, TypeOK, HandsOK, ProcTypeOK
    <3>2. QED BY <3>1, ReleasedDueOnly DEF LadderRows
  <2>9. ASSUME NEW p \in Procs, SettleRow(p) PROVE [Ladder!Next]_<<LadderRows, GoneHooks>>
    <3>1. CASE SameAttempt(p, cur[p])
      BY <2>0, <2>9, <3>1, AttemptStep DEF SettleRow
    <3>2. CASE ~SameAttempt(p, cur[p])
      BY <2>1, <2>9, <3>2 DEF SettleRow
    <3>3. QED BY <3>1, <3>2
  <2>10. ASSUME NEW p \in Procs, FailQueue(p) PROVE [Ladder!Next]_<<LadderRows, GoneHooks>>
    BY <2>0, <2>10, GiveUpStep
  <2>11. QED
    BY <1>2, <2>0, <2>1, <2>2, <2>3, <2>4, <2>5, <2>6, <2>7, <2>8, <2>9, <2>10
       DEF Next, Step, Create, SwitchOn, SwitchOff, EmitCheck, Suspend, Reactivate,
           StartPass, CheckBudget, Post, Answered, HookOk, HookFail, Disable, Crash, dbVars, vars
<1>3. QED BY <1>1, <1>2

(* Every behaviour of the outbox is one of DeliveryLadder: each delivery   *)
(* climbs one ladder of counted attempts and ends once, and is dropped     *)
(* while pending only after its hook was deleted.                          *)
THEOREM ImplementsLadder == Spec => KeepsLadder
<1>1. Init => Ladder!Init
  BY DEF Init, Ladder!Init, LadderRows, GoneHooks, Ladder!Unused, UnusedRow
<1>2. LadderInv /\ [Next]_vars => [Ladder!Next]_<<LadderRows, GoneHooks>>
  BY LadderStep
<1>3. QED
  BY InitLadderInv, LadderInvStep, <1>1, <1>2, PTL DEF Spec, KeepsLadder, Ladder!Spec

------------------------------------------------------------------------------
(* A switch-off is obeyed but for one post.                                *)

(* A row in a process's hands has been written.                            *)
InUse == \A p \in Procs : \A r \in claimed[p] : row[r].st # "unused"

(* A pass that has started a late post for a hook can start no other until *)
(* the hook is resumed: it is not about to post to it, and what it reads   *)
(* next is that the hook is stopped.                                       *)
PostedLate ==
  /\ late \in [Drainers -> [Hooks -> {0, 1}]]
  /\ \A p \in Drainers, h \in Hooks :
       late[p][h] = 1 => Stopped(h) /\ ~(pc[p] = "post" /\ row[cur[p]].hook = h)

LateInv == LadderInv /\ InUse /\ PostedLate

(* The rows in hand after a step were in hand before, or pending.          *)
LEMMA NewInHand ==
  ASSUME LadderInv, [Next]_vars, NEW p \in Procs
  PROVE  claimed'[p] \subseteq claimed[p] \cup {r \in Rows : Pending(r) \/ Pending(r)'}
<1>0. /\ claimed \in [Procs -> SUBSET Rows] /\ Drainers \cup Pingers = Procs
      /\ row \in [Rows -> RowType]
  BY DEF LadderInv, TypeOK, ProcTypeOK, DbTypeOK, Procs
<1>1. ASSUME NEW q \in Procs, Stop(q) \/ NextRow(q)
      PROVE  claimed'[p] \subseteq claimed[p]
  BY <1>0, <1>1 DEF NextRow, Stop
<1>2. ASSUME NEW q \in Drainers, Claim(q)
      PROVE  claimed'[p] \subseteq claimed[p] \cup {r \in Rows : Pending(r)}
  <2>1. PICK S \in SUBSET Rows :
          /\ IsClaim(S, elapsed[q])
          /\ Stop(q) \/ claimed' = [claimed EXCEPT ![q] = S]
    BY <1>2 DEF Claim
  <2>2. \A r \in S : Pending(r)
    BY <2>1 DEF IsClaim, Due
  <2>. QED BY <1>0, <1>1, <2>1, <2>2
<1>3. ASSUME NEW q \in Pingers, NEW h \in Hooks, Ping(q, h)
      PROVE  claimed'[p] \subseteq claimed[p] \cup {r \in Rows : Pending(r)'}
  <2>1. PICK r \in Rows : /\ row' = [row EXCEPT ![r] = NewRow(h, Lease)]
                          /\ claimed' = [claimed EXCEPT ![q] = {r}]
    BY <1>3 DEF Ping
  <2>2. Pending(r)'
    BY <1>0, <2>1 DEF Pending, NewRow
  <2>. QED BY <1>0, <2>1, <2>2
<1>4. ASSUME NEW q \in Procs, ReadHook(q) \/ Release(q) \/ SettleRow(q) \/ HookOk(q)
                                \/ HookFail(q) \/ FailQueue(q) \/ Crash(q)
      PROVE  claimed'[p] \subseteq claimed[p]
  BY <1>0, <1>1, <1>4
     DEF ReadHook, Release, SettleRow, HookOk, HookFail, FailQueue, Crash
<1>5. CASE UNCHANGED claimed
  BY <1>5
<1>. QED
  BY <1>0, <1>2, <1>3, <1>4, <1>5
     DEF Next, Step, Create, SwitchOn, SwitchOff, Delete, DeleteSweep, EmitCheck,
         EmitCommit, Suspend, Reactivate, Prune, Tick, StartPass, CheckBudget, Post,
         Answered, Disable, procVars, vars

LEMMA InUseStep == LadderInv /\ InUse /\ [Next]_vars => InUse'
<1> SUFFICES ASSUME LadderInv, InUse, [Next]_vars, NEW p \in Procs, NEW r \in claimed'[p]
             PROVE  row'[r].st # "unused"
  BY DEF InUse
<1>1. r \in claimed[p] \/ (r \in Rows /\ (Pending(r) \/ Pending(r)'))
  BY NewInHand
<1>2. r \in Rows
  BY <1>1 DEF LadderInv, TypeOK, ProcTypeOK
<1>3. CASE row[r].st # "unused"
  BY <1>2, <1>3, HookKept
<1>4. CASE Pending(r)'
  BY <1>4 DEF Pending
<1>. QED BY <1>1, <1>3, <1>4 DEF InUse, Pending

(* A pass about to post was about to before the step, or has just read     *)
(* that it may.                                                            *)
LEMMA PostIsRead ==
  ASSUME LadderInv, [Next]_vars, NEW p \in Drainers, pc'[p] = "post"
  PROVE  /\ cur'[p] = cur[p] /\ cur[p] \in claimed[p]
         /\ pc[p] = "post" \/ (UNCHANGED row /\ MayPost(row[cur[p]].hook))
<1>0. /\ p \in Procs /\ p \notin Pingers
      /\ pc \in [Procs -> PCs] /\ cur \in [Procs -> Rows \cup {0}]
      /\ pc[p] \in {"read", "post"} => cur[p] \in claimed[p]
  BY OutboxAssumption DEF LadderInv, TypeOK, ProcTypeOK, HandsOK, Procs
<1>1. CASE UNCHANGED <<pc, cur>>
  BY <1>0, <1>1
<1>2. ASSUME NEW q \in Procs,
             \/ Step(q) \/ Crash(q) \/ (q \in Drainers /\ (StartPass(q) \/ Claim(q)))
      PROVE  /\ q # p => pc'[p] = pc[p] /\ cur'[p] = cur[p]
             /\ q = p => pc[p] = "read" /\ UNCHANGED <<row, cur>> /\ MayPost(row[cur[p]].hook)
  <2>1. ASSUME q # p PROVE pc'[p] = pc[p] /\ cur'[p] = cur[p]
    BY <1>0, <1>2, <2>1
       DEF Step, StartPass, Claim, CheckBudget, ReadHook, Release, Post, Answered,
           SettleRow, HookOk, HookFail, Disable, FailQueue, Crash, NextRow, Stop, Goto
  <2>2. ASSUME q = p PROVE ReadHook(p)
    BY <1>0, <1>2, <2>2
       DEF Step, StartPass, Claim, CheckBudget, Release, Post, Answered,
           SettleRow, HookOk, HookFail, Disable, FailQueue, Crash, NextRow, Stop, Goto
  <2>3. ASSUME q = p
        PROVE  pc[p] = "read" /\ UNCHANGED <<row, cur>> /\ MayPost(row[cur[p]].hook)
    BY <1>0, <2>2, <2>3 DEF ReadHook, NextRow, Stop, Goto
  <2>. QED BY <2>1, <2>3
<1>3. ASSUME NEW q \in Pingers, NEW h \in Hooks, Ping(q, h)
      PROVE  pc'[p] = pc[p] /\ cur'[p] = cur[p]
  BY <1>0, <1>3 DEF Ping, Goto
<1>. QED
  BY <1>0, <1>1, <1>2, <1>3
     DEF Next, Create, SwitchOn, SwitchOff, Delete, DeleteSweep, EmitCheck,
         EmitCommit, Suspend, Reactivate, Prune, Tick, procVars, vars, Procs

LEMMA PostedLateStep == LateInv /\ [LateNext]_<<vars, late>> => PostedLate'
<1> SUFFICES ASSUME LateInv, [LateNext]_<<vars, late>> PROVE PostedLate'
  OBVIOUS
<1>. USE DEF LateInv, PostedLate
<1>1. CASE UNCHANGED <<vars, late>>
  BY <1>1 DEF Stopped, On, vars
<1>2. CASE LateNext
  <2>1. ASSUME NEW p \in Drainers, NEW h \in Hooks
        PROVE  late'[p][h] = IF Resumed(h) THEN 0
                             ELSE late[p][h] + IF Starts(p, h) /\ Stopped(h) THEN 1 ELSE 0
    BY <1>2 DEF LateNext
  <2>2. ASSUME NEW p \in Drainers, NEW h \in Hooks, Starts(p, h), Stopped(h)
        PROVE  late[p][h] = 0
    BY <2>2 DEF Starts
  <2>3. ASSUME NEW p \in Drainers, NEW h \in Hooks
        PROVE  late'[p][h] \in {0, 1}
    BY <2>1, <2>2
  <2>4. late' \in [Drainers -> [Hooks -> {0, 1}]]
    <3>1. /\ late' = [p \in Drainers |-> late'[p]]
          /\ \A p \in Drainers : late'[p] = [h \in Hooks |-> late'[p][h]]
      BY <1>2 DEF LateNext
    <3>. QED BY <2>3, <3>1
  <2>5. ASSUME NEW p \in Drainers, NEW h \in Hooks, late'[p][h] = 1
        PROVE  Stopped(h)' /\ ~(pc'[p] = "post" /\ row'[cur'[p]].hook = h)
    <3>1. ~Resumed(h) /\ Stopped(h)
      BY <2>1, <2>5
    <3>2. Stopped(h)'
      BY <3>1 DEF Resumed
    <3>3. CASE Starts(p, h)
      BY <3>2, <3>3 DEF Starts
    <3>4. ASSUME ~Starts(p, h), pc'[p] = "post", row'[cur'[p]].hook = h PROVE FALSE
      <4>1. late[p][h] = 1
        BY <2>1, <2>5, <3>1, <3>4
      <4>2. /\ cur'[p] = cur[p] /\ cur[p] \in claimed[p]
            /\ pc[p] = "post" \/ (UNCHANGED row /\ MayPost(row[cur[p]].hook))
        BY <1>2, <3>4, PostIsRead DEF LateNext
      <4>3. p \in Procs /\ cur[p] \in Rows /\ row[cur[p]].st # "unused"
        BY <4>2 DEF InUse, LadderInv, TypeOK, ProcTypeOK, Procs
      <4>4. row[cur[p]].hook = h
        BY <1>2, <3>4, <4>2, <4>3, HookKept DEF LateNext
      <4>. QED BY <3>1, <4>1, <4>2, <4>4 DEF MayPost, Stopped
    <3>. QED BY <3>2, <3>3, <3>4
  <2>. QED BY <2>4, <2>5
<1>. QED BY <1>1, <1>2

(* Whatever was already read and posted, a hook that was switched off or   *)
(* deleted, or whose household was suspended, gets one more post of each   *)
(* pass at most, however short the lease is: _send is reached only through *)
(* a fresh read of the hook and the status.                                *)
THEOREM OneLate == LateSpec => []OneLatePost
<1>1. LateInit => LateInv
  <2>. SUFFICES ASSUME LateInit PROVE LateInv
    OBVIOUS
  <2>1. InUse
    BY DEF LateInit, Init, InUse
  <2>2. PostedLate
    BY DEF LateInit, PostedLate
  <2>. QED BY <2>1, <2>2, InitLadderInv DEF LateInit, LateInv
<1>2. LateInv /\ [LateNext]_<<vars, late>> => LateInv'
  <2>. SUFFICES ASSUME LateInv, [LateNext]_<<vars, late>> PROVE LateInv'
    OBVIOUS
  <2>1. [Next]_vars
    BY DEF LateNext
  <2>. QED BY <2>1, LadderInvStep, InUseStep, PostedLateStep DEF LateInv
<1>3. LateInv => OneLatePost
  BY DEF LateInv, PostedLate, OneLatePost
<1>. QED BY <1>1, <1>2, <1>3, PTL DEF LateSpec
==============================================================================
