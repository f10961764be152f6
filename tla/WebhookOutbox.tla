--------------------------- MODULE WebhookOutbox ---------------------------
(***************************************************************************)
(* The outbound-webhook outbox of one household                            *)
(* (server/oikonome/notify/webhooks.py).                                   *)
(*                                                                         *)
(* Whatever observed an event queues a row for each listening webhook; the *)
(* worker's drain passes claim due rows under a lease, re-read the hook    *)
(* before each post, post with no database connection held, and settle the *)
(* attempt with a compare-and-set on the attempt count.  The Settings      *)
(* "test" button runs the same send and settle on a row of its own.        *)
(*                                                                         *)
(* Tenant connections are autocommit, so every SQL statement is a step of  *)
(* its own and a process may die between any two of them.                  *)
(*                                                                         *)
(* Time is relative: due[r] is the time left until row r may be claimed    *)
(* (negative: overdue), elapsed[p] the time since process p read its clock,*)
(* timer[p] the time left for the step p is in.  Tick moves them together. *)
(***************************************************************************)
EXTENDS Integers, FiniteSets

CONSTANTS
  Hooks,        \* webhook ids
  NoHook,       \* the hook of a row not yet written
  Rows,         \* delivery ids, in the order they are created
  Drainers,     \* processes that run drain passes (one pass at a time each)
  Pingers,      \* requests behind the "test" button
  MaxAttempts,  \* MAX_ATTEMPTS, the length of the retry ladder
  DisableAfter, \* DISABLE_AFTER, consecutive failures that switch a hook off
  Backoff,      \* the ladder: attempt that failed -> wait before the next
  Batch,        \* BATCH, rows one pass claims
  Lease,        \* LEASE, how far a claim moves a row's due time
  Budget,       \* TENANT_BUDGET, how long a pass keeps starting posts
  Deadline,     \* DEADLINE, how long one post may take
  StepTime,     \* how long the database work between two posts may take
  MaxOverdue,   \* bound: overdue time is not counted further than this
  MaxCrashes    \* bound: processes lost in one behaviour

Procs == Drainers \cup Pingers

(* The longest a pass can live: the last post starts just inside the       *)
(* budget, after a read; it is settled, and the rest is handed back.       *)
PassMax == Budget + Deadline + 3 * StepTime

ASSUME OutboxAssumption ==
  /\ NoHook \notin Hooks
  /\ Rows \subseteq Nat \ {0}
  /\ Drainers \cap Pingers = {}
  /\ MaxAttempts \in Nat \ {0}
  /\ DisableAfter \in Nat \ {0}
  /\ Backoff \in [1 .. MaxAttempts - 1 -> Nat \ {0}]
  /\ Batch \in Nat \ {0}
  /\ Lease \in Nat /\ Budget \in Nat /\ Deadline \in Nat /\ StepTime \in Nat
  /\ MaxOverdue \in Nat /\ MaxCrashes \in Nat
  /\ MaxOverdue >= StepTime

(* "far past TENANT_BUDGET + DEADLINE, so a pass that is still sending     *)
(* never sees its rows come due under it".  A worker that stalls in its    *)
(* database work breaks this; the rows then rest on _settle's compare-and- *)
(* set alone, and MCWebhookStall checks that case.                         *)
LeaseOutlastsPass == Lease > PassMax

VARIABLES
  hook,      \* Hooks -> [st, failures]: the webhooks table
  household, \* tenants.status, "active" or "suspended"
  row,       \* Rows -> [st, hook, attempts, due]: webhook_deliveries
  emitting,  \* hooks whose queueing INSERT passed its check, not committed
  deleting,  \* hooks gone whose delete() has not swept their rows yet
  pc, elapsed, timer, \* per process: where it is and its time
  claimed,   \* per process: rows it claimed and has not finished
  seen,      \* per process: [attempts, due] of each claimed row, as read
  cur,       \* per process: the row being attempted
  answer,    \* per process: outcome of the post, "ok" or "fail"
  crashes

dbVars == <<hook, household, row, emitting, deleting>>
procVars == <<pc, elapsed, timer, claimed, seen, cur, answer>>
vars == <<hook, household, row, emitting, deleting, pc, elapsed, timer,
          claimed, seen, cur, answer, crashes>>

------------------------------------------------------------------------------
(* The tables.                                                             *)

HookStates == {"unmade", "on", "off", "deleted"}
RowStates  == {"unused", "pending", "delivered", "failed", "pruned"}
PCs == {"idle", "claim", "check", "read", "post", "sending", "settle",
        "hookOk", "hookFail", "disable", "failQueue", "release"}

Exists(h)  == hook[h].st \in {"on", "off"}
On(h)      == hook[h].st = "on"
Pending(r) == row[r].st = "pending"
Settled(r) == row[r].st \in {"delivered", "failed"}

UnusedRow == [st |-> "unused", hook |-> NoHook, attempts |-> 0, due |-> 0]
NothingSeen == [attempts |-> 0, due |-> 0]

(* The row a queueing INSERT creates: ids are taken in creation order.     *)
IsNextRow(r) == /\ row[r].st = "unused"
                /\ \A q \in Rows : row[q].st = "unused" => r <= q

RowWith(r, st, attempts, due) ==
  [st |-> st, hook |-> row[r].hook, attempts |-> attempts, due |-> due]

NewRow(h, due) == [st |-> "pending", hook |-> h, attempts |-> 0, due |-> due]

Floor(t) == IF t < -MaxOverdue THEN -MaxOverdue ELSE t

(* Oldest first: ORDER BY next_attempt_at, created_at.                     *)
Before(a, b, due) == \/ due[a] < due[b]
                     \/ due[a] = due[b] /\ a <= b

------------------------------------------------------------------------------
Init ==
  /\ hook = [h \in Hooks |-> [st |-> "unmade", failures |-> 0]]
  /\ household = "active"
  /\ row = [r \in Rows |-> UnusedRow]
  /\ emitting = {} /\ deleting = {}
  /\ pc = [p \in Procs |-> "idle"]
  /\ elapsed = [p \in Procs |-> 0]
  /\ timer = [p \in Procs |-> 0]
  /\ claimed = [p \in Procs |-> {}]
  /\ seen = [p \in Procs |-> [r \in Rows |-> NothingSeen]]
  /\ cur = [p \in Procs |-> 0]
  /\ answer = [p \in Procs |-> "none"]
  /\ crashes = 0

------------------------------------------------------------------------------
(* Managing hooks: the owner's doors, and pause_for_rotation.              *)

Create(h) ==
  /\ hook[h].st = "unmade"
  /\ hook' = [hook EXCEPT ![h] = [st |-> "on", failures |-> 0]]
  /\ UNCHANGED <<household, row, emitting, deleting, procVars, crashes>>

(* update(enabled=True): the one signal that the receiver is worth trying. *)
SwitchOn(h) ==
  /\ Exists(h)
  /\ hook' = [hook EXCEPT ![h] = [st |-> "on", failures |-> 0]]
  /\ UNCHANGED <<household, row, emitting, deleting, procVars, crashes>>

(* update(enabled=False), and pause_for_rotation: the queue is kept.       *)
SwitchOff(h) ==
  /\ On(h)
  /\ hook' = [hook EXCEPT ![h].st = "off"]
  /\ UNCHANGED <<household, row, emitting, deleting, procVars, crashes>>

(* delete(): the hook first, its deliveries in a second statement.         *)
Delete(h) ==
  /\ Exists(h)
  /\ hook' = [hook EXCEPT ![h].st = "deleted"]
  /\ deleting' = deleting \cup {h}
  /\ UNCHANGED <<household, row, emitting, procVars, crashes>>

Gone(r) == RowWith(r, "pruned", row[r].attempts, 0)

DeleteSweep(h) ==
  /\ h \in deleting
  /\ deleting' = deleting \ {h}
  /\ row' = [r \in Rows |->
       IF row[r].hook = h /\ row[r].st # "unused" THEN Gone(r) ELSE row[r]]
  /\ UNCHANGED <<hook, household, emitting, procVars, crashes>>

Suspend ==
  /\ household = "active"
  /\ household' = "suspended"
  /\ UNCHANGED <<hook, row, emitting, deleting, procVars, crashes>>

Reactivate ==
  /\ household = "suspended"
  /\ household' = "active"
  /\ UNCHANGED <<hook, row, emitting, deleting, procVars, crashes>>

------------------------------------------------------------------------------
(* The outbox.                                                             *)

(* emit: the INSERT re-checks that the hook is enabled as it runs, and     *)
(* commits later; a delete can land in between.                            *)
EmitCheck(h) ==
  /\ On(h)
  /\ h \notin emitting
  /\ emitting' = emitting \cup {h}
  /\ UNCHANGED <<hook, household, row, deleting, procVars, crashes>>

EmitCommit(h) ==
  /\ h \in emitting
  /\ emitting' = emitting \ {h}
  /\ \E r \in Rows : IsNextRow(r) /\ row' = [row EXCEPT ![r] = NewRow(h, 0)]
  /\ UNCHANGED <<hook, household, deleting, procVars, crashes>>

Orphan(r) == row[r].st # "unused" /\ ~Exists(row[r].hook)

(* prune: settled rows past the retention, and rows whose hook is gone.    *)
(* Any settled row may be old enough; the retention (a week) outlasts      *)
(* every pass, so none of them is in a pass's hands.                       *)
Prune ==
  /\ \E old \in SUBSET {r \in Rows : Settled(r) /\ \A p \in Procs : r \notin claimed[p]} :
       row' = [r \in Rows |->
                 IF r \in old \/ Orphan(r) THEN Gone(r) ELSE row[r]]
  /\ row' # row
  /\ UNCHANGED <<hook, household, emitting, deleting, procVars, crashes>>

------------------------------------------------------------------------------
(* One process's steps.                                                    *)

Goto(p, to, time) ==
  /\ pc' = [pc EXCEPT ![p] = to]
  /\ timer' = [timer EXCEPT ![p] = time]

(* A process that is done forgets everything it had read.                  *)
Stop(p) ==
  /\ Goto(p, "idle", 0)
  /\ elapsed' = [elapsed EXCEPT ![p] = 0]
  /\ claimed' = [claimed EXCEPT ![p] = {}]
  /\ seen' = [seen EXCEPT ![p] = [r \in Rows |-> NothingSeen]]
  /\ cur' = [cur EXCEPT ![p] = 0]
  /\ answer' = [answer EXCEPT ![p] = "none"]

(* The row in hand is finished: the next one, or the end of the pass.  A   *)
(* test button has just the one.                                           *)
NextRow(p) ==
  IF p \in Pingers \/ claimed[p] = {cur[p]}
  THEN Stop(p)
  ELSE /\ Goto(p, "check", 0)
       /\ claimed' = [claimed EXCEPT ![p] = @ \ {cur[p]}]
       /\ seen' = [seen EXCEPT ![p][cur[p]] = NothingSeen]
       /\ cur' = [cur EXCEPT ![p] = 0]
       /\ answer' = [answer EXCEPT ![p] = "none"]
       /\ UNCHANGED elapsed

(* Fault: a claim that takes first attempts only.                          *)
DueOnce(r, age) == /\ Pending(r) /\ row[r].due <= -age /\ On(row[r].hook)
                   /\ row[r].attempts = 0

(* Due by the clock the pass read at its start.                            *)
Due(r, age) == Pending(r) /\ row[r].due <= -age /\ On(row[r].hook)

(* The minute cron lists households with a due row and starts a pass.      *)
StartPass(p) ==
  /\ pc[p] = "idle"
  /\ household = "active"
  /\ \E r \in Rows : Pending(r) /\ row[r].due <= 0
  /\ Goto(p, "claim", StepTime)
  /\ UNCHANGED <<dbVars, elapsed, claimed, seen, cur, answer, crashes>>

(* The rows one claim takes: the Batch oldest that are due, of an enabled  *)
(* hook of an active household.                                            *)
IsClaim(S, age) ==
  LET due == {r \in Rows : household = "active" /\ Due(r, age)}
      at  == [r \in Rows |-> row[r].due]
  IN  /\ S \subseteq due
      /\ Cardinality(S) <= Batch
      /\ due # S => Cardinality(S) = Batch
      /\ \A r \in S, q \in due \ S : Before(r, q, at)

(* Fault: a claim that leaves the row due.                                 *)
Unleased(p, r) == row[r]

Leased(p, r) == [row[r] EXCEPT !.due = Lease - elapsed[p]]

(* _claim: one statement picks the rows and moves them a lease ahead.      *)
Claim(p) ==
  /\ pc[p] = "claim"
  /\ \E S \in SUBSET Rows :
       /\ IsClaim(S, elapsed[p])
       /\ IF S = {}
          THEN Stop(p) /\ UNCHANGED row
          ELSE /\ row' = [r \in Rows |-> IF r \in S THEN Leased(p, r) ELSE row[r]]
               /\ claimed' = [claimed EXCEPT ![p] = S]
               /\ seen' = [seen EXCEPT ![p] = [r \in Rows |->
                   IF r \in S THEN [attempts |-> row[r].attempts, due |-> row[r].due]
                              ELSE NothingSeen]]
               /\ Goto(p, "check", 0)
               /\ UNCHANGED <<elapsed, cur, answer>>
  /\ UNCHANGED <<hook, household, emitting, deleting, crashes>>

OldestClaimed(p, r) ==
  /\ r \in claimed[p]
  /\ \A q \in claimed[p] : Before(r, q, [x \in Rows |-> seen[p][x].due])

(* The loop head: past the budget the rest is handed back untried.         *)
CheckBudget(p) ==
  /\ pc[p] = "check"
  /\ IF elapsed[p] >= Budget
     THEN Goto(p, "release", StepTime) /\ UNCHANGED cur
     ELSE /\ Goto(p, "read", StepTime)
          /\ \E r \in Rows : OldestClaimed(p, r) /\ cur' = [cur EXCEPT ![p] = r]
  /\ UNCHANGED <<dbVars, elapsed, claimed, seen, answer, crashes>>

(* Fault: any pending row is taken for the attempt that was read.          *)
AnyAttempt(p, r) == Pending(r)

(* WHERE state = 'pending' AND attempts = ...                              *)
SameAttempt(p, r) == Pending(r) /\ row[r].attempts = seen[p][r].attempts

(* _release of one row: due again when it was due, no attempt counted.     *)
Released(p, r) ==
  IF SameAttempt(p, r)
  THEN row' = [row EXCEPT ![r].due = Floor(seen[p][r].due - elapsed[p])]
  ELSE UNCHANGED row

(* Fault: what the claim read is taken to hold still.                      *)
MightPost(h) == Exists(h)

MayPost(h) == household = "active" /\ On(h)

(* The hook and the household's status, read again before every post.      *)
ReadHook(p) ==
  /\ pc[p] = "read"
  /\ LET h == row[cur[p]].hook IN
     \/ /\ Exists(h) /\ household # "active"
        /\ Goto(p, "release", StepTime)
        /\ cur' = [cur EXCEPT ![p] = 0]
        /\ UNCHANGED <<row, elapsed, claimed, seen, answer>>
     \/ /\ ~Exists(h) \/ (household = "active" /\ ~On(h))
        /\ Released(p, cur[p])
        /\ NextRow(p)
     \/ /\ MayPost(h)
        /\ Goto(p, "post", timer[p])
        /\ UNCHANGED <<row, elapsed, claimed, seen, cur, answer>>
     \/ /\ MayPost(h)                         \* secret unreadable
        /\ Goto(p, "settle", StepTime)
        /\ answer' = [answer EXCEPT ![p] = "fail"]
        /\ UNCHANGED <<row, elapsed, claimed, seen, cur>>
  /\ UNCHANGED <<hook, household, emitting, deleting, crashes>>

(* Handing rows back, one UPDATE each.                                     *)
Release(p) ==
  /\ pc[p] = "release"
  /\ \E r \in Rows :
       /\ OldestClaimed(p, r)
       /\ Released(p, r)
       /\ IF claimed[p] = {r}
          THEN Stop(p)
          ELSE /\ claimed' = [claimed EXCEPT ![p] = @ \ {r}]
               /\ seen' = [seen EXCEPT ![p][r] = NothingSeen]
               /\ UNCHANGED <<pc, timer, elapsed, cur, answer>>
  /\ UNCHANGED <<hook, household, emitting, deleting, crashes>>

(* _send: the URL policy may refuse, else the request goes out.            *)
Post(p) ==
  /\ pc[p] = "post"
  /\ \/ Goto(p, "sending", Deadline) /\ UNCHANGED answer
     \/ /\ Goto(p, "settle", StepTime)
        /\ answer' = [answer EXCEPT ![p] = "fail"]
  /\ UNCHANGED <<dbVars, elapsed, claimed, seen, cur, crashes>>

Answered(p) ==
  /\ pc[p] = "sending"
  /\ \E a \in {"ok", "fail"} : answer' = [answer EXCEPT ![p] = a]
  /\ Goto(p, "settle", StepTime)
  /\ UNCHANGED <<dbVars, elapsed, claimed, seen, cur, crashes>>

(* ping_prepare: a row of its own, written already leased, for any hook    *)
(* that exists.                                                            *)
Ping(p, h) ==
  /\ pc[p] = "idle"
  /\ Exists(h)
  /\ \E r \in Rows :
       /\ IsNextRow(r)
       /\ row' = [row EXCEPT ![r] = NewRow(h, Lease)]
       /\ claimed' = [claimed EXCEPT ![p] = {r}]
       /\ cur' = [cur EXCEPT ![p] = r]
  /\ \/ Goto(p, "post", StepTime) /\ UNCHANGED answer
     \/ /\ Goto(p, "settle", StepTime)        \* secret unreadable
        /\ answer' = [answer EXCEPT ![p] = "fail"]
  /\ UNCHANGED <<hook, household, emitting, deleting, elapsed, seen, crashes>>

------------------------------------------------------------------------------
(* _settle: four statements, each committed on its own.                    *)

(* Fault: one attempt too many.                                            *)
SettledRowOver(p, r) ==
  LET n == seen[p][r].attempts + 1 IN
  IF answer[p] = "ok" THEN RowWith(r, "delivered", n, 0)
  ELSE IF n > MaxAttempts THEN RowWith(r, "failed", n, 0)
  ELSE RowWith(r, "pending", n, Floor(1 - elapsed[p]))

(* The attempt's outcome, only while the row is still the attempt read.    *)
SettledRow(p, r) ==
  LET n == seen[p][r].attempts + 1 IN
  IF answer[p] = "ok"
  THEN RowWith(r, "delivered", n, 0)
  ELSE IF n >= MaxAttempts
  THEN RowWith(r, "failed", n, 0)
  ELSE RowWith(r, "pending", n, Floor(Backoff[n] - elapsed[p]))

SettleRow(p) ==
  /\ pc[p] = "settle"
  /\ IF SameAttempt(p, cur[p])
     THEN /\ row' = [row EXCEPT ![cur[p]] = SettledRow(p, cur[p])]
          /\ Goto(p, IF answer[p] = "ok" THEN "hookOk" ELSE "hookFail", timer[p])
          /\ UNCHANGED <<elapsed, claimed, seen, cur, answer>>
     ELSE NextRow(p) /\ UNCHANGED row
  /\ UNCHANGED <<hook, household, emitting, deleting, crashes>>

HookOk(p) ==
  /\ pc[p] = "hookOk"
  /\ LET h == row[cur[p]].hook IN
     hook' = IF Exists(h) THEN [hook EXCEPT ![h].failures = 0] ELSE hook
  /\ NextRow(p)
  /\ UNCHANGED <<household, row, emitting, deleting, crashes>>

(* UPDATE ... failures + 1 RETURNING failures, enabled.                    *)
HookFail(p) ==
  /\ pc[p] = "hookFail"
  /\ LET h == row[cur[p]].hook
         n == hook[h].failures + 1
     IN  IF ~Exists(h)
         THEN NextRow(p) /\ UNCHANGED hook
         ELSE /\ hook' = [hook EXCEPT ![h].failures = n]
              /\ IF On(h) /\ n >= DisableAfter
                 THEN /\ Goto(p, "disable", timer[p])
                      /\ UNCHANGED <<elapsed, claimed, seen, cur, answer>>
                 ELSE NextRow(p)
  /\ UNCHANGED <<household, row, emitting, deleting, crashes>>

Disable(p) ==
  /\ pc[p] = "disable"
  /\ LET h == row[cur[p]].hook IN
     hook' = IF Exists(h) THEN [hook EXCEPT ![h].st = "off"] ELSE hook
  /\ Goto(p, "failQueue", timer[p])
  /\ UNCHANGED <<household, row, emitting, deleting, elapsed, claimed, seen,
                 cur, answer, crashes>>

FailQueue(p) ==
  /\ pc[p] = "failQueue"
  /\ row' = [r \in Rows |->
       IF row[r].hook = row[cur[p]].hook /\ Pending(r)
       THEN RowWith(r, "failed", row[r].attempts, 0)
       ELSE row[r]]
  /\ NextRow(p)
  /\ UNCHANGED <<hook, household, emitting, deleting, crashes>>

------------------------------------------------------------------------------
(* A worker killed, a request dropped: nothing in the database moves.      *)
Crash(p) ==
  /\ pc[p] # "idle"
  /\ crashes < MaxCrashes
  /\ crashes' = crashes + 1
  /\ Stop(p)
  /\ UNCHANGED dbVars

(* Time passes while no step is past its time.                             *)
Tick ==
  /\ \A p \in Procs : pc[p] = "idle" \/ timer[p] > 0
  /\ row' = [r \in Rows |->
       IF Pending(r) THEN [row[r] EXCEPT !.due = Floor(@ - 1)] ELSE row[r]]
  /\ elapsed' = [p \in Procs |-> IF pc[p] = "idle" THEN 0 ELSE elapsed[p] + 1]
  /\ timer' = [p \in Procs |-> IF pc[p] = "idle" THEN 0 ELSE timer[p] - 1]
  /\ <<row', elapsed', timer'>> # <<row, elapsed, timer>>
  /\ UNCHANGED <<hook, household, emitting, deleting, pc, claimed, seen, cur,
                 answer, crashes>>

Step(p) ==
  \/ CheckBudget(p) \/ ReadHook(p) \/ Release(p) \/ Post(p) \/ Answered(p)
  \/ SettleRow(p) \/ HookOk(p) \/ HookFail(p) \/ Disable(p) \/ FailQueue(p)

Next ==
  \/ \E h \in Hooks :
       \/ Create(h) \/ SwitchOn(h) \/ SwitchOff(h) \/ Delete(h) \/ DeleteSweep(h)
       \/ EmitCheck(h) \/ EmitCommit(h)
       \/ \E p \in Pingers : Ping(p, h)
  \/ Suspend \/ Reactivate \/ Prune \/ Tick
  \/ \E p \in Drainers : StartPass(p) \/ Claim(p)
  \/ \E p \in Procs : Step(p) \/ Crash(p)

Spec == Init /\ [][Next]_vars

(* The minute cron keeps starting passes, a running process keeps taking   *)
(* steps, and time goes on however often a pass starts; nothing else has   *)
(* to happen.                                                              *)
Fairness ==
  /\ \A p \in Drainers : WF_vars(StartPass(p)) /\ WF_vars(Claim(p))
  /\ \A p \in Procs : WF_vars(Step(p))
  /\ SF_vars(Tick)

FairSpec == Spec /\ Fairness

------------------------------------------------------------------------------
(* Properties.                                                             *)

AfterSettle == {"hookOk", "hookFail", "disable", "failQueue"}

(* The rows whose outcome process p has still to write or hand back.       *)
Open(p) == IF pc[p] \in AfterSettle THEN claimed[p] \ {cur[p]} ELSE claimed[p]

RowType == [st : RowStates, hook : Hooks \cup {NoHook},
            attempts : 0 .. MaxAttempts, due : Int]

(* A process works on a row it claimed, and forgets all of it when done.   *)
HandsOK(p) ==
  /\ pc[p] \in {"read", "post", "sending", "settle"} \cup AfterSettle
       => cur[p] \in claimed[p]
  /\ pc[p] \in {"settle"} \cup AfterSettle => answer[p] # "none"
  /\ pc[p] \in {"idle", "claim"} <=> claimed[p] = {}
  /\ pc[p] = "idle" => seen[p] = [r \in Rows |-> NothingSeen]

DbTypeOK ==
  /\ hook \in [Hooks -> [st : HookStates, failures : Nat]]
  /\ household \in {"active", "suspended"}
  /\ row \in [Rows -> RowType]
  /\ emitting \subseteq Hooks /\ deleting \subseteq Hooks

SeenType == [Rows -> [attempts : 0 .. MaxAttempts, due : Int]]

ProcTypeOK ==
  /\ pc \in [Procs -> PCs]
  /\ elapsed \in [Procs -> Nat]
  /\ timer \in [Procs -> Nat]
  /\ claimed \in [Procs -> SUBSET Rows]
  /\ seen \in [Procs -> SeenType]
  /\ cur \in [Procs -> Rows \cup {0}]
  /\ answer \in [Procs -> {"none", "ok", "fail"}]

(* Every variable stays in its type, a process works on a row it claimed,  *)
(* and a pending delivery has an attempt left: what each statement of      *)
(* webhooks.py goes on to use is there.                                    *)
TypeOK ==
  /\ DbTypeOK
  /\ ProcTypeOK
  /\ crashes \in 0 .. MaxCrashes
  /\ \A p \in Procs : HandsOK(p)
  /\ \A r \in Rows : Pending(r) => row[r].attempts < MaxAttempts

(* No delivery is in the hands of two senders: a row one pass or test      *)
(* button claimed is not claimed by another until its outcome is written,  *)
(* it is handed back, or its holder died (the lease of _claim).            *)
OneSenderPerRow ==
  \A p, q \in Procs : p # q => Open(p) \cap Open(q) = {}

LadderRows == [r \in Rows |-> [st |-> row[r].st, hook |-> row[r].hook,
                               attempts |-> row[r].attempts]]
GoneHooks  == {h \in Hooks : hook[h].st = "deleted"}

Ladder == INSTANCE DeliveryLadder WITH delivery <- LadderRows, gone <- GoneHooks

(* The outbox keeps the promise of DeliveryLadder, however the senders,    *)
(* the switch-off and the owner's doors interleave: an outcome is written  *)
(* once and is final, each attempt counts once, the ladder ends, and       *)
(* nothing pending is lost while its hook exists.                          *)
KeepsLadder == Ladder!Spec

(* No delivery waits for ever behind a hook that stays on in a household   *)
(* that stays active, whatever workers die holding it: the drain reaches   *)
(* it, and the lease of a dead pass lapses.                                *)
NoRowStuck ==
  \A r \in Rows :
    []<>~(Pending(r) /\ On(row[r].hook) /\ household = "active")
============================================================================
