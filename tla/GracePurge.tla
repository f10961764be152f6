----------------------------- MODULE GracePurge -----------------------------
(***************************************************************************)
(* Erasing one household (server/oikonome/erasure.py, jobs/worker.py       *)
(* _purge_one, web/adminconsole.py, web/app.py account_delete,             *)
(* jobs/unverified.py).                                                    *)
(*                                                                         *)
(* A deletion is scheduled with a grace window (by the console, or by the  *)
(* freeze of a signup nobody confirmed) and may be called off.  Once the   *)
(* window is over a purge run claims the household, waits for its writers, *)
(* releases its bank links at Plaid with no row lock held, and erases it   *)
(* if it is still the household it claimed.  Two doors erase at once: the  *)
(* owner's own and the console's.  Background writers try-lock, a          *)
(* collector's push shares the push lock and re-reads the status.          *)
(*                                                                         *)
(* Every SQL statement is a step unless the code puts it in a transaction. *)
(* Of what the household holds outside, the Plaid Items are modelled.      *)
(***************************************************************************)
EXTENDS Naturals, FiniteSets

CONSTANTS
  Purgers,     \* runs of purge_scheduled_deletions that may overlap
  Doors,       \* requests at the doors that erase at once
  Sweepers,    \* background writers: list active households, then try-lock
  Pushers,     \* collector pushes, authenticated before they write
  Items,       \* the household's Plaid Items
  MaxCrashes,  \* bound: erasers killed or raising in one behaviour
  MaxFailures, \* bound: best-effort writes that fail
  MaxOutages   \* bound: releases that fail as a whole

Erasers == Purgers \cup Doors
Writers == Sweepers \cup Pushers

ASSUME PurgeAssumption ==
  /\ Purgers \cap Doors = {} /\ Sweepers \cap Pushers = {}
  /\ Erasers \cap Writers = {}
  /\ {"none", "free"} \cap (Erasers \cup Writers) = {}
  /\ MaxCrashes \in Nat /\ MaxFailures \in Nat /\ MaxOutages \in Nat

VARIABLES
  tenant,    \* [st, prev, due, claim, stale]: the tenants row
  money,     \* a payment or a gift is attached to the household
  proven,    \* somebody in the household has confirmed an address
  item,      \* Items -> [row, vendor, stamped, queued, marked]
  books,     \* the household's rows: there, erased, or written back and how
  lock,      \* the writer locks held alone: "sync" (one of the try-locks), "push"
  pc, run,   \* per process: where it is; per eraser: what it has read
  archiving, \* the restore door has yet to archive what a purge released
  crashes, failures, outages

ownVars == <<money, proven>>
faultVars == <<crashes, failures, outages>>
vars == <<tenant, money, proven, item, books, lock, pc, run, archiving, crashes,
          failures, outages>>

------------------------------------------------------------------------------
Gone       == tenant.st = "erased"
Frozen     == tenant.st \in {"pending", "unverified"}
DueNow     == Frozen /\ tenant.due = "past"
Rows       == {i \in Items : item[i].row # "none"}
Connected  == {i \in Items : item[i].row = "live"}   \* it holds its token
Dead       == {i \in Connected : ~item[i].vendor}    \* and Plaid has it no more

Tenant(st, prev, due) == [st |-> st, prev |-> prev, due |-> due,
                          claim |-> tenant.claim, stale |-> tenant.stale]
ClaimedBy(t, p) == [st |-> t.st, prev |-> t.prev, due |-> t.due,
                    claim |-> p, stale |-> FALSE]
NotClaimed(t) == ClaimedBy(t, "none")

(* Back to the status from before, COALESCE(status_before_delete, active). *)
Restored ==
  Tenant(IF tenant.prev = "none" THEN "open" ELSE tenant.prev, "none", "none")

NothingRead == [base |-> FALSE, todo |-> {}, failed |-> {}, short |-> FALSE]

Init ==
  /\ tenant = [st |-> "open", prev |-> "none", due |-> "none",
               claim |-> "none", stale |-> FALSE]
  /\ money = FALSE /\ proven = FALSE
  /\ item = [i \in Items |-> [row |-> "live", vendor |-> TRUE, stamped |-> FALSE,
                              queued |-> FALSE, marked |-> FALSE]]
  /\ books = "kept"
  /\ lock = [k \in {"sync", "push"} |-> "free"]
  /\ pc = [p \in Erasers \cup Writers |-> "idle"]
  /\ run = [e \in Erasers |-> NothingRead]
  /\ archiving = FALSE
  /\ crashes = 0 /\ failures = 0 /\ outages = 0

------------------------------------------------------------------------------
(* The doors that schedule a deletion, call it off, or pay.                *)

OnTenant(t) ==
  /\ tenant' = t
  /\ UNCHANGED <<ownVars, item, books, lock, pc, run, archiving, faultVars>>

(* Console, grace mode: the status from before is kept only the first time.*)
Schedule ==
  /\ ~Gone
  /\ LET prev == IF tenant.st = "pending" THEN tenant.prev ELSE tenant.st
     IN  OnTenant(Tenant("pending", prev, "ahead"))

(* _freeze: nobody ever confirmed, and nothing was paid.                   *)
Freeze ==
  /\ tenant.st = "open" /\ ~money /\ ~proven
  /\ OnTenant(Tenant("unverified", "open", "ahead"))

(* confirm and reopen: whoever has proved the address lifts the freeze,    *)
(* and an address once proved is never frozen for again.                   *)
Reopen ==
  /\ tenant.st = "unverified"
  /\ tenant' = Restored
  /\ proven' = TRUE
  /\ UNCHANGED <<money, item, books, lock, pc, run, archiving, faultVars>>

(* tenant_restore: refused while a purge's claim is fresh; a stale claim   *)
(* is cleared, and what its purge had released is archived afterwards.     *)
Restore ==
  /\ Frozen /\ ~archiving
  /\ tenant.claim = "none" \/ tenant.stale
  /\ tenant' = NotClaimed(Restored)
  /\ archiving' = tenant.stale
  /\ UNCHANGED <<ownVars, item, books, lock, pc, run, faultVars>>

Pay ==
  /\ ~Gone /\ ~money
  /\ money' = TRUE
  /\ UNCHANGED <<tenant, proven, item, books, lock, pc, run, archiving, faultVars>>

(* The grace window (a week) outlasts every purge, wipe and push.          *)
PastDue ==
  /\ Frozen /\ tenant.due = "ahead"
  /\ \A p \in Erasers \cup Writers : pc[p] = "idle"
  /\ OnTenant(Tenant(tenant.st, tenant.prev, "past"))

(* PURGE_CLAIM_STALE_HOURS outlast every purge that is still running.      *)
GoesStale ==
  /\ tenant.claim # "none" /\ ~tenant.stale /\ pc[tenant.claim] = "idle"
  /\ OnTenant([tenant EXCEPT !.stale = TRUE])

------------------------------------------------------------------------------
(* The household's Items.                                                  *)

(* Fault: what was released is left looking connected.                     *)
NotArchived == item

(* archive_released_plaid_items: by the ledger's stamp.                    *)
Archived ==
  [i \in Items |-> IF i \in Connected /\ item[i].stamped
                   THEN [item[i] EXCEPT !.row = "archived"] ELSE item[i]]

ArchiveRestored ==
  /\ archiving
  /\ archiving' = FALSE
  /\ \/ item' = Archived /\ UNCHANGED failures
     \/ failures < MaxFailures /\ failures' = failures + 1 /\ UNCHANGED item
  /\ UNCHANGED <<tenant, ownVars, books, lock, pc, run, crashes, outages>>

(* retry_queued_releases: an Item some household holds leaves the queue,   *)
(* another is removed at Plaid, if Plaid answers.                          *)
Retry(i) ==
  /\ item[i].queued
  /\ item' = [item EXCEPT ![i] =
       IF i \in Connected THEN [@ EXCEPT !.queued = FALSE]
       ELSE [@ EXCEPT !.queued = FALSE, !.vendor = FALSE, !.stamped = TRUE]]
  /\ UNCHANGED <<tenant, ownVars, books, lock, pc, run, archiving, faultVars>>

------------------------------------------------------------------------------
(* An eraser's way in: a purge's claim, or a door.                         *)

Goto(p, to) == pc' = [pc EXCEPT ![p] = to]

(* Fault: a claim that is still held is taken over.                        *)
AnyDue == DueNow

(* Fault: a claim left by a killed worker is never taken over.             *)
UnclaimedDue == DueNow /\ tenant.claim = "none"

(* Still frozen, still due, and in no live run's hands.                    *)
MayClaim == DueNow /\ (tenant.claim = "none" \/ tenant.stale)

(* Phase 1: the stamp, and what was attached then, in one transaction.     *)
Claim(p) ==
  /\ pc[p] = "idle" /\ MayClaim
  /\ tenant' = ClaimedBy(tenant, p)
  /\ run' = [run EXCEPT ![p].base = (tenant.st = "pending" \/ money)]
  /\ Goto(p, "holdSync")
  /\ UNCHANGED <<ownVars, item, books, lock, archiving, faultVars>>

(* account_delete: proved while the household was open, flips it later.   *)
OwnerAsks(d) ==
  /\ d \in Doors /\ pc[d] = "idle" /\ tenant.st = "open"
  /\ Goto(d, "flip")
  /\ UNCHANGED <<tenant, ownVars, item, books, lock, run, archiving, faultVars>>

Flip(d) ==
  /\ pc[d] = "flip"
  /\ tenant' = IF Gone THEN tenant ELSE Tenant("pending", tenant.prev, "past")
  /\ Goto(d, "holdSync")
  /\ UNCHANGED <<ownVars, item, books, lock, run, archiving, faultVars>>

(* tenant_delete's immediate mode: whatever the household's status.        *)
ConsoleErases(d) ==
  /\ d \in Doors /\ pc[d] = "idle" /\ ~Gone
  /\ Goto(d, "holdSync")
  /\ UNCHANGED <<tenant, ownVars, item, books, lock, run, archiving, faultVars>>

(* hold_writers: each lock waited for, always in the same order.           *)
HoldSync(e) ==
  /\ pc[e] = "holdSync" /\ lock["sync"] = "free"
  /\ lock' = [lock EXCEPT !["sync"] = e]
  /\ Goto(e, "holdPush")
  /\ UNCHANGED <<tenant, ownVars, item, books, run, archiving, faultVars>>

(* A push in its transaction shares the push lock.                         *)
Pushing(w) == w \in Pushers /\ pc[w] \in {"status", "commit"}

(* Fault: the pushes are not waited for.                                   *)
PushLockAlone == lock["push"] = "free"

PushLockFree == lock["push"] = "free" /\ \A w \in Pushers : ~Pushing(w)

HoldPush(e) ==
  /\ pc[e] = "holdPush" /\ PushLockFree
  /\ lock' = [lock EXCEPT !["push"] = e]
  /\ Goto(e, IF e \in Purgers THEN "check" ELSE "list")
  /\ UNCHANGED <<tenant, ownVars, item, books, run, archiving, faultVars>>

(* still_claimed                                                           *)
StillClaimed(p) == DueNow /\ tenant.claim = p

(* unclaim: only this run's own stamp.                                     *)
Unclaimed(p) == IF tenant.claim = p THEN NotClaimed(tenant) ELSE tenant

(* After the wait, and before anything is released.                        *)
Check(p) ==
  /\ pc[p] = "check"
  /\ IF StillClaimed(p)
     THEN Goto(p, "list") /\ UNCHANGED tenant
     ELSE Goto(p, "unlock") /\ tenant' = Unclaimed(p)
  /\ UNCHANGED <<ownVars, item, books, lock, run, archiving, faultVars>>

------------------------------------------------------------------------------
(* Phase 2: release_external, and its marker.                              *)

(* release_tenant_items lists the Items that hold a token; if it cannot,   *)
(* the release as a whole has failed, and with no Plaid keys each Item has.*)
List(e) ==
  /\ pc[e] = "list"
  /\ \/ run' = [run EXCEPT ![e].todo = Connected] /\ UNCHANGED outages
     \/ /\ outages < MaxOutages /\ outages' = outages + 1
        /\ \/ run' = [run EXCEPT ![e].short = TRUE]
           \/ run' = [run EXCEPT ![e].failed = Connected]
  /\ Goto(e, "release")
  /\ UNCHANGED <<tenant, ownVars, item, books, lock, archiving, crashes, failures>>

Released(i)  == [item EXCEPT ![i] = [@ EXCEPT !.vendor = FALSE, !.stamped = TRUE]]
NotStamped(i) == [item EXCEPT ![i].vendor = FALSE]
QueuedItem(i) == [item EXCEPT ![i].queued = TRUE]

(* One Item: its token read again, the Item removed at Plaid and stamped   *)
(* in the ledger, or, if Plaid refuses, queued for the nightly retry.  The *)
(* stamp and the queue are best effort.                                    *)
ReleaseItem(e, i) ==
  LET r == [run[e] EXCEPT !.todo = @ \ {i}] IN
  /\ pc[e] = "release" /\ i \in run[e].todo
  /\ \/ /\ i \notin Connected
        /\ run' = [run EXCEPT ![e] = [r EXCEPT !.short = TRUE]]
        /\ UNCHANGED <<item, failures>>
     \/ /\ i \in Connected
        /\ run' = [run EXCEPT ![e] = r]
        /\ \/ item' = Released(i) /\ UNCHANGED failures
           \/ /\ failures < MaxFailures /\ failures' = failures + 1
              /\ item' = NotStamped(i)
     \/ /\ i \in Connected /\ item[i].vendor
        /\ run' = [run EXCEPT ![e] = [r EXCEPT !.failed = @ \cup {i}]]
        /\ \/ item' = QueuedItem(i) /\ UNCHANGED failures
           \/ failures < MaxFailures /\ failures' = failures + 1 /\ UNCHANGED item
  /\ UNCHANGED <<tenant, ownVars, books, lock, pc, archiving, crashes, outages>>

(* Fault: a release that failed as a whole leaves no marker.               *)
NamedIfEach(e) == run[e].failed

(* The Items the marker names: those that failed, or all there are.        *)
Named(e) == IF run[e].failed = {} /\ run[e].short THEN Rows ELSE run[e].failed

(* record_pending_release: committed on its own, and best effort.          *)
Mark(e) ==
  /\ pc[e] = "release" /\ run[e].todo = {}
  /\ \/ /\ item' = [i \in Items |-> [item[i] EXCEPT !.marked = @ \/ i \in Named(e)]]
        /\ UNCHANGED failures
     \/ /\ Named(e) # {} /\ failures < MaxFailures
        /\ failures' = failures + 1 /\ UNCHANGED item
  /\ Goto(e, "erase")
  /\ UNCHANGED <<tenant, ownVars, books, lock, run, archiving, crashes, outages>>

------------------------------------------------------------------------------
(* Phase 3, one transaction.                                               *)

(* delete_tenant_rows                                                      *)
Wipe ==
  /\ tenant' = [st |-> "erased", prev |-> "none", due |-> "none",
                claim |-> "none", stale |-> FALSE]
  /\ item' = [i \in Items |-> [item[i] EXCEPT !.row = "none"]]
  /\ books' = "erased"
  /\ UNCHANGED failures

(* A hand-back archives what was released, on a connection of its own and  *)
(* as best it can.                                                         *)
HandBack(t) ==
  /\ tenant' = t
  /\ \/ item' = Archived /\ UNCHANGED failures
     \/ failures < MaxFailures /\ failures' = failures + 1 /\ UNCHANGED item
  /\ UNCHANGED books

(* Money that came while the purge ran, for a freeze nobody asked for.     *)
Entitled(p) == ~run[p].base /\ money

Erase(p) ==
  /\ pc[p] = "erase" /\ p \in Purgers
  /\ \/ ~StillClaimed(p) /\ HandBack(Unclaimed(p))
     \/ StillClaimed(p) /\ Entitled(p) /\ HandBack(NotClaimed(Restored))
     \/ StillClaimed(p) /\ ~Entitled(p) /\ Wipe
  /\ Goto(p, "unlock")
  /\ UNCHANGED <<ownVars, lock, run, archiving, crashes, outages>>

(* The doors ask nothing more.                                             *)
EraseNow(d) ==
  /\ pc[d] = "erase" /\ d \in Doors
  /\ Wipe
  /\ Goto(d, "unlock")
  /\ UNCHANGED <<ownVars, lock, run, archiving, crashes, outages>>

Free(e) == [k \in {"sync", "push"} |-> IF lock[k] = e THEN "free" ELSE lock[k]]

Leave(e) ==
  /\ lock' = Free(e)
  /\ run' = [run EXCEPT ![e] = NothingRead]
  /\ Goto(e, "idle")

(* release_writers, or the connection's close.                             *)
Unlock(e) ==
  /\ pc[e] = "unlock"
  /\ Leave(e)
  /\ UNCHANGED <<tenant, ownVars, item, books, archiving, faultVars>>

(* An exception after the claim clears the stamp; a failed wait for the    *)
(* locks keeps those it had until the connection closes.                   *)
Raise(e) ==
  /\ pc[e] \in {"holdSync", "holdPush", "check", "erase"}
  /\ crashes < MaxCrashes /\ crashes' = crashes + 1
  /\ tenant' = IF e \in Purgers THEN Unclaimed(e) ELSE tenant
  /\ Goto(e, "unlock")
  /\ UNCHANGED <<ownVars, item, books, lock, run, archiving, failures, outages>>

(* A worker or a web process killed: its locks go, its stamp stays.        *)
Crash(e) ==
  /\ pc[e] # "idle"
  /\ crashes < MaxCrashes /\ crashes' = crashes + 1
  /\ Leave(e)
  /\ UNCHANGED <<tenant, ownVars, item, books, archiving, failures, outages>>

------------------------------------------------------------------------------
(* The writers.                                                            *)

OnWriter(w, to) ==
  /\ Goto(w, to)
  /\ UNCHANGED <<tenant, ownVars, item, run, archiving, faultVars>>

(* _sweep lists the active households once, and works through the list.    *)
ListActive(w) ==
  /\ w \in Sweepers /\ pc[w] = "idle" /\ tenant.st = "open"
  /\ OnWriter(w, "listed") /\ UNCHANGED <<books, lock>>

(* A writer's try-lock: it skips a household whose lock is held.           *)
TryLock(w) ==
  /\ pc[w] = "listed"
  /\ IF lock["sync"] = "free"
     THEN /\ lock' = [lock EXCEPT !["sync"] = w]
          /\ OnWriter(w, IF Gone THEN "writeLate" ELSE "write")
     ELSE OnWriter(w, "idle") /\ UNCHANGED lock
  /\ UNCHANGED books

(* Rows written to a household that is gone are there for good.            *)
WrittenBack(how) == IF Gone THEN how ELSE books

Write(w) ==
  /\ pc[w] \in {"write", "writeLate"}
  /\ books' = WrittenBack(IF pc[w] = "write" THEN "inFlight" ELSE "late")
  /\ lock' = Free(w)
  /\ OnWriter(w, "idle")

(* A push is authenticated, and opens its transaction later.               *)
Authenticate(w) ==
  /\ w \in Pushers /\ pc[w] = "idle" /\ tenant.st = "open"
  /\ OnWriter(w, "begin") /\ UNCHANGED <<books, lock>>

(* push_may_write: the lock shared, without waiting,                       *)
Begin(w) ==
  /\ pc[w] = "begin"
  /\ OnWriter(w, IF lock["push"] = "free" THEN "status" ELSE "idle")
  /\ UNCHANGED <<books, lock>>

(* Fault: the push trusts what it was authenticated against.               *)
PushTrusted == TRUE

PushMayWrite == tenant.st \notin {"pending", "erased"}

(* and then the status.                                                    *)
ReadStatus(w) ==
  /\ pc[w] = "status"
  /\ OnWriter(w, IF PushMayWrite THEN "commit" ELSE "idle")
  /\ UNCHANGED <<books, lock>>

CommitPush(w) ==
  /\ pc[w] = "commit"
  /\ books' = WrittenBack("pushed")
  /\ OnWriter(w, "idle") /\ UNCHANGED lock

------------------------------------------------------------------------------
Step(e) ==
  \/ Flip(e) \/ HoldSync(e) \/ HoldPush(e) \/ Check(e) \/ List(e)
  \/ \E i \in Items : ReleaseItem(e, i)
  \/ Mark(e) \/ Erase(e) \/ EraseNow(e) \/ Unlock(e)

WriterStep(w) ==
  TryLock(w) \/ Write(w) \/ Begin(w) \/ ReadStatus(w) \/ CommitPush(w)

Next ==
  \/ Schedule \/ Freeze \/ Reopen \/ Restore \/ ArchiveRestored \/ Pay
  \/ PastDue \/ GoesStale
  \/ \E i \in Items : Retry(i)
  \/ \E p \in Purgers : Claim(p)
  \/ \E d \in Doors : OwnerAsks(d) \/ ConsoleErases(d)
  \/ \E e \in Erasers : Step(e) \/ Raise(e) \/ Crash(e)
  \/ \E w \in Writers : ListActive(w) \/ Authenticate(w) \/ WriterStep(w)

Spec == Init /\ [][Next]_vars

(* The nightly run claims what is due, whoever runs takes its steps, a     *)
(* waiter gets its lock in the end (they queue, a try-lock does not jump   *)
(* it), and a dead claim grows stale.                                      *)
Fairness ==
  /\ WF_vars(\E p \in Purgers : Claim(p)) /\ WF_vars(GoesStale)
  /\ \A e \in Erasers :
       WF_vars(Step(e)) /\ SF_vars(HoldSync(e)) /\ SF_vars(HoldPush(e))
  /\ \A w \in Writers : WF_vars(WriterStep(w))

FairSpec == Spec /\ Fairness

------------------------------------------------------------------------------
(* Properties.                                                             *)

Purging == {"holdSync", "holdPush", "check", "list", "release", "erase"}

(* Who holds the writer locks, by where it is.                             *)
HoldsOK ==
  /\ \A e \in Erasers :
       /\ pc[e] \in {"check", "list", "release", "erase"}
            => /\ lock["sync"] = e /\ lock["push"] = e
               /\ \A w \in Pushers : ~Pushing(w)
       /\ pc[e] = "holdPush" => lock["sync"] = e
       /\ pc[e] \in {"idle", "flip", "holdSync"}
            => \A k \in {"sync", "push"} : lock[k] # e
  /\ \A w \in Sweepers : lock["sync"] = w <=> pc[w] \in {"write", "writeLate"}
  /\ lock["push"] \notin Writers

(* Every variable stays in its type, and an eraser past its wait holds     *)
(* every writer lock while no push is in its transaction.                  *)
TypeOK ==
  /\ tenant \in [st : {"open", "unverified", "pending", "erased"},
                 prev : {"none", "open", "unverified"},
                 due : {"none", "ahead", "past"},
                 claim : Purgers \cup {"none"}, stale : BOOLEAN]
  /\ money \in BOOLEAN /\ proven \in BOOLEAN
  /\ item \in [Items -> [row : {"live", "archived", "none"}, vendor : BOOLEAN,
                         stamped : BOOLEAN, queued : BOOLEAN, marked : BOOLEAN]]
  /\ books \in {"kept", "erased", "inFlight", "late", "pushed"}
  /\ lock \in [{"sync", "push"} -> {"free"} \cup Erasers \cup Writers]
  /\ pc \in [Erasers \cup Writers -> {"idle", "flip", "unlock", "listed", "write",
                "writeLate", "begin", "status", "commit"} \cup Purging]
  /\ run \in [Erasers -> [base : BOOLEAN, todo : SUBSET Items,
                          failed : SUBSET Items, short : BOOLEAN]]
  /\ archiving \in BOOLEAN
  /\ crashes \in 0 .. MaxCrashes /\ failures \in 0 .. MaxFailures
  /\ outages \in 0 .. MaxOutages
  /\ HoldsOK

(* "a writer already in flight when the rows go writes them straight back":*)
(* none does.  No writer whose turn began before the wipe, and no push     *)
(* however early it was authenticated, writes to an erased household.      *)
NoneWritesThroughWipe == books \notin {"inFlight", "pushed"}

(* A household that is handed back after its links were released does not  *)
(* look connected, if nothing raised, nobody was killed and no best-effort *)
(* write failed.  (After a kill or a failed write it may: the archiving is *)
(* itself best effort, and a reopen does none.)                            *)
CleanHandBack ==
  tenant.st = "open" /\ crashes = 0 /\ failures = 0
    /\ (\A e \in Erasers : pc[e] = "idle") => Dead = {}

(* An Item that outlives its household at Plaid is named in a pending      *)
(* marker, however often the erasure was begun, killed, taken over and     *)
(* retried, and though Plaid refuses it, its keys are missing or the       *)
(* release fails as a whole (sync/plaid.py: ReleaseCount); only a marker,  *)
(* stamp or queue entry that could itself not be written is excepted.      *)
LeftBillingIsMarked ==
  Gone /\ failures = 0 => \A i \in Items : item[i].vendor => item[i].marked

(* A household that is due is erased or given back in the end, whoever is  *)
(* killed holding it.                                                      *)
DueIsSettled == DueNow ~> ~DueNow

(* "the release queued each one it held a token for, and the nightly retry *)
(* removes them": an Item whose token was there to queue is in the queue   *)
(* once its household is erased, if its release did not fail as a whole.   *)
LeftBillingIsQueued ==
  Gone /\ failures = 0 /\ outages = 0 => \A i \in Items : item[i].vendor => item[i].queued
=============================================================================
