# Oikonome, specified

TLA+ specifications of the parts of [Oikonome](../src/README.md) whose
correctness rests on the order in which several processes touch one
household: modules that model the code, TLC configurations that check them on
small instances, and proofs that TLAPS checks for every instance.

Oikonome is a household-finance server: a FastAPI web process and an arq
worker over one Postgres database in which every domain table carries a
`tenant_id` (a household). Two facts of that design run through every module:

* **tenant connections are autocommit** (`db/tenancy.py`): a function that runs
  four statements commits four times, so anything may happen between two of
  them, a kill included. A statement is therefore one step of a model, unless
  the code opens a transaction;
* **nothing but advisory locks and conditional `UPDATE`s keeps two processes
  apart**: the nightly run, the minute crons, requests, and collectors' pushes
  all run at once and may overlap with themselves.

Everything below is under `src/server/oikonome/` unless it says otherwise.

## What there is

| file | what it is |
|---|---|
| `DeliveryLadder` | what the webhook outbox promises of each delivery (abstract) |
| `WebhookOutbox`, `WebhookOutboxProofs` | the outbox: `notify/webhooks.py` and its minute cron; its theorems |
| `WebhookLate`, `BulkTurn`, `PurgePaid` | `WebhookOutbox`, `BulkImport` and `GracePurge`, each with one history variable for a property about the past |
| `BulkImport`, `BulkImportProofs` | background folder imports: `jobs/bulk_import_job.py`; its theorems |
| `GracePurge`, `GracePurgeProofs` | the erasure of a household: `erasure.py`, `jobs/worker.py` `_purge_one`, the console's doors, the owner's door, `jobs/unverified.py`, the release of Plaid Items; its theorems |
| `PlaidLink`, `PlaidLinkProofs` | link sessions and their Items: `jobs/plaid_links.py`, `sync/plaid.py` `link_item`, `jobs/reaper.py`; its theorems |
| `SyncTurns`, `SyncTurnsProofs` | the sync lock, nudges and first-sync turns: `jobs/worker.py`; its theorems |
| `ChargeLedger`, `ChargeLedgerProofs`, `LedgerAnswersProofs` | what pulls and people write on a household's charges: `sync/base.py`, `sync/plaid.py`, `sync/simplefin.py`, `sync/reanchor.py`, `engine/splits.py`; its theorems about rows, and about what a person wrote on them |
| `EmailSweep`, `EmailSweepProofs` | the scheduled mail of a household: `jobs/worker.py`; its theorems |
| `MC*.tla`, `MC*.cfg` | instances for TLC |

`PROJECT.json` maps each definition to the lines it stands for and lists the
runs, the hazards with the properties that cover them, the findings, and a
faulty variant of the code per property that makes TLC report it. Those
variants are the operators commented `Fault:`; nothing else uses them.

Check a model with `tlc -config MCWebhookLive.cfg MCWebhook`, the proofs with
`tlapm WebhookOutboxProofs.tla` and so on for each `*Proofs` module.

## The system's parts

| part | state it keeps | operations | what is hard | module |
|---|---|---|---|---|
| **Webhook outbox** (`notify/webhooks.py`) | `webhooks`, `webhook_deliveries` | emit, claim, re-read, post, settle, test, prune, owner's switches | passes overlap; answers come late; the owner acts between statements; a pass dies | `WebhookOutbox` |
| **Folder imports** (`jobs/bulk_import_job.py`) | `bulk_import_jobs`, `bulk_import_files`, the sync lock, the PDF slot | submit, cancel, claim, takeover, file turn, settle, stop, finish, expire | takeover of a live worker; waits with checks gone stale; settled by somebody else | `BulkImport` |
| **Erasure** (`erasure.py`, `_purge_one`) | `tenants.status/delete_after/purge_claimed_at`, writer locks, Item ledger, release queue, markers | schedule, freeze, reopen, restore, claim, release, erase, hand back | irreversible vendor calls outside any transaction; writers in flight; two runs | `GracePurge` |
| **Plaid link sessions** (`jobs/plaid_links.py`) | `plaid_link_sessions`, the web process's memory of them, exchanged Items, the release queue | start, poll, finish, exchange, hold, keep, hand back, set aside, forget, sweep | a poll, a webhook, the sweep and a wipe finish one session; a crash between exchange and save | `PlaidLink` |
| **Worker scheduler** (`jobs/worker.py`) | sync lock, nudge, arq jobs, first-sync turns | full sync, first pull, nudge, answer, take, wait, retry | a note left just as the holder lets go; a cancel that meets its thread starting | `SyncTurns` |
| **Sync engine** (`sync/`) | `items.tx_cursor`, `transactions` and what hangs on them | pull a page, settle, retire, save the cursor, reconcile a window, re-anchor, drop stale splits | a pull dies half-way and is replayed; a settlement that half fails; a sweep beside a pull or an edit | `ChargeLedger` |
| **Email** (`worker.py`, `notify/`) | `job_runs`, the email lock | daily and weekly mail, texts, cards | a mail that fails between channels; a zone that moves; a sweep across midnight | `EmailSweep` |
| Push and relay (`notify/push*.py`, `relay/`) | device tokens, quotas | register, send | tokens that lapse | - |
| Restore and export (`sync/restore*.py`, `tenant_export.py`) | `job_progress` | start, merge, finish | a quiet restore claimed again | - |
| Account failover (`engine/links.py`) | which link writes an account | link, fail over, back | two writers of one account | - |
| Sign-in and rotation (`auth/`) | sessions, tokens, single-use links | reset, factor reset, email change and revert | links of an earlier standing spent late | - |
| Tenant layer, migrations (`db/`) | schema, RLS | connect, scope, delete | taken as given | - |
| Importers, PDF sandbox (`sync/*import.py`) | - | parse | pure data | - |
| Engine (`engine/`) | budgets, bills, merchants, reports | compute | pure data; a lock order among merchant writers | - |
| Web app, API, console (`web/`) | - | doors to the above | the doors that matter are actions of their part's module | - |
| Clients, host scripts, integrations | - | - | no household state | - |

They interact through the database only. The erasure must outlast every other
writer (`WRITER_LOCKS`): the folder import, a finisher of a link session and a
sync are such writers and share the sync lock. A finished link queues the
Item's first pull; the release of an erasure hands open link sessions back and
shares the release queue with links; every gate a request meets (status, role,
credential) can change under a background job; the webhook drain reads the
household's status that an erasure flips; the email sweep posts through the
webhook outbox. Each module has what it needs of its neighbours as actions of
its own: `DoorTakes` in `SyncTurns` is every other holder of the lock,
`OtherTakes` in `BulkImport` likewise, `Reset` and `Erase` in `PlaidLink` are
`GracePurge`'s wipe seen from a link session.

### What makes each modelled part correct

* **Outbox.** One sender per delivery while the lease outlasts a pass; a late
  answer neither reopens a delivery nor counts twice; a switch-off is obeyed
  within one post; the ladder ends; nothing waits for ever.
* **Folder import.** A file lands at most once; a settled job keeps its
  outcome; no file starts on permissions read before its wait; jobs settle and
  their bytes go, whatever dies.
* **Erasure.** Nothing is written back through a wipe; a household that is
  handed back does not look connected to banks it was cut off from; a link
  that could not be released is named somewhere; a payment that arrives
  mid-purge keeps the household; a due household is settled in the end.
* **Link sessions.** Whatever bills at Plaid can be removed by someone; a
  token is presented once; a wiped household gets no bank from before; what
  the bank window reported settles with nobody polling.
* **Sync turns.** A first-pull turn is given back exactly once; a note that
  somebody will look for is answered; each new Item is pulled in the end.
* **Ledger.** A purchase counts once through hold, posting and renumbering; a
  finished pull leaves the feed's view; what a person wrote is neither lost nor
  overwritten by the machine and ends where it shows, but for a split its
  charge outgrew.
* **Email.** One mail a day, of the zone last mailed in and of the zone it was
  found due in; other channels not sent again while the mail is retried; a
  failed mail not passed over as decided.

## The modules and the code

### WebhookOutbox

`hook`, `row` and `household` are the tables' columns that matter. A process
(`pc`, and what it has read: `claimed`, `seen`, `cur`, `answer`) is a drain
pass (`deliver_pending`) or a test button (`ping_prepare`/`_send`/`_settle`).
Each action is a statement or a network call: `Claim` is `_claim`'s one
statement; `CheckBudget`, `ReadHook`, `Post`, `Answered` are the loop's body;
`SettleRow`, `HookOk`, `HookFail`, `Disable` and `FailQueue` are the four
statements of `_settle`. `EmitCheck`/`EmitCommit` split the queueing `INSERT`
at its commit, which is the race `prune` is written for.

Time is relative: `due[r]` counts down, `elapsed[p]` is the time since `p`
read its clock (the code computes new due times from the clock read at the
start of the pass, and so does the model), `timer[p]` bounds the step `p` is
in. `Tick` moves all three and waits for steps whose time is up, so `Deadline`
is a real bound on a post, as `_deadline_backend` makes it.

`DeliveryLadder` leaves out time, leases, processes and statuses;
`WebhookOutbox` maps its rows onto it (`Ladder == INSTANCE DeliveryLadder ...`)
and `KeepsLadder` states the implementation.

`WebhookLate` counts, per pass and hook, the posts that left while the hook was
off or deleted or its household not active, since it was last resumed.

Left out: URL policy and signing (a refusal is an outcome of `Post`; an
unreadable secret one of `ReadHook`), payloads, the 40 s budget over households
(one household is modelled).

### BulkImport

A household has at most one live job (a unique index), so a job stands for its
household too. `run[w]` is what a worker's thread has read; each action is one
statement of `_run`, `_run_file`, `_run_turn` or the bookkeeping functions. The
import itself is one transaction: `Commit` commits or rolls back, and
`landed` counts commits, whatever the file's row says later. Time is what it
makes possible: `GoesQuiet` (five minutes without a beat; never while the
worker's heartbeat thread lives), `PastBudget`, `PastExpiry`. `TickerLost`
models a heartbeat thread that could not connect, so a live worker may be
taken over. `OtherTakes` is a sync or a restore holding the household's lock.
A PDF may find the slot busy with a household that is not modelled.

`BulkTurn` records, for a worker in a file's turn, which of the three things
the code checks again there (wanted, starter signed in, household open) have
held at some moment since the turn came.

Left out: importers, warnings, the progress count, the two job slots of a
process (workers are the threads that got one), archives restored by `submit`.

### GracePurge

`tenant` is the `tenants` row. The statuses are `open`, `unverified` (a freeze
nobody asked for, `unverified_expired`), `pending` (`pending_delete`) and
`erased`. Erasers are runs of `purge_scheduled_deletions` (`Purgers`) and
requests at the two doors that erase at once (`Doors`); they share the release
(`List`, `ReleaseItem`, `Mark`) and differ at both ends, as in the code. `Claim`
and `Erase` are transactions. `HoldSync`/`HoldPush` are `hold_writers`: the
six locks that writers try alone behave alike and are one, the push lock is
shared by pushes. `books` records what a writer leaves behind: rows written by
one whose turn began before the wipe (`inFlight`), by a push (`pushed`), or by
a sweep that locked a household already gone (`late`).

Each Item has its local row, whether Plaid still has it (`vendor`), the
ledger's stamp, the release queue and the marker. Plaid may refuse any Item at
any time. Best-effort writes (stamp, queue, marker, archiving) may fail, within
`MaxFailures`. Apart from them the release may fail as a whole (no connection,
or no Plaid keys), within `MaxOutages`: the case the marker's "all" is for.

`PurgePaid` remembers that money was attached to a household nobody asked to
erase while a purge had it in hand.

Left out: the MX, SMS and add-on releases, the open link sessions the release
hands back first (they are `PlaidLink`'s), an add-on's lockouts and suspension, receipts, the retry
queue's give-up, linking a bank again after a restore.

### PlaidLink

`rec` and `exch` are `plaid_link_sessions` rows, `view` the dict a process
keeps of a session: the web process's, shared by its polls and kept between
them (`mem`), a worker job's, or a wiper's. A finisher's frame (`pc`, `at`,
`todo`, `hand`, `got`) goes through `finish_session`/`plaid_link_status` one
statement or vendor call at a time: `TryLock` (tried, never waited for),
`Refresh`, `Look` (what Plaid reports), `Exchange`, `Hold`, `Keep` or `Refused`,
`Remove` and what may fail of it, `DropHold`, `Record`, `Finish`, `Unlock`.
`StartPoll` and `StartJob` differ in what they ask of the household before the
lock. `StartWipe`/`HandBackNext`/`Reset`/`Erase` are a wipe under the writer
locks; `SetAside`, `Forget`, `Abandon`, `Expire` the statements about a session
that no finisher makes; `Retry` is the nightly queue's.

An Item's standing is `plaid` (what Plaid has), `row` (saved), `queue` (hold or
refused), and `lost`: its access token died with the only process that had it.
`OnlyInHand` names exactly the windows in which the code lets that happen.

Left out: update-mode and relink sessions, the plan's slot ledger, branding,
the cap on open sessions.

### SyncTurns

`full`, `door` and `job` are places in `sync_tenant`, in any other holder of
the sync lock and in a `sync_item` job's coroutine. `pull` is each call of
`_first_pull_with_turn` that is not over: the place of its thread, and its
`state`, whether it has the turn to give back and whether its job still awaits
it. A cancelled coroutine leaves its thread running and its job's id free, so
the Item may be queued again beside it, and with more than one turn one Item
may hold two. `busy` is `_FirstSyncTurns`' count.

A cancel is two steps, as it is two guards in the code: `CancelEarly` reads that
the thread has not started, `CancelGivesBack` gives the turn back if it is still
held. In between the thread may start, and even be through; no other coroutine
moves (`LoopFree`). A thread that starts there works on without a turn: both
docstrings that say otherwise ("At most FIRST_SYNC_CONCURRENCY first pulls run
at once", worker.py:3265; "Given back here only when the thread never started",
worker.py:3326) overlook it. What the code does ensure, and
`TurnsAccounted` says, is that the count of turns stays right and that such a
pull costs a cancel.

A sync that is turned away is two steps too: the try-lock that fails
(`StartFull`, `ThreadBusy`) and the note (`NoteFull`, `ThreadNotes`), which may
fail or come when every holder has looked. `EndPass` grants one more pass to
whoever was turned away during the first; `Answer` is `answer_sync_nudge` after
the release. `owed` remembers that a sync was turned away and no pass has read
the Items since. The model forgets it, in the open (`LeftToSweep`), when the
note comes too late or not at all, when a release, a claim or the queue fails,
when a pass raises and when the worker is killed: those the code leaves to the
hourly sweep. A late note stays where it is, for whoever holds the lock next.

Left out: a webhook's own pull of an Item, a `sync_item` job under another id
(to the lock it is a door that also leaves a note; if it is the Item's first
pull, it takes a turn like any job and is not retried); an Item disconnected
before its job reaches it; the crons' buckets and deadlines, the order of
nightly steps, deep refreshes; several worker processes (the household lock is
in the database, turns are one process's).

### ChargeLedger

A charge has up to three ids (hold, posted row, the row a re-link numbers
anew). `log` is what a cursor feed reports, in order; `pull` is one pull:
`WritePage` is `upsert_transactions` of one page (a page that settles holds is
one commit), `TornPage` one that died row by row, `MarkRemoved` the removals of
the page, `SaveCursor` the end. A stateless feed sends `AtBank` at once
(`WriteWindow`, `ReconcileVanished`). `ans` is what a person wrote on a row: a
`pin` is columns, copied by a settlement; a `child` is a row of its own and a
`split` several, each moved by a best-effort statement of its own (`carried`).
`RetirePending` is the door that retires a hold by hand,
`SweepFinds`/`SweepCarries` the nightly re-anchor sweep, which runs under
a lock of its own beside pulls and edits.

A charge in `tipped` posted for another amount than was held. A split adds up
to the amount of the row it was written on (`over` in `said`), and the end of
every pass drops those that do not add up to the row they are on by then:
`ListStale` is the listing of `drop_stale`, `drop_stale` its `DELETE`, which
judges each row again, and the household's person or its sweeps may write in
between. So a split is the one answer the code ever drops, and the properties
say exactly when: it was written at the held amount of a charge, or of one that
passes for it, that posted for another (`Outgrown`).

Assumed of the feed (external): an id does not come back after it was replaced;
a posted row may name its hold or not and may or may not come with the hold's
removal, in either order, or have it missed altogether; pages cut the log
anywhere and the log grows during a pull. `Alike` stands for the payee, price
and date rules: it says which purchases look alike. One person's answer per
kind and row. The sweep is taken row by row.

Left out: accounts and balances, file imports and their overlap guard, adoption
after a restore, the release of withdrawn pairs after two weeks; a store's own
splits, which its matcher recomputes, and splits dropped because a row stopped
being spending (a transfer by hand); an amount the bank restates in place
without a new id, which drops a split the same way; the pairs of a
reimbursement, re-weighed after a settlement.

### EmailSweep

Ticks stand for hours: a day of `DayLen`, a month of `MonthDays` days, a zone
an offset. `Begin` reads the clock; `TryLock` takes the email lock and reads
what is due (`Due`, the calendar of `emails_due`); `Build` decides, `Hook`,
`Send`, `Side` are the channels and `HookStamp`, `SideStamp`, `Stamp` the
`job_runs` rows each leaves, in the code's order. A demonstration household is
sent nothing and stamped with nothing, so that it stays due every hour. The
clock and the settings move between any two steps: a sweep may be found due
before midnight, send after it and stamp later still, and `email_tenant` reads
the zone again (`as`) after the due check did (`zone`). `stamp` is what the
code reads; `sent` is history, what really went, when, in which zone, and by
which zone it was found due. `left` is history too: the cadences a sweep ended
without a decision, because the mail failed, because the household is a
demonstration, or because nobody is there and the hook failed.

What the code does not promise, and the properties leave out by name:
* A sweep killed between a send and its stamp sends it again; `Dies` takes
  exactly what is sent and not stamped out of `sent`.
* A zone moved between the due check and `email_tenant`'s read of it may bring
  a second verdict on one day of the *new* zone. `OneVerdictADay` compares the
  days of the zone the last verdict went in and of the zone the new one was
  found due in; with the new zone added, TLC finds that second mail within
  these bounds.
* A sweep that runs over midnight between its mail and its stamp stamps the
  next day too, which then gets no verdict. `LeftStaysDue` speaks of the
  sweep's own day only.

Left out: the yearly card (the monthly one with a longer period), the close of
the last month, the force button, the legacy schedule document, invitations
and bounces.

## Runs

| run | instance | shows |
|---|---|---|
| `webhook_stall` | 1 hook, 2 deliveries, 2 passes, 2 attempts, lease 1: shorter than a pass | `OneLatePost`, `KeepsLadder` hold all the same |
| `webhook_live` | 1 hook, 1 delivery, 2 passes, a test button, 3 attempts, 2 crashes, lease 4 > pass 3, fairness | `TypeOK`, `OneSenderPerRow`, `NoRowStuck` |
| `bulk_turn` | 1 job of 2 files (a PDF and another), 2 workers in 2 processes, row budget 1, 1 fault | `TypeOK`, `LandsOnce`, `EndedIsComplete`, `OutcomeStands`, `NoStaleTurn` |
| `bulk_live` | 1 worker, 1 restore beside it, 1 fault, fairness | `EveryJobSettles`, `BytesCleared` |
| `purge_live` | 1 purge run, 1 door, 1 sweep, 1 push, 1 Item, 1 kill or exception, fairness | `TypeOK`, `NoneWritesThroughWipe`, `DueIsSettled` |
| `purge_paid` | 2 purge runs, 1 door, no writers, 2 Items, 1 crash, 1 failed write, 1 whole release that fails | `CleanHandBack`, `LeftBillingIsMarked`, `PaidMidPurgeKept` |
| `purge_queue` | 1 purge run, 1 door | finding 1 |
| `link_live` | 1 session, 1 token, a poll, a job, a wiper, 1 crash, 1 fault, fairness | `TypeOK`, `EveryItemHasHandle`, `NoSecondExchange`, `WipedGetsNoBank`, `TokenSettles`, `BillingSettles` |
| `link_erased` | the same, no crash, no fault | finding 2 |
| `sync_turns` | 2 Items, 2 pulls, 1 full sync, 1 other holder, 1 turn, 2 tries, 1 fault, fairness | `TypeOK`, `TurnsAccounted`, `NudgeStands`, `FirstPullHappens` |
| `ledger` | 2 look-alike charges, 2 answers, 1 fault, 8 events, fairness of the sweep | `TypeOK`, `CountedOnce`, `CaughtUp`, `AnswerKept`, `ShownAnswerStands`, `AnswersFollow` |
| `email` | 2 sweeps that run up to 1 tick on, 2 zones, days of 3 ticks, months of 5 days, 8 ticks across a month's turn, 1 trouble, five households to begin with | `TypeOK`, `LeftStaysDue`, `OneVerdictADay`, `OneOfEachADay`, `OneCardTextAMonth` |

`CHECK_DEADLOCK FALSE` stands where the system may really stop: a job is over
and forgotten, a household is erased, every session is over, the feed has
nothing more to report (`MaxEvents`), the modelled days are over (`End`).

**Bounds.** Two senders are what an overlap needs, two deliveries what a batch
(one in hand, one to hand back) needs; two attempts are a retry and a final
one; `DisableAfter` 2 needs a count that survives a delivery. `MaxOverdue` stops
counting how long a due row has been due, which nothing reads beyond its order.
One job with two files, of which one is a PDF, reaches the row budget, the slot
and the rest that is settled unrun; two workers are a takeover. Two Items
are a release of which one part fails; the writers and the wipe read no Item,
so the run about them has one. A purge run, one overlapping it and a door
are every pair of erasers the code has. A poll, a job and a wiper are one of
every kind of finisher; two of a kind differ in nothing but whose dict they
use, and the lock admits one. Two Items behind one turn are a queue with an
order, and two pulls are all that one turn and one mishap can leave. In the
ledger `MaxEvents` counts log entries, answers, faults, rows
retired by hand and two for every purchase begun: eight are a purchase held,
posted with its hold's removal, renumbered and answered in between, or two
purchases of which one posts. One trouble is one failed send, kill or moved
setting; eight ticks are the day before a month's first, that day and the
catch-up. One crash, one failure and one outage (`MaxCrashes`,
`MaxFailures`, `MaxOutages`, `MaxFaults`) place a fault at every step. Where
a run checks no liveness property, processes, rows and Items that are treated
alike are declared symmetric (`webhook_stall`, `bulk_turn`, `purge_paid`,
`email`).

**Time assumptions in guards.** `Prune` takes no row from a pass's hands (the
week's retention against a pass of seconds), a job is not forgotten while a
worker has it (a week against an hour), `PastDue` waits until nobody is busy
(a week's grace against minutes), `GoesStale` until the claim's holder is
gone (six hours against minutes), `Abandon` and `Expire` until no finisher has
the session (days against minutes), `Retry` leaves a hold in use (an hour
against seconds). An email sweep may run on for `MaxRun` ticks: 1 for TLC, any
number in the proofs.

**Fairness.**
* Outbox: a pass starts and claims if it stays possible (weak: the minute
  cron), a running process takes its steps (weak), time passes (strong, since
  passes that start and find nothing would disable it again and again). No
  receiver has to answer well, nobody has to switch anything on.
* Folder import: running threads go on, the sweep claims what stays claimable,
  lock holders let go, time passes (`PastBudget`, `GoesQuiet`), the hourly
  expiry runs; giving up a wait is strongly fair, as the wait's clock runs
  through every retry of the lock. That a job reaches its expiry is *not*
  assumed: `EveryJobSettles` is owed to takeover.
* Erasure: the nightly run, time for a stale claim, running processes; strong
  fairness of the two lock waits, because a blocked `pg_advisory_lock` waits
  in Postgres' queue, and try-locks do not overtake the queue.
* Link sessions: a running finisher or wiper goes on, the sweep comes to open
  sessions and the nightly retry runs (weak). No poll is assumed: the person
  may have closed the page.
* Sync turns: running syncs, doors, threads and jobs go on and the crons start a
  full sync (weak). A job takes a turn that stays free for it (weak: arq re-runs
  the deferred job); that it stays free follows from its place in the queue and
  is not assumed. Who tries the lock for ever, hours or minutes apart, a full
  sync or an Item's pulls, finds it free some time.
* Ledger: only the nightly sweep's steps (weak). Nothing is assumed of the
  bank, the pulls or the person.
* Email: none; its properties are about states and single steps.

## Findings

1. **Billing with nobody left to stop it** (`purge_queue`). The nightly retry
   drops a queued Item that "some household still holds" (reaper.py:343-351),
   the household being the one in the middle of its erasure. erasure.py:323
   says the retry removes it; only the marker still names it.
2. **A bank in an erased household** (`link_erased`). A finisher reads the
   household's standing before it takes the sync lock (plaid_links.py:611-631)
   and not again under it. If an erasure takes the locks, wipes and lets go in
   between, the finisher exchanges the token and keeps the bank for a household
   that no longer exists. plaid_links.py:538 says that the writer locks
   "already exclude every other finisher".

Behaviour the models also show, about which the code promises nothing that a
property could hold it to, is noted at its hazard in `PROJECT.json`: a job that
ends in error leaves files unsettled, an erase that raises clears its claim,
`set_aside` writes a refusal mark away, a settlement leaves a second copy of a
pin behind.

## Proofs

Every invariant and every action property that a passing run checks is also a
theorem, for any values of the constants that meet the assumptions below.
`PROJECT.json` lists them; here is how each is proved.

### Outbox

**`TypeCorrect`** (`Spec => []TypeOK`). `TypeOK` is inductive as it stands: its
part `HandsOK` ties a process's place to the rows in its hands, which types
`row[cur[p]]`, and the bound on the attempts of a pending row keeps
`Backoff[n]` defined.

**`OneSender`** (`ASSUME LeaseOutlastsPass ... PROVE Spec => []OneSenderPerRow`;
`LeaseOutlastsPass` is what the comment at webhooks.py:105 claims). One sender
per row is not inductive: nothing in it keeps a held row from coming due. The
invariant adds `InTime`, that a process's elapsed time and the time its step
has left stay within `PassMax`, and `Holding`, that an open row's due time plus
the holder's elapsed time is still the lease. A claim takes rows with
`due <= -elapsed`; with `Lease > PassMax` no held row is among them. The lemmas
follow the actions: what each does to the open rows, and to the two bounds.

**`ImplementsLadder`** (`Spec => KeepsLadder`). Needs no assumption on the lease:
`SameAttempt` makes the settled row the attempt that was read. The invariant
beyond `TypeOK` says what the abstract steps ask for: an attempt's count is
that of the row as read, and unused rows are blank. Each action maps to
`Attempt`, `GiveUp`, `Queue`, `Drop`, `DeleteHook` or a stutter.

**`OneLate`** (`LateSpec => []OneLatePost`). `PostedLate` says why a second post
cannot follow: a pass that posted to a stopped hook does not stand before
another post to it, since it reads the hook again first, and a stopped hook
does not pass that read. That a hook reads the same to the row in hand takes
`InUse`, that no row somebody has in hand is free for a new delivery.

### Folder imports

**`Once`, `Complete`, `Stands`** (`LandsOnce`, `EndedIsComplete`,
`OutcomeStands`). None of it rests on a lock or on the heartbeat: only a pending file is claimed, and a file
once claimed is never pending again (`FileMoves`). `BulkInv` says what each
worker has in hand (`InHand`: a file it imports has begun and has not landed; a
worker about to finish as done or stopped has no file left), that two workers
never import one file (`Alone`), and that what has landed has begun. Each
action is shown to move the tables in one direction only (`TableStep`) and a
worker from place to place; `StepKeeps` combines the two. `OutcomeStands` is
`JobMoves`, a part of `TableStep`.

**`FreshTurn`** (`TurnSpec => NoStaleTurn`). `Rechecked`: whatever holds now is
recorded, and past each of the three checks of a turn its condition is. A
worker before `claimFile` has passed all three since its turn came.

**`TypeCorrect`**. The part that is not about types is who holds what:
`HoldsOK` says that a lock or slot is with a worker exactly while that worker
is in a turn that needs it. Every worker's step lets go, keeps, or takes what
was free (`LockMoves`), so it disturbs nobody else's.

### Erasure

**`NoneThroughWipe`** (`Spec => []NoneWritesThroughWipe`). The invariant
`WipeInv` adds who holds which lock
at which place (`Places`, `Held`) and `NoneLeft`: once the household is erased,
no writer is between its lock (or its status read) and its write. The wipe
establishes it because the eraser holds both locks; afterwards a sweep enters
at `writeLate` and a push's status read sends it away.

**`TypeCorrect`**. `WipeInv`, the types of the rest (`DataOK`) and the
converse of `Held`: who is not at a place that holds a lock does not hold it
(`Unheld`).

**`HandedBackClean`**. Two facts: the ledger's stamp, and the archived row, are
only on Items that are gone at Plaid, and without a failure each such Item has
its stamp (`Ledger`); and what was released but still looks connected has an
eraser between release and erase, if nobody was killed (`UnderWay`). Every way
back to `open` archives by the stamp, or has an eraser on its way to do so.

**`LeftBillingMarked`**. `MarkFacts`: where no best-effort write failed, an Item
still at Plaid that no marker names is, for every eraser in its release, one it
has yet to come to or failed to remove, unless its release failed as a whole
(`Short`) and the marker will name every Item; at `erase` there is none. It must hold of every eraser at once,
because any of them may be the one that wipes; markers are only added, so
what one eraser names stays named for the others.

**`PaidKept`** (`PaidSpec => PaidMidPurgeKept`). A purge that has the household
in hand has its claim (`ClaimHeld`), so it is not claimed, reopened or frozen
anew under it unless the address was proved; a freeze nobody asked for began
with an open household (`FrozenFromOpen`); and money that came meanwhile is
seen by the purge that had no money on its books when it claimed (`PaidSeen`).

### Link sessions

**`HandleKept`** (`Spec => []EveryItemHasHandle`). The invariant `IInv` says
that the lock keeps other finishers
out (`LockHeld`); that a frame past the hold has its hold queued, or knows that
it has not (`HandFact`); and that an Item that bills is saved, queued, or in
hand between the exchange and one of the two (`HasHandle`). The one window left
is the token that died with its only process, which the property names.

**`LinkTypeCorrect`**. `Types` with `IInv`: a frame's place says what it has in
hand, and the dict it writes through is one of its kind.

**`SpentOnce`** (`NoSecondExchange`). `FrameFact` says what a frame's list and
hand contain, `SpentFact` that what is saved or queued was exchanged. `Knows`
is the argument of `refresh`: a spent token of a session on record has its
outcome there, or is in the hand of the finisher who will record it
(`Recorded`); so a finisher that has refreshed under the lock knows of every
token that was spent before, and its list has none of them (`KnowsSpent`).

**`MarkedGetsNoBank`** (`WipedGetsNoBank`). A reset's mark is on the record
while the session can still be finished; once the record is gone nobody holds
the session nor comes to it (`MarkKept`), and a frame at work on a marked
session has seen the mark (`MarkSeen`).

### Sync turns

**`TurnsKept`**, for any capacity and any finite sets of Items and pulls. A turn
is given back by a pull's thread or by the job a cancel ends, and the invariant
says what the two know of each other (`PullsOK`): a pull that has not started
keeps its turn as long as its job awaits it, and one at work that a job awaits
has its turn; with it, a job awaits at most one pull (`OneCall`). The pulls that
work without a turn are counted together with those whose job is just being
cancelled (`Loose`): only a cancel that finds its pull not started adds one, and
it is a mishap.

**`NudgeKept`**. `NudgeStands` is inductive with the types: each step that ends a
look, of a full sync, a door or a thread, either finds no note or turns it into
a pass to come.

**`SyncTypeCorrect`**. `TypeOK` bounds the line of first pulls by the number of
Items, which takes `LineOK`: the line holds exactly the jobs that are not out,
and each once. The bound is then the library's fact about injections into a
finite set.

### Ledger

**`Counted`, `CatchesUp`** (`CountedOnce`, `CaughtUp`), for any
charges and any log the bank may write. `LogOK` is what the feed promises: a
hold is reported before the row that replaces it, an id is removed once and
never reported after. `Follows` ties the ledger to the log: beyond the cursor
only what a pull still alive, or a dead one (`Reach`), may have written ahead,
and never beyond the log's end.

**`AnswersKept`, `ShownStands`, `LedgerTypeCorrect`**. Every step but the
person's own and a drop is shown to be `Carried`: each answer is afterwards still on some
row (`Keeps`), only rows that were written bear one (`OnRows`), and a live row
bears what it bore (`Stands`). A settlement copies or moves, one row onto one
row, and those are facts about one function. A re-anchor is a loop over a set
of rows, `Reanchored`, a recursive function of the rows left. That every
iteration keeps what it should is an induction on the number done. The
library's induction theorems take an operator as parameter and cannot be used,
so it is argued from the least counterexample: `LeastNatural` gives the first
iteration at which the answers are not carried over, and its step says
otherwise. That what a drop takes had been outgrown rests on where a split
may lie (`SplitInv`): a row is written only once its charge has posted, so the
amount of a row that is there never changes (`PriceStands`); a split written at
the posted amount stays on rows of its charge at that amount, where it fits,
and one written at the held amount on rows of its charge and of those that
pass for it. The moves respect this (`Near`), the sweep's stale pair included.

### Email

**`TypeCorrect`**. With the types: the lock is with the one sweep past its
try-lock, and nothing is stamped or sent ahead of the clock.

**`OneVerdict`, `OneOfEach`, `OneCardText`** (`OneVerdictADay`, `OneOfEachADay`,
`OneCardTextAMonth`). What is sent and what is stamped differ between the two
statements, so the invariant `BookInv` ties them: either the stamp is as late
as what was sent, and for a daily job in the same zone or past that zone's day
(`Tied`), or the sweep that sent it has not come to its stamp yet, holds the
lock, and what went is later than the stamp (`Bet`): that is what a kill takes
out of `sent`. `Fit` says what the sweep's own decision rested on: it found the
day, or the month, not yet told by the zone it began in. What a moved zone does
to a day is arithmetic on whole division by `DayLen` and `MonthDays`; the
lemmas about it come first.

**`LeftDue`** (`LeftStaysDue`). `Owed`: what is due by a sweep's clock and zone
is on its list, is the cadence it has in hand, or was left, and these are
apart. A cadence leaves the first two with a stamp, at a time not before the
sweep's own and so no longer due by it, or by being left.

**Constants.** `OutboxAssumption`, `BulkAssumption`, `PurgeAssumption`,
`OfTokens`, `KindsApart`, `CapacityAssumption`, `SetsFinite`,
`AlikeAssumption` and `ChargesFinite` say that kinds of process are apart, that
sets are finite and that counts are numbers; `Bounds`, `SyncBounds` and
`LedgerBounds` that the bounds on faults, tries and events are; `Calendar` that
days and months have a length, zones are offsets and nothing was mailed
before `Start` but by `Never`; `OfHouseholds` names what a household's settings
may be. TLC evaluates them in every run. Nothing else is assumed, but for
`LeaseOutlastsPass` where it is named.

**Only model-checked.** What must happen in the end: `NoRowStuck`,
`EveryJobSettles`, `BytesCleared`, `DueIsSettled`, `TokenSettles`,
`BillingSettles`, `FirstPullHappens`, `AnswersFollow`. They are liveness under
fairness, whose proof needs `ENABLED`, which is beyond this prover.

## Not modelled

Pure computation over money, dates and text (budgets, forecasts, merchant
identity, importers, reports) is data more than order; nothing in it depends on
who runs when. The clients and host scripts keep no household state. The
tenant layer is assumed: a statement sees its own household's rows and commits
on its own. Push relay, restore jobs, account failover and credential rotation
have protocols of their own and are not modelled yet; what the modelled parts
need of them (another holder of the lock, a role or a credential that changes)
is in those parts' modules.

## Plan

In this order next:

1. **LinkFailover** (`engine/links.py`): which of two links writes an account;
   never two, and never none while one is healthy. It composes with
   `ChargeLedger`, whose re-anchor sweep follows a switch.
2. **RestoreJob** (`sync/restore_job.py`): its claim, heartbeat and takeover,
   after the pattern of `BulkImport`.
3. **Rotation** (`auth/`): single-use links, what a rotation revokes.
4. **LinkAlerts** (`jobs/link_alert.py`, the end of `_sync_pass`): an edge of a
   connection told once per channel, through a mail that is refused and retried
   and a pass that dies before its stamp.
5. Theorems: the safety properties of these modules as they are written. Of
   the present ones every safety property a run checks is proved; what could
   be added is a refinement, an abstract wipe (written before, frozen, gone)
   that `GracePurge` implements, after the pattern of `DeliveryLadder`.
