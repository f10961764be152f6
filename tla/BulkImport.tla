----------------------------- MODULE BulkImport -----------------------------
(***************************************************************************)
(* Folder imports run in the background                                    *)
(* (server/oikonome/jobs/bulk_import_job.py).                              *)
(*                                                                         *)
(* A submit freezes the plan into a job and its files.  A worker claims    *)
(* the job by compare-and-set, then runs its files one at a time: each     *)
(* waits for the household's sync lock (and, for a PDF, the worker         *)
(* process's one PDF slot), has its starter and the household checked once *)
(* the turn has come, is claimed pending -> running, imports in one        *)
(* transaction and is settled.  A job whose heartbeat went quiet may be    *)
(* taken over.  Every SQL statement is a step of its own (the connections  *)
(* are autocommit); the import itself is one transaction.                  *)
(*                                                                         *)
(* A household has one live job, so jobs stand for their households too.   *)
(* Time is what it makes possible: a heartbeat that went quiet, a job past *)
(* its budget, a wait that may be given up.                                *)
(***************************************************************************)
EXTENDS Naturals, FiniteSets

CONSTANTS
  Jobs,         \* folder imports, each of a household of its own
  Workers,      \* threads that run jobs, one job at a time each
  Host,         \* Workers -> the process it runs in, which has one PDF slot
  Files,        \* file_ids, run in this order
  Pdfs,         \* Jobs -> the files that are PDFs
  MaxRows,      \* MAX_TOTAL_ROWS, in files' worth of rows
  MaxFaults,    \* bound: crashes, exceptions and lost heartbeats together
  MaxRestores   \* bound: restores that run beside the import

ASSUME BulkAssumption ==
  /\ Files \subseteq Nat \ {0}
  /\ Pdfs \in [Jobs -> SUBSET Files]
  /\ Jobs \cap Workers = {}
  /\ Workers \cap {"free", "sync", "restore"} = {}
  /\ MaxRows \in Nat /\ MaxFaults \in Nat /\ MaxRestores \in Nat

VARIABLES
  job,        \* Jobs -> [st, cancel, quiet, age, rows]: bulk_import_jobs
  file,       \* Jobs -> Files -> [st, data]: bulk_import_files
  landed,     \* Jobs -> Files -> times the file's import committed
  cancelling, \* queued jobs just cancelled whose files are not settled yet
  signedIn,   \* Jobs -> the starter's credential lives and may import
  household,  \* Jobs -> the household's standing
  lock,       \* Jobs -> who holds the household's sync lock
  slot,       \* process -> who holds its PDF slot
  pc,         \* per worker: where it is
  run,        \* per worker: [job, file, now, ran, result, stop, fin]
  ticker,     \* per worker: its heartbeat thread is beating
  faults, restores

dbVars == <<job, file, landed, cancelling, signedIn, household>>
lockVars == <<lock, slot>>
vars == <<job, file, landed, cancelling, signedIn, household, lock, slot,
          pc, run, ticker, faults, restores>>

------------------------------------------------------------------------------
Live    == {"queued", "running", "cancelling"}
Settled == {"cancelled", "stopped", "done", "error"}
Hosts   == {Host[w] : w \in Workers}

(* Where a worker may be: a turn is the part that holds the sync lock.     *)
Turn == {"slot", "turn", "starter", "standing", "claimFile", "write", "commit"}
Running == Turn \cup {"interrupted", "loop", "pick", "wait", "lock", "busy",
                      "skipRest", "skipFull", "settle", "stopRest", "stopJob",
                      "finish", "clear"}

IsLive(j)    == job[j].st \in Live
Gone(j)      == job[j].st = "gone"
Pending(j)   == {f \in Files : file[j][f].st = "pending"}
FirstOf(S, f) == f \in S /\ \A g \in S : f <= g

NotRead == [cancel |-> FALSE, old |-> FALSE, full |-> FALSE]
NoFile == [st |-> "none", data |-> FALSE]
Job(st) == [st |-> st, cancel |-> FALSE, quiet |-> FALSE, age |-> "young", rows |-> 0]
Idle == [job |-> "none", file |-> 0, now |-> NotRead, ran |-> FALSE,
         result |-> "none", stop |-> FALSE, fin |-> "none"]

Init ==
  /\ job = [j \in Jobs |-> Job("none")]
  /\ file = [j \in Jobs |-> [f \in Files |-> NoFile]]
  /\ landed = [j \in Jobs |-> [f \in Files |-> 0]]
  /\ cancelling = {}
  /\ signedIn = [j \in Jobs |-> TRUE]
  /\ household = [j \in Jobs |-> "open"]
  /\ lock = [j \in Jobs |-> "free"]
  /\ slot = [h \in Hosts |-> "free"]
  /\ pc = [w \in Workers |-> "idle"]
  /\ run = [w \in Workers |-> Idle]
  /\ ticker = [w \in Workers |-> FALSE]
  /\ faults = 0 /\ restores = 0

------------------------------------------------------------------------------
(* The tables' statements.                                                 *)

(* Every file of job j in one of these states, settled and its bytes gone. *)
SettledFiles(j, from, to) ==
  [file EXCEPT ![j] = [f \in Files |->
     IF file[j][f].st \in from THEN [st |-> to, data |-> FALSE] ELSE file[j][f]]]

(* A settle of files refreshes the heartbeat too (of a job still there).   *)
Beaten(j) == IF Gone(j) THEN job ELSE [job EXCEPT ![j].quiet = FALSE]

(* _settle_files, and _settle_rest for the files not reached.              *)
SettleFiles(j, from, to) ==
  /\ file' = SettledFiles(j, from, to)
  /\ job' = Beaten(j)

(* Fault: the bytes of a file that never ran are kept.                     *)
NoBytesOfRun(j) ==
  [f \in Files |-> IF file[j][f].st = "pending" THEN file[j][f]
                   ELSE [file[j][f] EXCEPT !.data = FALSE]]

NoBytes(j) == [f \in Files |-> [file[j][f] EXCEPT !.data = FALSE]]

(* Fault: a job its worker left behind is nobody's.                        *)
ClaimableQueued(j) == job[j].st = "queued"

(* A queued job, or a live one whose worker is taken for gone.             *)
Claimable(j) == \/ job[j].st = "queued"
                \/ job[j].st \in {"running", "cancelling"} /\ job[j].quiet

(* _claim's update: the job's clock starts with its first claim.           *)
ClaimedJob(j) ==
  [job[j] EXCEPT !.st = IF @ = "queued" THEN "running" ELSE @,
                 !.age = IF job[j].st = "queued" THEN "young" ELSE @,
                 !.quiet = FALSE]

------------------------------------------------------------------------------
(* The request side, the staging sweep and the rest of the household.      *)

Submit(j) ==
  /\ job[j].st = "none" /\ household[j] = "open" /\ signedIn[j]
  /\ job' = [job EXCEPT ![j] = Job("queued")]
  /\ file' = [file EXCEPT ![j] = [f \in Files |-> [st |-> "pending", data |-> TRUE]]]
  /\ UNCHANGED <<landed, cancelling, signedIn, household, lockVars, pc, run,
                 ticker, faults, restores>>

(* cancel: a queued job here and now, its files in a second statement; a   *)
(* running one is asked.                                                   *)
Cancel(j) ==
  /\ job[j].st \in {"queued", "running"}
  /\ IF job[j].st = "queued"
     THEN /\ job' = [job EXCEPT ![j].st = "cancelled", ![j].cancel = TRUE]
          /\ cancelling' = cancelling \cup {j}
     ELSE /\ job' = [job EXCEPT ![j].st = "cancelling", ![j].cancel = TRUE]
          /\ UNCHANGED cancelling
  /\ UNCHANGED <<file, landed, signedIn, household, lockVars, pc, run, ticker,
                 faults, restores>>

CancelRest(j) ==
  /\ j \in cancelling
  /\ cancelling' = cancelling \ {j}
  /\ SettleFiles(j, {"pending"}, "skipped")
  /\ UNCHANGED <<landed, signedIn, household, lockVars, pc, run, ticker,
                 faults, restores>>

(* expire: one transaction over every job.  A week outlasts every run, so  *)
(* a job that is forgotten is in no worker's hands.                        *)
Expired(j) == IsLive(j) /\ job[j].age = "ancient"

Forgettable == {j \in Jobs : job[j].st \in Settled /\ j \notin cancelling
                               /\ \A w \in Workers : run[w].job # j}

ExpireAnd(forget) ==
  /\ file' = [j \in Jobs |->
       IF j \in forget THEN [f \in Files |-> NoFile]
       ELSE IF Expired(j)
       THEN SettledFiles(j, {"pending", "running"}, "skipped")[j]
       ELSE IF job[j].st \in Settled THEN NoBytes(j) ELSE file[j]]
  /\ job' = [j \in Jobs |->
       IF j \in forget THEN Job("gone")
       ELSE IF Expired(j) THEN [job[j] EXCEPT !.st = "stopped"] ELSE job[j]]
  /\ UNCHANGED <<landed, cancelling, signedIn, household, lockVars, pc, run,
                 ticker, faults, restores>>

Expire == \E forget \in SUBSET Forgettable : ExpireAnd(forget)

(* Time: JOB_MAX_SECONDS since the first claim, and an hour more, or as    *)
(* long since the submit.                                                  *)
PastBudget(j) ==
  /\ job[j].st \in {"running", "cancelling"} /\ job[j].age = "young"
  /\ job' = [job EXCEPT ![j].age = "old"]
  /\ UNCHANGED <<file, landed, cancelling, signedIn, household, lockVars, pc,
                 run, ticker, faults, restores>>

PastExpiry(j) ==
  /\ job[j].st = "queued" \/ (IsLive(j) /\ job[j].age = "old")
  /\ job[j].age # "ancient"
  /\ job' = [job EXCEPT ![j].age = "ancient"]
  /\ UNCHANGED <<file, landed, cancelling, signedIn, household, lockVars, pc,
                 run, ticker, faults, restores>>

(* STALE_SECONDS without a beat: no worker that beats is running the job.  *)
GoesQuiet(j) ==
  /\ job[j].st \in {"running", "cancelling"} /\ ~job[j].quiet
  /\ \A w \in Workers : run[w].job = j /\ pc[w] \in Running => ~ticker[w]
  /\ job' = [job EXCEPT ![j].quiet = TRUE]
  /\ UNCHANGED <<file, landed, cancelling, signedIn, household, lockVars, pc,
                 run, ticker, faults, restores>>

SignOut(j) ==
  /\ IsLive(j) /\ signedIn[j]
  /\ signedIn' = [signedIn EXCEPT ![j] = FALSE]
  /\ UNCHANGED <<job, file, landed, cancelling, household, lockVars, pc, run,
                 ticker, faults, restores>>

(* A suspension, a lapse into read-only, or a deletion request; each may   *)
(* be lifted.  (Bound: like a sign-out, only while the job is live.)       *)
ChangeStanding(j) ==
  /\ IsLive(j) /\ household[j] # "erased"
  /\ \E s \in {"open", "locked", "deleting"} \ {household[j]} :
       /\ household[j] = "open" \/ s = "open"
       /\ household' = [household EXCEPT ![j] = s]
  /\ UNCHANGED <<job, file, landed, cancelling, signedIn, lockVars, pc, run,
                 ticker, faults, restores>>

(* The purge waits for the household's writers, this lock among them.      *)
Erase(j) ==
  /\ household[j] = "deleting" /\ lock[j] = "free"
  /\ household' = [household EXCEPT ![j] = "erased"]
  /\ job' = [job EXCEPT ![j] = Job("gone")]
  /\ file' = [file EXCEPT ![j] = [f \in Files |-> NoFile]]
  /\ cancelling' = cancelling \ {j}
  /\ UNCHANGED <<landed, signedIn, lockVars, pc, run, ticker, faults, restores>>

OtherTakes(j) ==
  /\ IsLive(j) /\ lock[j] = "free"
  /\ \/ lock' = [lock EXCEPT ![j] = "sync"] /\ UNCHANGED restores
     \/ /\ restores < MaxRestores
        /\ lock' = [lock EXCEPT ![j] = "restore"]
        /\ restores' = restores + 1
  /\ UNCHANGED <<dbVars, slot, pc, run, ticker, faults>>

OtherLetsGo(j) ==
  /\ lock[j] \in {"sync", "restore"}
  /\ lock' = [lock EXCEPT ![j] = "free"]
  /\ UNCHANGED <<dbVars, slot, pc, run, ticker, faults, restores>>

------------------------------------------------------------------------------
(* One worker's steps.                                                     *)

Goto(w, to) == pc' = [pc EXCEPT ![w] = to]

FreeOf(holder, w) == IF holder = w THEN "free" ELSE holder

(* Fault: the PDF slot is not given back.                                  *)
LetGoLock(w) ==
  /\ lock' = [j \in Jobs |-> FreeOf(lock[j], w)]
  /\ UNCHANGED slot

(* The run is over, or its thread is: locks and slot go back.              *)
LetGo(w) ==
  /\ lock' = [j \in Jobs |-> FreeOf(lock[j], w)]
  /\ slot' = [h \in Hosts |-> FreeOf(slot[h], w)]

Leave(w) ==
  /\ Goto(w, "idle")
  /\ run' = [run EXCEPT ![w] = Idle]
  /\ ticker' = [ticker EXCEPT ![w] = FALSE]

(* The file's outcome is known; the turn, if it had come, is over.         *)
Outcome(w, result, stop) ==
  /\ Goto(w, "settle")
  /\ run' = [run EXCEPT ![w] = [@ EXCEPT !.now = NotRead, !.result = result,
                                         !.stop = stop]]
  /\ LetGo(w)
  /\ UNCHANGED ticker

(* run_job: unless a restore of the household runs, _claim, one            *)
(* compare-and-set and the first beat; the heartbeat's thread follows on   *)
(* it (TickerLost: it never came to).                                      *)
Claim(w, j) ==
  /\ pc[w] = "idle" /\ lock[j] # "restore" /\ Claimable(j)
  /\ job' = [job EXCEPT ![j] = ClaimedJob(j)]
  /\ Goto(w, "interrupted")
  /\ run' = [run EXCEPT ![w].job = j]
  /\ ticker' = [ticker EXCEPT ![w] = TRUE]
  /\ UNCHANGED <<file, landed, cancelling, signedIn, household, lockVars,
                 faults, restores>>

(* The file a lost worker was in the middle of is reported, never re-run.  *)
Interrupted(w) ==
  LET j == run[w].job IN
  /\ pc[w] = "interrupted"
  /\ SettleFiles(j, {"running"}, "failed")
  /\ Goto(w, "loop")
  /\ UNCHANGED <<landed, cancelling, signedIn, household, lockVars, run,
                 ticker, faults, restores>>

Read(j) == [cancel |-> job[j].cancel, old |-> job[j].age # "young",
            full |-> job[j].rows >= MaxRows]

Loop(w) ==
  LET j == run[w].job IN
  /\ pc[w] = "loop"
  /\ IF Gone(j) THEN Leave(w)
     ELSE /\ Goto(w, "pick")
          /\ run' = [run EXCEPT ![w].now = Read(j)]
          /\ UNCHANGED ticker
  /\ UNCHANGED <<dbVars, lockVars, faults, restores>>

(* The loop is over, and with it what it had read: _finish is to come.     *)
Ending(w, st, to) ==
  /\ Goto(w, to)
  /\ run' = [run EXCEPT ![w] = [Idle EXCEPT !.job = run[w].job, !.fin = st]]

(* The loop's choice, from the job and the file it read: the end, the rest *)
(* settled unrun, a file skipped on the row budget, or the file's wait.    *)
Pick(w) ==
  LET j == run[w].job
      now == run[w].now
      over == now.cancel \/ (run[w].ran /\ now.old)
  IN
  /\ pc[w] = "pick"
  /\ \/ Pending(j) = {} /\ Ending(w, "done", "finish")
     \/ Pending(j) # {} /\ over /\ Ending(w, "done", "skipRest")
     \/ \E f \in Files :
          /\ FirstOf(Pending(j), f) /\ ~over
          /\ Goto(w, IF now.full THEN "skipFull" ELSE "wait")
          /\ run' = [run EXCEPT ![w] = [@ EXCEPT !.now = NotRead, !.file = f]]
  /\ UNCHANGED <<dbVars, lockVars, ticker, faults, restores>>

SkipRest(w) ==
  /\ pc[w] = "skipRest"
  /\ SettleFiles(run[w].job, {"pending"}, "skipped")
  /\ Goto(w, "finish")
  /\ UNCHANGED <<landed, cancelling, signedIn, household, lockVars, run,
                 ticker, faults, restores>>

SkipFull(w) ==
  LET j == run[w].job IN
  /\ pc[w] = "skipFull"
  /\ file' = IF Gone(j) THEN file
             ELSE [file EXCEPT ![j][run[w].file] = [st |-> "skipped", data |-> FALSE]]
  /\ job' = Beaten(j)
  /\ Goto(w, "loop")
  /\ run' = [run EXCEPT ![w].file = 0]
  /\ UNCHANGED <<landed, cancelling, signedIn, household, lockVars, ticker,
                 faults, restores>>

(* _run_file's tick: gone or settled under it, cancelled, or try the lock. *)
Wait(w) ==
  LET j == run[w].job IN
  /\ pc[w] = "wait"
  /\ \/ ~IsLive(j) /\ Leave(w) /\ UNCHANGED lockVars
     \/ IsLive(j) /\ job[j].cancel /\ Outcome(w, "skipped", FALSE)
     \/ /\ IsLive(j) /\ ~job[j].cancel
        /\ Goto(w, "lock")
        /\ run' = [run EXCEPT ![w].now.old = Read(j).old]
        /\ UNCHANGED <<lockVars, ticker>>
  /\ UNCHANGED <<dbVars, faults, restores>>

TryLock(w) ==
  LET j == run[w].job IN
  /\ pc[w] = "lock"
  /\ IF lock[j] = "free"
     THEN lock' = [lock EXCEPT ![j] = w] /\ Goto(w, "slot")
     ELSE UNCHANGED lock /\ Goto(w, "busy")
  /\ UNCHANGED <<dbVars, slot, run, ticker, faults, restores>>

(* The lock was busy: behind a restore the file waits while the job's time *)
(* lasts, behind anything else until LOCK_GIVE_UP_SECONDS are over.        *)
WaitOn(w) ==
  /\ pc[w] = "busy"
  /\ ~(lock[run[w].job] = "restore" /\ run[w].now.old)
  /\ Goto(w, "wait")
  /\ run' = [run EXCEPT ![w].now = NotRead]
  /\ UNCHANGED <<dbVars, lockVars, ticker, faults, restores>>

GiveUp(w) ==
  /\ pc[w] = "busy"
  /\ lock[run[w].job] = "restore" => run[w].now.old
  /\ Outcome(w, "skipped", FALSE)
  /\ UNCHANGED <<dbVars, faults, restores>>

(* A busy slot: the lock is let go, and both are tried again.              *)
SlotBusy(w) ==
  IF run[w].now.old
  THEN Outcome(w, "skipped", FALSE)
  ELSE Goto(w, "wait") /\ LetGo(w) /\ UNCHANGED <<run, ticker>>

IsPdf(w) == run[w].file \in Pdfs[run[w].job]

(* A PDF may also find the slot with a household that is not in Jobs.      *)
TrySlot(w) ==
  /\ pc[w] = "slot"
  /\ \/ /\ IsPdf(w) => slot[Host[w]] = "free"
        /\ slot' = IF IsPdf(w) THEN [slot EXCEPT ![Host[w]] = w] ELSE slot
        /\ Goto(w, "turn")
        /\ run' = [run EXCEPT ![w].now = NotRead]
        /\ UNCHANGED <<lock, ticker>>
     \/ IsPdf(w) /\ SlotBusy(w)
  /\ UNCHANGED <<dbVars, faults, restores>>

(* _run_turn: the job again, now that the turn has come.                   *)
TurnCome(w) ==
  LET j == run[w].job IN
  /\ pc[w] = "turn"
  /\ \/ Gone(j) /\ Leave(w) /\ LetGo(w)
     \/ ~Gone(j) /\ job[j].cancel /\ Outcome(w, "skipped", FALSE)
     \/ /\ ~Gone(j) /\ ~job[j].cancel
        /\ Goto(w, "starter")
        /\ UNCHANGED <<lockVars, run, ticker>>
  /\ UNCHANGED <<dbVars, faults, restores>>

(* _starter_ok                                                             *)
StarterOk(w) ==
  /\ pc[w] = "starter"
  /\ IF signedIn[run[w].job]
     THEN Goto(w, "standing") /\ UNCHANGED <<lockVars, run, ticker>>
     ELSE Outcome(w, "skipped", TRUE)
  /\ UNCHANGED <<dbVars, faults, restores>>

(* Fault: the household's standing is not read at the turn.                *)
MayStillWrite(j) == TRUE

MayWrite(j) == household[j] = "open"

(* _standing                                                               *)
Standing(w) ==
  /\ pc[w] = "standing"
  /\ IF MayWrite(run[w].job)
     THEN Goto(w, "claimFile") /\ UNCHANGED <<lockVars, run, ticker>>
     ELSE Outcome(w, "skipped", TRUE)
  /\ UNCHANGED <<dbVars, faults, restores>>

(* Fault: the file's state is not looked at as it is claimed.              *)
AnyFile(j, f) == file[j][f].st # "none"

Unstarted(j, f) == file[j][f].st = "pending"

(* UPDATE ... SET state = 'running' WHERE state = 'pending'.  A file that  *)
(* was settled meanwhile ends this run without a word.                     *)
ClaimFile(w) ==
  LET j == run[w].job  f == run[w].file IN
  /\ pc[w] = "claimFile"
  /\ IF Unstarted(j, f)
     THEN /\ file' = [file EXCEPT ![j][f].st = "running"]
          /\ IF file[j][f].data
             THEN Goto(w, "write") /\ UNCHANGED <<lockVars, run, ticker>>
             ELSE Outcome(w, "failed", FALSE)
     ELSE Leave(w) /\ LetGo(w) /\ UNCHANGED file
  /\ UNCHANGED <<job, landed, cancelling, signedIn, household, faults, restores>>

(* _run_one: push_may_write, then the importer, in one transaction that    *)
(* commits or is rolled back whole.                                        *)
BeginWrite(w) ==
  /\ pc[w] = "write"
  /\ IF household[run[w].job] \in {"deleting", "erased"}
     THEN Outcome(w, "failed", TRUE)
     ELSE Goto(w, "commit") /\ UNCHANGED <<lockVars, run, ticker>>
  /\ UNCHANGED <<dbVars, faults, restores>>

Commit(w) ==
  LET j == run[w].job  f == run[w].file IN
  /\ pc[w] = "commit"
  /\ \/ /\ landed' = [landed EXCEPT ![j][f] = @ + 1]
        /\ Outcome(w, "done", FALSE)
     \/ Outcome(w, "failed", FALSE) /\ UNCHANGED landed
  /\ UNCHANGED <<job, file, cancelling, signedIn, household, faults, restores>>

(* _settle_file, whatever the file reads by now; then the stop, or on.     *)
Settle(w) ==
  LET j == run[w].job  f == run[w].file  r == run[w].result
      rows == job[j].rows + (IF r = "done" THEN 1 ELSE 0)
  IN
  /\ pc[w] = "settle"
  /\ IF Gone(j) THEN UNCHANGED <<job, file>>
     ELSE /\ file' = [file EXCEPT ![j][f] = [st |-> r, data |-> FALSE]]
          /\ job' = [job EXCEPT ![j] = [@ EXCEPT !.quiet = FALSE,
                !.rows = IF rows > MaxRows THEN MaxRows ELSE rows]]
  /\ Goto(w, IF run[w].stop THEN "stopRest" ELSE "loop")
  /\ run' = [run EXCEPT ![w] = [@ EXCEPT !.ran = TRUE, !.file = 0,
                                         !.result = "none", !.stop = FALSE]]
  /\ UNCHANGED <<landed, cancelling, signedIn, household, lockVars, ticker,
                 faults, restores>>

(* Fault: a stopped job's files are left as they are.                      *)
NoRest(j) == {}

Rest(j) == {"pending"}

(* _stop: the rest is skipped, the job stopped, then _finish.              *)
StopRest(w) ==
  /\ pc[w] = "stopRest"
  /\ SettleFiles(run[w].job, Rest(run[w].job), "skipped")
  /\ Goto(w, "stopJob")
  /\ UNCHANGED <<landed, cancelling, signedIn, household, lockVars, run,
                 ticker, faults, restores>>

StopJob(w) ==
  LET j == run[w].job IN
  /\ pc[w] = "stopJob"
  /\ job' = IF IsLive(j) THEN [job EXCEPT ![j].st = "stopped"] ELSE job
  /\ Ending(w, "stopped", "finish")
  /\ UNCHANGED <<file, landed, cancelling, signedIn, household, lockVars,
                 ticker, faults, restores>>

(* Fault: a job that is settled is settled again.                          *)
FinishedAs(w, j) == IF Gone(j) THEN "gone" ELSE run[w].fin

FinishAs(w, j) ==
  CASE job[j].st = "cancelling" -> "cancelled"
    [] job[j].st \in {"queued", "running"} -> run[w].fin
    [] OTHER -> job[j].st

(* _finish: the job's state, then its bytes.                               *)
Finish(w) ==
  LET j == run[w].job IN
  /\ pc[w] = "finish"
  /\ job' = [job EXCEPT ![j] = [job[j] EXCEPT !.st = FinishAs(w, j),
                                              !.quiet = @ /\ ~IsLive(j)]]
  /\ Goto(w, "clear")
  /\ UNCHANGED <<file, landed, cancelling, signedIn, household, lockVars, run,
                 ticker, faults, restores>>

Clear(w) ==
  /\ pc[w] = "clear"
  /\ file' = [file EXCEPT ![run[w].job] = NoBytes(run[w].job)]
  /\ Leave(w)
  /\ UNCHANGED <<job, landed, cancelling, signedIn, household, lockVars,
                 faults, restores>>

------------------------------------------------------------------------------
(* What goes wrong.                                                        *)

Fault == faults < MaxFaults /\ faults' = faults + 1 /\ UNCHANGED restores

(* The process dies: its connections' locks go, an open transaction too.   *)
Crash(w) ==
  /\ pc[w] # "idle"
  /\ Leave(w) /\ LetGo(w)
  /\ Fault
  /\ UNCHANGED dbVars

(* An exception anywhere in _run but the import itself ends the job as an  *)
(* error (run_job).                                                        *)
Raise(w) ==
  /\ pc[w] \in Running \ {"write", "commit", "clear"}
  /\ Ending(w, "error", "finish")
  /\ ticker' = [ticker EXCEPT ![w] = FALSE]
  /\ LetGo(w)
  /\ Fault
  /\ UNCHANGED dbVars

(* A credential or a standing that cannot be read stops the job.           *)
ReadFails(w) ==
  /\ pc[w] \in {"starter", "standing"}
  /\ Outcome(w, "skipped", TRUE)
  /\ Fault
  /\ UNCHANGED dbVars

(* The heartbeat thread could not connect, lost its connection, or was not *)
(* started in time.                                                        *)
TickerLost(w) ==
  /\ ticker[w]
  /\ ticker' = [ticker EXCEPT ![w] = FALSE]
  /\ Fault
  /\ UNCHANGED <<dbVars, lockVars, pc, run>>

(* cancel's request dies between its two statements.                       *)
CancelLost(j) ==
  /\ j \in cancelling
  /\ cancelling' = cancelling \ {j}
  /\ Fault
  /\ UNCHANGED <<job, file, landed, signedIn, household, lockVars, pc, run, ticker>>

Step(w) ==
  \/ Interrupted(w) \/ Loop(w) \/ Pick(w) \/ SkipRest(w) \/ SkipFull(w)
  \/ Wait(w) \/ TryLock(w)
  \/ WaitOn(w) \/ TrySlot(w) \/ TurnCome(w) \/ StarterOk(w) \/ Standing(w)
  \/ ClaimFile(w) \/ BeginWrite(w) \/ Commit(w) \/ Settle(w) \/ StopRest(w)
  \/ StopJob(w) \/ Finish(w) \/ Clear(w)

Next ==
  \/ \E j \in Jobs :
       \/ Submit(j) \/ Cancel(j) \/ CancelRest(j) \/ CancelLost(j)
       \/ PastBudget(j) \/ PastExpiry(j) \/ GoesQuiet(j) \/ SignOut(j)
       \/ ChangeStanding(j) \/ Erase(j)
       \/ OtherTakes(j) \/ OtherLetsGo(j)
  \/ Expire
  \/ \E w \in Workers :
       \/ Step(w) \/ GiveUp(w) \/ Crash(w) \/ Raise(w) \/ ReadFails(w)
       \/ TickerLost(w)
       \/ \E j \in Jobs : Claim(w, j)

Spec == Init /\ [][Next]_vars

(* The sweep claims what it may, a running thread keeps taking steps, a    *)
(* wait for a busy lock is given up in the end, whoever else holds a lock  *)
(* lets it go, time passes until a job's budget is spent and a heartbeat   *)
(* nobody beats is quiet, and the hourly expiry runs; that a job lives to  *)
(* be expired is not assumed.                                              *)
Fairness ==
  /\ \A w \in Workers : WF_vars(Step(w)) /\ SF_vars(GiveUp(w))
  /\ \A j \in Jobs :
       /\ WF_vars(\E w \in Workers : Claim(w, j))
       /\ WF_vars(OtherLetsGo(j)) /\ WF_vars(GoesQuiet(j)) /\ WF_vars(PastBudget(j))
       /\ WF_vars(CancelRest(j))
  /\ WF_vars(ExpireAnd({}))

FairSpec == Spec /\ Fairness

------------------------------------------------------------------------------
(* Properties.                                                             *)

JobType == [st : {"none", "gone"} \cup Live \cup Settled, cancel : BOOLEAN,
            quiet : BOOLEAN, age : {"young", "old", "ancient"}, rows : 0 .. MaxRows]
FileType == [st : {"none", "pending", "running", "done", "failed", "skipped"},
             data : BOOLEAN]
RunType == [job : Jobs \cup {"none"}, file : Files \cup {0},
            now : [cancel : BOOLEAN, old : BOOLEAN, full : BOOLEAN],
            ran : BOOLEAN, result : {"none", "done", "failed", "skipped"},
            stop : BOOLEAN, fin : {"none", "done", "stopped", "error"}]

(* A worker holds its household's lock exactly while it is in a turn, and  *)
(* the PDF slot only then: never both a lock of one household and a wait   *)
(* for another.                                                            *)
HoldsOK(w) ==
  /\ \A j \in Jobs : lock[j] = w <=> pc[w] \in Turn /\ run[w].job = j
  /\ \A h \in Hosts : slot[h] = w <=>
       /\ h = Host[w] /\ pc[w] \in Turn \ {"slot"}
       /\ run[w].file \in Pdfs[run[w].job]

(* Every variable stays in its type, and locks and slots are held by the   *)
(* workers whose turn it is: none is kept past a turn, a crash or an error.*)
TypeOK ==
  /\ job \in [Jobs -> JobType]
  /\ file \in [Jobs -> [Files -> FileType]]
  /\ landed \in [Jobs -> [Files -> Nat]]
  /\ cancelling \subseteq Jobs
  /\ signedIn \in [Jobs -> BOOLEAN]
  /\ household \in [Jobs -> {"open", "locked", "deleting", "erased"}]
  /\ lock \in [Jobs -> {"free", "sync", "restore"} \cup Workers]
  /\ slot \in [Hosts -> {"free"} \cup Workers]
  /\ pc \in [Workers -> {"idle"} \cup Running]
  /\ run \in [Workers -> RunType]
  /\ ticker \in [Workers -> BOOLEAN]
  /\ faults \in 0 .. MaxFaults /\ restores \in 0 .. MaxRestores
  /\ \A w \in Workers : HoldsOK(w)

(* No file's import commits twice, though a job may be taken over from a   *)
(* worker that died, or that lives and only lost its heartbeat.            *)
LandsOnce == \A j \in Jobs, f \in Files : landed[j][f] <= 1

(* A job that reads done or stopped has no file left pending: what it did  *)
(* not reach was settled unrun, so no later claim runs it (_settle_rest).  *)
(* A file that reads running is not covered: after a takeover one worker   *)
(* may finish the job while the other is still at its file.                *)
EndedIsComplete == \A j \in Jobs : job[j].st \in {"done", "stopped"} => Pending(j) = {}

(* A settled job keeps its outcome, whichever of the workers, the cancel   *)
(* door and the expiry come late; it can only be forgotten.                *)
OutcomeStands ==
  [][\A j \in Jobs : job[j].st \in Settled => job'[j].st \in {job[j].st, "gone"}]_vars

(* Every submitted job settles or goes with its household, whatever dies   *)
(* under it and without the expiry's help: another worker finishes it.     *)
EveryJobSettles == \A j \in Jobs : IsLive(j) ~> ~IsLive(j)

(* No settled job holds uploaded files until it is forgotten a week later, *)
(* whichever step of its end was cut short.                                *)
BytesCleared ==
  \A j \in Jobs : job[j].st \in Settled ~> \A f \in Files : ~file[j][f].data
==============================================================================
