---------------------------- MODULE SyncTurns ----------------------------
(***************************************************************************)
(* Who pulls a household's banks, and when (jobs/worker.py).  A full sync, *)
(* a one-Item pull and the doors that change a connection all try the      *)
(* household's sync lock and never wait for it: a sync turned away writes  *)
(* a nudge, which the holder looks for before it lets go.  A new Item's    *)
(* first pull is a worker job under one id per Item; the worker gives out  *)
(* Capacity turns at them, oldest job first (_FirstSyncTurns).  A job      *)
(* hands its turn to a pull in a thread of its own and awaits it; one that *)
(* arq cancels leaves the pull running, an orphan beside the Item's next   *)
(* job.                                                                    *)
(***************************************************************************)
EXTENDS Integers, FiniteSets, Sequences, SequencesExt

CONSTANTS
  Items,         \* newly linked Items, each with its first-sync job
  Fulls, Doors,  \* full syncs; other holders: links, disconnects, imports
  Pulls,         \* bound: calls of _first_pull_with_turn not yet over
  Nobody,
  Capacity,      \* FIRST_SYNC_CONCURRENCY
  MaxTries,      \* SYNC_ITEM_MAX_TRIES
  MaxFaults      \* bound: jobs cancelled, pulls failed, queues down, kills

ASSUME CapacityAssumption == Capacity \in Nat \ {0}
ASSUME SetsFinite == IsFiniteSet(Items) /\ IsFiniteSet(Pulls)
ASSUME SyncBounds == MaxTries \in Nat /\ MaxFaults \in Nat

VARIABLES
  synclock, nudge, \* the household's lock; the request left for its holder
  owed,      \* a sync was turned away, no full pass has begun since, and no
             \* fault or late note has left it to the hourly sweep
  queued,    \* a full sync is queued on the worker
  full,      \* Fulls -> its place in sync_tenant; note: found the lock held
  door,      \* Doors -> idle, holds, answer
  pulled,    \* Items some pull has finished (sync_log)
  line,      \* first-sync jobs queued or running, oldest first
  job,       \* Items -> the coroutine: out; asks for a turn; run: awaits
             \* its pull; cancel: saw it not started; busy, done: it is back
  pull,      \* Pulls -> of which Item, its thread's place, whether it has
             \* the turn to give back, whether the job still awaits it
  busy, waiting, \* turns taken; places in the queue
  tries,     \* real attempts counted
  mishaps

lockvars == <<synclock, nudge, owed, queued>>
jobvars == <<line, job, tries>>
turnvars == <<pull, busy, waiting>>
syncvars == <<lockvars, full, door, pulled, jobvars, turnvars, mishaps>>

Unused == [item |-> Nobody, at |-> "unused", turn |-> FALSE, awaited |-> FALSE]
Running == {"note", "pull", "answer"}
PullType == [item : Items \cup {Nobody},
             at : Running \cup {"unused", "queued"},
             turn : BOOLEAN, awaited : BOOLEAN]

TypeOK ==
  /\ synclock \in Pulls \cup Fulls \cup Doors \cup {Nobody}
  /\ nudge \in BOOLEAN /\ owed \in BOOLEAN /\ queued \in BOOLEAN
  /\ full \in [Fulls -> {"idle", "note", "clear", "begin", "pass", "begin2",
                         "pass2", "after"}]
  /\ door \in [Doors -> {"idle", "holds", "answer"}]
  /\ pulled \subseteq Items
  /\ line \in Seq(Items) /\ Len(line) <= Cardinality(Items)
  /\ job \in [Items -> {"out", "asks", "run", "cancel", "busy", "done"}]
  /\ pull \in [Pulls -> PullType]
  /\ busy \in Nat /\ waiting \subseteq Items
  /\ tries \in [Items -> 0..MaxTries]
  /\ mishaps \in 0..MaxFaults

Init ==
  /\ synclock = Nobody /\ nudge = FALSE /\ owed = FALSE /\ queued = FALSE
  /\ full = [f \in Fulls |-> "idle"] /\ door = [d \in Doors |-> "idle"]
  /\ pulled = {} /\ line = <<>>
  /\ job = [i \in Items |-> "out"] /\ pull = [p \in Pulls |-> Unused]
  /\ busy = 0 /\ waiting = {}
  /\ tries = [i \in Items |-> 0]
  /\ mishaps = 0

Mishap == mishaps < MaxFaults /\ mishaps' = mishaps + 1

----------------------------------------------------------------------------
(* queue_first_sync: one job id per Item, so an ask for a job that is      *)
(* queued or running adds nothing; a pull its job left running does not    *)
(* stand in the way.                                                       *)
Unasked(S) == {i \in S : job[i] = "out"}

QueueFirst(S) ==
  /\ line' = line \o SetToSeq(Unasked(S))
  /\ job' = [i \in Items |-> IF i \in Unasked(S) THEN "asks" ELSE job[i]]

(* Who answers a sync that was turned away: a full pass that has yet to    *)
(* read the Items, or a note that somebody will still look for.  Somebody  *)
(* about to write the note may yet be in time.                             *)
PassToCome == queued \/ \E f \in Fulls : full[f] \in {"clear", "begin", "begin2"}
LookToCome ==
  \/ \E f \in Fulls : full[f] = "pass"
  \/ \E d \in Doors : door[d] # "idle"
  \/ \E p \in Pulls : pull[p].at \in {"pull", "answer"}
NoteToCome == (\E f \in Fulls : full[f] = "note") \/ (\E p \in Pulls : pull[p].at = "note")
Covered == PassToCome \/ NoteToCome \/ (nudge /\ LookToCome)

(* What a fault or a late note leaves unanswered is the hourly sweep's.    *)
LeftToSweep == owed' = (owed /\ Covered')

(* _nudge_sync: a statement of its own, after the try-lock that failed; it *)
(* may come when every holder has looked, or fail, which is swallowed.     *)
Note ==
  /\ \/ nudge' = TRUE /\ UNCHANGED mishaps
     \/ Mishap /\ UNCHANGED nudge
  /\ LeftToSweep

(* sync_tenant: the queued one, or the crons'.                             *)
StartFull(f) ==
  /\ full[f] = "idle"
  /\ IF synclock = Nobody
     THEN /\ synclock' = f
          /\ full' = [full EXCEPT ![f] = "clear"]
          /\ UNCHANGED owed
     ELSE /\ full' = [full EXCEPT ![f] = "note"]
          /\ owed' = TRUE
          /\ UNCHANGED synclock
  /\ queued' \in {queued, FALSE}
  /\ UNCHANGED <<nudge, door, pulled, jobvars, turnvars, mishaps>>

NoteFull(f) ==
  /\ full[f] = "note"
  /\ full' = [full EXCEPT ![f] = "idle"]
  /\ UNCHANGED <<synclock, queued, door, pulled, jobvars, turnvars>>
  /\ Note

ClearNudge(f) ==
  /\ full[f] = "clear"
  /\ full' = [full EXCEPT ![f] = "begin"]
  /\ nudge' = FALSE
  /\ UNCHANGED <<synclock, owed, queued, door, pulled, jobvars, turnvars, mishaps>>

(* _sync_pass reads the household's Items; the first pull of a new one is  *)
(* left to its job.                                                        *)
BeginPass(f) ==
  /\ full[f] \in {"begin", "begin2"}
  /\ full' = [full EXCEPT ![f] = IF @ = "begin" THEN "pass" ELSE "pass2"]
  /\ owed' = FALSE
  /\ QueueFirst(Items \ pulled)
  /\ UNCHANGED <<synclock, nudge, queued, door, pulled, tries, turnvars, mishaps>>

(* Fault: the request is consumed after the second pass as well.          *)
EndPassQuietly(f) ==
  /\ full[f] \in {"pass", "pass2"}
  /\ full' = [full EXCEPT ![f] =
                IF @ = "pass" /\ nudge THEN "begin2" ELSE "after"]
  /\ nudge' = FALSE
  /\ UNCHANGED <<synclock, owed, queued, door, pulled, jobvars, turnvars, mishaps>>

(* One more pass for whoever was turned away during the first; only one.   *)
EndPass(f) ==
  /\ full[f] \in {"pass", "pass2"}
  /\ full' = [full EXCEPT ![f] =
                IF @ = "pass" /\ nudge THEN "begin2" ELSE "after"]
  /\ nudge' = (nudge /\ full[f] = "pass2")
  /\ UNCHANGED <<synclock, owed, queued, door, pulled, jobvars, turnvars, mishaps>>

(* A pass that raises outside its Items' handlers answers nobody, nor does *)
(* a claim that fails.                                                     *)
PassRaises(f) ==
  /\ full[f] \in {"begin", "pass", "begin2", "pass2"} /\ Mishap
  /\ full' = [full EXCEPT ![f] = "after"]
  /\ UNCHANGED <<synclock, nudge, queued, door, pulled, jobvars, turnvars>>
  /\ LeftToSweep

EndFull(f) ==
  /\ full[f] = "after"
  /\ full' = [full EXCEPT ![f] = "idle"]
  /\ synclock' = Nobody
  /\ UNCHANGED <<nudge, owed, queued, door, pulled, jobvars, turnvars, mishaps>>

----------------------------------------------------------------------------
(* answer_sync_nudge, once the lock is let go: the request is consumed and *)
(* a full sync queued; or the release failed and nobody looks, the claim   *)
(* failed, or the queue cannot be reached.                                 *)
Answer ==
  \/ /\ nudge' = FALSE /\ queued' = (queued \/ nudge)
     /\ UNCHANGED <<owed, mishaps>>
  \/ /\ nudge /\ Mishap
     /\ nudge' \in BOOLEAN /\ UNCHANGED queued
     /\ LeftToSweep

(* tenant_sync_lock: a link, a disconnect, an import, a restore.           *)
DoorTakes(d) ==
  /\ door[d] = "idle" /\ synclock = Nobody
  /\ synclock' = d
  /\ door' = [door EXCEPT ![d] = "holds"]
  /\ UNCHANGED <<nudge, owed, queued, full, pulled, jobvars, turnvars, mishaps>>

(* A link queues the first pull of what it saved once it lets go.          *)
DoorLetsGo(d) ==
  /\ door[d] = "holds"
  /\ synclock' = Nobody
  /\ door' = [door EXCEPT ![d] = "answer"]
  /\ \E S \in SUBSET (Items \ pulled) : QueueFirst(S)
  /\ UNCHANGED <<nudge, owed, queued, full, pulled, tries, turnvars, mishaps>>

DoorAnswers(d) ==
  /\ door[d] = "answer"
  /\ door' = [door EXCEPT ![d] = "idle"]
  /\ UNCHANGED <<synclock, full, pulled, jobvars, turnvars>>
  /\ Answer

----------------------------------------------------------------------------
(* sync_item for a first pull.  Its coroutines share one event loop: while *)
(* one sees its cancel through, no other moves.                            *)
LoopFree == \A i \in Items : job[i] # "cancel"

Before(i, j) == \E m, n \in DOMAIN line : line[m] = i /\ line[n] = j /\ m < n

(* _FirstSyncTurns.take: a turn, if one is free and no older job that      *)
(* still asks is ahead for it; else a place in the queue.  With the turn   *)
(* the job calls its pull and awaits it.                                   *)
Ahead(i) == {j \in waiting : Before(j, i)}
TurnFree(i) == busy + Cardinality(Ahead(i)) < Capacity

NextCall == CHOOSE p \in Pulls : pull[p].at = "unused"

Take(i) ==
  /\ job[i] = "asks" /\ LoopFree /\ TurnFree(i)
  /\ busy' = busy + 1
  /\ waiting' = waiting \ {i}
  /\ job' = [job EXCEPT ![i] = "run"]
  /\ \E p \in Pulls : pull[p].at = "unused"
  /\ pull' = [pull EXCEPT ![NextCall] = [item |-> i, at |-> "queued",
                                         turn |-> TRUE, awaited |-> TRUE]]
  /\ UNCHANGED <<lockvars, full, door, pulled, line, tries, mishaps>>

Wait(i) ==
  /\ job[i] = "asks" /\ LoopFree /\ ~TurnFree(i)
  /\ waiting' = waiting \cup {i}
  /\ UNCHANGED <<lockvars, full, door, pulled, jobvars, pull, busy, mishaps>>

(* A waiter not heard of for a while loses its place, and gets it back     *)
(* when it asks again.                                                     *)
Prune(i) ==
  /\ i \in waiting /\ Mishap
  /\ waiting' = waiting \ {i}
  /\ UNCHANGED <<lockvars, full, door, pulled, jobvars, pull, busy>>

Place(i) == CHOOSE n \in DOMAIN line : line[n] = i

(* However the job ends, its place, its count and its id go with it.       *)
Ends(i) ==
  /\ job' = [job EXCEPT ![i] = "out"]
  /\ line' = RemoveAt(line, Place(i))
  /\ waiting' = waiting \ {i}
  /\ tries' = [tries EXCEPT ![i] = 0]

(* It has waited its six hours for a turn.                                 *)
GiveUpWaiting(i) ==
  /\ job[i] = "asks" /\ LoopFree /\ ~TurnFree(i) /\ Mishap
  /\ Ends(i)
  /\ UNCHANGED <<lockvars, full, door, pulled, pull, busy>>

(* _run, the call's thread: under the guard it finds the turn gone, or     *)
(* marks that it has started and goes to _sync_item_body, to the lock or a *)
(* nudge.  On the way it touches nothing that anybody reads but the mark.  *)
ThreadAbandons(p) ==
  /\ pull[p].at = "queued" /\ ~pull[p].turn
  /\ pull' = [pull EXCEPT ![p] = Unused]
  /\ UNCHANGED <<lockvars, full, door, pulled, jobvars, busy, waiting, mishaps>>

ThreadLocks(p) ==
  /\ pull[p].at = "queued" /\ pull[p].turn /\ synclock = Nobody
  /\ synclock' = p
  /\ pull' = [pull EXCEPT ![p].at = "pull"]
  /\ UNCHANGED <<nudge, owed, queued, full, door, pulled, jobvars, busy, waiting,
                 mishaps>>

ThreadBusy(p) ==
  /\ pull[p].at = "queued" /\ pull[p].turn /\ synclock # Nobody
  /\ pull' = [pull EXCEPT ![p].at = "note"]
  /\ owed' = TRUE
  /\ UNCHANGED <<synclock, nudge, queued, full, door, pulled, jobvars, busy,
                 waiting, mishaps>>

Awaits(i) == {p \in Pulls : pull[p].item = i /\ pull[p].awaited}
NotStarted(i) == \E p \in Awaits(i) : pull[p].at = "queued"

(* Fault: the call is dropped before it runs and nobody gives its turn     *)
(* back.                                                                   *)
CancelWithTurn(i) ==
  /\ job[i] = "run" /\ LoopFree /\ NotStarted(i) /\ Mishap
  /\ Ends(i)
  /\ pull' = [p \in Pulls |-> IF p \in Awaits(i) THEN Unused ELSE pull[p]]
  /\ UNCHANGED <<lockvars, full, door, pulled, busy>>

(* Fault: the turn is released without asking whether it is still held.    *)
CancelReleases(i) ==
  /\ job[i] = "cancel"
  /\ Ends(i)
  /\ busy' = busy - 1
  /\ pull' = [p \in Pulls |-> IF p \in Awaits(i)
                              THEN [pull[p] EXCEPT !.turn = FALSE, !.awaited = FALSE]
                              ELSE pull[p]]
  /\ UNCHANGED <<lockvars, full, door, pulled, mishaps>>

(* arq cancels the job at its timeout.  Under the guard it sees whether    *)
(* the thread has started.  If it has, the turn and the pull are left to   *)
(* it.  If not, the guard is let go and the turn given back under it once  *)
(* more: the thread may start in between, and even be through.             *)
CancelEarly(i) ==
  /\ job[i] = "run" /\ LoopFree /\ NotStarted(i) /\ Mishap
  /\ job' = [job EXCEPT ![i] = "cancel"]
  /\ UNCHANGED <<lockvars, full, door, pulled, line, tries, turnvars>>

CancelLate(i) ==
  /\ job[i] \in {"run", "busy", "done"} /\ LoopFree /\ ~NotStarted(i) /\ Mishap
  /\ Ends(i)
  /\ pull' = [p \in Pulls |-> IF p \in Awaits(i)
                              THEN [pull[p] EXCEPT !.awaited = FALSE] ELSE pull[p]]
  /\ UNCHANGED <<lockvars, full, door, pulled, busy>>

CancelGivesBack(i) ==
  /\ job[i] = "cancel"
  /\ Ends(i)
  /\ busy' = IF \E p \in Awaits(i) : pull[p].turn THEN busy - 1 ELSE busy
  /\ pull' = [p \in Pulls |-> IF p \in Awaits(i)
                              THEN [pull[p] EXCEPT !.turn = FALSE, !.awaited = FALSE]
                              ELSE pull[p]]
  /\ UNCHANGED <<lockvars, full, door, pulled, mishaps>>

(* The thread gives back the turn if it still has it, and the job that     *)
(* awaits it hears of it.                                                  *)
Returns(p, r) ==
  /\ busy' = IF pull[p].turn THEN busy - 1 ELSE busy
  /\ pull' = [pull EXCEPT ![p] = Unused]
  /\ job' = [i \in Items |->
               IF p \in Awaits(i) /\ job[i] = "run" THEN r ELSE job[i]]

ThreadNotes(p) ==
  /\ pull[p].at = "note"
  /\ Returns(p, "busy")
  /\ UNCHANGED <<synclock, queued, full, door, pulled, line, tries, waiting>>
  /\ Note

(* The pull ends, well or with Plaid's error: either way it is on record.  *)
(* One that raises otherwise is not.                                       *)
Pulled(p) ==
  /\ pull[p].at = "pull"
  /\ \/ pulled' = pulled \cup {pull[p].item} /\ UNCHANGED mishaps
     \/ Mishap /\ UNCHANGED pulled
  /\ synclock' = Nobody
  /\ pull' = [pull EXCEPT ![p].at = "answer"]
  /\ UNCHANGED <<nudge, owed, queued, full, door, jobvars, busy, waiting>>

ThreadAnswers(p) ==
  /\ pull[p].at = "answer"
  /\ Returns(p, "done")
  /\ UNCHANGED <<synclock, full, door, pulled, line, tries, waiting>>
  /\ Answer

(* The job comes back to what its thread returned: behind a busy lock it   *)
(* is tried again, MaxTries times in all.                                  *)
Retry(i) ==
  /\ job[i] = "busy" /\ LoopFree /\ tries[i] + 1 < MaxTries
  /\ tries' = [tries EXCEPT ![i] = @ + 1]
  /\ job' = [job EXCEPT ![i] = "asks"]
  /\ UNCHANGED <<lockvars, full, door, pulled, line, turnvars, mishaps>>

Done(i) ==
  /\ LoopFree
  /\ job[i] = "done" \/ (job[i] = "busy" /\ tries[i] + 1 >= MaxTries)
  /\ Ends(i)
  /\ UNCHANGED <<lockvars, full, door, pulled, pull, busy, mishaps>>

----------------------------------------------------------------------------
(* The worker is killed: its syncs and threads go, with the turns; the     *)
(* jobs are run again.                                                     *)
WorkerDies ==
  /\ Mishap
  /\ full' = [f \in Fulls |-> "idle"]
  /\ synclock' = IF synclock \in Doors THEN synclock ELSE Nobody
  /\ job' = [i \in Items |-> IF job[i] = "out" THEN "out" ELSE "asks"]
  /\ pull' = [p \in Pulls |-> Unused]
  /\ busy' = 0 /\ waiting' = {}
  /\ UNCHANGED <<nudge, queued, door, pulled, line, tries>>
  /\ LeftToSweep

FullStep(f) == NoteFull(f) \/ ClearNudge(f) \/ BeginPass(f) \/ EndPass(f)
               \/ PassRaises(f) \/ EndFull(f)
DoorStep(d) == DoorLetsGo(d) \/ DoorAnswers(d)
ThreadStep(p) == ThreadAbandons(p) \/ ThreadLocks(p) \/ ThreadBusy(p) \/ ThreadNotes(p)
                 \/ Pulled(p) \/ ThreadAnswers(p)
JobStep(i) == Take(i) \/ Wait(i) \/ Retry(i) \/ Done(i) \/ CancelGivesBack(i)
JobFaults(i) == Prune(i) \/ GiveUpWaiting(i) \/ CancelEarly(i) \/ CancelLate(i)

Next ==
  \/ \E f \in Fulls : StartFull(f) \/ FullStep(f)
  \/ \E d \in Doors : DoorTakes(d) \/ DoorStep(d)
  \/ \E i \in Items : JobStep(i) \/ JobFaults(i)
  \/ \E p \in Pulls : ThreadStep(p)
  \/ WorkerDies

(* The sweep comes round and what runs goes on; a job is asked for its     *)
(* turn again and again; and who tries the lock for ever, minutes or hours *)
(* apart, a full sync or an Item's pulls, finds it free some time.         *)
PullsAt(i, place) == \E p \in Pulls : pull[p].item = i /\ pull[p].at = place

Fairness ==
  /\ \A f \in Fulls : /\ WF_syncvars(StartFull(f) \/ FullStep(f))
                      /\ []<>(full[f] = "note") => []<>(full[f] = "clear")
  /\ \A d \in Doors : WF_syncvars(DoorStep(d))
  /\ \A p \in Pulls : WF_syncvars(ThreadStep(p))
  /\ \A i \in Items : /\ WF_syncvars(JobStep(i))
                      /\ []<>PullsAt(i, "note") => []<>PullsAt(i, "pull")

Spec == Init /\ [][Next]_syncvars
FairSpec == Spec /\ Fairness

----------------------------------------------------------------------------
(* Every turn taken is some pull's that will give it back, once: its       *)
(* thread is at work, or has not started and a job awaits it.  A pull at   *)
(* work without a turn is one whose job was cancelled as it started; there *)
(* are no more of those than there were mishaps.                           *)
Held == {p \in Pulls : pull[p].turn}
Strays == {p \in Pulls : pull[p].at \in Running /\ ~pull[p].turn}

TurnsAccounted ==
  /\ busy = Cardinality(Held) /\ busy <= Capacity
  /\ \A p \in Held :
       \/ pull[p].at \in Running
       \/ pull[p].at = "queued" /\ \E i \in Items : p \in Awaits(i)
                                                /\ job[i] \in {"run", "cancel"}
  /\ \A p \in Strays : ~pull[p].awaited
  /\ Cardinality(Strays) <= mishaps

(* A sync turned away is not forgotten: a full pass that has yet to read   *)
(* the Items covers it, or its note is still to be written, or stands and  *)
(* somebody is going to look for it.  A note alone, with every holder past *)
(* its look, is not enough; one that comes as late as that, or not at all, *)
(* and what a fault loses, is the hourly sweep's.                          *)
NudgeStands == owed => Covered

(* Every new Item is pulled in the end, though its job gives up behind a   *)
(* busy household, is cancelled or dies with its worker.                   *)
FirstPullHappens == <>(pulled = Items)
============================================================================
