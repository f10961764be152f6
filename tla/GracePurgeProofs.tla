-------------------------- MODULE GracePurgeProofs --------------------------
(* GracePurge's safety, proved for every number of purge runs, doors,      *)
(* writers, Items, crashes and failures: nothing is written through a      *)
(* wipe, every variable stays in its type, a hand-back leaves nothing      *)
(* looking connected, what is left billing is named in a marker, and money *)
(* that came mid-purge keeps the household.                                *)
EXTENDS PurgePaid, TLAPS

Waited     == {"check", "list", "release", "erase"}
EraserPCs  == {"idle", "flip", "holdSync", "holdPush", "unlock"} \cup Waited
SweeperPCs == {"idle", "listed", "write", "writeLate"}
PusherPCs  == {"idle", "begin", "status", "commit"}

TenantOK ==
  tenant \in [st : {"open", "unverified", "pending", "erased"},
              prev : {"none", "open", "unverified"},
              due : {"none", "ahead", "past"},
              claim : Purgers \cup {"none"}, stale : BOOLEAN]

(* Where the processes may be, and who may hold a lock.                    *)
Places ==
  /\ pc \in [Erasers \cup Writers -> EraserPCs \cup SweeperPCs \cup PusherPCs]
  /\ \A e \in Erasers : pc[e] \in EraserPCs
  /\ \A w \in Sweepers : pc[w] \in SweeperPCs
  /\ \A w \in Pushers : pc[w] \in PusherPCs
  /\ lock \in [{"sync", "push"} -> {"free"} \cup Erasers \cup Writers]

(* An eraser past its waits holds both locks; a sweeper that writes holds  *)
(* the one, and no push is in its transaction while the other is held.     *)
Held ==
  /\ \A e \in Erasers :
       /\ pc[e] \in Waited => lock["push"] = e
       /\ pc[e] \in {"holdPush"} \cup Waited => lock["sync"] = e
  /\ \A w \in Sweepers : pc[w] \in {"write", "writeLate"} => lock["sync"] = w
  /\ \A w \in Pushers : Pushing(w) => lock["push"] = "free"

(* Once the household is gone, whoever may still write began afterwards.   *)
NoneLeft == Gone => /\ \A w \in Sweepers : pc[w] # "write"
                    /\ \A w \in Pushers : pc[w] # "commit"

WipeInv == TenantOK /\ Places /\ Held /\ NoneLeft /\ NoneWritesThroughWipe

USE PurgeAssumption DEF Erasers, Writers

LEMMA InitWipe == Init => WipeInv
BY DEF Init, WipeInv, TenantOK, Places, Held, NoneLeft, NoneWritesThroughWipe, Gone,
       Pushing, Waited, EraserPCs, SweeperPCs, PusherPCs

------------------------------------------------------------------------------
(* A step that moves no process and no lock, and writes no row.            *)
LEMMA QuietStep ==
  ASSUME WipeInv, UNCHANGED <<pc, lock, books>>, TenantOK', Gone' => Gone
  PROVE  WipeInv'
BY DEF WipeInv, Places, Held, NoneLeft, NoneWritesThroughWipe, Pushing

(* An eraser that goes on without a lock it did not hold already, and      *)
(* erases nothing.                                                         *)
LEMMA EraserMoves ==
  ASSUME WipeInv, TenantOK', Gone' => Gone, UNCHANGED <<lock, books>>,
         NEW e \in Erasers, NEW to \in EraserPCs, Goto(e, to),
         to \in Waited => pc[e] \in Waited,
         to # "holdPush"
  PROVE  WipeInv'
<1>1. pc' = [pc EXCEPT ![e] = to] /\ e \notin Writers
  BY DEF Goto
<1>2. Places'
  BY <1>1 DEF WipeInv, Places
<1>3. Held'
  BY <1>1 DEF WipeInv, Places, Held, Pushing
<1>4. NoneLeft' /\ NoneWritesThroughWipe'
  BY <1>1 DEF WipeInv, Places, NoneLeft, NoneWritesThroughWipe
<1>. QED BY <1>2, <1>3, <1>4 DEF WipeInv

(* The doors, the household's people and the passing of time.              *)
LEMMA DoorsStep ==
  ASSUME WipeInv,
         \/ Schedule \/ Freeze \/ Reopen \/ Restore \/ ArchiveRestored \/ Pay
         \/ PastDue \/ GoesStale \/ \E i \in Items : Retry(i)
  PROVE  WipeInv'
<1>1. UNCHANGED <<pc, lock, books>>
  BY DEF Schedule, Freeze, Reopen, Restore, ArchiveRestored, Pay, PastDue,
         GoesStale, Retry, OnTenant
<1>2. TenantOK' /\ (Gone' => Gone)
  <2>. USE DEF WipeInv
  <2>1. CASE Schedule
    BY <2>1 DEF Schedule, OnTenant, Tenant, Gone, TenantOK
  <2>2. CASE Freeze
    BY <2>2 DEF Freeze, OnTenant, Tenant, Gone, TenantOK
  <2>3. CASE Reopen
    BY <2>3 DEF Reopen, Restored, Tenant, Gone, TenantOK
  <2>4. CASE Restore
    BY <2>4 DEF Restore, Restored, NotClaimed, ClaimedBy, Tenant, Gone, TenantOK
  <2>5. CASE ArchiveRestored \/ Pay \/ \E i \in Items : Retry(i)
    BY <2>5 DEF ArchiveRestored, Pay, Retry, Gone, TenantOK
  <2>6. CASE PastDue
    BY <2>6 DEF PastDue, OnTenant, Tenant, Gone, TenantOK
  <2>7. CASE GoesStale
    BY <2>7 DEF GoesStale, OnTenant, Gone, TenantOK
  <2>. QED BY <2>1, <2>2, <2>3, <2>4, <2>5, <2>6, <2>7
<1>. QED BY <1>1, <1>2, QuietStep

------------------------------------------------------------------------------
(* The way in.                                                             *)
LEMMA EnterStep ==
  ASSUME WipeInv, NEW e \in Erasers,
         (e \in Purgers /\ Claim(e)) \/ OwnerAsks(e) \/ ConsoleErases(e) \/ Flip(e)
  PROVE  WipeInv'
<1>1. CASE e \in Purgers /\ Claim(e)
  <2>1. TenantOK' /\ (Gone' => Gone)
    BY <1>1 DEF Claim, ClaimedBy, Gone, TenantOK, WipeInv
  <2>2. Goto(e, "holdSync") /\ UNCHANGED <<lock, books>>
    BY <1>1 DEF Claim
  <2>. QED BY <2>1, <2>2, EraserMoves DEF EraserPCs, Waited
<1>2. CASE OwnerAsks(e)
  BY <1>2, EraserMoves DEF OwnerAsks, EraserPCs, Waited, Gone, TenantOK, WipeInv
<1>3. CASE ConsoleErases(e)
  BY <1>3, EraserMoves DEF ConsoleErases, EraserPCs, Waited, Gone, TenantOK, WipeInv
<1>4. CASE Flip(e)
  <2>1. TenantOK' /\ (Gone' => Gone)
    BY <1>4 DEF Flip, Tenant, Gone, TenantOK, WipeInv
  <2>2. Goto(e, "holdSync") /\ UNCHANGED <<lock, books>>
    BY <1>4 DEF Flip
  <2>. QED BY <2>1, <2>2, EraserMoves DEF EraserPCs, Waited
<1>. QED BY <1>1, <1>2, <1>3, <1>4

(* hold_writers: whoever takes a lock takes it from nobody.                *)
LEMMA HoldStep ==
  ASSUME WipeInv, NEW e \in Erasers, HoldSync(e) \/ HoldPush(e)
  PROVE  WipeInv'
<1>. USE DEF WipeInv
<1>1. UNCHANGED <<tenant, books>> /\ e \notin Writers /\ e # "free"
  BY DEF HoldSync, HoldPush
<1>2. CASE HoldSync(e)
  <2>1. /\ lock["sync"] = "free" /\ lock' = [lock EXCEPT !["sync"] = e]
        /\ pc' = [pc EXCEPT ![e] = "holdPush"]
    BY <1>2 DEF HoldSync, Goto
  <2>2. Places'
    BY <2>1 DEF Places, EraserPCs
  <2>3. \A x \in Erasers : pc[x] \notin {"holdPush"} \cup Waited
    BY <2>1 DEF Held
  <2>4. \A w \in Sweepers : pc[w] \notin {"write", "writeLate"}
    BY <2>1 DEF Held
  <2>5. Held'
    BY <1>1, <2>1, <2>3, <2>4 DEF Held, Places, Pushing, Waited
  <2>. QED BY <1>1, <2>1, <2>2, <2>5
           DEF TenantOK, Places, NoneLeft, NoneWritesThroughWipe, Gone
<1>3. CASE HoldPush(e)
  <2>. DEFINE to == IF e \in Purgers THEN "check" ELSE "list"
  <2>1. /\ pc[e] = "holdPush" /\ lock["push"] = "free"
        /\ lock' = [lock EXCEPT !["push"] = e]
        /\ pc' = [pc EXCEPT ![e] = to]
        /\ \A w \in Pushers : ~Pushing(w)
    BY <1>3 DEF HoldPush, Goto, PushLockFree
  <2>2. to \in Waited
    BY DEF Waited
  <2>3. lock["sync"] = e
    BY <2>1 DEF Held
  <2>. HIDE DEF to
  <2>4. Places'
    BY <2>1, <2>2 DEF Places, EraserPCs
  <2>5. \A x \in Erasers : x # e => pc[x] \notin {"holdPush"} \cup Waited
    BY <2>3 DEF Held
  <2>6. Held'
    BY <1>1, <2>1, <2>2, <2>3, <2>5 DEF Held, Places, Pushing, Waited
  <2>. QED BY <1>1, <2>1, <2>4, <2>6
           DEF TenantOK, Places, NoneLeft, NoneWritesThroughWipe, Gone
<1>. QED BY <1>2, <1>3

------------------------------------------------------------------------------
(* Check, the release and its marker: no row is written, none erased.      *)
LEMMA ReleaseStep ==
  ASSUME WipeInv, NEW e \in Erasers,
         \/ Check(e)
         \/ List(e) \/ Mark(e) \/ \E i \in Items : ReleaseItem(e, i)
  PROVE  WipeInv'
<1>1. CASE Check(e)
  <2>0. tenant' = tenant \/ tenant' = NotClaimed(tenant)
    BY <1>1 DEF Check, Unclaimed
  <2>1. TenantOK' /\ (Gone' => Gone)
    <3>. USE DEF TenantOK, Gone, WipeInv
    <3>1. CASE tenant' = tenant
      BY <3>1
    <3>2. CASE tenant' = NotClaimed(tenant)
      BY <3>2 DEF NotClaimed, ClaimedBy
    <3>. QED BY <2>0, <3>1, <3>2
  <2>2. UNCHANGED <<lock, books>> /\ pc[e] \in Waited
    BY <1>1 DEF Check, Waited
  <2>3. Goto(e, "list") \/ Goto(e, "unlock")
    BY <1>1 DEF Check
  <2>. QED BY <2>1, <2>2, <2>3, EraserMoves DEF EraserPCs, Waited
<1>2. CASE List(e)
  BY <1>2, EraserMoves DEF List, EraserPCs, Waited, Gone, TenantOK, WipeInv
<1>3. CASE Mark(e)
  BY <1>3, EraserMoves DEF Mark, EraserPCs, Waited, Gone, TenantOK, WipeInv
<1>4. CASE \E i \in Items : ReleaseItem(e, i)
  BY <1>4, QuietStep DEF ReleaseItem, Gone, TenantOK, WipeInv
<1>. QED BY <1>1, <1>2, <1>3, <1>4

(* The wipe: the eraser holds both locks, so no writer is at its write and *)
(* no push in its transaction.                                             *)
LEMMA WipeStep ==
  ASSUME WipeInv, NEW e \in Erasers, pc[e] = "erase",
         Wipe, Goto(e, "unlock"), UNCHANGED lock
  PROVE  WipeInv'
<1>. USE DEF WipeInv
<1>1. lock["sync"] = e /\ lock["push"] = e /\ e \notin Writers /\ e # "free"
  BY DEF Held, Waited
<1>2. pc' = [pc EXCEPT ![e] = "unlock"]
  BY DEF Goto
<1>3. TenantOK' /\ books' = "erased"
  BY DEF Wipe, TenantOK
<1>4. Places'
  BY <1>2 DEF Places, EraserPCs
<1>5. Held'
  BY <1>1, <1>2 DEF Held, Places, Pushing, Waited
<1>6. NoneLeft'
  <2>1. \A w \in Sweepers : pc[w] # "write"
    BY <1>1 DEF Held
  <2>2. \A w \in Pushers : pc[w] # "commit"
    BY <1>1 DEF Held, Pushing
  <2>. QED BY <1>1, <1>2, <2>1, <2>2 DEF NoneLeft, Places
<1>. QED BY <1>3, <1>4, <1>5, <1>6 DEF NoneWritesThroughWipe

(* The last phase, at a purge and at a door.                               *)
LEMMA EraseStep ==
  ASSUME WipeInv, NEW e \in Erasers, (e \in Purgers /\ Erase(e)) \/ EraseNow(e)
  PROVE  WipeInv'
<1>1. pc[e] = "erase" /\ Goto(e, "unlock") /\ UNCHANGED lock
  BY DEF Erase, EraseNow
<1>2. CASE Wipe
  BY <1>1, <1>2, WipeStep
<1>3. CASE e \in Purgers /\ HandBack(Unclaimed(e))
  <2>1. TenantOK' /\ (Gone' => Gone) /\ UNCHANGED books
    BY <1>3 DEF HandBack, Unclaimed, NotClaimed, ClaimedBy, Gone, TenantOK, WipeInv
  <2>. QED BY <1>1, <2>1, EraserMoves DEF EraserPCs, Waited
<1>4. CASE e \in Purgers /\ StillClaimed(e) /\ HandBack(NotClaimed(Restored))
  <2>1. TenantOK' /\ (Gone' => Gone) /\ UNCHANGED books
    BY <1>4 DEF HandBack, NotClaimed, ClaimedBy, Restored, Tenant, Gone, TenantOK,
                WipeInv
  <2>. QED BY <1>1, <2>1, EraserMoves DEF EraserPCs, Waited
<1>. QED BY <1>2, <1>3, <1>4 DEF Erase, EraseNow

(* An exception: the locks stay until the connection closes.               *)
LEMMA RaiseStep ==
  ASSUME WipeInv, NEW e \in Erasers, Raise(e)
  PROVE  WipeInv'
<1>1. TenantOK' /\ (Gone' => Gone)
  BY DEF Raise, Unclaimed, NotClaimed, ClaimedBy, Gone, TenantOK, WipeInv
<1>2. Goto(e, "unlock") /\ UNCHANGED <<lock, books>>
  BY DEF Raise
<1>. QED BY <1>1, <1>2, EraserMoves DEF EraserPCs, Waited

(* The locks let go, in order or by a crash: nobody else's.                *)
LEMMA LeaveStep ==
  ASSUME WipeInv, NEW e \in Erasers, Unlock(e) \/ Crash(e)
  PROVE  WipeInv'
<1>. USE DEF WipeInv
<1>1. /\ lock' = [k \in {"sync", "push"} |-> IF lock[k] = e THEN "free" ELSE lock[k]]
      /\ pc' = [pc EXCEPT ![e] = "idle"]
      /\ UNCHANGED <<tenant, books>>
  BY DEF Unlock, Crash, Leave, Free, Goto
<1>2. Places'
  BY <1>1 DEF Places, EraserPCs
<1>3. Held'
  BY <1>1 DEF Held, Places, Pushing, Waited
<1>. QED BY <1>1, <1>2, <1>3 DEF TenantOK, Places, NoneLeft, NoneWritesThroughWipe, Gone

------------------------------------------------------------------------------
(* The sweepers.                                                           *)
LEMMA SweeperStep ==
  ASSUME WipeInv, NEW w \in Sweepers, ListActive(w) \/ TryLock(w) \/ Write(w)
  PROVE  WipeInv'
<1>. USE DEF WipeInv
<1>1. tenant' = tenant /\ w \notin Erasers /\ w \notin Pushers /\ w # "free"
  BY DEF ListActive, TryLock, Write, OnWriter
<1>2. TenantOK' /\ (Gone' <=> Gone)
  BY <1>1 DEF TenantOK, Gone
<1>3. CASE ListActive(w)
  <2>1. pc' = [pc EXCEPT ![w] = "listed"] /\ UNCHANGED <<books, lock>>
    BY <1>3 DEF ListActive, OnWriter, Goto
  <2>. QED BY <1>1, <1>2, <2>1 DEF Places, SweeperPCs, Held, Pushing, NoneLeft,
           NoneWritesThroughWipe
<1>4. CASE TryLock(w)
  <2>1. CASE lock["sync"] = "free"
    <3>. DEFINE to == IF Gone THEN "writeLate" ELSE "write"
    <3>1. /\ lock' = [lock EXCEPT !["sync"] = w] /\ books' = books
          /\ pc' = [pc EXCEPT ![w] = to]
      BY <1>4, <2>1 DEF TryLock, OnWriter, Goto
    <3>2. to \in {"write", "writeLate"} /\ (Gone => to # "write")
      OBVIOUS
    <3>. HIDE DEF to
    <3>3. Places'
      BY <3>1, <3>2 DEF Places, SweeperPCs
    <3>4. \A e \in Erasers : pc[e] \notin {"holdPush"} \cup Waited
      BY <2>1 DEF Held
    <3>5. \A x \in Sweepers : pc[x] \notin {"write", "writeLate"}
      BY <2>1 DEF Held
    <3>6. Held'
      BY <1>1, <3>1, <3>4, <3>5 DEF Held, Places, Pushing, Waited
    <3>7. NoneLeft'
      BY <1>1, <1>2, <3>1, <3>2 DEF NoneLeft, Places
    <3>. QED BY <1>2, <3>1, <3>3, <3>6, <3>7 DEF NoneWritesThroughWipe
  <2>2. CASE lock["sync"] # "free"
    <3>1. pc' = [pc EXCEPT ![w] = "idle"] /\ UNCHANGED <<books, lock>>
      BY <1>4, <2>2 DEF TryLock, OnWriter, Goto
    <3>. QED BY <1>1, <1>2, <3>1 DEF Places, SweeperPCs, Held, Pushing, NoneLeft,
             NoneWritesThroughWipe
  <2>. QED BY <2>1, <2>2
<1>5. CASE Write(w)
  <2>1. /\ lock' = [k \in {"sync", "push"} |-> IF lock[k] = w THEN "free" ELSE lock[k]]
        /\ pc' = [pc EXCEPT ![w] = "idle"]
        /\ pc[w] \in {"write", "writeLate"}
    BY <1>5 DEF Write, Free, OnWriter, Goto
  <2>2. NoneWritesThroughWipe'
    BY <1>5 DEF Write, WrittenBack, NoneWritesThroughWipe, NoneLeft
  <2>3. Places'
    BY <2>1 DEF Places, SweeperPCs
  <2>4. Held'
    BY <1>1, <2>1 DEF Held, Places, Pushing, Waited
  <2>. QED BY <1>1, <1>2, <2>1, <2>2, <2>3, <2>4 DEF NoneLeft, Places
<1>. QED BY <1>3, <1>4, <1>5

(* The pushes.                                                             *)
LEMMA PusherStep ==
  ASSUME WipeInv, NEW w \in Pushers,
         Authenticate(w) \/ Begin(w) \/ ReadStatus(w) \/ CommitPush(w)
  PROVE  WipeInv'
<1>. USE DEF WipeInv
<1>1. /\ tenant' = tenant /\ lock' = lock
      /\ w \notin Erasers /\ w \notin Sweepers
  BY DEF Authenticate, Begin, ReadStatus, CommitPush, OnWriter
<1>2. TenantOK' /\ (Gone' <=> Gone)
  BY <1>1 DEF TenantOK, Gone
<1>3. NoneWritesThroughWipe'
  BY DEF Authenticate, Begin, ReadStatus, CommitPush, WrittenBack,
         NoneWritesThroughWipe, NoneLeft
<1>4. PICK to \in PusherPCs :
        /\ pc' = [pc EXCEPT ![w] = to]
        /\ to = "status" => lock["push"] = "free"
        /\ to = "commit" => pc[w] = "status" /\ ~Gone
  BY DEF Authenticate, Begin, ReadStatus, CommitPush, OnWriter, Goto, PusherPCs,
         PushMayWrite, Gone
<1>5. Places'
  BY <1>1, <1>4 DEF Places
<1>6. Held'
  BY <1>1, <1>4 DEF Held, Places, Pushing
<1>7. NoneLeft'
  BY <1>1, <1>2, <1>4 DEF NoneLeft, Places
<1>. QED BY <1>2, <1>3, <1>5, <1>6, <1>7

------------------------------------------------------------------------------
(* The invariant holds of every step.                                      *)
LEMMA NextWipe == WipeInv /\ [Next]_vars => WipeInv'
<1>. SUFFICES ASSUME WipeInv, [Next]_vars PROVE WipeInv'
  OBVIOUS
<1>1. CASE UNCHANGED vars
  BY <1>1, QuietStep DEF vars, Gone, TenantOK, WipeInv
<1>2. ASSUME NEW e \in Erasers, Step(e) \/ Raise(e) \/ Crash(e)
      PROVE  WipeInv'
  <2>1. Erase(e) => e \in Purgers
    BY DEF Erase
  <2>. QED BY <1>2, <2>1, EnterStep, HoldStep, ReleaseStep, EraseStep, RaiseStep,
              LeaveStep DEF Step
<1>3. ASSUME NEW w \in Writers,
             ListActive(w) \/ Authenticate(w) \/ WriterStep(w)
      PROVE  WipeInv'
  <2>1. CASE w \in Sweepers
    <3>1. ListActive(w) \/ TryLock(w) \/ Write(w)
      BY <1>3, <2>1 DEF WriterStep, Authenticate, Begin, ReadStatus, CommitPush,
                        WipeInv, Places, SweeperPCs
    <3>. QED BY <2>1, <3>1, SweeperStep
  <2>2. CASE w \in Pushers
    <3>1. Authenticate(w) \/ Begin(w) \/ ReadStatus(w) \/ CommitPush(w)
      BY <1>3, <2>2 DEF WriterStep, ListActive, TryLock, Write, WipeInv, Places,
                        PusherPCs
    <3>. QED BY <2>2, <3>1, PusherStep
  <2>. QED BY <2>1, <2>2
<1>4. CASE Next
  BY <1>2, <1>3, <1>4, DoorsStep, EnterStep DEF Next
<1>. QED BY <1>1, <1>4

(* "a writer already in flight when the rows go writes them straight back":*)
(* none does (erasure.py hold_writers, push_may_write).                    *)
THEOREM NoneThroughWipe == Spec => []NoneWritesThroughWipe
<1>1. WipeInv => NoneWritesThroughWipe
  BY DEF WipeInv
<1>. QED BY <1>1, InitWipe, NextWipe, PTL DEF Spec

------------------------------------------------------------------------------
(* The types.                                                              *)

ItemRows == [row : {"live", "archived", "none"}, vendor : BOOLEAN,
             stamped : BOOLEAN, queued : BOOLEAN, marked : BOOLEAN]
RunRows  == [base : BOOLEAN, todo : SUBSET Items, failed : SUBSET Items,
             short : BOOLEAN]

Flags == money \in BOOLEAN /\ proven \in BOOLEAN /\ archiving \in BOOLEAN
ItemOK == item \in [Items -> ItemRows]
RunOK == run \in [Erasers -> RunRows]
Counts ==
  /\ books \in {"kept", "erased", "inFlight", "late", "pushed"}
  /\ crashes \in 0 .. MaxCrashes /\ failures \in 0 .. MaxFailures
  /\ outages \in 0 .. MaxOutages

DataOK == Flags /\ ItemOK /\ RunOK /\ Counts

(* Who does not hold a lock.                                               *)
Unheld ==
  /\ \A e \in Erasers : pc[e] \in {"idle", "flip", "holdSync"}
                          => \A k \in {"sync", "push"} : lock[k] # e
  /\ \A w \in Sweepers : lock["sync"] = w => pc[w] \in {"write", "writeLate"}
  /\ lock["push"] \notin Writers

TypeInv == WipeInv /\ DataOK /\ Unheld

LEMMA TypeInvTypes == TypeInv => TypeOK
<1>. SUFFICES ASSUME TypeInv PROVE TypeOK
  OBVIOUS
<1>. USE DEF TypeInv, WipeInv
<1>1. pc \in [Erasers \cup Writers -> {"idle", "flip", "unlock", "listed", "write",
                "writeLate", "begin", "status", "commit"} \cup Purging]
  BY DEF Places, EraserPCs, SweeperPCs, PusherPCs, Waited, Purging
<1>2. HoldsOK
  BY DEF HoldsOK, Held, Unheld, Waited
<1>. QED BY <1>1, <1>2 DEF TypeOK, TenantOK, DataOK, Flags, ItemOK, ItemRows, RunOK,
                           RunRows, Counts, Places

LEMMA NothingReadType == NothingRead \in RunRows
BY DEF NothingRead, RunRows

LEMMA InitTypeInv == Init => TypeInv
<1>. SUFFICES ASSUME Init PROVE TypeInv
  OBVIOUS
<1>1. DataOK
  <2>1. Flags
    BY DEF Init, Flags
  <2>2. ItemOK
    BY DEF Init, ItemOK, ItemRows
  <2>3. RunOK
    BY NothingReadType DEF Init, RunOK
  <2>4. Counts
    BY DEF Init, Counts
  <2>. QED BY <2>1, <2>2, <2>3, <2>4 DEF DataOK
<1>2. Unheld
  BY DEF Init, Unheld
<1>. QED BY <1>1, <1>2, InitWipe DEF TypeInv

(* What the steps make of an Item, and of an eraser's frame.               *)
LEMMA ItemTypes ==
  ASSUME ItemOK
  PROVE  /\ Archived \in [Items -> ItemRows]
         /\ \A i \in Items : /\ Released(i) \in [Items -> ItemRows]
                            /\ NotStamped(i) \in [Items -> ItemRows]
                            /\ QueuedItem(i) \in [Items -> ItemRows]
<1>1. Archived \in [Items -> ItemRows]
  BY DEF ItemOK, Archived, ItemRows
<1>2. ASSUME NEW i \in Items
      PROVE  Released(i) \in [Items -> ItemRows]
  BY DEF Released, ItemOK, ItemRows
<1>3. ASSUME NEW i \in Items
      PROVE  NotStamped(i) \in [Items -> ItemRows]
  BY DEF NotStamped, ItemOK, ItemRows
<1>4. ASSUME NEW i \in Items
      PROVE  QueuedItem(i) \in [Items -> ItemRows]
  BY DEF QueuedItem, ItemOK, ItemRows
<1>. QED BY <1>1, <1>2, <1>3, <1>4

LEMMA FrameTypes ==
  ASSUME NEW r \in RunRows, NEW i \in Items
  PROVE  /\ [r EXCEPT !.todo = @ \ {i}] \in RunRows
         /\ [r EXCEPT !.short = TRUE] \in RunRows
         /\ [r EXCEPT !.failed = @ \cup {i}] \in RunRows
BY DEF RunRows

LEMMA FlagsStep ==
  ASSUME Flags, TenantOK, [Next]_vars
  PROVE  Flags'
<1>. USE DEF Flags
<1>1. CASE Pay
  BY <1>1, Zenon DEF Pay
<1>2. CASE Reopen
  BY <1>2, Zenon DEF Reopen
<1>3. CASE Restore
  <2>1. tenant.stale \in BOOLEAN
    BY DEF TenantOK
  <2>. QED BY <1>3, <2>1 DEF Restore, ownVars
<1>4. CASE ArchiveRestored
  BY <1>4, Zenon DEF ArchiveRestored, ownVars
<1>5. CASE Schedule \/ Freeze \/ PastDue \/ GoesStale \/ \E i \in Items : Retry(i)
  <2>1. UNCHANGED <<money, proven, archiving>>
    BY <1>5 DEF Schedule, Freeze, PastDue, GoesStale, Retry, OnTenant, ownVars
  <2>. QED BY <2>1
<1>6. ASSUME NEW e \in Erasers,
             \/ Step(e) \/ Raise(e) \/ Crash(e) \/ Claim(e)
             \/ OwnerAsks(e) \/ ConsoleErases(e)
      PROVE  Flags'
  <2>1. UNCHANGED <<money, proven, archiving>>
    BY <1>6 DEF Step, Raise, Crash, Claim, OwnerAsks, ConsoleErases, Flip, HoldSync,
                HoldPush, Check, List, ReleaseItem, Mark, Erase, EraseNow, Unlock,
                ownVars
  <2>. QED BY <2>1
<1>7. ASSUME NEW w \in Writers,
             ListActive(w) \/ Authenticate(w) \/ WriterStep(w)
      PROVE  Flags'
  <2>1. UNCHANGED <<money, proven, archiving>>
    BY <1>7 DEF ListActive, Authenticate, WriterStep, TryLock, Write, Begin,
                ReadStatus, CommitPush, OnWriter, ownVars
  <2>. QED BY <2>1
<1>8. CASE UNCHANGED vars
  BY <1>8 DEF vars, ownVars
<1>. QED BY <1>1, <1>2, <1>3, <1>4, <1>5, <1>6, <1>7, <1>8 DEF Next

LEMMA ItemStep ==
  ASSUME ItemOK, [Next]_vars
  PROVE  ItemOK'
<1>. USE DEF ItemOK
<1>1. CASE UNCHANGED item
  BY <1>1
<1>2. CASE item' = Archived
  BY <1>2, ItemTypes
<1>3. ASSUME NEW i \in Items, Retry(i)
      PROVE  ItemOK'
  BY <1>3 DEF Retry, ItemRows
<1>4. ASSUME NEW e \in Erasers, NEW i \in Items, ReleaseItem(e, i)
      PROVE  ItemOK'
  BY <1>4, ItemTypes DEF ReleaseItem
<1>5. ASSUME NEW e \in Erasers, Mark(e)
      PROVE  ItemOK'
  <2>1. ASSUME NEW i \in Items
        PROVE  (item[i].marked \/ i \in Named(e)) \in BOOLEAN
    BY Zenon
  <2>2. ASSUME NEW i \in Items, NEW b \in BOOLEAN
        PROVE  [item[i] EXCEPT !.marked = b] \in ItemRows
    BY DEF ItemRows
  <2>3. \A i \in Items :
          [item[i] EXCEPT !.marked = @ \/ i \in Named(e)] \in ItemRows
    BY <2>1, <2>2
  <2>. QED BY <1>5, <2>3, <1>1 DEF Mark
<1>6. CASE Wipe
  BY <1>6 DEF Wipe, ItemRows
<1>7. CASE ArchiveRestored \/ \E e \in Purgers : Erase(e)
  BY <1>7, <1>1, <1>2, <1>6 DEF ArchiveRestored, Erase, HandBack
<1>8. CASE \E d \in Doors : EraseNow(d)
  BY <1>8, <1>6 DEF EraseNow
<1>9. ASSUME NEW e \in Erasers,
             \/ Step(e) \/ Raise(e) \/ Crash(e) \/ Claim(e)
             \/ OwnerAsks(e) \/ ConsoleErases(e)
      PROVE  ItemOK'
  <2>1. CASE \/ Raise(e) \/ Crash(e) \/ Claim(e) \/ OwnerAsks(e) \/ ConsoleErases(e)
             \/ Flip(e) \/ HoldSync(e) \/ HoldPush(e) \/ Check(e) \/ List(e)
             \/ Unlock(e)
    BY <2>1, <1>1 DEF Raise, Crash, Claim, OwnerAsks, ConsoleErases, Flip, HoldSync,
                      HoldPush, Check, List, Unlock
  <2>2. CASE Erase(e) \/ EraseNow(e)
    BY <2>2, <1>7, <1>8 DEF Erase, EraseNow
  <2>. QED BY <1>9, <2>1, <2>2, <1>4, <1>5 DEF Step
<1>10. CASE \/ Schedule \/ Freeze \/ Reopen \/ Restore \/ Pay \/ PastDue \/ GoesStale
            \/ \E w \in Writers : ListActive(w) \/ Authenticate(w) \/ WriterStep(w)
  BY <1>10, <1>1 DEF Schedule, Freeze, Reopen, Restore, Pay, PastDue, GoesStale,
                     OnTenant, ListActive, Authenticate, WriterStep, TryLock, Write,
                     Begin, ReadStatus, CommitPush, OnWriter
<1>11. CASE UNCHANGED vars
  BY <1>11, <1>1 DEF vars
<1>. QED BY <1>3, <1>7, <1>9, <1>10, <1>11 DEF Next

LEMMA RunStep ==
  ASSUME RunOK, Flags, [Next]_vars
  PROVE  RunOK'
<1>. USE DEF RunOK
<1>1. CASE UNCHANGED run
  BY <1>1
<1>2. ASSUME NEW e \in Erasers, NEW r \in RunRows, run' = [run EXCEPT ![e] = r]
      PROVE  RunOK'
  BY <1>2
<1>3. ASSUME NEW p \in Purgers, Claim(p)
      PROVE  RunOK'
  <2>1. (tenant.st = "pending" \/ money) \in BOOLEAN
    BY Zenon
  <2>2. ASSUME NEW b \in BOOLEAN
        PROVE  [run EXCEPT ![p].base = b] \in [Erasers -> RunRows]
    BY DEF RunRows
  <2>. QED BY <1>3, <2>1, <2>2 DEF Claim
<1>4. ASSUME NEW e \in Erasers, List(e)
      PROVE  RunOK'
  <2>1. [run EXCEPT ![e].todo = Connected] \in [Erasers -> RunRows]
    BY DEF Connected, RunRows
  <2>2. [run EXCEPT ![e].short = TRUE] \in [Erasers -> RunRows]
    BY DEF RunRows
  <2>3. [run EXCEPT ![e].failed = Connected] \in [Erasers -> RunRows]
    BY DEF Connected, RunRows
  <2>. QED BY <1>4, <2>1, <2>2, <2>3 DEF List
<1>5. ASSUME NEW e \in Erasers, NEW i \in Items, ReleaseItem(e, i)
      PROVE  RunOK'
  <2>. DEFINE r == [run[e] EXCEPT !.todo = @ \ {i}]
  <2>1. r \in RunRows
    BY FrameTypes
  <2>2. [r EXCEPT !.short = TRUE] \in RunRows
    BY <2>1, FrameTypes
  <2>3. [r EXCEPT !.failed = @ \cup {i}] \in RunRows
    BY <2>1, FrameTypes
  <2>4. PICK x \in RunRows : run' = [run EXCEPT ![e] = x]
    BY <1>5, <2>1, <2>2, <2>3 DEF ReleaseItem
  <2>. QED BY <2>4, <1>2
<1>6. ASSUME NEW e \in Erasers, Unlock(e) \/ Crash(e)
      PROVE  RunOK'
  BY <1>6, <1>2, NothingReadType DEF Unlock, Crash, Leave
<1>7. ASSUME NEW e \in Erasers, Step(e) \/ Raise(e) \/ Crash(e)
                                  \/ OwnerAsks(e) \/ ConsoleErases(e)
      PROVE  RunOK'
  <2>1. CASE \/ Raise(e) \/ OwnerAsks(e) \/ ConsoleErases(e) \/ Flip(e)
             \/ HoldSync(e) \/ HoldPush(e) \/ Check(e) \/ Mark(e) \/ Erase(e)
             \/ EraseNow(e)
    BY <2>1, <1>1 DEF Raise, OwnerAsks, ConsoleErases, Flip, HoldSync, HoldPush,
                      Check, Mark, Erase, EraseNow
  <2>. QED BY <1>7, <2>1, <1>4, <1>5, <1>6 DEF Step
<1>8. CASE \/ Schedule \/ Freeze \/ Reopen \/ Restore \/ ArchiveRestored \/ Pay
           \/ PastDue \/ GoesStale \/ \E i \in Items : Retry(i)
           \/ \E w \in Writers : ListActive(w) \/ Authenticate(w) \/ WriterStep(w)
  BY <1>8, <1>1 DEF Schedule, Freeze, Reopen, Restore, ArchiveRestored, Pay, PastDue,
                    GoesStale, Retry, OnTenant, ListActive, Authenticate, WriterStep,
                    TryLock, Write, Begin, ReadStatus, CommitPush, OnWriter
<1>9. CASE UNCHANGED vars
  BY <1>9, <1>1 DEF vars
<1>. QED BY <1>3, <1>7, <1>8, <1>9 DEF Next

(* Faults only add up.                                                     *)
LEMMA FaultsCounted ==
  ASSUME Counts, [Next]_vars
  PROVE  /\ UNCHANGED failures \/ (failures < MaxFailures /\ failures' = failures + 1)
         /\ UNCHANGED crashes \/ (crashes < MaxCrashes /\ crashes' = crashes + 1)
         /\ UNCHANGED outages \/ (outages < MaxOutages /\ outages' = outages + 1)
<1>1. ASSUME NEW e \in Erasers, Step(e)
      PROVE  /\ UNCHANGED failures \/ (failures < MaxFailures /\ failures' = failures + 1)
             /\ UNCHANGED crashes
             /\ UNCHANGED outages \/ (outages < MaxOutages /\ outages' = outages + 1)
  <2>1. CASE Flip(e) \/ HoldSync(e) \/ HoldPush(e) \/ Check(e) \/ List(e)
    BY <2>1 DEF Flip, HoldSync, HoldPush, Check, List, faultVars
  <2>2. CASE \E i \in Items : ReleaseItem(e, i)
    BY <2>2 DEF ReleaseItem
  <2>3. CASE Mark(e)
    BY <2>3 DEF Mark
  <2>4. CASE Erase(e) \/ EraseNow(e)
    BY <2>4 DEF Erase, EraseNow, Wipe, HandBack
  <2>5. CASE Unlock(e)
    BY <2>5 DEF Unlock, Leave, faultVars
  <2>. QED BY <1>1, <2>1, <2>2, <2>3, <2>4, <2>5 DEF Step
<1>2. ASSUME NEW e \in Erasers, Raise(e) \/ Crash(e)
      PROVE  /\ UNCHANGED <<failures, outages>>
             /\ crashes < MaxCrashes /\ crashes' = crashes + 1
  BY <1>2 DEF Raise, Crash
<1>3. ASSUME NEW w \in Writers, ListActive(w) \/ Authenticate(w) \/ WriterStep(w)
      PROVE  UNCHANGED faultVars
  BY <1>3 DEF WriterStep, ListActive, Authenticate, TryLock, Write, Begin, ReadStatus,
              CommitPush, OnWriter
<1>4. CASE ArchiveRestored
  BY <1>4 DEF ArchiveRestored
<1>5. CASE \/ Schedule \/ Freeze \/ Reopen \/ Restore \/ Pay \/ PastDue \/ GoesStale
           \/ \E i \in Items : Retry(i)
           \/ \E p \in Purgers : Claim(p)
           \/ \E d \in Doors : OwnerAsks(d) \/ ConsoleErases(d)
           \/ UNCHANGED vars
  <2>1. UNCHANGED faultVars
    BY <1>5 DEF Schedule, Freeze, Reopen, Restore, Pay, PastDue, GoesStale, Retry,
                OnTenant, Claim, OwnerAsks, ConsoleErases, vars, faultVars
  <2>. QED BY <2>1 DEF faultVars
<1>. QED BY <1>1, <1>2, <1>3, <1>4, <1>5 DEF Next, faultVars

LEMMA CountsStep ==
  ASSUME Counts, [Next]_vars
  PROVE  Counts'
<1>. USE DEF Counts
<1>1. books' \in {books, "erased", "inFlight", "late", "pushed"}
  <2>1. ASSUME NEW e \in Erasers, Step(e)
        PROVE  books' \in {books, "erased"}
    <3>1. CASE Erase(e) \/ EraseNow(e)
      BY <3>1 DEF Erase, EraseNow, Wipe, HandBack
    <3>2. CASE ~(Erase(e) \/ EraseNow(e))
      BY <2>1, <3>2 DEF Step, Flip, HoldSync, HoldPush, Check, List, ReleaseItem, Mark,
                        Unlock
    <3>. QED BY <3>1, <3>2
  <2>2. ASSUME NEW e \in Erasers, Raise(e) \/ Crash(e)
        PROVE  UNCHANGED books
    BY <2>2 DEF Raise, Crash
  <2>3. ASSUME NEW w \in Writers, ListActive(w) \/ Authenticate(w) \/ WriterStep(w)
        PROVE  books' \in {books, "inFlight", "late", "pushed"}
    BY <2>3 DEF WriterStep, ListActive, Authenticate, TryLock, Write, WrittenBack, Begin,
                ReadStatus, CommitPush
  <2>4. CASE \/ Schedule \/ Freeze \/ Reopen \/ Restore \/ ArchiveRestored \/ Pay
             \/ PastDue \/ GoesStale \/ \E i \in Items : Retry(i)
             \/ \E p \in Purgers : Claim(p)
             \/ \E d \in Doors : OwnerAsks(d) \/ ConsoleErases(d)
             \/ UNCHANGED vars
    BY <2>4 DEF Schedule, Freeze, Reopen, Restore, ArchiveRestored, Pay, PastDue,
                GoesStale, Retry, OnTenant, Claim, OwnerAsks, ConsoleErases, vars
  <2>. QED BY <2>1, <2>2, <2>3, <2>4 DEF Next
<1>. QED BY <1>1, FaultsCounted

LEMMA DataStep ==
  ASSUME DataOK, TenantOK, [Next]_vars
  PROVE  DataOK'
BY FlagsStep, ItemStep, RunStep, CountsStep DEF DataOK

(* A lock is taken where it was free, and let go with the place that needs *)
(* it.                                                                     *)
LEMMA UnheldStep ==
  ASSUME TypeInv, [Next]_vars
  PROVE  Unheld'
<1>. USE DEF TypeInv, WipeInv
<1>1. CASE UNCHANGED <<pc, lock>>
  BY <1>1 DEF Unheld
<1>2. ASSUME NEW e \in Erasers, NEW to \in EraserPCs, Goto(e, to), UNCHANGED lock,
             to \in {"idle", "flip", "holdSync"}
               => pc[e] \in {"idle", "flip", "holdSync"}
      PROVE  Unheld'
  BY <1>2 DEF Unheld, Goto, Places
<1>3. ASSUME NEW e \in Erasers, HoldSync(e) \/ HoldPush(e)
      PROVE  Unheld'
  BY <1>3 DEF HoldSync, HoldPush, Unheld, Goto, Places
<1>4. ASSUME NEW e \in Erasers, Unlock(e) \/ Crash(e)
      PROVE  Unheld'
  BY <1>4 DEF Unlock, Crash, Leave, Free, Unheld, Goto, Places
<1>5. ASSUME NEW w \in Sweepers, ListActive(w) \/ TryLock(w) \/ Write(w)
      PROVE  Unheld'
  BY <1>5 DEF ListActive, TryLock, Write, OnWriter, Free, Unheld, Goto, Places
<1>6. ASSUME NEW w \in Pushers, Authenticate(w) \/ Begin(w) \/ ReadStatus(w)
                                  \/ CommitPush(w)
      PROVE  Unheld'
  BY <1>6 DEF Authenticate, Begin, ReadStatus, CommitPush, OnWriter, Unheld, Goto,
              Places
<1>7. ASSUME NEW e \in Erasers, Step(e) \/ Raise(e) \/ Crash(e)
                                  \/ (e \in Purgers /\ Claim(e)) \/ OwnerAsks(e)
                                  \/ ConsoleErases(e)
      PROVE  Unheld'
  <2>1. CASE HoldSync(e) \/ HoldPush(e) \/ Unlock(e) \/ Crash(e)
    BY <2>1, <1>3, <1>4
  <2>2. CASE \E i \in Items : ReleaseItem(e, i)
    BY <2>2, <1>1 DEF ReleaseItem
  <2>3. CASE \/ e \in Purgers /\ Claim(e)
             \/ OwnerAsks(e) \/ ConsoleErases(e) \/ Flip(e) \/ Check(e)
             \/ List(e) \/ Mark(e) \/ Erase(e) \/ EraseNow(e) \/ Raise(e)
    <3>1. PICK to \in EraserPCs :
            /\ Goto(e, to) /\ UNCHANGED lock
            /\ to \in {"idle", "flip", "holdSync"}
                 => pc[e] \in {"idle", "flip", "holdSync"}
      BY <2>3 DEF Claim, OwnerAsks, ConsoleErases, Flip, Check, List, Mark, Erase,
                  EraseNow, Raise, EraserPCs, Waited
    <3>. QED BY <3>1, <1>2
  <2>. QED BY <1>7, <2>1, <2>2, <2>3 DEF Step
<1>8. ASSUME NEW w \in Writers,
             ListActive(w) \/ Authenticate(w) \/ WriterStep(w)
      PROVE  Unheld'
  <2>1. CASE w \in Sweepers
    <3>1. ListActive(w) \/ TryLock(w) \/ Write(w)
      BY <1>8, <2>1 DEF WriterStep, Authenticate, Begin, ReadStatus, CommitPush,
                        Places, SweeperPCs
    <3>. QED BY <2>1, <3>1, <1>5
  <2>2. CASE w \in Pushers
    <3>1. Authenticate(w) \/ Begin(w) \/ ReadStatus(w) \/ CommitPush(w)
      BY <1>8, <2>2 DEF WriterStep, ListActive, TryLock, Write, Places, PusherPCs
    <3>. QED BY <2>2, <3>1, <1>6
  <2>. QED BY <2>1, <2>2
<1>9. CASE \/ Schedule \/ Freeze \/ Reopen \/ Restore \/ ArchiveRestored \/ Pay
           \/ PastDue \/ GoesStale \/ \E i \in Items : Retry(i)
  BY <1>1, <1>9 DEF Schedule, Freeze, Reopen, Restore, ArchiveRestored, Pay, PastDue,
                    GoesStale, Retry, OnTenant
<1>10. CASE UNCHANGED vars
  BY <1>1, <1>10 DEF vars
<1>. QED BY <1>7, <1>8, <1>9, <1>10 DEF Next

LEMMA NextTypeInv == TypeInv /\ [Next]_vars => TypeInv'
BY NextWipe, DataStep, UnheldStep DEF TypeInv, WipeInv

(* Every variable stays in its type, and the writer locks are held where   *)
(* the code holds them (hold_writers, push_may_write).                     *)
THEOREM TypeCorrect == Spec => []TypeOK
BY InitTypeInv, NextTypeInv, TypeInvTypes, PTL DEF Spec

------------------------------------------------------------------------------
(* A hand-back that leaves nothing looking connected.                      *)

(* The ledger's stamp is put on an Item that is gone at Plaid, and a row   *)
(* is archived by its stamp; a stamp is missing only if it failed.         *)
Ledger ==
  \A i \in Items :
    /\ item[i].stamped => ~item[i].vendor
    /\ item[i].row = "archived" => ~item[i].vendor
    /\ failures = 0 /\ item[i].row = "live" /\ ~item[i].vendor => item[i].stamped

(* What was released still looks connected only while its eraser is on the *)
(* way to erase or to hand back.                                           *)
UnderWay ==
  crashes = 0 /\ failures = 0 /\ Dead # {}
    => \E e \in Erasers : pc[e] \in {"release", "erase"}

HandInv == TypeInv /\ Ledger /\ UnderWay

LEMMA InitHandInv == Init => HandInv
<1>. SUFFICES ASSUME Init PROVE HandInv
  OBVIOUS
<1>1. \A i \in Items : item[i].row = "live" /\ item[i].vendor /\ ~item[i].stamped
  BY DEF Init
<1>2. Ledger /\ UnderWay
  BY <1>1 DEF Ledger, UnderWay, Dead, Connected
<1>. QED BY <1>2, InitTypeInv DEF HandInv

LEMMA Failing ==
  ASSUME Counts, [Next]_vars
  PROVE  /\ failures' = 0 => failures = 0
         /\ crashes' = 0 => crashes = 0
BY FaultsCounted DEF Counts

(* The steps that change an Item.                                          *)
LEMMA ItemChanges ==
  ASSUME [Next]_vars
  PROVE  \/ UNCHANGED item
         \/ item' = Archived
         \/ Wipe
         \/ \E i \in Items : Retry(i)
         \/ \E e \in Erasers, i \in Items : ReleaseItem(e, i)
         \/ \E e \in Erasers : Mark(e)
BY DEF Next, Step, WriterStep, vars, Schedule, Freeze, Reopen, Restore,
       ArchiveRestored, Pay, PastDue, GoesStale, OnTenant, Claim, OwnerAsks,
       ConsoleErases, Flip, HoldSync, HoldPush, Check, List, Erase, EraseNow,
       HandBack, Unlock, Raise, Crash, Leave, ListActive, Authenticate, TryLock,
       Write, Begin, ReadStatus, CommitPush, OnWriter

LEMMA LedgerStep ==
  ASSUME DataOK, Ledger, [Next]_vars
  PROVE  Ledger'
<1>. USE DEF DataOK
<1>1. failures' = 0 => failures = 0
  BY Failing
<1>2. CASE UNCHANGED item
  BY <1>1, <1>2 DEF Ledger
<1>3. CASE item' = Archived
  BY <1>1, <1>3 DEF Archived, Connected, ItemOK, ItemRows, Ledger
<1>4. CASE Wipe
  BY <1>4 DEF Wipe, ItemOK, ItemRows, Ledger
<1>5. ASSUME NEW i \in Items, Retry(i)
      PROVE  Ledger'
  BY <1>1, <1>5 DEF Retry, Connected, ItemOK, ItemRows, Ledger
<1>6. ASSUME NEW e \in Erasers, NEW i \in Items, ReleaseItem(e, i)
      PROVE  Ledger'
  <2>1. CASE UNCHANGED item
    BY <2>1, <1>2
  <2>2. CASE item' = Released(i)
    BY <1>1, <2>2 DEF Released, ItemOK, ItemRows, Ledger
  <2>3. CASE item' = NotStamped(i) /\ failures' = failures + 1
    BY <1>1, <2>3 DEF NotStamped, ItemOK, ItemRows, Ledger, Counts
  <2>4. CASE item' = QueuedItem(i)
    BY <1>1, <2>4 DEF QueuedItem, ItemOK, ItemRows, Ledger
  <2>. QED BY <1>6, <2>1, <2>2, <2>3, <2>4 DEF ReleaseItem
<1>7. ASSUME NEW e \in Erasers, Mark(e)
      PROVE  Ledger'
  <2>1. \A i \in Items : /\ item'[i].stamped = item[i].stamped
                         /\ item'[i].vendor = item[i].vendor
                         /\ item'[i].row = item[i].row
    BY <1>7 DEF Mark, ItemOK, ItemRows
  <2>. QED BY <1>1, <2>1 DEF Ledger
<1>. QED BY <1>2, <1>3, <1>4, <1>5, <1>6, <1>7, ItemChanges

(* Whoever leaves the release does so by its last step, or by a crash.     *)
LEMMA LeavesRelease ==
  ASSUME Places, [Next]_vars, NEW e \in Erasers,
         pc[e] \in {"release", "erase"}, pc'[e] \notin {"release", "erase"}
  PROVE  Erase(e) \/ EraseNow(e) \/ Raise(e) \/ Crash(e)
<1>. USE DEF Places
<1>1. pc' # pc
  OBVIOUS
<1>2. PICK x \in Erasers : \/ Step(x) \/ Raise(x) \/ Crash(x) \/ OwnerAsks(x)
                           \/ ConsoleErases(x) \/ (x \in Purgers /\ Claim(x))
  <2>1. ASSUME NEW w \in Writers, ListActive(w) \/ Authenticate(w) \/ WriterStep(w)
        PROVE  pc'[e] = pc[e]
    BY <2>1 DEF ListActive, Authenticate, WriterStep, TryLock, Write, Begin,
                ReadStatus, CommitPush, OnWriter, Goto
  <2>2. CASE \/ Schedule \/ Freeze \/ Reopen \/ Restore \/ ArchiveRestored \/ Pay
             \/ PastDue \/ GoesStale \/ \E i \in Items : Retry(i)
    BY <1>1, <2>2 DEF Schedule, Freeze, Reopen, Restore, ArchiveRestored, Pay, PastDue,
                      GoesStale, Retry, OnTenant
  <2>3. CASE UNCHANGED vars
    BY <1>1, <2>3 DEF vars
  <2>. QED BY <2>1, <2>2, <2>3 DEF Next
<1>3. CASE \/ Flip(x) \/ HoldSync(x) \/ HoldPush(x) \/ Check(x) \/ OwnerAsks(x)
           \/ ConsoleErases(x) \/ (x \in Purgers /\ Claim(x))
  <2>1. pc[x] \notin {"release", "erase"} /\ \A y \in Erasers : y # x => pc'[y] = pc[y]
    BY <1>3 DEF Flip, HoldSync, HoldPush, Check, OwnerAsks, ConsoleErases, Claim, Goto
  <2>. QED BY <2>1
<1>4. CASE \/ List(x) \/ Mark(x) \/ Unlock(x) \/ \E i \in Items : ReleaseItem(x, i)
  <2>1. /\ pc[x] \in {"release", "erase"} => pc'[x] \in {"release", "erase"}
        /\ \A y \in Erasers : y # x => pc'[y] = pc[y]
    BY <1>4 DEF List, Mark, Unlock, Leave, ReleaseItem, Goto
  <2>. QED BY <2>1
<1>5. CASE Erase(x) \/ EraseNow(x) \/ Raise(x) \/ Crash(x)
  <2>1. \A y \in Erasers : y # x => pc'[y] = pc[y]
    BY <1>5 DEF Erase, EraseNow, Raise, Crash, Leave, Goto
  <2>. QED BY <1>5, <2>1
<1>. QED BY <1>2, <1>3, <1>4, <1>5 DEF Step

LEMMA UnderWayStep ==
  ASSUME HandInv, [Next]_vars
  PROVE  UnderWay'
<1>. SUFFICES ASSUME crashes' = 0, failures' = 0, Dead' # {}
             PROVE  \E e \in Erasers : pc'[e] \in {"release", "erase"}
  BY DEF UnderWay
<1>. USE DEF HandInv, TypeInv, WipeInv, DataOK
<1>1. crashes = 0 /\ failures = 0
  BY Failing
<1>2. ASSUME item' = Archived
      PROVE  FALSE
  <2>1. Dead' = {}
    BY <1>1, <1>2 DEF Archived, Dead, Connected, ItemOK, ItemRows, Ledger
  <2>. QED BY <2>1
<1>3. ASSUME Wipe
      PROVE  FALSE
  <2>1. Dead' = {}
    BY <1>3 DEF Wipe, Dead, Connected, ItemOK, ItemRows
  <2>. QED BY <2>1
<1>4. ASSUME NEW e \in Erasers, NEW i \in Items, ReleaseItem(e, i)
      PROVE  pc'[e] \in {"release", "erase"}
  BY <1>4 DEF ReleaseItem
<1>5. ASSUME NEW e \in Erasers, List(e) \/ Mark(e)
      PROVE  pc'[e] \in {"release", "erase"}
  BY <1>5 DEF List, Mark, Goto, Places
<1>6. ASSUME UNCHANGED item \/ \E i \in Items : Retry(i)
      PROVE  \E e \in Erasers : pc[e] \in {"release", "erase"}
  <2>1. CASE UNCHANGED item
    BY <1>1, <2>1 DEF UnderWay, Dead, Connected
  <2>2. ASSUME NEW i \in Items, Retry(i)
        PROVE  Dead' \subseteq Dead
    BY <2>2 DEF Retry, Dead, Connected, ItemOK, ItemRows
  <2>. QED BY <1>1, <1>6, <2>1, <2>2 DEF UnderWay
<1>7. ASSUME NEW e \in Erasers, pc[e] \in {"release", "erase"},
             ~(pc'[e] \in {"release", "erase"})
      PROVE  FALSE
  <2>1. Erase(e) \/ EraseNow(e) \/ Raise(e) \/ Crash(e)
    BY <1>7, LeavesRelease
  <2>2. ~Raise(e) /\ ~Crash(e)
    BY <1>1 DEF Raise, Crash, Counts
  <2>3. UNCHANGED failures
    BY <1>1
  <2>4. CASE EraseNow(e)
    BY <2>4, <1>3 DEF EraseNow
  <2>5. CASE Erase(e)
    BY <2>5, <2>3, <1>1, <1>2, <1>3 DEF Erase, HandBack
  <2>. QED BY <2>1, <2>2, <2>4, <2>5
<1>. QED BY <1>2, <1>3, <1>4, <1>5, <1>6, <1>7, ItemChanges

(* A household handed back after its links were released does not look     *)
(* connected (archive_released_plaid_items), if nothing raised and nobody  *)
(* was killed.                                                             *)
THEOREM HandedBackClean == Spec => []CleanHandBack
<1>1. HandInv /\ [Next]_vars => HandInv'
  BY NextTypeInv, LedgerStep, UnderWayStep DEF HandInv, TypeInv
<1>2. HandInv => CleanHandBack
  <2>. SUFFICES ASSUME HandInv PROVE CleanHandBack
    OBVIOUS
  <2>. QED BY DEF HandInv, UnderWay, CleanHandBack
<1>. QED BY <1>1, <1>2, InitHandInv, PTL DEF Spec

------------------------------------------------------------------------------
(* What is left billing is named.                                          *)

Unnamed == {i \in Items : item[i].vendor /\ ~item[i].marked}

Still(e) == run[e].todo \cup run[e].failed

(* The release failed as a whole: its marker will name every Item.         *)
Short(e) == run[e].short /\ Still(e) = {}

(* An eraser that has not come to its release has nothing in hand.         *)
Fresh ==
  \A e \in Erasers : pc[e] \notin {"release", "erase", "unlock"} => Still(e) = {}

(* An Item still at Plaid that no marker names is one an eraser in its     *)
(* release has yet to come to, or has failed to remove, unless the release *)
(* failed as a whole.                                                      *)
MarkFacts ==
  failures = 0 =>
    /\ \A i \in Unnamed : item[i].row = "live"
    /\ \A e \in Erasers :
         /\ pc[e] = "release" => Short(e) \/ Unnamed \subseteq Still(e)
         /\ pc[e] = "erase" => Unnamed = {}
    /\ Gone => Unnamed = {}

MarkInv == TypeInv /\ Ledger /\ MarkFacts /\ Fresh

(* Nothing once removed at Plaid is there again, and no marker goes.       *)
LEMMA UnnamedShrinks ==
  ASSUME ItemOK, [Next]_vars
  PROVE  /\ Unnamed' \subseteq Unnamed
         /\ \/ item' = Archived
            \/ Wipe
            \/ \A i \in Items : item'[i].row = item[i].row
<1>. DEFINE SameRows == \A i \in Items : item'[i].row = item[i].row
<1>1. CASE UNCHANGED item
  BY <1>1 DEF Unnamed
<1>2. CASE item' = Archived
  BY <1>2 DEF Unnamed, Archived, ItemOK, ItemRows
<1>3. CASE Wipe
  BY <1>3 DEF Wipe, Unnamed, ItemOK, ItemRows
<1>4. ASSUME NEW i \in Items, Retry(i)
      PROVE  Unnamed' \subseteq Unnamed /\ SameRows
  BY <1>4 DEF Retry, Unnamed, ItemOK, ItemRows
<1>5. ASSUME NEW e \in Erasers, NEW i \in Items, ReleaseItem(e, i)
      PROVE  Unnamed' \subseteq Unnamed /\ SameRows
  <2>1. CASE UNCHANGED item
    BY <2>1 DEF Unnamed
  <2>2. CASE item' = Released(i)
    BY <2>2 DEF Released, Unnamed, ItemOK, ItemRows
  <2>3. CASE item' = NotStamped(i)
    BY <2>3 DEF NotStamped, Unnamed, ItemOK, ItemRows
  <2>4. CASE item' = QueuedItem(i)
    BY <2>4 DEF QueuedItem, Unnamed, ItemOK, ItemRows
  <2>. QED BY <1>5, <2>1, <2>2, <2>3, <2>4 DEF ReleaseItem
<1>6. ASSUME NEW e \in Erasers, Mark(e)
      PROVE  Unnamed' \subseteq Unnamed /\ SameRows
  <2>1. CASE UNCHANGED item
    BY <2>1 DEF Unnamed
  <2>2. CASE item' = [i \in Items |-> [item[i] EXCEPT !.marked = @ \/ i \in Named(e)]]
    BY <2>2 DEF Unnamed, ItemOK, ItemRows
  <2>. QED BY <1>6, <2>1, <2>2 DEF Mark
<1>. QED BY <1>1, <1>2, <1>3, <1>4, <1>5, <1>6, ItemChanges

(* The one who wipes has gone through its release and its marker.          *)
LEMMA WhoWipes ==
  ASSUME TenantOK, [Next]_vars, Gone', ~Gone
  PROVE  \E e \in Erasers : pc[e] = "erase" /\ Wipe
<1>. USE DEF TenantOK, Gone
<1>1. ~(\/ Schedule \/ Freeze \/ Reopen \/ Restore \/ ArchiveRestored \/ Pay
        \/ PastDue \/ GoesStale \/ \E i \in Items : Retry(i))
  <2>1. ~Schedule /\ ~Freeze /\ ~PastDue
    BY DEF Schedule, Freeze, PastDue, Frozen, OnTenant, Tenant
  <2>2. ~Reopen /\ ~Restore
    BY DEF Reopen, Restore, Restored, Tenant, NotClaimed, ClaimedBy
  <2>3. ~GoesStale
    BY DEF GoesStale, OnTenant
  <2>4. ~ArchiveRestored /\ ~Pay /\ ~\E i \in Items : Retry(i)
    BY DEF ArchiveRestored, Pay, Retry
  <2>. QED BY <2>1, <2>2, <2>3, <2>4
<1>2. ASSUME NEW p \in Purgers, Claim(p)
      PROVE  FALSE
  BY <1>2 DEF Claim, ClaimedBy
<1>3. ASSUME NEW e \in Erasers,
             Step(e) \/ Raise(e) \/ Crash(e) \/ OwnerAsks(e) \/ ConsoleErases(e)
      PROVE  pc[e] = "erase" /\ Wipe
  <2>1. ~(\/ Raise(e) \/ Check(e) \/ Flip(e))
    BY DEF Raise, Check, Flip, Unclaimed, NotClaimed, ClaimedBy, Tenant
  <2>2. ~(\/ Crash(e) \/ OwnerAsks(e) \/ ConsoleErases(e) \/ HoldSync(e)
          \/ HoldPush(e) \/ List(e) \/ Mark(e) \/ Unlock(e)
          \/ \E i \in Items : ReleaseItem(e, i))
    BY DEF Crash, OwnerAsks, ConsoleErases, HoldSync, HoldPush, List, Mark, Unlock,
           ReleaseItem
  <2>3. CASE Erase(e)
    <3>1. ~HandBack(Unclaimed(e)) /\ ~HandBack(NotClaimed(Restored))
      BY DEF HandBack, Unclaimed, NotClaimed, ClaimedBy, Restored, Tenant
    <3>. QED BY <2>3, <3>1 DEF Erase
  <2>. QED BY <1>3, <2>1, <2>2, <2>3 DEF Step, EraseNow
<1>4. ASSUME NEW w \in Writers,
             ListActive(w) \/ Authenticate(w) \/ WriterStep(w)
      PROVE  FALSE
  BY <1>4 DEF ListActive, Authenticate, WriterStep, TryLock, Write, Begin,
              ReadStatus, CommitPush, OnWriter
<1>5. ~UNCHANGED vars
  BY DEF vars
<1>. QED BY <1>1, <1>2, <1>3, <1>4, <1>5 DEF Next

(* An eraser comes to its release, and past it, by its own steps; what it  *)
(* has read is its own.                                                    *)
LEMMA InTheRelease ==
  ASSUME Places, RunOK, [Next]_vars, NEW e \in Erasers,
         pc'[e] \in {"release", "erase"}
  PROVE  \/ List(e) \/ Mark(e) \/ \E i \in Items : ReleaseItem(e, i)
         \/ pc'[e] = pc[e] /\ run'[e] = run[e]
<1>. USE DEF Places, RunOK
<1>. DEFINE Same == pc'[e] = pc[e] /\ run'[e] = run[e]
<1>1. ASSUME NEW w \in Writers, ListActive(w) \/ Authenticate(w) \/ WriterStep(w)
      PROVE  Same
  BY <1>1 DEF ListActive, Authenticate, WriterStep, TryLock, Write, Begin,
              ReadStatus, CommitPush, OnWriter, Goto
<1>2. CASE \/ Schedule \/ Freeze \/ Reopen \/ Restore \/ ArchiveRestored \/ Pay
           \/ PastDue \/ GoesStale \/ \E i \in Items : Retry(i)
           \/ UNCHANGED vars
  BY <1>2 DEF Schedule, Freeze, Reopen, Restore, ArchiveRestored, Pay, PastDue,
              GoesStale, Retry, OnTenant, vars
<1>3. ASSUME NEW x \in Erasers,
             \/ Step(x) \/ Raise(x) \/ Crash(x) \/ OwnerAsks(x) \/ ConsoleErases(x)
             \/ (x \in Purgers /\ Claim(x))
      PROVE  \/ List(e) \/ Mark(e) \/ \E i \in Items : ReleaseItem(e, i)
             \/ Same
  <2>1. CASE \/ List(x) \/ Mark(x) \/ \E i \in Items : ReleaseItem(x, i)
    <3>1. x # e => Same
      BY <2>1 DEF List, Mark, ReleaseItem, Goto
    <3>. QED BY <2>1, <3>1
  <2>2. CASE \/ Flip(x) \/ HoldSync(x) \/ HoldPush(x) \/ Check(x) \/ Erase(x)
             \/ EraseNow(x) \/ Unlock(x) \/ Raise(x) \/ Crash(x) \/ OwnerAsks(x)
             \/ ConsoleErases(x) \/ (x \in Purgers /\ Claim(x))
    <3>1. x # e => Same
      BY <2>2 DEF Flip, HoldSync, HoldPush, Check, Erase, EraseNow, Unlock, Raise,
                  Crash, Leave, OwnerAsks, ConsoleErases, Claim, Goto
    <3>2. pc'[x] \notin {"release", "erase"}
      BY <2>2 DEF Flip, HoldSync, HoldPush, Check, Erase, EraseNow, Unlock, Raise,
                  Crash, Leave, OwnerAsks, ConsoleErases, Claim, Goto
    <3>. QED BY <3>1, <3>2
  <2>. QED BY <1>3, <2>1, <2>2 DEF Step
<1>. QED BY <1>1, <1>2, <1>3 DEF Next

LEMMA FreshStep ==
  ASSUME Places, RunOK, Fresh, [Next]_vars
  PROVE  Fresh'
<1>. USE DEF Places, RunOK
<1>. SUFFICES ASSUME NEW e \in Erasers, pc'[e] \notin {"release", "erase", "unlock"}
              PROVE  Still(e)' = {}
  BY DEF Fresh
<1>. DEFINE Kept == /\ pc[e] \notin {"release", "erase", "unlock"}
                    /\ run'[e].todo = run[e].todo /\ run'[e].failed = run[e].failed
            Left == run'[e] = NothingRead
<1>1. ASSUME NEW w \in Writers, ListActive(w) \/ Authenticate(w) \/ WriterStep(w)
      PROVE  Kept
  BY <1>1, PurgeAssumption DEF ListActive, Authenticate, WriterStep, TryLock, Write, Begin,
              ReadStatus, CommitPush, OnWriter, Goto
<1>2. ASSUME \/ Schedule \/ Freeze \/ Reopen \/ Restore \/ ArchiveRestored \/ Pay
             \/ PastDue \/ GoesStale \/ \E i \in Items : Retry(i)
             \/ UNCHANGED vars
      PROVE  Kept
  BY <1>2 DEF Schedule, Freeze, Reopen, Restore, ArchiveRestored, Pay, PastDue,
              GoesStale, Retry, OnTenant, vars
<1>3. ASSUME NEW x \in Erasers, Unlock(x) \/ Crash(x)
      PROVE  Kept \/ Left
  BY <1>3 DEF Unlock, Crash, Leave, Goto
<1>4. ASSUME NEW x \in Purgers, Claim(x)
      PROVE  Kept
  <2>1. x \in Erasers
    BY DEF Erasers
  <2>2. CASE x = e
    <3>1. pc[e] = "idle"
      BY <1>4, <2>2 DEF Claim
    <3>2. PICK b : run' = [run EXCEPT ![e].base = b]
      BY <1>4, <2>2 DEF Claim
    <3>. QED BY <3>1, <3>2 DEF RunRows
  <2>3. CASE x # e
    BY <1>4, <2>1, <2>3 DEF Claim, Goto
  <2>. QED BY <2>2, <2>3
<1>5. ASSUME NEW x \in Erasers,
             \/ Raise(x) \/ OwnerAsks(x) \/ ConsoleErases(x)
             \/ Flip(x) \/ HoldSync(x) \/ HoldPush(x) \/ Check(x) \/ List(x)
             \/ (\E i \in Items : ReleaseItem(x, i))
             \/ Mark(x) \/ Erase(x) \/ EraseNow(x)
      PROVE  Kept
  <2>1. x # e => Kept
    BY <1>5 DEF Raise, OwnerAsks, ConsoleErases, Flip, HoldSync, HoldPush, Check, List,
                ReleaseItem, Mark, Erase, EraseNow, Goto
  <2>2. CASE \/ Raise(x) \/ List(x) \/ (\E i \in Items : ReleaseItem(x, i))
             \/ Mark(x) \/ Erase(x) \/ EraseNow(x)
    <3>1. pc'[x] \in {"release", "erase", "unlock"}
      BY <2>2 DEF Raise, List, ReleaseItem, Mark, Erase, EraseNow, Goto
    <3>. QED BY <2>1, <3>1
  <2>3. CASE \/ OwnerAsks(x) \/ ConsoleErases(x) \/ Flip(x) \/ HoldSync(x)
             \/ HoldPush(x) \/ Check(x)
    BY <2>3 DEF OwnerAsks, ConsoleErases, Flip, HoldSync, HoldPush, Check, Goto
  <2>. QED BY <1>5, <2>2, <2>3
<1>6. Kept \/ Left
  BY <1>1, <1>2, <1>3, <1>4, <1>5 DEF Next, Step
<1>. QED BY <1>6 DEF Fresh, Still, NothingRead

LEMMA MarkFactsStep ==
  ASSUME MarkInv, [Next]_vars
  PROVE  MarkFacts'
<1>. USE DEF MarkInv, TypeInv, WipeInv, DataOK
<1>0. CASE failures' # 0
  BY <1>0 DEF MarkFacts
<1>1. CASE failures' = 0
  <2>1. failures = 0
    BY <1>1, Failing
  <2>2. Unnamed' \subseteq Unnamed
    BY UnnamedShrinks
  <2>3. Gone' => Unnamed' = {}
    BY <2>1, <2>2, WhoWipes DEF MarkFacts
  <2>4. ASSUME NEW i \in Unnamed'
        PROVE  item'[i].row = "live"
    <3>1. i \in Unnamed /\ item[i].row = "live"
      BY <2>1, <2>2, <2>4 DEF MarkFacts
    <3>2. ~Wipe
      <4>1. Wipe => Gone'
        BY DEF Wipe, Gone
      <4>. QED BY <4>1, <2>3, <2>4
    <3>3. CASE item' = Archived
      BY <3>1, <3>3 DEF Archived, Unnamed, Ledger, ItemOK, ItemRows
    <3>4. CASE \A j \in Items : item'[j].row = item[j].row
      BY <3>1, <3>4 DEF Unnamed
    <3>. QED BY <3>2, <3>3, <3>4, UnnamedShrinks
  <2>5. ASSUME NEW e \in Erasers, pc'[e] \in {"release", "erase"}
        PROVE  /\ pc'[e] = "release"
                    => Short(e)' \/ Unnamed' \subseteq Still(e)'
               /\ pc'[e] = "erase" => Unnamed' = {}
    <3>1. CASE List(e)
      <4>1. pc'[e] = "release"
        BY <3>1 DEF List, Goto, Places
      <4>2. Unnamed \subseteq Connected
        BY <2>1 DEF MarkFacts, Unnamed, Connected
      <4>3. Still(e) = {}
        BY <3>1 DEF List, Fresh
      <4>4. \/ run' = [run EXCEPT ![e].todo = Connected]
            \/ run' = [run EXCEPT ![e].short = TRUE]
            \/ run' = [run EXCEPT ![e].failed = Connected]
        BY <3>1 DEF List
      <4>5. Short(e)' \/ Connected \subseteq Still(e)'
        BY <4>3, <4>4 DEF Short, Still, RunOK, RunRows
      <4>. QED BY <2>2, <4>1, <4>2, <4>5
    <3>2. CASE Mark(e)
      <4>1. pc'[e] = "erase" /\ (Short(e) \/ Unnamed \subseteq run[e].failed)
        BY <2>1, <3>2 DEF Mark, Goto, Places, MarkFacts, Still
      <4>a. Unnamed \subseteq Rows
        BY <2>1 DEF MarkFacts, Unnamed, Rows
      <4>2. Unnamed \subseteq Named(e)
        BY <4>1, <4>a DEF Named, Short, Still
      <4>3. item' = [i \in Items |-> [item[i] EXCEPT !.marked = @ \/ i \in Named(e)]]
        BY <1>1, <2>1, <3>2 DEF Mark
      <4>4. \A i \in Items : i \in Named(e) => item'[i].marked
        BY <4>3 DEF ItemOK, ItemRows
      <4>. QED BY <2>2, <4>1, <4>2, <4>4 DEF Unnamed
    <3>3. ASSUME NEW i \in Items, ReleaseItem(e, i)
          PROVE  /\ pc'[e] = "release"
                 /\ Unnamed' \subseteq run'[e].todo \cup run'[e].failed
      <4>1. pc[e] = "release" /\ pc'[e] = "release"
        BY <3>3 DEF ReleaseItem
      <4>2. Unnamed \subseteq run[e].todo \cup run[e].failed
        BY <2>1, <3>3, <4>1 DEF MarkFacts, Short, Still, ReleaseItem
      <4>. DEFINE r == [run[e] EXCEPT !.todo = @ \ {i}]
      <4>a. /\ r \in RunRows
            /\ r.todo = run[e].todo \ {i} /\ r.failed = run[e].failed
        BY DEF RunOK, RunRows
      <4>b. \/ /\ i \notin Connected
               /\ run'[e] = [r EXCEPT !.short = TRUE]
            \/ /\ item' = Released(i) \/ item' = NotStamped(i)
               /\ run'[e] = r
            \/ run'[e] = [r EXCEPT !.failed = @ \cup {i}]
        BY <3>3 DEF ReleaseItem, RunOK
      <4>. HIDE DEF r
      <4>3. /\ run[e].todo \ {i} \subseteq run'[e].todo
            /\ run[e].failed \subseteq run'[e].failed
        BY <4>a, <4>b DEF RunRows
      <4>4. CASE i \notin Connected
        BY <2>1, <2>2, <4>1, <4>2, <4>3, <4>4 DEF MarkFacts, Connected, Unnamed
      <4>5. CASE i \in run'[e].failed
        BY <2>2, <4>1, <4>2, <4>3, <4>5
      <4>6. CASE item' = Released(i) \/ item' = NotStamped(i)
        <5>1. i \notin Unnamed'
          BY <4>6 DEF Released, NotStamped, Unnamed, ItemOK, ItemRows
        <5>. QED BY <2>2, <4>1, <4>2, <4>3, <5>1
      <4>7. \/ i \notin Connected \/ i \in run'[e].failed
            \/ item' = Released(i) \/ item' = NotStamped(i)
        BY <4>a, <4>b DEF RunRows
      <4>. QED BY <4>4, <4>5, <4>6, <4>7
    <3>4. CASE pc'[e] = pc[e] /\ run'[e] = run[e]
      BY <2>1, <2>2, <3>4 DEF MarkFacts, Short, Still
    <3>. QED BY <2>5, <3>1, <3>2, <3>3, <3>4, InTheRelease DEF Still
  <2>. QED BY <2>3, <2>4, <2>5 DEF MarkFacts
<1>. QED BY <1>0, <1>1

(* An Item that outlives its household at Plaid is named in a pending      *)
(* marker (record_pending_release), whether Plaid refuses it, its keys are *)
(* missing or the release fails as a whole, as long as every marker, stamp *)
(* and queue entry could be written: failures = 0.                         *)
THEOREM LeftBillingMarked == Spec => []LeftBillingIsMarked
<1>1. Init => MarkInv
  <2>. SUFFICES ASSUME Init PROVE MarkInv
    OBVIOUS
  <2>1. \A i \in Items : item[i].row = "live"
    BY DEF Init
  <2>2. ~Gone /\ \A e \in Erasers : pc[e] = "idle"
    BY DEF Init, Gone
  <2>3. MarkFacts
    BY <2>1, <2>2 DEF MarkFacts, Unnamed
  <2>4. Fresh
    BY DEF Init, Fresh, Still, NothingRead
  <2>. QED BY <2>3, <2>4, InitHandInv DEF MarkInv, HandInv
<1>2. MarkInv /\ [Next]_vars => MarkInv'
  BY NextTypeInv, LedgerStep, MarkFactsStep, FreshStep DEF MarkInv, TypeInv, WipeInv, DataOK
<1>3. MarkInv => LeftBillingIsMarked
  BY DEF MarkInv, MarkFacts, Unnamed, LeftBillingIsMarked
<1>. QED BY <1>1, <1>2, <1>3, PTL DEF Spec

------------------------------------------------------------------------------
(* Money that came while a purge ran.                                      *)

(* A purge that has the household in hand has its claim, and the household *)
(* was not reopened and frozen anew under it: whoever reopens it has       *)
(* proved the address.                                                     *)
ClaimHeld ==
  \A q \in Purgers : pc[q] \in Purging /\ ~Gone =>
    /\ tenant.claim = q /\ ~tenant.stale
    /\ tenant.st = "open" => proven
    /\ tenant.st = "unverified" => tenant.due = "past"

(* A freeze nobody asked for goes back to a household that was open; only  *)
(* the owner's door flips a household.                                     *)
FrozenFromOpen ==
  /\ tenant.st = "unverified" => tenant.prev # "unverified"
  /\ \A q \in Purgers : pc[q] # "flip"

(* What was paid for is in the hands of a purge that will see the money.   *)
PaidSeen ==
  paid => /\ tenant.st = "unverified" /\ money
          /\ \E q \in Purgers : pc[q] \in Purging /\ ~run[q].base

PaidFacts == ClaimHeld /\ FrozenFromOpen
PaidInv == TypeInv /\ PaidFacts /\ PaidSeen

(* A step of one eraser's leaves every other where it is.                  *)
LEMMA OneEraserMoves ==
  ASSUME NEW e \in Erasers,
         \/ Step(e) \/ Raise(e) \/ Crash(e) \/ OwnerAsks(e) \/ ConsoleErases(e)
         \/ (e \in Purgers /\ Claim(e)),
         Places, RunOK
  PROVE  \A q \in Erasers \ {e} : pc'[q] = pc[q] /\ run'[q] = run[q]
BY DEF Step, Raise, Crash, Leave, OwnerAsks, ConsoleErases, Claim, Flip, HoldSync,
       HoldPush, Check, List, ReleaseItem, Mark, Erase, EraseNow, Unlock, Goto,
       Places, RunOK

LEMMA PaidFactsStep ==
  ASSUME TypeInv, PaidFacts, [Next]_vars
  PROVE  PaidFacts'
<1>. USE DEF PaidFacts, TypeInv, WipeInv, TenantOK, DataOK
<1>1. CASE UNCHANGED <<tenant, proven, pc>>
  BY <1>1 DEF ClaimHeld, FrozenFromOpen, Gone
<1>2. CASE Schedule
  BY <1>2 DEF Schedule, OnTenant, Tenant, ownVars, ClaimHeld, FrozenFromOpen, Gone
<1>3. CASE Freeze
  BY <1>3 DEF Freeze, OnTenant, Tenant, ownVars, ClaimHeld, FrozenFromOpen, Gone
<1>4. CASE Reopen
  BY <1>4 DEF Reopen, Restored, Tenant, ClaimHeld, FrozenFromOpen, Gone
<1>5. CASE Restore
  <2>1. tenant.claim = "none" \/ tenant.stale
    BY <1>5 DEF Restore
  <2>2. /\ tenant' = NotClaimed(Restored) /\ UNCHANGED <<proven, pc>>
        /\ tenant.st # "erased"
    BY <1>5 DEF Restore, ownVars, Frozen
  <2>3. \A q \in Purgers : pc[q] \notin Purging
    BY <2>1, <2>2 DEF ClaimHeld, Gone
  <2>4. FrozenFromOpen'
    BY <2>2 DEF NotClaimed, ClaimedBy, Restored, Tenant, FrozenFromOpen
  <2>. QED BY <2>2, <2>3, <2>4 DEF ClaimHeld
<1>6. CASE Pay \/ ArchiveRestored \/ \E i \in Items : Retry(i)
  BY <1>1, <1>6 DEF Pay, ArchiveRestored, Retry, ownVars
<1>7. CASE PastDue
  BY <1>7 DEF PastDue, OnTenant, Tenant, ownVars, ClaimHeld, FrozenFromOpen, Gone
<1>8. CASE GoesStale
  <2>1. /\ tenant.claim # "none" /\ pc[tenant.claim] = "idle"
        /\ tenant' = [tenant EXCEPT !.stale = TRUE] /\ UNCHANGED <<proven, pc>>
    BY <1>8 DEF GoesStale, OnTenant, ownVars
  <2>2. \A q \in Purgers : pc[q] \in Purging => Gone
    BY <2>1 DEF ClaimHeld, Purging
  <2>. QED BY <2>1, <2>2 DEF ClaimHeld, FrozenFromOpen, Gone
<1>9. ASSUME NEW w \in Writers,
             ListActive(w) \/ Authenticate(w) \/ WriterStep(w)
      PROVE  PaidFacts'
  <2>1. UNCHANGED <<tenant, proven>> /\ \A q \in Purgers : pc'[q] = pc[q]
    BY <1>9 DEF ListActive, Authenticate, WriterStep, TryLock, Write, Begin,
                ReadStatus, CommitPush, OnWriter, Goto, ownVars, Places
  <2>. QED BY <2>1 DEF ClaimHeld, FrozenFromOpen, Gone
<1>10. ASSUME NEW e \in Erasers,
              \/ Step(e) \/ Raise(e) \/ Crash(e) \/ OwnerAsks(e) \/ ConsoleErases(e)
              \/ (e \in Purgers /\ Claim(e))
       PROVE  PaidFacts'
  <2>1. \A q \in Erasers \ {e} : pc'[q] = pc[q]
    BY <1>10, OneEraserMoves
  <2>2. UNCHANGED proven
    BY <1>10 DEF Step, Raise, Crash, OwnerAsks, ConsoleErases, Claim, Flip, HoldSync,
                 HoldPush, Check, List, ReleaseItem, Mark, Erase, EraseNow, Unlock,
                 ownVars
  <2>3. CASE UNCHANGED tenant /\ (pc'[e] \in Purging /\ e \in Purgers
                                         => pc[e] \in Purging)
             /\ (e \in Purgers => pc'[e] # "flip")
    BY <2>1, <2>2, <2>3 DEF ClaimHeld, FrozenFromOpen, Gone
  <2>4. CASE tenant' = Unclaimed(e) /\ pc'[e] = "unlock" /\ e \in Purgers
    <3>1. \A q \in Purgers \ {e} : pc'[q] \in Purging /\ ~Gone => tenant' = tenant
      BY <2>1, <2>4 DEF ClaimHeld, Unclaimed
    <3>2. pc'[e] \notin Purging
      BY <2>4 DEF Purging
    <3>3. /\ tenant'.st = tenant.st /\ tenant'.prev = tenant.prev
      BY <2>4 DEF Unclaimed, NotClaimed, ClaimedBy
    <3>4. ClaimHeld'
      <4>1. ASSUME NEW q \in Purgers, pc'[q] \in Purging, ~Gone'
            PROVE  tenant' = tenant /\ pc[q] \in Purging /\ ~Gone
        BY <2>1, <3>1, <3>2, <3>3, <4>1 DEF Gone
      <4>. QED BY <2>2, <4>1 DEF ClaimHeld
    <3>5. FrozenFromOpen'
      BY <2>1, <2>4, <3>3 DEF FrozenFromOpen
    <3>. QED BY <3>4, <3>5
  <2>5. CASE e \in Purgers /\ Claim(e)
    <3>1. /\ DueNow /\ (tenant.claim = "none" \/ tenant.stale)
          /\ tenant' = ClaimedBy(tenant, e) /\ pc'[e] = "holdSync"
      BY <2>5 DEF Claim, MayClaim, Goto, Places
    <3>2. \A q \in Purgers : pc[q] \notin Purging
      BY <3>1 DEF ClaimHeld, DueNow, Frozen, Gone
    <3>3. /\ tenant'.claim = e /\ ~tenant'.stale /\ tenant'.due = "past"
          /\ tenant'.st \in {"pending", "unverified"} /\ tenant'.st = tenant.st
          /\ tenant'.prev = tenant.prev
      BY <3>1 DEF ClaimedBy, DueNow, Frozen
    <3>4. ClaimHeld'
      BY <2>1, <3>2, <3>3 DEF ClaimHeld
    <3>5. FrozenFromOpen'
      BY <2>1, <3>1, <3>3 DEF FrozenFromOpen
    <3>. QED BY <3>4, <3>5
  <2>6. CASE Flip(e)
    <3>1. e \notin Purgers /\ (tenant' = tenant
                               \/ tenant' = Tenant("pending", tenant.prev, "past"))
      BY <2>6 DEF Flip, FrozenFromOpen
    <3>2. \A q \in Purgers : pc'[q] = pc[q]
      BY <2>1, <3>1
    <3>3. CASE tenant' = tenant
      BY <2>2, <3>2, <3>3 DEF ClaimHeld, FrozenFromOpen, Gone
    <3>4. CASE tenant' = Tenant("pending", tenant.prev, "past") /\ ~Gone
      BY <3>2, <3>4 DEF ClaimHeld, FrozenFromOpen, Tenant, Gone
    <3>. QED BY <2>6, <3>3, <3>4 DEF Flip
  <2>7. CASE Erase(e)
    <3>1. e \in Purgers /\ pc'[e] = "unlock"
      BY <2>7 DEF Erase, Goto, Places
    <3>2. CASE HandBack(Unclaimed(e))
      BY <2>4, <3>1, <3>2 DEF HandBack
    <3>3. CASE StillClaimed(e) /\ tenant' = NotClaimed(Restored)
      <4>1. tenant.claim = e /\ ~Gone
        BY <3>3 DEF StillClaimed, DueNow, Frozen, Gone
      <4>2. \A q \in Purgers : pc'[q] \notin Purging
        BY <2>1, <3>1, <4>1 DEF ClaimHeld, Purging
      <4>. QED BY <2>1, <3>1, <3>3, <4>2
               DEF ClaimHeld, FrozenFromOpen, NotClaimed, ClaimedBy, Restored, Tenant
    <3>4. CASE Wipe
      BY <2>1, <3>1, <3>4 DEF Wipe, ClaimHeld, FrozenFromOpen, Gone
    <3>. QED BY <2>7, <3>2, <3>3, <3>4 DEF Erase, HandBack
  <2>8. CASE EraseNow(e)
    <3>1. tenant'.st = "erased" /\ pc'[e] = "unlock"
      BY <2>8 DEF EraseNow, Wipe, Goto, Places
    <3>. QED BY <2>1, <3>1 DEF ClaimHeld, FrozenFromOpen, Gone
  <2>9. CASE Check(e)
    <3>1. \/ tenant' = Unclaimed(e) /\ pc'[e] = "unlock"
          \/ UNCHANGED tenant /\ pc[e] \in Purging /\ pc'[e] = "list"
      BY <2>9 DEF Check, Goto, Places, Purging
    <3>2. e \in Doors /\ e \notin Purgers => tenant' = tenant
      BY <2>9 DEF Check, Unclaimed, TenantOK
    <3>. QED BY <2>1, <2>2, <2>3, <2>4, <3>1, <3>2 DEF Purging
  <2>10. CASE Raise(e)
    BY <2>3, <2>4, <2>10 DEF Raise, Goto, Places, Purging
  <2>11. CASE \/ Crash(e) \/ OwnerAsks(e) \/ ConsoleErases(e) \/ HoldSync(e)
              \/ HoldPush(e) \/ List(e) \/ Mark(e) \/ Unlock(e)
              \/ \E i \in Items : ReleaseItem(e, i)
    <3>1. UNCHANGED tenant
      BY <2>11 DEF Crash, OwnerAsks, ConsoleErases, HoldSync, HoldPush, List, Mark,
                   Unlock, ReleaseItem
    <3>2. /\ pc'[e] \in Purging /\ e \in Purgers => pc[e] \in Purging
          /\ e \in Purgers => pc'[e] # "flip"
      BY <2>11 DEF Crash, OwnerAsks, ConsoleErases, HoldSync, HoldPush, List, Mark,
                   Unlock, Leave, ReleaseItem, Goto, Places, Purging, FrozenFromOpen
    <3>. QED BY <2>3, <3>1, <3>2
  <2>. QED BY <1>10, <2>5, <2>6, <2>7, <2>8, <2>9, <2>10, <2>11 DEF Step
<1>. QED BY <1>1, <1>2, <1>3, <1>4, <1>5, <1>6, <1>7, <1>8, <1>9, <1>10 DEF Next, vars, ownVars

(* What a run in hand took as its baseline stays so while it is in hand.   *)
LEMMA BaseStands ==
  ASSUME RunOK, NEW e \in Erasers,
         Step(e) \/ Raise(e) \/ OwnerAsks(e) \/ ConsoleErases(e), ~Unlock(e)
  PROVE  run'[e].base = run[e].base
<1>1. CASE \/ Flip(e) \/ HoldSync(e) \/ HoldPush(e) \/ Check(e) \/ Mark(e) \/ Erase(e)
           \/ EraseNow(e) \/ Raise(e) \/ OwnerAsks(e) \/ ConsoleErases(e)
  BY <1>1 DEF Flip, HoldSync, HoldPush, Check, Mark, Erase, EraseNow, Raise, OwnerAsks,
              ConsoleErases
<1>2. CASE List(e)
  BY <1>2 DEF List, RunOK, RunRows
<1>3. ASSUME NEW i \in Items, ReleaseItem(e, i)
      PROVE  run'[e].base = run[e].base
  BY <1>3 DEF ReleaseItem, RunOK, RunRows
<1>. QED BY <1>1, <1>2, <1>3 DEF Step

(* Only a payment changes what is attached to the household.               *)
LEMMA MoneyComes ==
  ASSUME Next
  PROVE  UNCHANGED money \/ Pay
<1>1. ASSUME NEW w \in Writers,
             ListActive(w) \/ Authenticate(w) \/ WriterStep(w)
      PROVE  UNCHANGED money
  BY <1>1 DEF ListActive, Authenticate, WriterStep, TryLock, Write, Begin,
              ReadStatus, CommitPush, OnWriter, ownVars
<1>2. ASSUME NEW e \in Erasers,
             \/ Step(e) \/ Raise(e) \/ Crash(e) \/ OwnerAsks(e) \/ ConsoleErases(e)
             \/ (e \in Purgers /\ Claim(e))
      PROVE  UNCHANGED money
  BY <1>2 DEF Step, Raise, Crash, OwnerAsks, ConsoleErases, Claim, Flip, HoldSync,
              HoldPush, Check, List, ReleaseItem, Mark, Erase, EraseNow, Unlock, ownVars
<1>3. CASE \/ Schedule \/ Freeze \/ Reopen \/ Restore \/ ArchiveRestored
           \/ PastDue \/ GoesStale \/ \E i \in Items : Retry(i)
  BY <1>3 DEF Schedule, Freeze, Reopen, Restore, ArchiveRestored, PastDue,
              GoesStale, Retry, OnTenant, ownVars
<1>. QED BY <1>1, <1>2, <1>3 DEF Next, Erasers

(* The run that has a paid household in hand goes on to its last check and *)
(* there hands it back.                                                    *)
LEMMA PaidSeenStep ==
  ASSUME PaidInv, PaidNext, paid'
  PROVE  PaidSeen'
<1>. USE DEF PaidInv, PaidFacts, TypeInv, WipeInv, DataOK
<1>1. /\ Next /\ tenant'.st = "unverified" /\ UNCHANGED <<crashes, failures>>
      /\ paid \/ (~money /\ money' /\ InHand)
  BY DEF PaidNext
<1>2. UNCHANGED money \/ Pay
  BY <1>1, MoneyComes
<1>3. money' /\ tenant.st = "unverified"
  <2>1. CASE paid
    BY <1>2, <2>1 DEF PaidSeen, Pay
  <2>2. CASE ~paid
    BY <1>1, <1>2, <2>2 DEF Pay
  <2>. QED BY <2>1, <2>2
<1>4. PICK q \in Purgers : pc[q] \in Purging /\ ~run[q].base
  BY <1>1 DEF PaidSeen, InHand
<1>. DEFINE Stays == pc'[q] \in Purging /\ run'[q].base = run[q].base
<1>5. /\ tenant.claim = q /\ DueNow /\ tenant.prev # "unverified"
      /\ ~Gone /\ StillClaimed(q)
  BY <1>3, <1>4 DEF ClaimHeld, FrozenFromOpen, Gone, DueNow, Frozen, StillClaimed
<1>6. CASE UNCHANGED <<pc, run>>
  BY <1>1, <1>3, <1>4, <1>6 DEF PaidSeen
<1>7. ASSUME NEW w \in Writers,
             ListActive(w) \/ Authenticate(w) \/ WriterStep(w)
      PROVE  Stays
  BY <1>4, <1>7 DEF ListActive, Authenticate, WriterStep, TryLock, Write, Begin,
                    ReadStatus, CommitPush, OnWriter, Goto, Places
<1>8. ASSUME NEW e \in Erasers,
             \/ Step(e) \/ Raise(e) \/ Crash(e) \/ OwnerAsks(e) \/ ConsoleErases(e)
             \/ (e \in Purgers /\ Claim(e))
      PROVE  Stays
  <2>1. CASE e # q
    BY <1>4, <1>8, <2>1, OneEraserMoves
  <2>2. CASE e = q
    <3>1. ~Crash(e) /\ ~Raise(e)
      BY <1>1 DEF Crash, Raise, Counts
    <3>2. /\ ~OwnerAsks(e) /\ ~ConsoleErases(e) /\ ~Claim(e) /\ ~Flip(e)
          /\ ~Unlock(e)
      BY <1>4, <2>2 DEF OwnerAsks, ConsoleErases, Claim, Flip, Unlock, Purging
    <3>3. Step(e) /\ run'[q].base = run[q].base
      BY <1>8, <2>2, <3>1, <3>2, BaseStands
    <3>4. ~Erase(e)
      <4>1. ~Wipe /\ ~HandBack(NotClaimed(Restored))
        BY <1>1, <1>5 DEF Wipe, HandBack, NotClaimed, ClaimedBy, Restored, Tenant,
                          TenantOK
      <4>. QED BY <1>5, <2>2, <4>1 DEF Erase
    <3>5. ~EraseNow(e)
      BY <1>1 DEF EraseNow, Wipe
    <3>6. CASE Check(e)
      BY <1>5, <2>2, <3>3, <3>6 DEF Check, Goto, Places, Purging
    <3>7. CASE \/ HoldSync(e) \/ HoldPush(e) \/ List(e) \/ Mark(e)
               \/ \E i \in Items : ReleaseItem(e, i)
      BY <1>4, <2>2, <3>3, <3>7 DEF HoldSync, HoldPush, List, Mark, ReleaseItem, Goto,
                                    Places, Purging
    <3>. QED BY <3>2, <3>3, <3>4, <3>5, <3>6, <3>7 DEF Step
  <2>. QED BY <2>1, <2>2
<1>9. Stays => PaidSeen'
  BY <1>1, <1>3, <1>4 DEF PaidSeen
<1>10. CASE \/ Schedule \/ Freeze \/ Reopen \/ Restore \/ ArchiveRestored \/ Pay
            \/ PastDue \/ GoesStale \/ \E i \in Items : Retry(i)
  BY <1>6, <1>10 DEF Schedule, Freeze, Reopen, Restore, ArchiveRestored, Pay, PastDue,
                     GoesStale, Retry, OnTenant
<1>. QED BY <1>1, <1>7, <1>8, <1>9, <1>10 DEF Next

LEMMA PaidErase ==
  ASSUME PaidInv, Next, paid, NEW p \in Purgers, pc[p] = "erase", pc'[p] = "unlock"
  PROVE  tenant'.st # "erased"
<1>. USE DEF PaidInv, PaidFacts, TypeInv, WipeInv, DataOK
<1>1. tenant.st = "unverified" /\ money
  BY DEF PaidSeen
<1>2. PICK q \in Purgers : pc[q] \in Purging /\ ~run[q].base
  BY DEF PaidSeen
<1>3. p = q
  BY <1>1, <1>2 DEF ClaimHeld, Gone, Purging
<1>4. Erase(p) \/ EraseNow(p) \/ Raise(p) \/ Crash(p)
  BY LeavesRelease
<1>5. ~EraseNow(p)
  BY DEF EraseNow
<1>6. CASE Raise(p) \/ Crash(p)
  BY <1>1, <1>6 DEF Raise, Crash, Unclaimed, NotClaimed, ClaimedBy
<1>7. CASE Erase(p)
  <2>1. Entitled(p)
    BY <1>1, <1>2, <1>3 DEF Entitled
  <2>2. CASE tenant' = Unclaimed(p)
    BY <1>1, <2>2 DEF Unclaimed, NotClaimed, ClaimedBy
  <2>3. CASE tenant' = NotClaimed(Restored)
    BY <2>3 DEF NotClaimed, ClaimedBy, Restored, Tenant, TenantOK
  <2>. QED BY <1>7, <2>1, <2>2, <2>3 DEF Erase, HandBack
<1>. QED BY <1>4, <1>5, <1>6, <1>7

(* A household frozen without being asked, and paid for while a purge of   *)
(* it ran, is not erased by that run nor by another that overlaps it       *)
(* (_purge_one's last check: "only something new mid-purge counts").       *)
THEOREM PaidKept == PaidSpec => PaidMidPurgeKept
<1>1. PaidInit => PaidInv
  <2>. SUFFICES ASSUME PaidInit PROVE PaidInv
    OBVIOUS
  <2>1. ClaimHeld /\ FrozenFromOpen /\ PaidSeen
    BY PurgeAssumption
    DEF PaidInit, Init, ClaimHeld, FrozenFromOpen, PaidSeen, Purging, Erasers
  <2>. QED BY <2>1, InitTypeInv DEF PaidInit, PaidInv, PaidFacts
<1>2. PaidInv /\ [PaidNext]_<<vars, paid>> => PaidInv'
  <2>. SUFFICES ASSUME PaidInv, [PaidNext]_<<vars, paid>> PROVE PaidInv'
    OBVIOUS
  <2>1. [Next]_vars
    BY DEF PaidNext
  <2>2. TypeInv' /\ PaidFacts'
    BY <2>1, NextTypeInv, PaidFactsStep DEF PaidInv
  <2>3. PaidSeen'
    <3>1. CASE PaidNext /\ paid'
      BY <3>1, PaidSeenStep
    <3>2. CASE ~paid'
      BY <3>2 DEF PaidSeen
    <3>3. CASE UNCHANGED <<vars, paid>>
      BY <3>3 DEF PaidInv, PaidSeen, vars
    <3>. QED BY <3>1, <3>2, <3>3
  <2>. QED BY <2>2, <2>3 DEF PaidInv
<1>3. PaidInv /\ [PaidNext]_<<vars, paid>>
        => [\A p \in Purgers : paid /\ pc[p] = "erase" /\ pc'[p] = "unlock"
                                => tenant'.st # "erased"]_<<vars, paid>>
  BY PaidErase DEF PaidNext
<1>. QED BY <1>1, <1>2, <1>3, PTL DEF PaidSpec, PaidMidPurgeKept
=============================================================================
