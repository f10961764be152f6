-------------------------- MODULE PlaidLinkProofs --------------------------
(***************************************************************************)
(* PlaidLink's safety, for any sessions, tokens, finishers and failures.   *)
(*                                                                         *)
(* EveryItemHasHandle is not inductive alone: what stands between an       *)
(* exchange and the row is the finisher's frame, so the proof needs that   *)
(* the lock keeps every other finisher out (LockHeld), that a frame past   *)
(* "hold" has its hold in the queue or knows it has not, and that a hold   *)
(* is dropped only for what is saved or removed (HandFact).  The other     *)
(* two rest on it, on the types, and on what a frame, a record and a dict  *)
(* know: of a spent token (Knows), of a reset's mark (Marks).              *)
(***************************************************************************)
EXTENDS PlaidLink, TLAPS

Holding == {"hold", "keep", "back", "drop"}
Free == {"idle", "lock"}
PCs == {"idle", "lock", "refresh", "look", "take", "record", "unlock", "next"}
         \cup Holding

LinkType ==
  /\ plaid \in [Tokens -> {"none", "ready", "live", "gone"}]
  /\ queue \in [Tokens -> {"no", "hold", "refused"}]
  /\ lock \in Procs \cup {Nobody}
  /\ pc \in [Procs -> PCs]
  /\ refuse \in [Procs -> BOOLEAN]
  /\ hand \in [Procs -> Tokens \cup {Nobody}]

LockHeld == \A p \in Procs : lock = p <=> pc[p] \notin Free

(* What a frame with a token in hand knows of it.                          *)
HandFact(p) ==
  /\ pc[p] \in Holding => hand[p] \in Tokens
  /\ pc[p] \in {"hold", "keep"} => ~refuse[p]
  /\ pc[p] = "keep" \/ (pc[p] = "back" /\ ~refuse[p]) =>
       hand[p] \in unheld \/ queue[hand[p]] = "hold"
  /\ pc[p] = "drop" => hand[p] \in row \/ plaid[hand[p]] # "live"

HasHandle(t) ==
  plaid[t] = "live" =>
    \/ t \in row \cup lost
    \/ queue[t] # "no"
    \/ \E p \in Procs : hand[p] = t /\ pc[p] \in {"hold", "keep", "back"}

IInv ==
  /\ LinkType /\ LockHeld
  /\ \A p \in Procs : HandFact(p)
  /\ \A t \in Tokens : HasHandle(t)

(* The initial states.                                                     *)
LEMMA InitIInv == Init => IInv
  <1> SUFFICES ASSUME Init PROVE IInv OBVIOUS
  <1> USE KindsApart
  <1>1. LinkType BY DEF Init, LinkType, PCs, Holding
  <1>2. LockHeld BY DEF Init, LockHeld, Free, Procs
  <1>3. \A p \in Procs : HandFact(p) BY DEF Init, HandFact, Holding
  <1>4. \A t \in Tokens : HasHandle(t) BY DEF Init, HasHandle
  <1> QED BY <1>1, <1>2, <1>3, <1>4 DEF IInv

(* Two finishers past their try-lock are one.                              *)
LEMMA OneHolder ==
  ASSUME LockHeld, NEW p \in Procs, NEW q \in Procs,
         pc[p] \notin Free, pc[q] \notin Free
  PROVE p = q
  BY DEF LockHeld

(* A step that leaves the Items alone, of a finisher with none in hand     *)
(* before or after.                                                        *)
LEMMA EmptyHanded ==
  ASSUME IInv, NEW p \in Procs, UNCHANGED link, LinkType', LockHeld',
         pc[p] \notin Holding, pc'[p] \notin Holding,
         \A q \in Procs \ {p} : /\ pc'[q] = pc[q] /\ hand'[q] = hand[q]
                                /\ refuse'[q] = refuse[q]
  PROVE IInv'
  <1>1. \A q \in Procs : HandFact(q)'
    BY DEF IInv, HandFact, Holding, link
  <1>2. \A t \in Tokens : HasHandle(t)'
    <2> SUFFICES ASSUME NEW t \in Tokens PROVE HasHandle(t)' OBVIOUS
    <2>1. HasHandle(t) BY DEF IInv
    <2>2. ASSUME NEW q \in Procs, hand[q] = t, pc[q] \in {"hold", "keep", "back"}
          PROVE hand'[q] = t /\ pc'[q] \in {"hold", "keep", "back"}
      BY <2>2 DEF Holding
    <2> QED BY <2>1, <2>2 DEF HasHandle, link
  <1> QED BY <1>1, <1>2 DEF IInv

(* A step of no finisher's that leaves the Items alone.                    *)
LEMMA Aside ==
  ASSUME IInv, UNCHANGED <<link, lock, frame>>
  PROVE IInv'
  BY DEF IInv, LinkType, LockHeld, HandFact, HasHandle, link, frame

LEMMA ReportStep ==
  ASSUME IInv, NEW t \in Tokens, Report(t) PROVE IInv'
  <1>1. /\ UNCHANGED <<row, queue, unheld, lost, lock, pc, refuse, hand>>
        /\ plaid[t] = "none" /\ plaid' = [plaid EXCEPT ![t] = "ready"]
    BY DEF Report, frame
  <1>2. LinkType' /\ LockHeld' BY <1>1 DEF IInv, LinkType, LockHeld
  <1>3. \A u \in Tokens : plaid'[u] = "live" => plaid[u] = "live"
    BY <1>1 DEF IInv, LinkType
  <1>4. \A q \in Procs : HandFact(q)'
    BY <1>1, <1>3 DEF IInv, HandFact, Holding
  <1>5. \A u \in Tokens : HasHandle(u)'
    BY <1>1, <1>3 DEF IInv, HasHandle
  <1> QED BY <1>2, <1>4, <1>5 DEF IInv

(* The person, the console and the clock leave the Items alone.            *)
LEMMA OutsideStep ==
  ASSUME IInv,
         Turn \/ \E s \in Sessions : LeaveWindow(s) \/ SetAside(s) \/ Forget(s)
                                     \/ Abandon(s) \/ Expire(s)
  PROVE IInv'
  <1>1. UNCHANGED <<link, lock, frame>>
    BY DEF Turn, LeaveWindow, SetAside, Forget, Abandon, Expire
  <1> QED BY <1>1, Aside

(* The steps of a finisher with nothing in hand.                           *)

LEMMA StartPollStep ==
  ASSUME IInv, NEW p \in Procs, NEW s \in Sessions, StartPoll(p, s) PROVE IInv'
  <1>1. /\ UNCHANGED link /\ pc[p] \notin Holding /\ pc'[p] \notin Holding
        /\ \A q \in Procs \ {p} : /\ pc'[q] = pc[q] /\ hand'[q] = hand[q]
                                  /\ refuse'[q] = refuse[q]
    BY DEF IInv, LinkType, StartPoll, Come, Go, Holding, link
  <1>2. LinkType'
    BY DEF IInv, LinkType, StartPoll, Come, Go, PCs, Holding, link
  <1>3. LockHeld'
    BY KindsApart DEF IInv, LinkType, LockHeld, StartPoll, Come, Go, Free, Procs
  <1> QED BY <1>1, <1>2, <1>3, EmptyHanded

LEMMA StartJobStep ==
  ASSUME IInv, NEW p \in Procs, NEW s \in Sessions, StartJob(p, s) PROVE IInv'
  <1>1. /\ UNCHANGED link /\ pc[p] \notin Holding /\ pc'[p] \notin Holding
        /\ \A q \in Procs \ {p} : /\ pc'[q] = pc[q] /\ hand'[q] = hand[q]
                                  /\ refuse'[q] = refuse[q]
    BY DEF IInv, LinkType, StartJob, Come, Go, Holding, link
  <1>2. LinkType'
    BY DEF IInv, LinkType, StartJob, Come, Go, PCs, Holding, link
  <1>3. LockHeld'
    BY KindsApart DEF IInv, LinkType, LockHeld, StartJob, Come, Go, Free, Procs
  <1> QED BY <1>1, <1>2, <1>3, EmptyHanded

LEMMA TryLockStep ==
  ASSUME IInv, NEW p \in Procs, TryLock(p) PROVE IInv'
  <1>1. /\ UNCHANGED link /\ pc[p] \notin Holding /\ pc'[p] \notin Holding
        /\ \A q \in Procs \ {p} : /\ pc'[q] = pc[q] /\ hand'[q] = hand[q]
                                  /\ refuse'[q] = refuse[q]
    BY DEF IInv, LinkType, TryLock, LetGo, Go, Holding, link
  <1>2. LinkType'
    BY DEF IInv, LinkType, TryLock, LetGo, Go, PCs, Holding, link
  <1>3. LockHeld'
    BY KindsApart DEF IInv, LinkType, LockHeld, TryLock, LetGo, Go, Free, Procs
  <1> QED BY <1>1, <1>2, <1>3, EmptyHanded

LEMMA RefreshStep ==
  ASSUME IInv, NEW p \in Procs, Refresh(p) PROVE IInv'
  <1>1. /\ UNCHANGED link /\ pc[p] \notin Holding /\ pc'[p] \notin Holding
        /\ \A q \in Procs \ {p} : /\ pc'[q] = pc[q] /\ hand'[q] = hand[q]
                                  /\ refuse'[q] = refuse[q]
    BY DEF IInv, LinkType, Refresh, Go, frame, Holding, link
  <1>2. LinkType'
    BY DEF IInv, LinkType, Refresh, Go, frame, PCs, Holding, link
  <1>3. LockHeld'
    BY KindsApart DEF IInv, LinkType, LockHeld, Refresh, Go, frame, Free, Procs
  <1> QED BY <1>1, <1>2, <1>3, EmptyHanded

LEMMA LookEmptyStep ==
  ASSUME IInv, NEW p \in Procs, LookEmpty(p) PROVE IInv'
  <1>1. /\ UNCHANGED link /\ pc[p] \notin Holding /\ pc'[p] \notin Holding
        /\ \A q \in Procs \ {p} : /\ pc'[q] = pc[q] /\ hand'[q] = hand[q]
                                  /\ refuse'[q] = refuse[q]
    BY DEF IInv, LinkType, LookEmpty, Go, Holding, link
  <1>2. LinkType'
    BY DEF IInv, LinkType, LookEmpty, Go, PCs, Holding, link
  <1>3. LockHeld'
    BY KindsApart DEF IInv, LinkType, LockHeld, LookEmpty, Go, Free, Procs
  <1> QED BY <1>1, <1>2, <1>3, EmptyHanded

LEMMA LookFailsStep ==
  ASSUME IInv, NEW p \in Procs, LookFails(p) PROVE IInv'
  <1>1. /\ UNCHANGED link /\ pc[p] \notin Holding /\ pc'[p] \notin Holding
        /\ \A q \in Procs \ {p} : /\ pc'[q] = pc[q] /\ hand'[q] = hand[q]
                                  /\ refuse'[q] = refuse[q]
    BY DEF IInv, LinkType, LookFails, Go, Holding, link
  <1>2. LinkType'
    BY DEF IInv, LinkType, LookFails, Go, PCs, Holding, link
  <1>3. LockHeld'
    BY KindsApart DEF IInv, LinkType, LockHeld, LookFails, Go, Free, Procs
  <1> QED BY <1>1, <1>2, <1>3, EmptyHanded

LEMMA LookStep ==
  ASSUME IInv, NEW p \in Procs, Look(p) PROVE IInv'
  <1>1. /\ UNCHANGED link /\ pc[p] \notin Holding /\ pc'[p] \notin Holding
        /\ \A q \in Procs \ {p} : /\ pc'[q] = pc[q] /\ hand'[q] = hand[q]
                                  /\ refuse'[q] = refuse[q]
    BY DEF IInv, LinkType, Look, Go, Holding, link
  <1>2. LinkType'
    BY DEF IInv, LinkType, Look, Go, PCs, Holding, link
  <1>3. LockHeld'
    BY KindsApart DEF IInv, LinkType, LockHeld, Look, Go, Free, Procs
  <1> QED BY <1>1, <1>2, <1>3, EmptyHanded

LEMMA RecordStep ==
  ASSUME IInv, NEW p \in Procs, Record(p) PROVE IInv'
  <1>1. /\ UNCHANGED link /\ pc[p] \notin Holding /\ pc'[p] \notin Holding
        /\ \A q \in Procs \ {p} : /\ pc'[q] = pc[q] /\ hand'[q] = hand[q]
                                  /\ refuse'[q] = refuse[q]
    BY DEF IInv, LinkType, Record, Go, Holding, link
  <1>2. LinkType'
    BY DEF IInv, LinkType, Record, Go, PCs, Holding, link
  <1>3. LockHeld'
    BY KindsApart DEF IInv, LinkType, LockHeld, Record, Go, Free, Procs
  <1> QED BY <1>1, <1>2, <1>3, EmptyHanded

LEMMA FinishStep ==
  ASSUME IInv, NEW p \in Procs, Finish(p) PROVE IInv'
  <1>1. /\ UNCHANGED link /\ pc[p] \notin Holding /\ pc'[p] \notin Holding
        /\ \A q \in Procs \ {p} : /\ pc'[q] = pc[q] /\ hand'[q] = hand[q]
                                  /\ refuse'[q] = refuse[q]
    BY DEF IInv, LinkType, Finish, Go, Holding, link
  <1>2. LinkType'
    BY DEF IInv, LinkType, Finish, Go, PCs, Holding, link
  <1>3. LockHeld'
    BY KindsApart DEF IInv, LinkType, LockHeld, Finish, Go, Free, Procs
  <1> QED BY <1>1, <1>2, <1>3, EmptyHanded

LEMMA UnlockStep ==
  ASSUME IInv, NEW p \in Procs, Unlock(p) PROVE IInv'
  <1>1. /\ UNCHANGED link /\ pc[p] \notin Holding /\ pc'[p] \notin Holding
        /\ \A q \in Procs \ {p} : /\ pc'[q] = pc[q] /\ hand'[q] = hand[q]
                                  /\ refuse'[q] = refuse[q]
    BY DEF IInv, LinkType, Unlock, LetGo, Go, Holding, link
  <1>2. LinkType'
    BY DEF IInv, LinkType, Unlock, LetGo, Go, PCs, Holding, link
  <1>3. LockHeld'
    BY KindsApart DEF IInv, LinkType, LockHeld, Unlock, LetGo, Go, Free, Procs
  <1> QED BY <1>1, <1>2, <1>3, EmptyHanded

LEMMA StartWipeStep ==
  ASSUME IInv, NEW p \in Procs, StartWipe(p) PROVE IInv'
  <1>1. /\ UNCHANGED link /\ pc[p] \notin Holding /\ pc'[p] \notin Holding
        /\ \A q \in Procs \ {p} : /\ pc'[q] = pc[q] /\ hand'[q] = hand[q]
                                  /\ refuse'[q] = refuse[q]
    BY DEF IInv, LinkType, StartWipe, Go, Holding, link
  <1>2. LinkType'
    BY DEF IInv, LinkType, StartWipe, Go, PCs, Holding, link
  <1>3. LockHeld'
    BY KindsApart DEF IInv, LinkType, LockHeld, StartWipe, Go, Free, Procs
  <1> QED BY <1>1, <1>2, <1>3, EmptyHanded

LEMMA HandBackNextStep ==
  ASSUME IInv, NEW p \in Procs, NEW s \in Sessions, HandBackNext(p, s) PROVE IInv'
  <1>1. /\ UNCHANGED link /\ pc[p] \notin Holding /\ pc'[p] \notin Holding
        /\ \A q \in Procs \ {p} : /\ pc'[q] = pc[q] /\ hand'[q] = hand[q]
                                  /\ refuse'[q] = refuse[q]
    BY DEF IInv, LinkType, HandBackNext, Go, Holding, link
  <1>2. LinkType'
    BY DEF IInv, LinkType, HandBackNext, Go, PCs, Holding, link
  <1>3. LockHeld'
    BY KindsApart DEF IInv, LinkType, LockHeld, HandBackNext, Go, Free, Procs
  <1> QED BY <1>1, <1>2, <1>3, EmptyHanded

LEMMA SpentBeforeStep ==
  ASSUME IInv, NEW p \in Procs, NEW t \in Tokens, SpentBefore(p, t) PROVE IInv'
  <1>1. /\ UNCHANGED link /\ pc[p] \notin Holding /\ pc'[p] \notin Holding
        /\ \A q \in Procs \ {p} : /\ pc'[q] = pc[q] /\ hand'[q] = hand[q]
                                  /\ refuse'[q] = refuse[q]
    BY DEF IInv, LinkType, SpentBefore, Settle, Go, Holding, link
  <1>2. LinkType'
    BY DEF IInv, LinkType, SpentBefore, Settle, Go, PCs, Holding, link
  <1>3. LockHeld'
    BY KindsApart DEF IInv, LinkType, LockHeld, SpentBefore, Settle, Go, Free, Procs
  <1> QED BY <1>1, <1>2, <1>3, EmptyHanded

LEMMA TooManyRepeatsStep ==
  ASSUME IInv, NEW p \in Procs, NEW t \in Tokens, TooManyRepeats(p, t) PROVE IInv'
  <1>1. /\ UNCHANGED link /\ pc[p] \notin Holding /\ pc'[p] \notin Holding
        /\ \A q \in Procs \ {p} : /\ pc'[q] = pc[q] /\ hand'[q] = hand[q]
                                  /\ refuse'[q] = refuse[q]
    BY DEF IInv, LinkType, TooManyRepeats, Settle, Go, Holding, link
  <1>2. LinkType'
    BY DEF IInv, LinkType, TooManyRepeats, Settle, Go, PCs, Holding, link
  <1>3. LockHeld'
    BY KindsApart DEF IInv, LinkType, LockHeld, TooManyRepeats, Settle, Go, Free, Procs
  <1> QED BY <1>1, <1>2, <1>3, EmptyHanded

LEMMA ExchangeStep ==
  ASSUME IInv, NEW p \in Procs, NEW t \in Tokens, Exchange(p, t) PROVE IInv'
  <1>1. /\ pc[p] = "take" /\ plaid[t] = "ready"
        /\ plaid' = [plaid EXCEPT ![t] = "live"] /\ hand' = [hand EXCEPT ![p] = t]
        /\ pc' = [pc EXCEPT ![p] = IF refuse[p] THEN "back" ELSE "hold"]
        /\ UNCHANGED <<row, queue, unheld, lost, lock, refuse>>
    BY DEF Exchange, Go
  <1>2. LinkType' BY <1>1 DEF IInv, LinkType, PCs, Holding
  <1>3. LockHeld' BY <1>1 DEF IInv, LinkType, LockHeld, Free
  <1>4. ASSUME NEW q \in Procs PROVE HandFact(q)'
    <2>1. CASE q = p BY <2>1, <1>1 DEF IInv, LinkType, HandFact, Holding
    <2>2. CASE q # p
      <3>1. pc[q] \in Free BY <2>2, <1>1, OneHolder DEF IInv, Free
      <3> QED BY <2>2, <3>1, <1>1 DEF IInv, LinkType, HandFact, Holding, Free
    <2> QED BY <2>1, <2>2
  <1>5. ASSUME NEW u \in Tokens PROVE HasHandle(u)'
    <2>1. CASE u = t BY <2>1, <1>1 DEF IInv, LinkType, HasHandle
    <2>2. CASE u # t
      <3>1. HasHandle(u) BY DEF IInv
      <3>2. ASSUME NEW q \in Procs, hand[q] = u, pc[q] \in {"hold", "keep", "back"}
            PROVE hand'[q] = u /\ pc'[q] \in {"hold", "keep", "back"}
        BY <3>2, <1>1 DEF IInv, LinkType
      <3> QED BY <2>2, <3>1, <3>2, <1>1 DEF IInv, LinkType, HasHandle
    <2> QED BY <2>1, <2>2
  <1> QED BY <1>2, <1>3, <1>4, <1>5 DEF IInv

LEMMA ExchangeUnansweredStep ==
  ASSUME IInv, NEW p \in Procs, NEW t \in Tokens, ExchangeUnanswered(p, t)
  PROVE IInv'
  <1>1. /\ pc[p] = "take" /\ UNCHANGED <<row, queue, unheld, lock, pc, refuse, hand>>
        /\ \/ UNCHANGED <<plaid, lost>>
           \/ /\ plaid[t] = "ready" /\ plaid' = [plaid EXCEPT ![t] = "live"]
              /\ lost' = lost \cup {t}
    BY DEF ExchangeUnanswered
  <1>2. LinkType' BY <1>1 DEF IInv, LinkType
  <1>3. LockHeld' BY <1>1 DEF IInv, LockHeld
  <1>4. ASSUME NEW q \in Procs PROVE HandFact(q)'
    <2>1. pc[q] # "drop" BY <1>1, OneHolder DEF IInv, Free
    <2> QED BY <2>1, <1>1 DEF IInv, HandFact, Holding
  <1>5. \A u \in Tokens : HasHandle(u)' BY <1>1 DEF IInv, LinkType, HasHandle
  <1> QED BY <1>2, <1>3, <1>4, <1>5 DEF IInv

(* The steps of the finisher that has an Item in hand; no other has one.   *)

LEMMA HoldStep ==
  ASSUME IInv, NEW p \in Procs, Hold(p) PROVE IInv'
  <1>1. /\ pc[p] = "hold" /\ pc' = [pc EXCEPT ![p] = "keep"]
        /\ UNCHANGED <<plaid, row, lost, lock, refuse, hand>>
        /\ \/ queue' = [queue EXCEPT ![hand[p]] = "hold"] /\ UNCHANGED unheld
           \/ UNCHANGED queue /\ unheld' = unheld \cup {hand[p]}
    BY DEF Hold, Go
  <1>a. hand[p] \in Tokens BY <1>1 DEF IInv, HandFact, Holding
  <1>b. HandFact(p) BY DEF IInv
  <1>2. LinkType' BY <1>1, <1>a DEF IInv, LinkType, PCs, Holding
  <1>3. LockHeld' BY <1>1 DEF IInv, LinkType, LockHeld, Free
  <1>4. ASSUME NEW q \in Procs PROVE HandFact(q)'
    <2>1. CASE q = p BY <2>1, <1>1, <1>a, <1>b DEF IInv, LinkType, HandFact, Holding
    <2>2. CASE q # p
      <3>1. pc[q] \in Free BY <2>2, <1>1, OneHolder DEF IInv, Free
      <3> QED BY <2>2, <3>1, <1>1 DEF IInv, LinkType, HandFact, Holding, Free
    <2> QED BY <2>1, <2>2
  <1>5. ASSUME NEW u \in Tokens PROVE HasHandle(u)'
    <2>1. CASE u = hand[p]
      BY <2>1, <1>1, <1>a, <1>b DEF IInv, LinkType, HasHandle, HandFact
    <2>2. CASE u # hand[p]
      <3>1. HasHandle(u) BY DEF IInv
      <3>2. ASSUME NEW q \in Procs, hand[q] = u, pc[q] \in {"hold", "keep", "back"}
            PROVE FALSE
        BY <3>2, <2>2, <1>1, OneHolder DEF IInv, Free
      <3> QED BY <2>2, <3>1, <3>2, <1>1, <1>a DEF IInv, LinkType, HasHandle
    <2> QED BY <2>1, <2>2
  <1> QED BY <1>2, <1>3, <1>4, <1>5 DEF IInv

LEMMA KeepStep ==
  ASSUME IInv, NEW p \in Procs, Keep(p) PROVE IInv'
  <1>1. /\ pc[p] = "keep" /\ pc' = [pc EXCEPT ![p] = "drop"]
        /\ row' = row \cup {hand[p]}
        /\ UNCHANGED <<plaid, queue, unheld, lost, lock, refuse, hand>>
    BY DEF Keep, Go
  <1>a. hand[p] \in Tokens BY <1>1 DEF IInv, HandFact, Holding
  <1>b. HandFact(p) BY DEF IInv
  <1>2. LinkType' BY <1>1, <1>a DEF IInv, LinkType, PCs, Holding
  <1>3. LockHeld' BY <1>1 DEF IInv, LinkType, LockHeld, Free
  <1>4. ASSUME NEW q \in Procs PROVE HandFact(q)'
    <2>1. CASE q = p BY <2>1, <1>1, <1>a, <1>b DEF IInv, LinkType, HandFact, Holding
    <2>2. CASE q # p
      <3>1. pc[q] \in Free BY <2>2, <1>1, OneHolder DEF IInv, Free
      <3> QED BY <2>2, <3>1, <1>1 DEF IInv, LinkType, HandFact, Holding, Free
    <2> QED BY <2>1, <2>2
  <1>5. ASSUME NEW u \in Tokens PROVE HasHandle(u)'
    <2>1. CASE u = hand[p]
      BY <2>1, <1>1, <1>a, <1>b DEF IInv, LinkType, HasHandle, HandFact
    <2>2. CASE u # hand[p]
      <3>1. HasHandle(u) BY DEF IInv
      <3>2. ASSUME NEW q \in Procs, hand[q] = u, pc[q] \in {"hold", "keep", "back"}
            PROVE FALSE
        BY <3>2, <2>2, <1>1, OneHolder DEF IInv, Free
      <3> QED BY <2>2, <3>1, <3>2, <1>1, <1>a DEF IInv, LinkType, HasHandle
    <2> QED BY <2>1, <2>2
  <1> QED BY <1>2, <1>3, <1>4, <1>5 DEF IInv

LEMMA RefusedStep ==
  ASSUME IInv, NEW p \in Procs, Refused(p) PROVE IInv'
  <1>1. /\ pc[p] = "keep" /\ pc' = [pc EXCEPT ![p] = "back"]
        /\ UNCHANGED <<plaid, row, queue, unheld, lost, lock, refuse, hand>>
    BY DEF Refused, Go, link
  <1>a. hand[p] \in Tokens BY <1>1 DEF IInv, HandFact, Holding
  <1>b. HandFact(p) BY DEF IInv
  <1>2. LinkType' BY <1>1, <1>a DEF IInv, LinkType, PCs, Holding
  <1>3. LockHeld' BY <1>1 DEF IInv, LinkType, LockHeld, Free
  <1>4. ASSUME NEW q \in Procs PROVE HandFact(q)'
    <2>1. CASE q = p BY <2>1, <1>1, <1>a, <1>b DEF IInv, LinkType, HandFact, Holding
    <2>2. CASE q # p
      <3>1. pc[q] \in Free BY <2>2, <1>1, OneHolder DEF IInv, Free
      <3> QED BY <2>2, <3>1, <1>1 DEF IInv, LinkType, HandFact, Holding, Free
    <2> QED BY <2>1, <2>2
  <1>5. ASSUME NEW u \in Tokens PROVE HasHandle(u)'
    <2>1. CASE u = hand[p]
      BY <2>1, <1>1, <1>a, <1>b DEF IInv, LinkType, HasHandle, HandFact
    <2>2. CASE u # hand[p]
      <3>1. HasHandle(u) BY DEF IInv
      <3>2. ASSUME NEW q \in Procs, hand[q] = u, pc[q] \in {"hold", "keep", "back"}
            PROVE FALSE
        BY <3>2, <2>2, <1>1, OneHolder DEF IInv, Free
      <3> QED BY <2>2, <3>1, <3>2, <1>1, <1>a DEF IInv, LinkType, HasHandle
    <2> QED BY <2>1, <2>2
  <1> QED BY <1>2, <1>3, <1>4, <1>5 DEF IInv

LEMMA RemoveStep ==
  ASSUME IInv, NEW p \in Procs, Remove(p) PROVE IInv'
  <1>1. /\ pc[p] = "back"
        /\ pc' = [pc EXCEPT ![p] = IF refuse[p] THEN "record" ELSE "drop"]
        /\ plaid' = [plaid EXCEPT ![hand[p]] = "gone"]
        /\ UNCHANGED <<row, queue, unheld, lost, lock, refuse, hand>>
    BY DEF Remove, Go
  <1>a. hand[p] \in Tokens BY <1>1 DEF IInv, HandFact, Holding
  <1>b. HandFact(p) BY DEF IInv
  <1>2. LinkType' BY <1>1, <1>a DEF IInv, LinkType, PCs, Holding
  <1>3. LockHeld' BY <1>1 DEF IInv, LinkType, LockHeld, Free
  <1>4. ASSUME NEW q \in Procs PROVE HandFact(q)'
    <2>1. CASE q = p BY <2>1, <1>1, <1>a, <1>b DEF IInv, LinkType, HandFact, Holding
    <2>2. CASE q # p
      <3>1. pc[q] \in Free BY <2>2, <1>1, OneHolder DEF IInv, Free
      <3> QED BY <2>2, <3>1, <1>1 DEF IInv, LinkType, HandFact, Holding, Free
    <2> QED BY <2>1, <2>2
  <1>5. ASSUME NEW u \in Tokens PROVE HasHandle(u)'
    <2>1. CASE u = hand[p]
      BY <2>1, <1>1, <1>a, <1>b DEF IInv, LinkType, HasHandle, HandFact
    <2>2. CASE u # hand[p]
      <3>1. HasHandle(u) BY DEF IInv
      <3>2. ASSUME NEW q \in Procs, hand[q] = u, pc[q] \in {"hold", "keep", "back"}
            PROVE FALSE
        BY <3>2, <2>2, <1>1, OneHolder DEF IInv, Free
      <3> QED BY <2>2, <3>1, <3>2, <1>1, <1>a DEF IInv, LinkType, HasHandle
    <2> QED BY <2>1, <2>2
  <1> QED BY <1>2, <1>3, <1>4, <1>5 DEF IInv

LEMMA RemoveFailsStep ==
  ASSUME IInv, NEW p \in Procs, RemoveFails(p) PROVE IInv'
  <1>1. /\ pc[p] = "back" /\ pc' = [pc EXCEPT ![p] = "record"]
        /\ queue' = [queue EXCEPT ![hand[p]] = "refused"]
        /\ UNCHANGED <<plaid, row, unheld, lost, lock, refuse, hand>>
    BY DEF RemoveFails, Go
  <1>a. hand[p] \in Tokens BY <1>1 DEF IInv, HandFact, Holding
  <1>b. HandFact(p) BY DEF IInv
  <1>2. LinkType' BY <1>1, <1>a DEF IInv, LinkType, PCs, Holding
  <1>3. LockHeld' BY <1>1 DEF IInv, LinkType, LockHeld, Free
  <1>4. ASSUME NEW q \in Procs PROVE HandFact(q)'
    <2>1. CASE q = p BY <2>1, <1>1, <1>a, <1>b DEF IInv, LinkType, HandFact, Holding
    <2>2. CASE q # p
      <3>1. pc[q] \in Free BY <2>2, <1>1, OneHolder DEF IInv, Free
      <3> QED BY <2>2, <3>1, <1>1 DEF IInv, LinkType, HandFact, Holding, Free
    <2> QED BY <2>1, <2>2
  <1>5. ASSUME NEW u \in Tokens PROVE HasHandle(u)'
    <2>1. CASE u = hand[p]
      BY <2>1, <1>1, <1>a, <1>b DEF IInv, LinkType, HasHandle, HandFact
    <2>2. CASE u # hand[p]
      <3>1. HasHandle(u) BY DEF IInv
      <3>2. ASSUME NEW q \in Procs, hand[q] = u, pc[q] \in {"hold", "keep", "back"}
            PROVE FALSE
        BY <3>2, <2>2, <1>1, OneHolder DEF IInv, Free
      <3> QED BY <2>2, <3>1, <3>2, <1>1, <1>a DEF IInv, LinkType, HasHandle
    <2> QED BY <2>1, <2>2
  <1> QED BY <1>2, <1>3, <1>4, <1>5 DEF IInv

LEMMA QueueFailsStep ==
  ASSUME IInv, NEW p \in Procs, QueueFails(p) PROVE IInv'
  <1>1. /\ pc[p] = "back" /\ pc' = [pc EXCEPT ![p] = "record"]
        /\ lost' = IF queue[hand[p]] = "no" THEN lost \cup {hand[p]} ELSE lost
        /\ UNCHANGED <<plaid, row, queue, unheld, lock, refuse, hand>>
    BY DEF QueueFails, Go
  <1>a. hand[p] \in Tokens BY <1>1 DEF IInv, HandFact, Holding
  <1>b. HandFact(p) BY DEF IInv
  <1>2. LinkType' BY <1>1, <1>a DEF IInv, LinkType, PCs, Holding
  <1>3. LockHeld' BY <1>1 DEF IInv, LinkType, LockHeld, Free
  <1>4. ASSUME NEW q \in Procs PROVE HandFact(q)'
    <2>1. CASE q = p BY <2>1, <1>1, <1>a, <1>b DEF IInv, LinkType, HandFact, Holding
    <2>2. CASE q # p
      <3>1. pc[q] \in Free BY <2>2, <1>1, OneHolder DEF IInv, Free
      <3> QED BY <2>2, <3>1, <1>1 DEF IInv, LinkType, HandFact, Holding, Free
    <2> QED BY <2>1, <2>2
  <1>5. ASSUME NEW u \in Tokens PROVE HasHandle(u)'
    <2>1. CASE u = hand[p]
      BY <2>1, <1>1, <1>a, <1>b DEF IInv, LinkType, HasHandle, HandFact
    <2>2. CASE u # hand[p]
      <3>1. HasHandle(u) BY DEF IInv
      <3>2. ASSUME NEW q \in Procs, hand[q] = u, pc[q] \in {"hold", "keep", "back"}
            PROVE FALSE
        BY <3>2, <2>2, <1>1, OneHolder DEF IInv, Free
      <3> QED BY <2>2, <3>1, <3>2, <1>1, <1>a DEF IInv, LinkType, HasHandle
    <2> QED BY <2>1, <2>2
  <1> QED BY <1>2, <1>3, <1>4, <1>5 DEF IInv

LEMMA DropHoldStep ==
  ASSUME IInv, NEW p \in Procs, DropHold(p) PROVE IInv'
  <1>1. /\ pc[p] = "drop" /\ pc' = [pc EXCEPT ![p] = "record"]
        /\ UNCHANGED <<plaid, row, unheld, lost, lock, refuse, hand>>
        /\ queue' = queue \/ queue' = [queue EXCEPT ![hand[p]] = "no"]
    BY DEF DropHold, Go
  <1>a. hand[p] \in Tokens BY <1>1 DEF IInv, HandFact, Holding
  <1>b. HandFact(p) BY DEF IInv
  <1>2. LinkType' BY <1>1, <1>a DEF IInv, LinkType, PCs, Holding
  <1>3. LockHeld' BY <1>1 DEF IInv, LinkType, LockHeld, Free
  <1>4. ASSUME NEW q \in Procs PROVE HandFact(q)'
    <2>1. CASE q = p BY <2>1, <1>1, <1>a, <1>b DEF IInv, LinkType, HandFact, Holding
    <2>2. CASE q # p
      <3>1. pc[q] \in Free BY <2>2, <1>1, OneHolder DEF IInv, Free
      <3> QED BY <2>2, <3>1, <1>1 DEF IInv, LinkType, HandFact, Holding, Free
    <2> QED BY <2>1, <2>2
  <1>5. ASSUME NEW u \in Tokens PROVE HasHandle(u)'
    <2>1. CASE u = hand[p]
      BY <2>1, <1>1, <1>a, <1>b DEF IInv, LinkType, HasHandle, HandFact
    <2>2. CASE u # hand[p]
      <3>1. HasHandle(u) BY DEF IInv
      <3>2. ASSUME NEW q \in Procs, hand[q] = u, pc[q] \in {"hold", "keep", "back"}
            PROVE FALSE
        BY <3>2, <2>2, <1>1, OneHolder DEF IInv, Free
      <3> QED BY <2>2, <3>1, <3>2, <1>1, <1>a DEF IInv, LinkType, HasHandle
    <2> QED BY <2>1, <2>2
  <1> QED BY <1>2, <1>3, <1>4, <1>5 DEF IInv

(* The end of an erasure or a reset: what the household held is released   *)
(* or its removal queued, then the rows go.                                *)
LEMMA WipeStep ==
  ASSUME IInv, NEW p \in Procs, Reset(p) \/ Erase(p) PROVE IInv'
  <1>1. /\ pc[p] = "next" /\ pc' = [pc EXCEPT ![p] = "idle"]
        /\ row' = {} /\ lock' = Nobody /\ refuse' = [refuse EXCEPT ![p] = FALSE]
        /\ UNCHANGED <<unheld, lost, hand>>
        /\ \/ /\ plaid' = [t \in Tokens |-> IF t \in row THEN "gone" ELSE plaid[t]]
              /\ UNCHANGED queue
           \/ \E t \in row :
                /\ plaid' = [u \in Tokens |-> IF u \in row \ {t} THEN "gone"
                                              ELSE plaid[u]]
                /\ queue' = [queue EXCEPT ![t] = "refused"]
    BY DEF Reset, Erase, ReleaseAndWipe, LetGo, Go
  <1>2. LinkType' BY <1>1 DEF IInv, LinkType, PCs, Holding
  <1>3. LockHeld'
    BY <1>1, KindsApart DEF IInv, LinkType, LockHeld, Free, Procs
  <1>a. \A q \in Procs \ {p} : pc[q] \in Free /\ pc'[q] = pc[q]
    BY <1>1, OneHolder DEF IInv, LinkType, Free
  <1>4. \A q \in Procs : HandFact(q)'
    BY <1>1, <1>a DEF IInv, LinkType, HandFact, Holding, Free
  <1>5. ASSUME NEW u \in Tokens PROVE HasHandle(u)'
    <2>1. HasHandle(u) BY DEF IInv
    <2>2. \A q \in Procs : pc[q] \notin {"hold", "keep", "back"}
      BY <1>1, <1>a DEF Free
    <2>3. u \in row \/ u \in lost \/ queue[u] # "no" \/ plaid[u] # "live"
      BY <2>1, <2>2 DEF HasHandle
    <2> QED BY <2>3, <1>1 DEF IInv, LinkType, HasHandle
  <1> QED BY <1>2, <1>3, <1>4, <1>5 DEF IInv

(* The nightly retry drops what is held by the household and removes the   *)
(* rest.                                                                   *)
LEMMA RetryStep ==
  ASSUME IInv, NEW t \in Tokens, Retry(t) PROVE IInv'
  <1>1. /\ queue[t] # "no" /\ queue' = [queue EXCEPT ![t] = "no"]
        /\ queue[t] = "hold" => \A p \in Procs : hand[p] # t
        /\ plaid' = IF t \in row THEN plaid ELSE [plaid EXCEPT ![t] = "gone"]
        /\ UNCHANGED <<row, unheld, lost, lock, pc, refuse, hand>>
    BY DEF Retry, frame
  <1>2. LinkType' BY <1>1 DEF IInv, LinkType
  <1>3. LockHeld' BY <1>1 DEF IInv, LockHeld
  <1>4. ASSUME NEW q \in Procs PROVE HandFact(q)'
    <2>1. HandFact(q) BY DEF IInv
    <2>2. CASE pc[q] \notin Holding BY <2>2, <1>1 DEF HandFact, Holding
    <2>3. CASE pc[q] \in Holding
      <3>1. hand[q] \in Tokens BY <2>1, <2>3 DEF HandFact
      <3>2. queue[hand[q]] = "hold" => queue'[hand[q]] = "hold"
        BY <3>1, <1>1 DEF IInv, LinkType
      <3>3. plaid[hand[q]] # "live" => plaid'[hand[q]] # "live"
        BY <3>1, <1>1 DEF IInv, LinkType
      <3> QED BY <2>1, <3>1, <3>2, <3>3, <1>1 DEF HandFact
    <2> QED BY <2>2, <2>3
  <1>5. \A u \in Tokens : HasHandle(u)' BY <1>1 DEF IInv, LinkType, HasHandle
  <1> QED BY <1>2, <1>3, <1>4, <1>5 DEF IInv

(* Processes die: what only they held is counted lost, what they had       *)
(* queued stays queued.                                                    *)
LEMMA DiesStep ==
  ASSUME IInv, NEW P \in SUBSET Procs, NEW d, Dies(P, d) PROVE IInv'
  <1>1. /\ lost' = lost \cup UNION {OnlyInHand(p) : p \in P}
        /\ lock' = IF lock \in P THEN Nobody ELSE lock
        /\ pc' = [p \in Procs |-> IF p \in P THEN "idle" ELSE pc[p]]
        /\ refuse' = [p \in Procs |-> p \notin P /\ refuse[p]]
        /\ hand' = [p \in Procs |-> IF p \in P THEN Nobody ELSE hand[p]]
        /\ UNCHANGED <<plaid, row, queue, unheld>>
    BY DEF Dies
  <1>2. LinkType' BY <1>1 DEF IInv, LinkType, PCs
  <1>3. LockHeld'
    BY <1>1, KindsApart DEF IInv, LinkType, LockHeld, Free, Procs
  <1>4. \A q \in Procs : HandFact(q)'
    BY <1>1 DEF IInv, LinkType, HandFact, Holding
  <1>5. ASSUME NEW u \in Tokens PROVE HasHandle(u)'
    <2>1. HasHandle(u) BY DEF IInv
    <2>2. ASSUME NEW q \in Procs, hand[q] = u, pc[q] \in {"hold", "keep", "back"}
          PROVE HasHandle(u)'
      <3>1. CASE q \notin P
        <4>1. hand'[q] = u /\ pc'[q] \in {"hold", "keep", "back"}
          BY <3>1, <2>2, <1>1
        <4> QED BY <4>1 DEF HasHandle
      <3>2. CASE q \in P
        <4>1. HandFact(q) BY DEF IInv
        <4>2. u \in OnlyInHand(q) \/ queue[u] # "no"
          BY <4>1, <2>2 DEF HandFact, OnlyInHand
        <4>3. u \in OnlyInHand(q) => u \in lost'
          BY <3>2, <1>1
        <4> QED BY <4>2, <4>3, <1>1 DEF HasHandle
      <3> QED BY <3>1, <3>2
    <2>3. ASSUME u \in row \/ u \in lost \/ queue[u] # "no" \/ plaid[u] # "live"
          PROVE HasHandle(u)'
      BY <2>3, <1>1 DEF HasHandle
    <2> QED BY <2>1, <2>2, <2>3 DEF HasHandle
  <1> QED BY <1>2, <1>3, <1>4, <1>5 DEF IInv

(* Every step of Next.                                                     *)
LEMMA NextIInv == IInv /\ [Next]_vars => IInv'
  <1> SUFFICES ASSUME IInv, [Next]_vars PROVE IInv' OBVIOUS
  <1>1. CASE \E t \in Tokens : Report(t) \/ Retry(t)
    BY <1>1, ReportStep, RetryStep
  <1>2. CASE Turn \/ \E s \in Sessions : LeaveWindow(s) \/ SetAside(s)
                       \/ Forget(s) \/ Abandon(s) \/ Expire(s)
    BY <1>2, OutsideStep
  <1>3. CASE \/ \E p \in Polls, s \in Sessions : StartPoll(p, s)
             \/ \E p \in Jobs, s \in Sessions : StartJob(p, s)
    BY <1>3, StartPollStep, StartJobStep DEF Procs
  <1>4. CASE \E p \in Wipers : StartWipe(p) \/ Wipe(p)
    BY <1>4, StartWipeStep, HandBackNextStep, WipeStep DEF Procs, Wipe
  <1>5. CASE \E p \in Procs : Step(p)
    <2>1. PICK p \in Procs : Step(p) BY <1>5
    <2>2. CASE TryLock(p) \/ Refresh(p) \/ LookEmpty(p) \/ LookFails(p) \/ Look(p)
      BY <2>2, TryLockStep, RefreshStep, LookEmptyStep, LookFailsStep, LookStep
    <2>3. CASE \E t \in Tokens : Exchange(p, t) \/ ExchangeUnanswered(p, t)
                                  \/ SpentBefore(p, t) \/ TooManyRepeats(p, t)
      BY <2>3, ExchangeStep, ExchangeUnansweredStep, SpentBeforeStep,
         TooManyRepeatsStep
    <2>4. CASE Hold(p) \/ Keep(p) \/ Refused(p) \/ Remove(p) \/ RemoveFails(p)
               \/ QueueFails(p) \/ DropHold(p)
      BY <2>4, HoldStep, KeepStep, RefusedStep, RemoveStep, RemoveFailsStep,
         QueueFailsStep, DropHoldStep
    <2>5. CASE Record(p) \/ Finish(p) \/ Unlock(p)
      BY <2>5, RecordStep, FinishStep, UnlockStep
    <2> QED BY <2>1, <2>2, <2>3, <2>4, <2>5 DEF Step
  <1>6. CASE \E p \in Procs : WorkerDies(p)
    BY <1>6, DiesStep DEF WorkerDies
  <1>7. CASE WebDies
    <2>1. Polls \in SUBSET Procs BY DEF Procs
    <2> QED BY <1>7, <2>1, DiesStep DEF WebDies
  <1>8. CASE UNCHANGED vars
    BY <1>8, Aside DEF vars
  <1> QED BY <1>1, <1>2, <1>3, <1>4, <1>5, <1>6, <1>7, <1>8 DEF Next

(* An Item that bills at Plaid can be removed, whoever finishes its        *)
(* session, whatever fails and whoever is killed: only the windows of      *)
(* OnlyInHand and a failure on top of a failure lose one.                  *)
THEOREM HandleKept == Spec => []EveryItemHasHandle
  <1>1. IInv => EveryItemHasHandle
    BY DEF IInv, HasHandle, EveryItemHasHandle
  <1> QED BY <1>1, InitIInv, NextIInv, PTL DEF Spec

------------------------------------------------------------------------------
(* Types.  A record, a dict and a frame keep theirs, one group of          *)
(* variables at a time.                                                    *)

Recs == [on : BOOLEAN, done : BOOLEAN, refuse : BOOLEAN, aside : BOOLEAN,
         answer : {NoAnswer, "add", "add_failed", "exited"}]
Views == [done : BOOLEAN, refuse : BOOLEAN, exch : [Tokens -> Outcomes]]

ItemsOK == row \subseteq Tokens /\ unheld \subseteq Tokens /\ lost \subseteq Tokens
RecOK == rec \in [Sessions -> Recs]
OutcomesOK == exch \in [Tokens -> Outcomes] /\ got \in [Procs -> Outcomes]
OutsideOK ==
  /\ left \subseteq Sessions /\ mem \subseteq Sessions
  /\ reset \in [Sessions -> {"no", "marked", "unmarked"}]
  /\ standing \in {"ok", "blocked", "gone"}
ViewOK == view \in [Dicts -> Views]
PlacesOK ==
  /\ at \in [Procs -> Sessions]
  /\ todo \in [Procs -> SUBSET Tokens]
  /\ later \in [Procs -> SUBSET Sessions]
RetryOK == retry \in [Procs -> BOOLEAN]
CountsOK == crashes \in 0..MaxCrashes /\ faults \in 0..MaxFaults

Types == /\ ItemsOK /\ RecOK /\ OutcomesOK /\ OutsideOK
         /\ ViewOK /\ PlacesOK /\ RetryOK /\ CountsOK

(* The steps that are a finisher's own.                                    *)
Acts(p) ==
  \/ Step(p)
  \/ p \in Wipers /\ (StartWipe(p) \/ Wipe(p))
  \/ \E s \in Sessions : \/ p \in Polls /\ StartPoll(p, s)
                         \/ p \in Jobs /\ StartJob(p, s)

(* All the steps there are.                                                *)
LEMMA Steps ==
  ASSUME Next
  PROVE  \/ \E t \in Tokens : Report(t) \/ Retry(t)
         \/ \E s \in Sessions : LeaveWindow(s) \/ SetAside(s) \/ Forget(s)
                                \/ Abandon(s) \/ Expire(s)
         \/ Turn
         \/ \E p \in Procs : Acts(p)
         \/ \E P \in SUBSET Procs, d \in SUBSET Dicts : Dies(P, d)
  <1>1. Polls \in SUBSET Procs /\ Sessions \in SUBSET Dicts
    BY DEF Procs, Dicts
  <1>2. \A p \in Procs : p \notin Polls => {p} \in SUBSET Procs /\ {p} \in SUBSET Dicts
    BY DEF Procs, Dicts
  <1>3. WebDies => \E P \in SUBSET Procs, d \in SUBSET Dicts : Dies(P, d)
    BY <1>1 DEF WebDies
  <1>4. ASSUME NEW p \in Procs, WorkerDies(p)
        PROVE  \E P \in SUBSET Procs, d \in SUBSET Dicts : Dies(P, d)
    BY <1>2, <1>4 DEF WorkerDies
  <1>5. Polls \subseteq Procs /\ Jobs \subseteq Procs /\ Wipers \subseteq Procs
    BY DEF Procs
  <1> QED BY <1>3, <1>4, <1>5 DEF Next, Acts

LEMMA RecTypes ==
  ASSUME RecOK, [Next]_vars
  PROVE  RecOK'
  <1>1. Absent \in Recs /\ Fresh \in Recs
    BY DEF Absent, Fresh, Recs
  <1>2. /\ [Fresh EXCEPT !.aside = TRUE] \in Recs
        /\ \A a \in {"add", "add_failed", "exited"} :
             [Fresh EXCEPT !.done = TRUE, !.answer = a] \in Recs
    BY <1>1 DEF Recs
  <1>3. \A s \in Sessions : [rec[s] EXCEPT !.refuse = TRUE] \in Recs
    BY DEF RecOK, Recs
  <1>4. ASSUME NEW p, NEW a \in {"add", "add_failed", "exited"}, MarkDone(p, a)
        PROVE  RecOK'
    BY <1>2, <1>4 DEF MarkDone, RecOK
  <1>5. ASSUME NEW s \in Sessions,
               SetAside(s) \/ Forget(s) \/ Abandon(s) \/ Expire(s) \/ LeaveWindow(s)
        PROVE  RecOK'
    BY <1>1, <1>2, <1>5 DEF SetAside, Forget, Abandon, Expire, LeaveWindow, record, RecOK
  <1>6. ASSUME NEW p \in Procs, Acts(p)
        PROVE  RecOK'
    <2>1. CASE LookEmpty(p) \/ Finish(p)
      BY <1>4, <2>1 DEF LookEmpty, Finish, RecOK
    <2>2. CASE Reset(p) \/ Erase(p)
      BY <1>1, <1>3, <2>2 DEF Reset, Erase, RecOK
    <2>3. CASE \/ TryLock(p) \/ Refresh(p) \/ LookFails(p) \/ Look(p)
               \/ \E t \in Tokens : Exchange(p, t) \/ ExchangeUnanswered(p, t)
                                    \/ SpentBefore(p, t) \/ TooManyRepeats(p, t)
               \/ Hold(p) \/ Keep(p) \/ Refused(p) \/ Remove(p) \/ RemoveFails(p)
               \/ QueueFails(p) \/ DropHold(p) \/ Record(p) \/ Unlock(p)
               \/ StartWipe(p)
               \/ \E s \in Sessions : StartPoll(p, s) \/ StartJob(p, s)
                                      \/ HandBackNext(p, s)
      <3>1. UNCHANGED rec
        BY <2>3 DEF TryLock, Refresh, LookFails, Look, Exchange, ExchangeUnanswered,
             SpentBefore, TooManyRepeats, Settle, Hold, Keep, Refused, Remove,
             RemoveFails, QueueFails, DropHold, Record, Unlock, StartWipe, StartPoll,
             StartJob, HandBackNext, record
      <3> QED BY <3>1 DEF RecOK
    <2> QED BY <1>6, <2>1, <2>2, <2>3 DEF Acts, Step, Wipe
  <1>7. CASE \/ \E t \in Tokens : Report(t) \/ Retry(t)
             \/ Turn \/ UNCHANGED vars
             \/ \E P \in SUBSET Procs, d \in SUBSET Dicts : Dies(P, d)
    BY <1>7 DEF Report, Retry, Turn, Dies, vars, record, RecOK
  <1> QED BY <1>5, <1>6, <1>7, Steps

LEMMA ItemTypes ==
  ASSUME IInv, ItemsOK, [Next]_vars
  PROVE  ItemsOK'
  <1> USE DEF ItemsOK
  <1>1. ASSUME NEW p \in Procs, Acts(p)
        PROVE  ItemsOK'
    <2>1. \A q \in Procs : pc[q] \in Holding => hand[q] \in Tokens
      BY DEF IInv, HandFact
    <2>2. CASE Hold(p) \/ Keep(p) \/ QueueFails(p)
      BY <2>1, <2>2 DEF Hold, Keep, QueueFails, Holding
    <2>3. CASE Reset(p) \/ Erase(p)
      BY <2>3 DEF Reset, Erase, ReleaseAndWipe
    <2>4. CASE \/ TryLock(p) \/ Refresh(p) \/ LookFails(p) \/ Look(p) \/ LookEmpty(p)
               \/ \E t \in Tokens : Exchange(p, t) \/ ExchangeUnanswered(p, t)
                                    \/ SpentBefore(p, t) \/ TooManyRepeats(p, t)
               \/ Refused(p) \/ Remove(p) \/ RemoveFails(p) \/ Finish(p)
               \/ DropHold(p) \/ Record(p) \/ Unlock(p)
               \/ StartWipe(p)
               \/ \E s \in Sessions : StartPoll(p, s) \/ StartJob(p, s)
                                      \/ HandBackNext(p, s)
      BY <2>4 DEF TryLock, Refresh, LookFails, Look, LookEmpty, Exchange,
           ExchangeUnanswered, SpentBefore, TooManyRepeats, Settle, Refused, Remove,
           RemoveFails, Finish, DropHold, Record, Unlock, StartWipe, StartPoll,
           StartJob, HandBackNext, link
    <2> QED BY <1>1, <2>2, <2>3, <2>4 DEF Acts, Step, Wipe
  <1>2. CASE \E P \in SUBSET Procs, d \in SUBSET Dicts : Dies(P, d)
    BY <1>2 DEF Dies, OnlyInHand
  <1>3. CASE \/ \E t \in Tokens : Report(t) \/ Retry(t)
             \/ \E s \in Sessions : LeaveWindow(s) \/ SetAside(s) \/ Forget(s)
                                    \/ Abandon(s) \/ Expire(s)
             \/ Turn \/ UNCHANGED vars
    BY <1>3 DEF Report, Retry, LeaveWindow, SetAside, Forget, Abandon, Expire, Turn,
         vars, link
  <1> QED BY <1>1, <1>2, <1>3, Steps

LEMMA OutcomeTypes ==
  ASSUME IInv, OutcomesOK, [Next]_vars
  PROVE  OutcomesOK'
  <1> USE DEF OutcomesOK, Outcomes
  <1>1. ASSUME NEW p \in Procs, Acts(p)
        PROVE  OutcomesOK'
    <2>1. CASE \E t \in Tokens : SpentBefore(p, t) \/ TooManyRepeats(p, t)
      BY <2>1 DEF SpentBefore, TooManyRepeats, Settle, record
    <2>2. CASE Keep(p) \/ Remove(p) \/ RemoveFails(p) \/ QueueFails(p)
      BY <2>2 DEF Keep, Remove, RemoveFails, QueueFails, record
    <2>3. CASE Record(p)
      BY <2>3 DEF Record
    <2>4. CASE TryLock(p) \/ Unlock(p) \/ Reset(p) \/ Erase(p)
      BY <2>4 DEF TryLock, Unlock, Reset, Erase, ReleaseAndWipe, LetGo, record
    <2>5. CASE \/ Refresh(p) \/ LookFails(p) \/ Look(p) \/ LookEmpty(p)
               \/ \E t \in Tokens : Exchange(p, t) \/ ExchangeUnanswered(p, t)
               \/ Hold(p) \/ Refused(p) \/ Finish(p) \/ DropHold(p)
               \/ StartWipe(p)
               \/ \E s \in Sessions : StartPoll(p, s) \/ StartJob(p, s)
                                      \/ HandBackNext(p, s)
      BY <2>5 DEF Refresh, LookFails, Look, LookEmpty, Exchange, ExchangeUnanswered,
           Hold, Refused, Finish, DropHold, StartWipe, StartPoll, StartJob,
           HandBackNext, record
    <2> QED BY <1>1, <2>1, <2>2, <2>3, <2>4, <2>5 DEF Acts, Step, Wipe
  <1>2. CASE \E P \in SUBSET Procs, d \in SUBSET Dicts : Dies(P, d)
    BY <1>2 DEF Dies, record
  <1>3. CASE \/ \E t \in Tokens : Report(t) \/ Retry(t)
             \/ \E s \in Sessions : LeaveWindow(s) \/ SetAside(s) \/ Forget(s)
                                    \/ Abandon(s) \/ Expire(s)
             \/ Turn \/ UNCHANGED vars
    BY <1>3 DEF Report, Retry, LeaveWindow, SetAside, Forget, Abandon, Expire, Turn,
         vars, record, frame
  <1> QED BY <1>1, <1>2, <1>3, Steps

LEMMA OutsideTypes ==
  ASSUME OutsideOK, [Next]_vars
  PROVE  OutsideOK'
  <1> USE DEF OutsideOK
  <1>1. ASSUME NEW p \in Procs, Acts(p)
        PROVE  OutsideOK'
    <2>1. CASE Reset(p) \/ Erase(p)
      BY <2>1 DEF Reset, Erase, ReleaseAndWipe, Unmarked
    <2>2. CASE \E s \in Sessions : StartPoll(p, s)
      BY <2>2 DEF StartPoll, outside
    <2>3. CASE \/ TryLock(p) \/ Refresh(p) \/ LookFails(p) \/ Look(p) \/ LookEmpty(p)
               \/ \E t \in Tokens : Exchange(p, t) \/ ExchangeUnanswered(p, t)
                                    \/ SpentBefore(p, t) \/ TooManyRepeats(p, t)
               \/ Hold(p) \/ Keep(p) \/ Refused(p) \/ Remove(p) \/ RemoveFails(p)
               \/ QueueFails(p) \/ Finish(p) \/ DropHold(p) \/ Record(p) \/ Unlock(p)
               \/ StartWipe(p)
               \/ \E s \in Sessions : StartJob(p, s) \/ HandBackNext(p, s)
      BY <2>3 DEF TryLock, Refresh, LookFails, Look, LookEmpty, Exchange,
           ExchangeUnanswered, SpentBefore, TooManyRepeats, Settle, Hold, Keep, Refused,
           Remove, RemoveFails, QueueFails, Finish, DropHold, Record, Unlock, StartWipe,
           StartJob, HandBackNext, outside
    <2> QED BY <1>1, <2>1, <2>2, <2>3 DEF Acts, Step, Wipe
  <1>2. WebDies \/ (\E p \in Procs : WorkerDies(p)) => OutsideOK'
    BY DEF WebDies, WorkerDies, Dies, outside
  <1>3. CASE \/ \E t \in Tokens : Report(t) \/ Retry(t)
             \/ \E s \in Sessions : LeaveWindow(s) \/ SetAside(s) \/ Forget(s)
                                    \/ Abandon(s) \/ Expire(s)
             \/ Turn \/ UNCHANGED vars
    BY <1>3 DEF Report, Retry, LeaveWindow, SetAside, Forget, Abandon, Expire, Turn,
         Unmark, Unmarked, vars, outside
  <1> QED BY <1>1, <1>2, <1>3 DEF Next, Acts, Procs

LEMMA ViewTypes ==
  ASSUME Types, IInv, [Next]_vars
  PROVE  ViewOK'
  <1> USE DEF Types
  <1>1. Blank \in Views
    BY DEF Blank, AllOpen, Outcomes, Views
  <1>2. \A s \in Sessions : Loaded(s) \in Views
    <2> SUFFICES ASSUME NEW s \in Sessions PROVE Loaded(s) \in Views
      OBVIOUS
    <2>1. rec[s].done \in BOOLEAN /\ rec[s].refuse \in BOOLEAN
      BY DEF RecOK, Recs
    <2>2. (rec[s].refuse /\ ~rec[s].done) \in BOOLEAN
      BY Zenon
    <2>3. [t \in Tokens |-> IF Of[t] = s THEN exch[t] ELSE "open"]
            \in [Tokens -> Outcomes]
      BY DEF OutcomesOK, Outcomes
    <2> QED BY <2>1, <2>2, <2>3 DEF Loaded, Views
  <1>3. \A v \in Views, s \in Sessions : Refreshed(v, s) \in Views
    <2> SUFFICES ASSUME NEW v \in Views, NEW s \in Sessions
                 PROVE  Refreshed(v, s) \in Views
      OBVIOUS
    <2>1. (v.done \/ rec[s].done) \in BOOLEAN /\ (v.refuse \/ Loaded(s).refuse) \in BOOLEAN
      BY Zenon
    <2>2. [t \in Tokens |-> IF Loaded(s).exch[t] # "open" THEN exch[t] ELSE v.exch[t]]
            \in [Tokens -> Outcomes]
      BY DEF OutcomesOK, Views
    <2> QED BY <2>1, <2>2 DEF Refreshed, Views
  <1>4. \A v \in Views : [v EXCEPT !.done = TRUE] \in Views
    BY DEF Views
  <1>5. ASSUME NEW v \in Views, NEW t \in Tokens, NEW o \in Outcomes
        PROVE  [v EXCEPT !.exch[t] = o] \in Views
    BY DEF Views
  <1>6. \A p \in Procs : Dict(p) \in Dicts /\ (p \notin Polls => p \in Dicts)
    BY DEF Dict, Dicts, Procs, PlacesOK
  <1>7. Sessions \subseteq Dicts
    BY DEF Dicts
  <1>8. ASSUME NEW p \in Procs, Acts(p)
        PROVE  ViewOK'
    <2>1. CASE LookEmpty(p) \/ Finish(p)
      BY <1>4, <1>6, <2>1 DEF LookEmpty, Finish, MarkDone, ViewOK
    <2>2. CASE Record(p)
      <3>1. /\ view' = [view EXCEPT ![Dict(p)].exch[hand[p]] = got[p]]
            /\ got[p] \in Outcomes
        BY <2>2 DEF Record, OutcomesOK
      <3>2. [view[Dict(p)] EXCEPT !.exch[hand[p]] = got[p]] \in Views
        BY <1>6, <3>1 DEF ViewOK, Views
      <3>3. view' = [view EXCEPT ![Dict(p)] = [view[Dict(p)] EXCEPT !.exch[hand[p]] = got[p]]]
        BY <1>6, <3>1 DEF ViewOK
      <3> QED BY <1>6, <3>2, <3>3 DEF ViewOK
    <2>3. CASE Refresh(p)
      <3>1. Refreshed(view[Dict(p)], at[p]) \in Views
        BY <1>3, <1>6 DEF ViewOK, PlacesOK
      <3>2. \/ UNCHANGED view
            \/ view' = [view EXCEPT ![Dict(p)] = Refreshed(view[Dict(p)], at[p])]
        BY <2>3 DEF Refresh
      <3> QED BY <1>6, <3>1, <3>2 DEF ViewOK
    <2>4. CASE \E s \in Sessions : StartPoll(p, s)
      BY <1>2, <1>7, <2>4 DEF StartPoll, ViewOK
    <2>5. CASE \E s \in Sessions : StartJob(p, s) \/ HandBackNext(p, s)
      BY <1>2, <2>5 DEF StartJob, HandBackNext, ViewOK
    <2>6. CASE TryLock(p) \/ Unlock(p)
      BY <1>1, <2>6 DEF TryLock, Unlock, ViewOK
    <2>7. CASE \/ LookFails(p) \/ Look(p)
               \/ \E t \in Tokens : Exchange(p, t) \/ ExchangeUnanswered(p, t)
                                    \/ SpentBefore(p, t) \/ TooManyRepeats(p, t)
               \/ Hold(p) \/ Keep(p) \/ Refused(p) \/ Remove(p) \/ RemoveFails(p)
               \/ QueueFails(p) \/ DropHold(p) \/ StartWipe(p) \/ Reset(p) \/ Erase(p)
      <3>1. UNCHANGED view
        BY <2>7 DEF LookFails, Look, Exchange, ExchangeUnanswered, SpentBefore,
             TooManyRepeats, Settle, Hold, Keep, Refused, Remove, RemoveFails,
             QueueFails, DropHold, StartWipe, Reset, Erase, ReleaseAndWipe
      <3> QED BY <3>1 DEF ViewOK
    <2> QED BY <1>8, <2>1, <2>2, <2>3, <2>4, <2>5, <2>6, <2>7 DEF Acts, Step, Wipe
  <1>9. CASE \E P \in SUBSET Procs, d \in SUBSET Dicts : Dies(P, d)
    BY <1>1, <1>9 DEF Dies, ViewOK
  <1>10. CASE \/ \E t \in Tokens : Report(t) \/ Retry(t)
              \/ \E s \in Sessions : LeaveWindow(s) \/ SetAside(s) \/ Forget(s)
                                     \/ Abandon(s) \/ Expire(s)
              \/ Turn \/ UNCHANGED vars
    BY <1>1, <1>10 DEF Report, Retry, LeaveWindow, SetAside, Forget, Abandon, Expire,
         Turn, vars, ViewOK
  <1> QED BY <1>8, <1>9, <1>10, Steps

LEMMA PlaceTypes ==
  ASSUME PlacesOK, RetryOK, [Next]_vars
  PROVE  PlacesOK' /\ RetryOK'
  <1> USE DEF PlacesOK, RetryOK
  <1>1. ASSUME NEW p \in Procs, Acts(p)
        PROVE  PlacesOK' /\ RetryOK'
    <2>1. CASE Look(p)
      BY <2>1 DEF Look, Reported, Mine
    <2>2. CASE \/ Record(p) \/ Unlock(p) \/ Reset(p) \/ Erase(p) \/ TryLock(p)
               \/ StartWipe(p) \/ \E t \in Tokens : ExchangeUnanswered(p, t)
      <3>1. PlacesOK'
        BY <2>2 DEF Record, Unlock, Reset, Erase, ReleaseAndWipe, TryLock, LetGo,
             StartWipe, ExchangeUnanswered
      <3>2. \/ UNCHANGED retry
            \/ retry' = [retry EXCEPT ![p] = FALSE] \/ retry' = [retry EXCEPT ![p] = TRUE]
        BY <2>2 DEF Record, Unlock, Reset, Erase, ReleaseAndWipe, TryLock, LetGo,
             StartWipe, ExchangeUnanswered
      <3>3. RetryOK'
        BY <3>2
      <3> QED BY <3>1, <3>3
    <2>3. CASE \E s \in Sessions : StartPoll(p, s) \/ StartJob(p, s) \/ HandBackNext(p, s)
      BY <2>3 DEF StartPoll, StartJob, HandBackNext, Come
    <2>4. CASE \/ Refresh(p) \/ LookFails(p) \/ LookEmpty(p)
               \/ \E t \in Tokens : Exchange(p, t) \/ SpentBefore(p, t)
                                    \/ TooManyRepeats(p, t)
               \/ Hold(p) \/ Keep(p) \/ Refused(p) \/ Remove(p) \/ RemoveFails(p)
               \/ QueueFails(p) \/ DropHold(p) \/ Finish(p)
      BY <2>4 DEF Refresh, LookFails, LookEmpty, Exchange, SpentBefore, TooManyRepeats,
           Settle, Hold, Keep, Refused, Remove, RemoveFails, QueueFails, DropHold, Finish
    <2> QED BY <1>1, <2>1, <2>2, <2>3, <2>4 DEF Acts, Step, Wipe
  <1>2. CASE \E P \in SUBSET Procs, d \in SUBSET Dicts : Dies(P, d)
    BY <1>2 DEF Dies
  <1>3. CASE \/ \E t \in Tokens : Report(t) \/ Retry(t)
             \/ \E s \in Sessions : LeaveWindow(s) \/ SetAside(s) \/ Forget(s)
                                    \/ Abandon(s) \/ Expire(s)
             \/ Turn \/ UNCHANGED vars
    BY <1>3 DEF Report, Retry, LeaveWindow, SetAside, Forget, Abandon, Expire, Turn,
         vars, frame
  <1> QED BY <1>1, <1>2, <1>3, Steps

(* Nothing that failed, and no kill, is ever taken back.                   *)
LEMMA FaultCounts ==
  ASSUME [Next]_vars
  PROVE  /\ faults' = faults \/ Fault
         /\ crashes' = crashes \/ (crashes < MaxCrashes /\ crashes' = crashes + 1)
  <1>1. ASSUME NEW p \in Procs, Acts(p)
        PROVE  (faults' = faults \/ Fault) /\ crashes' = crashes
    <2>1. CASE \/ Refresh(p) \/ LookFails(p) \/ LookEmpty(p) \/ Hold(p)
               \/ RemoveFails(p) \/ QueueFails(p) \/ DropHold(p) \/ Record(p) \/ Finish(p)
               \/ Reset(p) \/ Erase(p) \/ \E t \in Tokens : ExchangeUnanswered(p, t)
      BY <2>1 DEF Refresh, LookFails, LookEmpty, MarkDone, Hold, RemoveFails, QueueFails,
           DropHold, Record, Finish, Reset, Erase, ReleaseAndWipe, ExchangeUnanswered,
           Works
    <2>2. CASE \/ TryLock(p) \/ Look(p)
               \/ \E t \in Tokens : Exchange(p, t) \/ SpentBefore(p, t)
                                    \/ TooManyRepeats(p, t)
               \/ Keep(p) \/ Refused(p) \/ Remove(p) \/ Unlock(p) \/ StartWipe(p)
               \/ \E s \in Sessions : StartPoll(p, s) \/ StartJob(p, s)
                                      \/ HandBackNext(p, s)
      BY <2>2 DEF TryLock, Look, Exchange, SpentBefore, TooManyRepeats, Settle, Keep,
           Refused, Remove, Unlock, StartWipe, StartPoll, StartJob, HandBackNext
    <2> QED BY <1>1, <2>1, <2>2 DEF Acts, Step, Wipe
  <1>2. CASE \E P \in SUBSET Procs, d \in SUBSET Dicts : Dies(P, d)
    BY <1>2 DEF Dies
  <1>3. CASE \/ \E t \in Tokens : Report(t) \/ Retry(t)
             \/ \E s \in Sessions : LeaveWindow(s) \/ SetAside(s) \/ Forget(s)
                                    \/ Abandon(s) \/ Expire(s)
             \/ Turn \/ UNCHANGED vars
    BY <1>3 DEF Report, Retry, LeaveWindow, SetAside, Forget, Abandon, Expire, Turn,
         Works, vars
  <1> QED BY <1>1, <1>2, <1>3, Steps

LEMMA CountTypes ==
  ASSUME CountsOK, [Next]_vars
  PROVE  /\ CountsOK'
         /\ faults' = 0 => faults = 0
         /\ crashes' = 0 => crashes = 0
  BY FaultCounts, Bounds DEF CountsOK, Fault

LEMMA InitTypes == Init => Types
  <1> SUFFICES ASSUME Init PROVE Types OBVIOUS
  <1>1. RecOK /\ OutsideOK /\ ItemsOK
    BY DEF Init, RecOK, Recs, Fresh, Absent, OutsideOK, ItemsOK
  <1>2. ViewOK /\ OutcomesOK
    BY DEF Init, ViewOK, Views, Blank, AllOpen, Outcomes, OutcomesOK
  <1>3. PlacesOK /\ RetryOK /\ CountsOK
    BY Bounds DEF Init, PlacesOK, RetryOK, CountsOK
  <1> QED BY <1>1, <1>2, <1>3 DEF Types

LEMMA NextTypes == Types /\ IInv /\ [Next]_vars => Types'
  BY ItemTypes, RecTypes, OutcomeTypes, OutsideTypes, ViewTypes, PlaceTypes, CountTypes
     DEF Types

(* Every variable stays in its type, and whoever is past its try-lock      *)
(* holds the household's sync lock (tenant_sync_lock): one finisher works  *)
(* at a time.                                                              *)
THEOREM LinkTypeCorrect == Spec => []TypeOK
  <1>1. Types /\ IInv => TypeOK
    <2> SUFFICES ASSUME Types, IInv PROVE TypeOK OBVIOUS
    <2>1. pc \in [Procs -> {"idle", "lock", "refresh", "look", "take", "hold",
                            "keep", "back", "drop", "record", "unlock", "next"}]
      BY DEF IInv, LinkType, PCs, Holding
    <2>2. \A p \in Procs : lock = p <=> pc[p] \notin {"idle", "lock"}
      BY DEF IInv, LockHeld, Free
    <2>3. LinkType
      BY DEF IInv
    <2> QED
      BY <2>1, <2>2, <2>3
      DEF Types, TypeOK, LinkType, ItemsOK, RecOK, Recs, OutcomesOK, OutsideOK, ViewOK,
          Views, PlacesOK, RetryOK, CountsOK
  <1> QED BY <1>1, InitTypes, NextTypes, InitIInv, NextIInv, PTL DEF Spec

------------------------------------------------------------------------------
(* What a finisher is about, and what was spent.                           *)

Doing == Holding \cup {"take", "record"}
InFlight == Holding \cup {"record"}

(* The public token was exchanged: Plaid will not take it again.           *)
Spent(t) == plaid[t] \in {"live", "gone"}

FrameFact(p) ==
  /\ pc[p] \in Doing => todo[p] \subseteq Mine(at[p])
  /\ pc[p] \in InFlight => hand[p] \in Mine(at[p])
  /\ pc[p] \in Holding => Spent(hand[p])
  /\ pc[p] \in {"drop", "record"} => got[p] # "open"

SpentFact == \A t \in Tokens : t \in row \/ queue[t] # "no" => Spent(t)

LinkInv ==
  /\ IInv /\ Types
  /\ \A p \in Procs : FrameFact(p)
  /\ SpentFact

(* A finisher's step is its own.                                           *)
LEMMA OneActs ==
  ASSUME Types, IInv, NEW p \in Procs, Acts(p)
  PROVE  \A q \in Procs \ {p} :
           /\ pc'[q] = pc[q] /\ at'[q] = at[q] /\ refuse'[q] = refuse[q]
           /\ todo'[q] = todo[q] /\ hand'[q] = hand[q] /\ got'[q] = got[q]
  <1> USE DEF Types, PlacesOK, OutcomesOK, IInv, LinkType
  <1>1. CASE \/ TryLock(p) \/ Unlock(p) \/ Reset(p) \/ Erase(p) \/ Look(p)
             \/ StartWipe(p)
             \/ \E s \in Sessions : StartPoll(p, s) \/ StartJob(p, s)
                                    \/ HandBackNext(p, s)
    BY <1>1 DEF TryLock, Unlock, Reset, Erase, ReleaseAndWipe, Look, StartWipe,
         StartPoll, StartJob, HandBackNext, LetGo, Come, Go
  <1>2. CASE \/ Refresh(p) \/ LookFails(p) \/ LookEmpty(p) \/ Hold(p) \/ Keep(p)
             \/ Refused(p) \/ Remove(p) \/ RemoveFails(p) \/ QueueFails(p)
    BY <1>2 DEF Refresh, LookFails, LookEmpty, Hold, Keep, Refused, Remove, RemoveFails,
         QueueFails, Go
  <1>3. CASE \/ \E t \in Tokens : Exchange(p, t) \/ ExchangeUnanswered(p, t)
                                  \/ SpentBefore(p, t) \/ TooManyRepeats(p, t)
             \/ Finish(p) \/ DropHold(p) \/ Record(p)
    BY <1>3 DEF Exchange, ExchangeUnanswered, SpentBefore, TooManyRepeats, Settle, Finish,
         DropHold, Record, Go
  <1> QED BY <1>1, <1>2, <1>3 DEF Acts, Step, Wipe

(* Two finishers past their try-lock are one: while one has the lock, every*)
(* other waits outside.                                                    *)
LEMMA OthersOutside ==
  ASSUME IInv, NEW p \in Procs, pc[p] \notin Free
  PROVE  \A q \in Procs \ {p} : pc[q] \in Free
  BY OneHolder DEF IInv

(* What may become of an Item at Plaid: an exchange alone spends its token,*)
(* and what is spent stays so.                                             *)
LEMMA PlaidStep ==
  ASSUME LinkInv, [Next]_vars, NEW t \in Tokens
  PROVE  \/ plaid'[t] = plaid[t]
         \/ plaid[t] = "none" /\ plaid'[t] = "ready"
         \/ Spent(t) /\ Spent(t)'
         \/ /\ plaid[t] = "ready" /\ plaid'[t] = "live"
            /\ \E p \in Procs : \/ Exchange(p, t)
                                \/ ExchangeUnanswered(p, t)
  <1> DEFINE Moves == \/ plaid'[t] = plaid[t]
                      \/ plaid[t] = "none" /\ plaid'[t] = "ready"
                      \/ Spent(t) /\ Spent(t)'
                      \/ /\ plaid[t] = "ready" /\ plaid'[t] = "live"
                         /\ \E p \in Procs : \/ Exchange(p, t)
                                             \/ ExchangeUnanswered(p, t)
  <1> SUFFICES Moves
    OBVIOUS
  <1> USE DEF LinkInv, Spent
  <1>0. plaid \in [Tokens -> {"none", "ready", "live", "gone"}]
    BY DEF IInv, LinkType
  <1>1. ASSUME NEW u \in Tokens, Report(u) \/ Retry(u)
        PROVE  Moves
    BY <1>0, <1>1 DEF Report, Retry, SpentFact
  <1>2. ASSUME NEW p \in Procs, Acts(p)
        PROVE  Moves
    <2>1. CASE \E u \in Tokens : Exchange(p, u) \/ ExchangeUnanswered(p, u)
      <3>1. PICK u \in Tokens : Exchange(p, u) \/ ExchangeUnanswered(p, u)
        BY <2>1
      <3>2. \/ UNCHANGED plaid
            \/ plaid[u] = "ready" /\ plaid' = [plaid EXCEPT ![u] = "live"]
        BY <3>1 DEF Exchange, ExchangeUnanswered
      <3> QED BY <1>0, <3>1, <3>2
    <2>2. CASE Remove(p)
      <3>1. Spent(hand[p]) /\ plaid' = [plaid EXCEPT ![hand[p]] = "gone"]
        BY <2>2 DEF Remove, FrameFact, Holding
      <3> QED BY <1>0, <3>1
    <2>3. CASE Reset(p) \/ Erase(p)
      BY <1>0, <2>3 DEF Reset, Erase, ReleaseAndWipe, SpentFact
    <2>4. CASE \/ TryLock(p) \/ Refresh(p) \/ LookFails(p) \/ Look(p) \/ LookEmpty(p)
               \/ \E u \in Tokens : SpentBefore(p, u) \/ TooManyRepeats(p, u)
               \/ Hold(p) \/ Keep(p) \/ Refused(p) \/ RemoveFails(p)
               \/ QueueFails(p) \/ Finish(p) \/ DropHold(p) \/ Record(p) \/ Unlock(p)
               \/ StartWipe(p)
               \/ \E s \in Sessions : StartPoll(p, s) \/ StartJob(p, s)
                                      \/ HandBackNext(p, s)
      BY <2>4 DEF TryLock, Refresh, LookFails, Look, LookEmpty, SpentBefore,
           TooManyRepeats, Settle, Hold, Keep, Refused, RemoveFails, QueueFails, Finish,
           DropHold, Record, Unlock, StartWipe, StartPoll, StartJob, HandBackNext, link
    <2> QED BY <1>2, <2>1, <2>2, <2>3, <2>4 DEF Acts, Step, Wipe
  <1>3. CASE \/ \E s \in Sessions : LeaveWindow(s) \/ SetAside(s) \/ Forget(s)
                                    \/ Abandon(s) \/ Expire(s)
             \/ \E P \in SUBSET Procs, d \in SUBSET Dicts : Dies(P, d)
             \/ Turn \/ UNCHANGED vars
    BY <1>3 DEF LeaveWindow, SetAside, Forget, Abandon, Expire, Turn, Dies, vars, link
  <1> QED BY <1>1, <1>2, <1>3, Steps

LEMMA SpentStays ==
  ASSUME LinkInv, [Next]_vars, NEW t \in Tokens, Spent(t)
  PROVE  plaid'[t] \in {"live", "gone"}
  BY PlaidStep DEF Spent

LEMMA SpentFactStep ==
  ASSUME LinkInv, [Next]_vars
  PROVE  SpentFact'
  <1> USE DEF LinkInv
  <1>1. SUFFICES ASSUME NEW t \in Tokens, t \in row' \/ queue'[t] # "no",
                        ~(t \in row \/ queue[t] # "no")
                 PROVE  Spent(t)
    BY SpentStays DEF SpentFact, Spent
  <1>2. queue \in [Tokens -> {"no", "hold", "refused"}]
    BY DEF IInv, LinkType
  <1>3. ASSUME NEW p \in Procs, Acts(p)
        PROVE  Spent(t)
    <2>1. CASE Hold(p) \/ Keep(p) \/ RemoveFails(p)
      <3>1. pc[p] \in Holding /\ t = hand[p]
        BY <1>1, <1>2, <2>1 DEF Hold, Keep, RemoveFails, Holding
      <3> QED BY <3>1 DEF FrameFact
    <2>2. CASE Reset(p) \/ Erase(p) \/ DropHold(p)
      BY <1>1, <1>2, <2>2 DEF Reset, Erase, ReleaseAndWipe, DropHold
    <2>3. CASE \/ TryLock(p) \/ Refresh(p) \/ LookFails(p) \/ Look(p) \/ LookEmpty(p)
               \/ \E u \in Tokens : Exchange(p, u) \/ ExchangeUnanswered(p, u)
                                    \/ SpentBefore(p, u) \/ TooManyRepeats(p, u)
               \/ Refused(p) \/ Remove(p) \/ QueueFails(p) \/ Finish(p)
               \/ Record(p) \/ Unlock(p) \/ StartWipe(p)
               \/ \E s \in Sessions : StartPoll(p, s) \/ StartJob(p, s)
                                      \/ HandBackNext(p, s)
      BY <1>1, <2>3 DEF TryLock, Refresh, LookFails, Look, LookEmpty, Exchange,
           ExchangeUnanswered, SpentBefore, TooManyRepeats, Settle, Refused, Remove,
           QueueFails, Finish, Record, Unlock, StartWipe, StartPoll, StartJob,
           HandBackNext, link
    <2> QED BY <1>3, <2>1, <2>2, <2>3 DEF Acts, Step, Wipe
  <1>4. CASE \/ \E u \in Tokens : Report(u) \/ Retry(u)
             \/ \E s \in Sessions : LeaveWindow(s) \/ SetAside(s) \/ Forget(s)
                                    \/ Abandon(s) \/ Expire(s)
             \/ \E P \in SUBSET Procs, d \in SUBSET Dicts : Dies(P, d)
             \/ Turn \/ UNCHANGED vars
    BY <1>1, <1>2, <1>4 DEF Report, Retry, LeaveWindow, SetAside, Forget, Abandon,
         Expire, Turn, Dies, vars, link
  <1> QED BY <1>3, <1>4, Steps

LEMMA FrameStep ==
  ASSUME LinkInv, [Next]_vars
  PROVE  \A q \in Procs : FrameFact(q)'
  <1> USE DEF LinkInv, Holding, Doing, InFlight
  <1>1. ASSUME NEW q \in Procs,
               pc'[q] = pc[q] \/ pc'[q] \notin Doing,
               pc'[q] \in Doing => /\ at'[q] = at[q] /\ todo'[q] \subseteq todo[q]
                                   /\ hand'[q] = hand[q] /\ got'[q] = got[q]
        PROVE  FrameFact(q)'
    <2>1. FrameFact(q)
      OBVIOUS
    <2>2. \A t \in Tokens : Spent(t) => plaid'[t] \in {"live", "gone"}
      BY SpentStays
    <2>3. pc[q] \in InFlight => hand[q] \in Tokens
      BY <2>1 DEF FrameFact, Mine
    <2>4. CASE pc'[q] \notin Doing
      BY <2>4 DEF FrameFact
    <2>5. CASE pc'[q] \in Doing
      <3>1. pc'[q] \in Holding => plaid'[hand'[q]] \in {"live", "gone"}
        BY <1>1, <2>1, <2>2, <2>3, <2>5 DEF FrameFact, Spent
      <3> QED BY <1>1, <2>1, <2>5, <3>1 DEF FrameFact, Mine, Spent
    <2> QED BY <2>4, <2>5
  <1>2. ASSUME NEW p \in Procs, Acts(p)
        PROVE  FrameFact(p)'
    <2>0. /\ FrameFact(p) /\ at \in [Procs -> Sessions] /\ todo \in [Procs -> SUBSET Tokens]
          /\ plaid \in [Tokens -> {"none", "ready", "live", "gone"}]
          /\ pc \in [Procs -> PCs] /\ hand \in [Procs -> Tokens \cup {Nobody}]
          /\ got \in [Procs -> Outcomes]
      BY DEF IInv, LinkType, Types, PlacesOK, OutcomesOK
    <2>1. CASE Look(p)
      BY <2>0, <2>1 DEF Look, Go, FrameFact, Reported, Mine
    <2>2. ASSUME NEW t \in Tokens, Exchange(p, t)
          PROVE  FrameFact(p)'
      BY <2>0, <2>2 DEF Exchange, Go, FrameFact, Mine, Spent
    <2>3. ASSUME NEW t \in Tokens, SpentBefore(p, t) \/ TooManyRepeats(p, t)
          PROVE  FrameFact(p)'
      BY <2>0, <2>3 DEF SpentBefore, TooManyRepeats, Settle, Go, FrameFact, Mine, Spent
    <2>4. ASSUME NEW t \in Tokens, ExchangeUnanswered(p, t)
          PROVE  FrameFact(p)'
      BY <1>1, <2>0, <2>4 DEF ExchangeUnanswered
    <2>5. CASE Hold(p) \/ Keep(p) \/ Refused(p) \/ Remove(p) \/ RemoveFails(p)
               \/ QueueFails(p) \/ DropHold(p)
      <3>1. /\ pc[p] \in Holding /\ pc'[p] \in InFlight
            /\ UNCHANGED <<at, todo, hand>>
            /\ pc'[p] \in {"drop", "record"} => got'[p] # "open"
        BY <2>0, <2>5
        DEF Hold, Keep, Refused, Remove, RemoveFails, QueueFails, DropHold, Go, FrameFact
      <3>2. hand[p] \in Tokens /\ plaid'[hand[p]] \in {"live", "gone"}
        BY <2>0, <3>1, SpentStays DEF FrameFact, Mine
      <3> QED BY <2>0, <3>1, <3>2 DEF FrameFact, Mine, Spent
    <2>6. CASE Record(p)
      BY <2>0, <2>6 DEF Record, Go, FrameFact, Mine
    <2>7. CASE \/ TryLock(p) \/ Refresh(p) \/ LookFails(p) \/ LookEmpty(p) \/ Finish(p)
               \/ Unlock(p) \/ StartWipe(p) \/ Reset(p) \/ Erase(p)
               \/ \E s \in Sessions : StartPoll(p, s) \/ StartJob(p, s)
                                      \/ HandBackNext(p, s)
      <3>1. pc'[p] \notin Doing
        BY <2>0, <2>7 DEF TryLock, Refresh, LookFails, LookEmpty, Finish, Unlock,
             StartWipe, Reset, Erase, ReleaseAndWipe, StartPoll, StartJob, HandBackNext,
             LetGo, Come, Go
      <3> QED BY <3>1 DEF FrameFact
    <2> QED BY <1>2, <2>1, <2>2, <2>3, <2>4, <2>5, <2>6, <2>7 DEF Acts, Step, Wipe
  <1>3. ASSUME NEW p \in Procs, Acts(p)
        PROVE  \A q \in Procs : FrameFact(q)'
    BY <1>1, <1>2, <1>3, OneActs DEF Types
  <1>4. CASE \E P \in SUBSET Procs, d \in SUBSET Dicts : Dies(P, d)
    BY <1>1, <1>4 DEF Dies
  <1>5. CASE \/ \E u \in Tokens : Report(u) \/ Retry(u)
             \/ \E s \in Sessions : LeaveWindow(s) \/ SetAside(s) \/ Forget(s)
                                    \/ Abandon(s) \/ Expire(s)
             \/ Turn \/ UNCHANGED vars
    <2>1. UNCHANGED frame
      BY <1>5 DEF Report, Retry, LeaveWindow, SetAside, Forget, Abandon, Expire, Turn,
           vars
    <2> QED BY <1>1, <2>1 DEF frame
  <1> QED BY <1>3, <1>4, <1>5, Steps

LEMMA InitLinkInv == Init => LinkInv
  <1> SUFFICES ASSUME Init PROVE LinkInv OBVIOUS
  <1>1. Types
    BY InitTypes
  <1>2. \A p \in Procs : FrameFact(p)
    BY DEF Init, FrameFact, Doing, InFlight, Holding
  <1>3. SpentFact
    BY DEF Init, SpentFact
  <1> QED BY <1>1, <1>2, <1>3, InitIInv DEF LinkInv

LEMMA NextLinkInv == LinkInv /\ [Next]_vars => LinkInv'
  BY NextIInv, NextTypes, FrameStep, SpentFactStep DEF LinkInv

------------------------------------------------------------------------------
(* Who does what, seen from one finisher.                                  *)

Still(p) ==
  /\ pc'[p] = pc[p] /\ at'[p] = at[p] /\ refuse'[p] = refuse[p]
  /\ todo'[p] = todo[p] /\ hand'[p] = hand[p] /\ got'[p] = got[p]

LEMMA ActsOrStill ==
  ASSUME LinkInv, [Next]_vars, NEW p \in Procs
  PROVE  Acts(p) \/ Still(p) \/ (pc'[p] = "idle" /\ crashes' # 0)
  <1> USE DEF LinkInv, Still
  <1>1. ASSUME NEW q \in Procs, Acts(q)
        PROVE  Acts(p) \/ Still(p)
    BY <1>1, OneActs
  <1>2. ASSUME NEW P \in SUBSET Procs, NEW d \in SUBSET Dicts, Dies(P, d)
        PROVE  Still(p) \/ (pc'[p] = "idle" /\ crashes' # 0)
    <2>1. crashes \in Nat /\ crashes' = crashes + 1
      BY <1>2, Bounds DEF Dies, Types, CountsOK
    <2>2. CASE p \in P
      BY <1>2, <2>1, <2>2 DEF Dies
    <2>3. CASE p \notin P
      <3>1. refuse'[p] = (p \notin P /\ refuse[p])
        BY <1>2 DEF Dies
      <3>2. refuse[p] \in BOOLEAN
        BY DEF IInv, LinkType
      <3>3. refuse'[p] = refuse[p]
        <4>1. CASE refuse[p] = TRUE
          BY <2>3, <3>1, <4>1
        <4>2. CASE refuse[p] = FALSE
          BY <2>3, <3>1, <4>2
        <4> QED BY <3>2, <4>1, <4>2
      <3>4. /\ pc'[p] = pc[p] /\ at'[p] = at[p] /\ todo'[p] = todo[p]
            /\ hand'[p] = hand[p] /\ got'[p] = got[p]
        BY <1>2, <2>3 DEF Dies
      <3> QED BY <3>3, <3>4
    <2> QED BY <2>2, <2>3
  <1>3. CASE \/ \E u \in Tokens : Report(u) \/ Retry(u)
             \/ \E s \in Sessions : LeaveWindow(s) \/ SetAside(s) \/ Forget(s)
                                    \/ Abandon(s) \/ Expire(s)
             \/ Turn \/ UNCHANGED vars
    BY <1>3 DEF Report, Retry, LeaveWindow, SetAside, Forget, Abandon, Expire, Turn,
         vars, frame
  <1> QED BY <1>1, <1>2, <1>3, Steps

(* A finisher comes to look at its session by its refresh, or, a wiper, by *)
(* loading it.                                                             *)
LEMMA ComesToLook ==
  ASSUME LinkInv, [Next]_vars, NEW p \in Procs, pc'[p] = "look"
  PROVE  \/ Refresh(p)
         \/ p \in Wipers /\ \E s \in Sessions : HandBackNext(p, s)
         \/ pc[p] = "look" /\ Still(p)
  <1> USE DEF LinkInv, IInv, LinkType
  <1>1. CASE Acts(p)
    <2>1. CASE \/ TryLock(p) \/ Unlock(p) \/ Reset(p) \/ Erase(p) \/ Look(p)
               \/ StartWipe(p) \/ LookFails(p) \/ LookEmpty(p) \/ Finish(p)
               \/ \E s \in Sessions : StartPoll(p, s) \/ StartJob(p, s)
      BY <2>1 DEF TryLock, Unlock, Reset, Erase, ReleaseAndWipe, Look, StartWipe,
           LookFails, LookEmpty, Finish, StartPoll, StartJob, LetGo, Come, Go
    <2>2. CASE \/ Hold(p) \/ Keep(p) \/ Refused(p) \/ Remove(p) \/ RemoveFails(p)
               \/ QueueFails(p) \/ DropHold(p) \/ Record(p)
               \/ \E t \in Tokens : Exchange(p, t) \/ ExchangeUnanswered(p, t)
                                    \/ SpentBefore(p, t) \/ TooManyRepeats(p, t)
      BY <2>2 DEF Exchange, ExchangeUnanswered, SpentBefore, TooManyRepeats, Settle,
           Hold, Keep, Refused, Remove, RemoveFails, QueueFails, DropHold, Record, Go
    <2> QED BY <1>1, <2>1, <2>2 DEF Acts, Step, Wipe
  <1>2. CASE Still(p)
    BY <1>2 DEF Still
  <1> QED BY <1>1, <1>2, ActsOrStill

(* It comes to take tokens by what it saw; from there on its session, and  *)
(* whether it refuses, stand.                                              *)
LEMMA StaysDoing ==
  ASSUME LinkInv, [Next]_vars, NEW p \in Procs, pc'[p] \in Doing
  PROVE  /\ Look(p) \/ pc[p] \in Doing
         /\ at'[p] = at[p]
         /\ pc[p] \in Doing => refuse'[p] = refuse[p]
  <1> USE DEF LinkInv, IInv, LinkType, Doing, Holding
  <1>1. CASE Acts(p)
    <2>1. CASE \/ TryLock(p) \/ Unlock(p) \/ Reset(p) \/ Erase(p) \/ Refresh(p)
               \/ StartWipe(p) \/ LookFails(p) \/ LookEmpty(p) \/ Finish(p)
               \/ \E s \in Sessions : StartPoll(p, s) \/ StartJob(p, s)
                                      \/ HandBackNext(p, s)
      BY <2>1 DEF TryLock, Unlock, Reset, Erase, ReleaseAndWipe, Refresh, StartWipe,
           LookFails, LookEmpty, Finish, StartPoll, StartJob, HandBackNext, LetGo, Come,
           Go
    <2>2. CASE \/ Hold(p) \/ Keep(p) \/ Refused(p) \/ Remove(p) \/ RemoveFails(p)
               \/ QueueFails(p) \/ DropHold(p) \/ Record(p)
               \/ \E t \in Tokens : Exchange(p, t) \/ ExchangeUnanswered(p, t)
                                    \/ SpentBefore(p, t) \/ TooManyRepeats(p, t)
      BY <2>2 DEF Exchange, ExchangeUnanswered, SpentBefore, TooManyRepeats, Settle,
           Hold, Keep, Refused, Remove, RemoveFails, QueueFails, DropHold, Record, Go
    <2>3. CASE Look(p)
      BY <2>3 DEF Look
    <2> QED BY <1>1, <2>1, <2>2, <2>3 DEF Acts, Step, Wipe
  <1>2. CASE Still(p)
    BY <1>2 DEF Still
  <1> QED BY <1>1, <1>2, ActsOrStill

(* While it looks, the dict it works on is the one it had, or was loaded   *)
(* anew by another poll of the same session.                               *)
LEMMA DictStands ==
  ASSUME LinkInv, [Next]_vars, NEW p \in Procs, pc[p] = "look", pc'[p] = "look"
  PROVE  \/ view'[Dict(p)] = view[Dict(p)]
         \/ view'[Dict(p)] = Loaded(at[p]) /\ ~rec[at[p]].done
  <1> USE DEF LinkInv, Types, ViewOK, PlacesOK
  <1>0. /\ Dict(p) \in Dicts /\ (p \notin Polls => Dict(p) = p)
        /\ (p \in Polls => Dict(p) = at[p])
        /\ \A s \in Sessions : Dict(p) = s => p \in Polls
        /\ Jobs \cap Sessions = {} /\ Wipers \cap Sessions = {}
    BY KindsApart DEF Dict, Dicts, Procs
  <1>1. ASSUME NEW q \in Procs, Acts(q), q # p
        PROVE  \/ view'[Dict(p)] = view[Dict(p)]
               \/ view'[Dict(p)] = Loaded(at[p]) /\ ~rec[at[p]].done
    <2>1. pc[q] \in Free
      BY <1>1, OthersOutside DEF Free
    <2>2. CASE TryLock(q)
      BY <1>0, <1>1, <2>2 DEF TryLock
    <2>3. ASSUME NEW s \in Sessions, StartPoll(q, s)
          PROVE  \/ view'[Dict(p)] = view[Dict(p)]
                 \/ view'[Dict(p)] = Loaded(at[p]) /\ ~rec[at[p]].done
      <3>1. \/ UNCHANGED view
            \/ view' = [view EXCEPT ![s] = Loaded(s)] /\ ~view'[s].done
        BY <2>3 DEF StartPoll
      <3>2. s \in Dicts /\ Loaded(s).done = rec[s].done
        BY DEF Dicts, Loaded
      <3> QED BY <1>0, <3>1, <3>2
    <2>4. ASSUME NEW s \in Sessions, q \in Jobs, StartJob(q, s)
          PROVE  view'[Dict(p)] = view[Dict(p)]
      BY <1>0, <1>1, <2>4 DEF StartJob
    <2>5. CASE StartWipe(q)
      BY <2>5 DEF StartWipe
    <2>6. \/ pc[q] \notin Free \/ TryLock(q) \/ StartWipe(q)
          \/ \E s \in Sessions : StartPoll(q, s) \/ (q \in Jobs /\ StartJob(q, s))
      BY <1>1 DEF Acts, Step, Wipe, Free, Refresh, LookFails, LookEmpty, Look, Exchange,
           ExchangeUnanswered, SpentBefore, TooManyRepeats, Hold, Keep, Refused, Remove,
           RemoveFails, QueueFails, DropHold, Record, Finish, Unlock, HandBackNext,
           Reset, Erase, ReleaseAndWipe
    <2> QED BY <2>1, <2>2, <2>3, <2>4, <2>5, <2>6
  <1>2. ~Acts(p)
    BY KindsApart
    DEF Acts, Step, Wipe, TryLock, Refresh, LookFails, LookEmpty, Look, Exchange,
        ExchangeUnanswered, SpentBefore, TooManyRepeats, Hold, Keep, Refused, Remove,
        RemoveFails, QueueFails, DropHold, Record, Finish, Unlock, HandBackNext, Reset,
        Erase, ReleaseAndWipe, StartPoll, StartJob, StartWipe, Go, IInv, LinkType
  <1>3. CASE WebDies \/ \E q \in Procs : WorkerDies(q)
    <2>1. ASSUME NEW q \in Procs, WorkerDies(q)
          PROVE  view'[Dict(p)] = view[Dict(p)]
      <3>1. q \notin Polls /\ q # p
        BY <2>1 DEF WorkerDies, Dies
      <3> QED BY <1>0, <2>1, <3>1 DEF WorkerDies, Dies, Procs
    <2>2. CASE WebDies
      <3>1. p \notin Polls
        BY <2>2 DEF WebDies, Dies
      <3> QED BY <1>0, <2>2, <3>1 DEF WebDies, Dies
    <2> QED BY <1>3, <2>1, <2>2
  <1>4. ASSUME NEW s \in Sessions, Forget(s) \/ Expire(s)
        PROVE  view'[Dict(p)] = view[Dict(p)]
    <2>1. Dict(p) # s
      BY <1>0, <1>4 DEF Forget, Expire
    <2> QED BY <1>0, <1>4, <2>1 DEF Forget, Expire
  <1>5. CASE \/ \E u \in Tokens : Report(u) \/ Retry(u)
             \/ \E s \in Sessions : LeaveWindow(s) \/ SetAside(s) \/ Abandon(s)
             \/ Turn \/ UNCHANGED vars
    BY <1>5 DEF Report, Retry, LeaveWindow, SetAside, Abandon, Turn, vars
  <1>6. \/ \E q \in Procs : Acts(q)
        \/ WebDies \/ \E q \in Procs : WorkerDies(q)
        \/ \E s \in Sessions : Forget(s) \/ Expire(s)
        \/ \E u \in Tokens : Report(u) \/ Retry(u)
        \/ \E s \in Sessions : LeaveWindow(s) \/ SetAside(s) \/ Abandon(s)
        \/ Turn \/ UNCHANGED vars
    BY DEF Next, Acts, Procs
  <1> QED BY <1>1, <1>2, <1>3, <1>4, <1>5, <1>6
------------------------------------------------------------------------------
(* No token of a session on record is presented twice.                     *)

(* What a finisher still means to take is unspent, but for what it has in  *)
(* hand; while it looks, it knows of every token that was spent.           *)
KnowsSpent(p) ==
  rec[at[p]].on =>
    /\ pc[p] = "look" =>
         \A t \in Mine(at[p]) : Spent(t) => Known(p).exch[t] # "open"
    /\ pc[p] \in Doing =>
         \A t \in todo[p] : plaid[t] = "ready" \/ (t = hand[p] /\ pc[p] # "take")

(* A spent token of a session on record has its outcome there, or is in    *)
(* the hands of the finisher that will record it.                          *)
Recorded(t) ==
  rec[Of[t]].on /\ Spent(t) =>
    exch[t] # "open" \/ \E p \in Procs : hand[p] = t /\ pc[p] \in InFlight

Knows ==
  crashes = 0 /\ faults = 0 =>
    /\ \A t \in Tokens : Recorded(t)
    /\ \A p \in Procs : KnowsSpent(p)

(* A session off the record does not come back to it.                      *)
LEMMA OffStays ==
  ASSUME RecOK, [Next]_vars
  PROVE  \A s \in Sessions : rec'[s].on => rec[s].on
  <1> USE DEF RecOK, Recs
  <1>0. Absent.on = FALSE
    BY DEF Absent
  <1>1. ASSUME NEW p, NEW a, MarkDone(p, a)
        PROVE  \A s \in Sessions : rec'[s].on => rec[s].on
    BY <1>1 DEF MarkDone, IsOpen
  <1>2. ASSUME NEW p \in Procs, Acts(p)
        PROVE  \A s \in Sessions : rec'[s].on => rec[s].on
    <2>1. CASE LookEmpty(p) \/ Finish(p)
      BY <1>1, <2>1 DEF LookEmpty, Finish
    <2>2. CASE Reset(p) \/ Erase(p)
      BY <1>0, <2>2 DEF Reset, Erase, IsOpen
    <2>3. CASE \/ TryLock(p) \/ Refresh(p) \/ LookFails(p) \/ Look(p)
               \/ \E t \in Tokens : Exchange(p, t) \/ ExchangeUnanswered(p, t)
                                    \/ SpentBefore(p, t) \/ TooManyRepeats(p, t)
               \/ Hold(p) \/ Keep(p) \/ Refused(p) \/ Remove(p) \/ RemoveFails(p)
               \/ QueueFails(p) \/ DropHold(p) \/ Record(p) \/ Unlock(p)
               \/ StartWipe(p)
               \/ \E s \in Sessions : StartPoll(p, s) \/ StartJob(p, s)
                                      \/ HandBackNext(p, s)
      <3>1. UNCHANGED rec
        BY <2>3 DEF TryLock, Refresh, LookFails, Look, Exchange, ExchangeUnanswered,
             SpentBefore, TooManyRepeats, Settle, Hold, Keep, Refused, Remove,
             RemoveFails, QueueFails, DropHold, Record, Unlock, StartWipe, StartPoll,
             StartJob, HandBackNext, record
      <3> QED BY <3>1
    <2> QED BY <1>2, <2>1, <2>2, <2>3 DEF Acts, Step, Wipe
  <1>3. ASSUME NEW s \in Sessions, SetAside(s) \/ Forget(s) \/ Abandon(s) \/ Expire(s)
        PROVE  \A u \in Sessions : rec'[u].on => rec[u].on
    BY <1>0, <1>3 DEF SetAside, Forget, Abandon, Expire, IsOpen
  <1>4. CASE \/ \E t \in Tokens : Report(t) \/ Retry(t)
             \/ \E s \in Sessions : LeaveWindow(s)
             \/ Turn \/ UNCHANGED vars
             \/ \E P \in SUBSET Procs, d \in SUBSET Dicts : Dies(P, d)
    BY <1>4 DEF Report, Retry, LeaveWindow, Turn, Dies, vars, record
  <1> QED BY <1>2, <1>3, <1>4, Steps

(* An outcome on record stays.                                             *)
LEMMA OutcomeStays ==
  ASSUME LinkInv, [Next]_vars, NEW t \in Tokens, exch[t] # "open"
  PROVE  exch'[t] # "open"
  <1> USE DEF LinkInv, Types, OutcomesOK
  <1>1. ASSUME NEW p \in Procs, Acts(p)
        PROVE  exch'[t] # "open"
    <2>1. CASE Record(p)
      <3>1. got[p] # "open"
        BY <2>1 DEF Record, FrameFact
      <3> QED BY <2>1, <3>1 DEF Record
    <2>2. CASE \/ TryLock(p) \/ Refresh(p) \/ LookFails(p) \/ Look(p) \/ LookEmpty(p)
               \/ \E u \in Tokens : Exchange(p, u) \/ ExchangeUnanswered(p, u)
                                    \/ SpentBefore(p, u) \/ TooManyRepeats(p, u)
               \/ Hold(p) \/ Keep(p) \/ Refused(p) \/ Remove(p) \/ RemoveFails(p)
               \/ QueueFails(p) \/ Finish(p) \/ DropHold(p) \/ Unlock(p)
               \/ StartWipe(p) \/ Reset(p) \/ Erase(p)
               \/ \E s \in Sessions : StartPoll(p, s) \/ StartJob(p, s)
                                      \/ HandBackNext(p, s)
      BY <2>2 DEF TryLock, Refresh, LookFails, Look, LookEmpty, Exchange,
           ExchangeUnanswered, SpentBefore, TooManyRepeats, Settle, Hold, Keep, Refused,
           Remove, RemoveFails, QueueFails, Finish, DropHold, Unlock, StartWipe, Reset,
           Erase, ReleaseAndWipe, StartPoll, StartJob, HandBackNext, record
    <2> QED BY <1>1, <2>1, <2>2 DEF Acts, Step, Wipe
  <1>2. CASE \/ \E u \in Tokens : Report(u) \/ Retry(u)
             \/ \E s \in Sessions : LeaveWindow(s) \/ SetAside(s) \/ Forget(s)
                                    \/ Abandon(s) \/ Expire(s)
             \/ \E P \in SUBSET Procs, d \in SUBSET Dicts : Dies(P, d)
             \/ Turn \/ UNCHANGED vars
    BY <1>2 DEF Report, Retry, LeaveWindow, SetAside, Forget, Abandon, Expire, Turn,
         Dies, vars, record
  <1> QED BY <1>1, <1>2, Steps

(* What is in hand is recorded by the finisher that has it.                *)
LEMMA InHandOrRecorded ==
  ASSUME LinkInv, [Next]_vars, NEW p \in Procs, pc[p] \in InFlight, rec[at[p]].on,
         crashes' = 0, faults' = 0, faults = 0
  PROVE  \/ hand'[p] = hand[p] /\ pc'[p] \in InFlight
         \/ exch'[hand[p]] # "open"
  <1> USE DEF LinkInv, IInv, LinkType, Types, PlacesOK, OutcomesOK
  <1>1. hand[p] \in Tokens
    BY DEF FrameFact, Mine
  <1>2. CASE Acts(p)
    <2>1. CASE Hold(p) \/ Keep(p) \/ Refused(p) \/ Remove(p) \/ RemoveFails(p)
               \/ QueueFails(p) \/ DropHold(p)
      BY <2>1 DEF Hold, Keep, Refused, Remove, RemoveFails, QueueFails, DropHold, Go,
           InFlight, Holding
    <2>2. CASE Record(p)
      <3>1. got[p] # "open"
        BY <2>2 DEF Record, FrameFact
      <3>2. exch' = [exch EXCEPT ![hand[p]] = got[p]]
        BY <2>2 DEF Record, Fault
      <3> QED BY <1>1, <3>1, <3>2
    <2>3. Hold(p) \/ Keep(p) \/ Refused(p) \/ Remove(p) \/ RemoveFails(p)
            \/ QueueFails(p) \/ DropHold(p) \/ Record(p)
      BY <1>2 DEF Acts, Step, Wipe, TryLock, Refresh, LookFails, LookEmpty, Look,
           Exchange, ExchangeUnanswered, SpentBefore, TooManyRepeats, Finish, Unlock,
           HandBackNext, Reset, Erase, ReleaseAndWipe, StartPoll, StartJob, StartWipe,
           InFlight, Holding
    <2> QED BY <2>1, <2>2, <2>3
  <1>3. CASE Still(p)
    BY <1>3 DEF Still
  <1> QED BY <1>2, <1>3, ActsOrStill

LEMMA RecordedStep ==
  ASSUME LinkInv, Knows, [Next]_vars, crashes' = 0, faults' = 0
  PROVE  \A t \in Tokens : Recorded(t)'
  <1> USE DEF LinkInv, Types
  <1>0. crashes = 0 /\ faults = 0
    BY CountTypes
  <1> SUFFICES ASSUME NEW t \in Tokens, rec'[Of[t]].on, Spent(t)'
               PROVE  \/ exch'[t] # "open"
                      \/ \E p \in Procs : hand'[p] = t /\ pc'[p] \in InFlight
    BY DEF Recorded
  <1>1. Recorded(t) /\ rec[Of[t]].on /\ Of[t] \in Sessions
    BY <1>0, OffStays, OfTokens DEF Knows
  <1>2. CASE Spent(t)
    <2>1. CASE exch[t] # "open"
      BY <2>1, OutcomeStays
    <2>2. ASSUME NEW p \in Procs, hand[p] = t, pc[p] \in InFlight
          PROVE  \/ exch'[t] # "open"
                 \/ hand'[p] = t /\ pc'[p] \in InFlight
      <3>1. at[p] = Of[t]
        BY <2>2 DEF FrameFact, Mine
      <3> QED BY <1>0, <1>1, <2>2, <3>1, InHandOrRecorded
    <2> QED BY <1>1, <1>2, <2>1, <2>2 DEF Recorded
  <1>3. CASE ~Spent(t)
    <2>1. PICK p \in Procs : Exchange(p, t) \/ ExchangeUnanswered(p, t)
      BY <1>3, PlaidStep DEF Spent
    <2>2. ~ExchangeUnanswered(p, t)
      BY <1>0 DEF ExchangeUnanswered, Fault
    <2>3. hand'[p] = t /\ pc'[p] \in InFlight
      BY <2>1, <2>2 DEF Exchange, Go, IInv, LinkType, InFlight, Holding
    <2> QED BY <2>3
  <1> QED BY <1>2, <1>3

LEMMA KnowsSpentStep ==
  ASSUME LinkInv, Knows, [Next]_vars, crashes' = 0, faults' = 0,
         NEW p \in Procs, rec'[at'[p]].on
  PROVE  /\ pc'[p] = "look" =>
              \A t \in Mine(at'[p]) : plaid'[t] \in {"live", "gone"}
                                        => Known(p)'.exch[t] # "open"
         /\ pc'[p] \in Doing =>
              \A t \in todo'[p] : \/ plaid'[t] = "ready"
                                  \/ t = hand'[p] /\ pc'[p] # "take"
  <1> USE DEF LinkInv, Types
  <1>0. /\ crashes = 0 /\ faults = 0
        /\ Dict(p) \in Dicts /\ at[p] \in Sessions /\ at'[p] \in Sessions
        /\ \A t \in Tokens : Recorded(t)
        /\ KnowsSpent(p)
    BY CountTypes, NextTypes DEF Knows, PlacesOK, Dict, Dicts, Procs
  <1>1. rec[at'[p]].on
    BY <1>0, OffStays
  <1>2. ASSUME pc[p] \in {"refresh", "next"}, NEW s \in Sessions, rec[s].on, UNCHANGED plaid
        PROVE  \A t \in Mine(s) : plaid'[t] \in {"live", "gone"}
                                    => Loaded(s).exch[t] = exch[t] /\ exch[t] # "open"
    <2> SUFFICES ASSUME NEW t \in Mine(s), plaid'[t] \in {"live", "gone"}
                 PROVE  Loaded(s).exch[t] = exch[t] /\ exch[t] # "open"
      OBVIOUS
    <2>1. t \in Tokens /\ Of[t] = s /\ Recorded(t) /\ Spent(t)
      BY <1>0, <1>2 DEF Mine, Spent
    <2>2. \A q \in Procs : pc[q] \notin InFlight
      BY <1>2, OthersOutside DEF Free, InFlight, Holding
    <2> QED BY <1>2, <2>1, <2>2 DEF Recorded, Loaded
  <1>3. ASSUME pc'[p] = "look", NEW t \in Mine(at'[p]), plaid'[t] \in {"live", "gone"}
        PROVE  Known(p)'.exch[t] # "open"
    <2>0. t \in Tokens
      BY DEF Mine
    <2>1. CASE Refresh(p)
      <3>1. /\ pc[p] = "refresh" /\ UNCHANGED <<plaid, at>>
            /\ view' = [view EXCEPT ![Dict(p)] = Refreshed(view[Dict(p)], at[p])]
        BY <1>0, <2>1 DEF Refresh, Fault, link
      <3>2. Known(p)' = Refreshed(view[Dict(p)], at[p])
        BY <1>0, <3>1 DEF Known, Dict, ViewOK
      <3>3. Loaded(at[p]).exch[t] = exch[t] /\ exch[t] # "open"
        BY <1>0, <1>1, <1>2, <1>3, <3>1
      <3> QED BY <1>1, <2>0, <3>1, <3>2, <3>3 DEF Refreshed
    <2>2. ASSUME p \in Wipers, NEW s \in Sessions, HandBackNext(p, s)
          PROVE  Known(p)'.exch[t] # "open"
      <3>1. /\ pc[p] = "next" /\ UNCHANGED plaid /\ p \notin Polls /\ rec[s].on
            /\ at' = [at EXCEPT ![p] = s] /\ view' = [view EXCEPT ![p] = Loaded(s)]
        BY <1>3, <2>2, KindsApart DEF HandBackNext, link, IsOpen, Wipe
      <3>2. at'[p] = s /\ Known(p)' = Loaded(s)
        BY <1>0, <3>1 DEF Known, Dict, ViewOK, PlacesOK
      <3> QED BY <1>2, <1>3, <3>1, <3>2
    <2>3. CASE pc[p] = "look" /\ Still(p)
      <3>1. at'[p] = at[p] /\ Known(p)' = view'[Dict(p)]
        BY <2>3 DEF Still, Known, Dict
      <3>2. Spent(t)
        <4>1. ASSUME NEW q \in Procs, Exchange(q, t) \/ ExchangeUnanswered(q, t)
              PROVE  FALSE
          BY <2>3, <4>1, OthersOutside DEF Exchange, ExchangeUnanswered, Free
        <4> QED BY <1>3, <2>0, <4>1, PlaidStep DEF Spent
      <3>3. CASE view'[Dict(p)] = view[Dict(p)]
        BY <1>0, <1>1, <1>3, <2>3, <3>1, <3>2, <3>3 DEF KnowsSpent, Known
      <3>4. CASE view'[Dict(p)] = Loaded(at[p])
        <4>1. \A q \in Procs : pc[q] \notin InFlight
          BY <2>3, OthersOutside DEF Free, InFlight, Holding
        <4>2. Of[t] = at[p] /\ Recorded(t)
          BY <1>0, <2>0, <3>1 DEF Mine
        <4> QED BY <1>1, <2>0, <3>1, <3>2, <3>4, <4>1, <4>2 DEF Recorded, Loaded
      <3> QED BY <1>3, <2>3, <3>3, <3>4, DictStands
    <2> QED BY <1>3, <2>1, <2>2, <2>3, ComesToLook
  <1>4. ASSUME pc'[p] \in Doing, NEW t \in todo'[p]
        PROVE  plaid'[t] = "ready" \/ (t = hand'[p] /\ pc'[p] # "take")
    <2>1. CASE Look(p)
      <3>1. /\ t \in Reported(at[p]) /\ Known(p).exch[t] = "open"
            /\ pc[p] = "look" /\ UNCHANGED <<plaid, at>>
        BY <2>1 DEF Look, link, PlacesOK
      <3>2. t \in Mine(at[p]) /\ plaid[t] # "none" /\ t \in Tokens
        BY <3>1 DEF Reported, Mine
      <3>3. ~Spent(t)
        BY <1>0, <1>1, <3>1, <3>2 DEF KnowsSpent
      <3> QED BY <3>1, <3>2, <3>3 DEF Spent, IInv, LinkType
    <2>2. CASE pc[p] \in Doing
      <3>1. at'[p] = at[p] /\ rec[at[p]].on
        BY <1>1, <1>4, StaysDoing
      <3>2. \A u \in todo[p] : /\ u \in Tokens
                               /\ plaid[u] = "ready" \/ (u = hand[p] /\ pc[p] # "take")
        BY <1>0, <2>2, <3>1 DEF KnowsSpent, PlacesOK
      <3>3. CASE Still(p)
        <4>1. t \in Tokens /\ (plaid[t] = "ready" \/ (t = hand[p] /\ pc[p] # "take"))
          BY <1>4, <3>2, <3>3 DEF Still
        <4>2. ASSUME NEW q \in Procs, Exchange(q, t)
              PROVE  t = hand'[p] /\ pc'[p] # "take"
          <5>1. q = p
            BY <2>2, <4>2, OneHolder DEF IInv, Exchange, Free, Doing, Holding
          <5> QED BY <4>2, <5>1 DEF Exchange, Go, IInv, LinkType
        <4>3. \A q \in Procs : ~ExchangeUnanswered(q, t)
          BY <1>0 DEF ExchangeUnanswered, Fault
        <4> QED BY <3>3, <4>1, <4>2, <4>3, PlaidStep DEF Spent, Still
      <3>4. CASE Record(p)
        BY <1>4, <3>2, <3>4 DEF Record, link, PlacesOK
      <3>5. CASE \E u \in Tokens : Exchange(p, u) \/ ExchangeUnanswered(p, u)
                                   \/ SpentBefore(p, u) \/ TooManyRepeats(p, u)
        <4>1. PICK u \in Tokens : Exchange(p, u) \/ SpentBefore(p, u) \/ TooManyRepeats(p, u)
          BY <1>0, <3>5 DEF ExchangeUnanswered, Fault
        <4>2. /\ pc[p] = "take" /\ UNCHANGED todo /\ hand' = [hand EXCEPT ![p] = u]
              /\ pc'[p] # "take"
              /\ UNCHANGED plaid \/ plaid' = [plaid EXCEPT ![u] = "live"]
          BY <4>1 DEF Exchange, SpentBefore, TooManyRepeats, Settle, Go, link, IInv,
               LinkType
        <4> QED BY <1>4, <3>2, <4>2 DEF IInv, LinkType
      <3>6. CASE Hold(p) \/ Keep(p) \/ Refused(p) \/ Remove(p) \/ RemoveFails(p)
                 \/ QueueFails(p) \/ DropHold(p)
        <4>1. /\ UNCHANGED <<todo, hand>> /\ pc'[p] # "take"
              /\ UNCHANGED plaid \/ plaid' = [plaid EXCEPT ![hand[p]] = "gone"]
          BY <3>6 DEF Hold, Keep, Refused, Remove, RemoveFails, QueueFails, DropHold, Go,
               link, IInv, LinkType
        <4> QED BY <1>4, <3>2, <4>1 DEF IInv, LinkType
      <3>7. CASE Acts(p)
        <4>1. \/ Record(p)
              \/ \E u \in Tokens : Exchange(p, u) \/ ExchangeUnanswered(p, u)
                                   \/ SpentBefore(p, u) \/ TooManyRepeats(p, u)
              \/ Hold(p) \/ Keep(p) \/ Refused(p) \/ Remove(p) \/ RemoveFails(p)
              \/ QueueFails(p) \/ DropHold(p) \/ Finish(p)
          BY <2>2, <3>7 DEF Acts, Step, Wipe, TryLock, Refresh, LookFails, LookEmpty,
               Look, Unlock, HandBackNext, Reset, Erase, ReleaseAndWipe, StartPoll,
               StartJob, StartWipe, Doing, Holding
        <4>2. ~Finish(p)
          BY <1>4 DEF Finish, Go, IInv, LinkType, Doing, Holding
        <4> QED BY <3>4, <3>5, <3>6, <4>1, <4>2
      <3> QED BY <1>4, <3>3, <3>7, ActsOrStill DEF Doing, Holding
    <2> QED BY <1>4, <2>1, <2>2, StaysDoing
  <1> QED BY <1>3, <1>4

LEMMA InitKnows == Init => Knows
  BY DEF Init, Knows, Recorded, KnowsSpent, Spent, Doing, Holding

LEMMA NextKnows ==
  ASSUME LinkInv, Knows, [Next]_vars
  PROVE  Knows'
  <1> SUFFICES ASSUME crashes' = 0, faults' = 0
               PROVE  /\ \A t \in Tokens : Recorded(t)'
                      /\ \A p \in Procs : KnowsSpent(p)'
    BY DEF Knows
  <1>1. ASSUME NEW p \in Procs
        PROVE  KnowsSpent(p)'
    BY KnowsSpentStep DEF KnowsSpent, Spent
  <1> QED BY <1>1, RecordedStep

(* Under the lock every door knows every outcome before it exchanges, so   *)
(* while nothing failed no token of a session on record is presented to    *)
(* Plaid twice (refresh).                                                  *)
THEOREM SpentOnce == Spec => []NoSecondExchange
  <1>1. LinkInv /\ Knows => NoSecondExchange
    BY DEF Knows, KnowsSpent, NoSecondExchange, Doing
  <1> QED BY <1>1, InitLinkInv, InitKnows, NextLinkInv, NextKnows, PTL DEF Spec
------------------------------------------------------------------------------
(* A session marked by a data reset keeps no bank.                         *)

Working == Doing \cup {"lock", "refresh", "look"}

(* The mark is on record, or the session is done; off the record, nobody   *)
(* holds the session nor comes to it.                                      *)
MarkKept(s) ==
  reset[s] = "marked" =>
    IF rec[s].on THEN rec[s].done \/ rec[s].refuse
    ELSE s \notin mem /\ \A p \in Procs : pc[p] \in Working => at[p] # s

(* Whoever works on a marked session knows, or has seen, that it refuses.  *)
MarkSeen(p) ==
  reset[at[p]] = "marked" =>
    /\ pc[p] = "look" => Known(p).refuse \/ refuse[p]
    /\ pc[p] \in Doing => refuse[p]

Marks ==
  faults = 0 =>
    /\ \A s \in Sessions : MarkKept(s)
    /\ \A p \in Procs : MarkSeen(p)
    /\ WipedGetsNoBank

(* A mark is put by the end of a reset, on a session still open, when      *)
(* nobody else is past the lock.                                           *)
LEMMA Marking ==
  ASSUME LinkInv, [Next]_vars, NEW s \in Sessions, reset'[s] = "marked"
  PROVE  \/ reset[s] = "marked"
         \/ \E p \in Wipers : Reset(p) /\ IsOpen(s)
  <1> USE DEF LinkInv, Types, OutsideOK
  <1>1. ASSUME NEW p \in Procs, Acts(p)
        PROVE  reset[s] = "marked" \/ (p \in Wipers /\ Reset(p) /\ IsOpen(s))
    <2>1. CASE p \in Wipers /\ Reset(p)
      BY <2>1 DEF Reset, Unmarked
    <2>2. CASE Erase(p)
      BY <2>2 DEF Erase, Unmarked
    <2>3. CASE \/ TryLock(p) \/ Refresh(p) \/ LookFails(p) \/ Look(p) \/ LookEmpty(p)
               \/ \E u \in Tokens : Exchange(p, u) \/ ExchangeUnanswered(p, u)
                                    \/ SpentBefore(p, u) \/ TooManyRepeats(p, u)
               \/ Hold(p) \/ Keep(p) \/ Refused(p) \/ Remove(p) \/ RemoveFails(p)
               \/ QueueFails(p) \/ Finish(p) \/ DropHold(p) \/ Record(p) \/ Unlock(p)
               \/ StartWipe(p)
               \/ \E u \in Sessions : StartPoll(p, u) \/ StartJob(p, u)
                                      \/ HandBackNext(p, u)
      <3>1. UNCHANGED reset
        BY <2>3 DEF TryLock, Refresh, LookFails, Look, LookEmpty, Exchange,
           ExchangeUnanswered, SpentBefore, TooManyRepeats, Settle, Hold, Keep, Refused,
           Remove, RemoveFails, QueueFails, Finish, DropHold, Record, Unlock, StartWipe,
           StartPoll, StartJob, HandBackNext, outside
      <3> QED BY <3>1
    <2> QED BY <1>1, <2>1, <2>2, <2>3 DEF Acts, Step, Wipe
  <1>2. CASE \/ \E u \in Tokens : Report(u) \/ Retry(u)
             \/ \E u \in Sessions : LeaveWindow(u) \/ SetAside(u) \/ Forget(u)
                                    \/ Abandon(u) \/ Expire(u)
             \/ \E P \in SUBSET Procs, d \in SUBSET Dicts : Dies(P, d)
             \/ Turn \/ UNCHANGED vars
    BY <1>2 DEF Report, Retry, LeaveWindow, SetAside, Forget, Abandon, Expire, Turn,
         Dies, Unmark, Unmarked, vars, outside
  <1> QED BY <1>1, <1>2, Steps

(* A session that is on record and stays so keeps its finish and its mark, *)
(* unless the person sets it aside.                                        *)
LEMMA RecordStays ==
  ASSUME LinkInv, [Next]_vars, NEW s \in Sessions, reset[s] = "marked", reset'[s] = "marked",
         rec[s].done \/ rec[s].refuse, rec'[s].on
  PROVE  rec'[s].done \/ rec'[s].refuse
  <1> USE DEF LinkInv, Types, OutsideOK, RecOK, Recs
  <1>0. Absent.on = FALSE /\ \A a : [Fresh EXCEPT !.done = TRUE, !.answer = a].done = TRUE
    BY DEF Absent, Fresh
  <1>1. ASSUME NEW p, NEW a, MarkDone(p, a)
        PROVE  rec'[s].done \/ rec'[s].refuse
    <2>1. \/ rec'[s] = rec[s]
          \/ rec'[s] = [Fresh EXCEPT !.done = TRUE, !.answer = a]
      BY <1>1 DEF MarkDone
    <2>2. rec'[s] = rec[s] \/ rec'[s].done = TRUE
      BY <1>0, <2>1, Zenon
    <2> QED BY <2>2
  <1>2. ASSUME NEW p \in Procs, Acts(p)
        PROVE  rec'[s].done \/ rec'[s].refuse
    <2>1. CASE LookEmpty(p) \/ Finish(p)
      BY <1>1, <2>1 DEF LookEmpty, Finish
    <2>2. CASE Reset(p) \/ Erase(p)
      BY <1>0, <2>2 DEF Reset, Erase
    <2>3. CASE \/ TryLock(p) \/ Refresh(p) \/ LookFails(p) \/ Look(p)
               \/ \E t \in Tokens : Exchange(p, t) \/ ExchangeUnanswered(p, t)
                                    \/ SpentBefore(p, t) \/ TooManyRepeats(p, t)
               \/ Hold(p) \/ Keep(p) \/ Refused(p) \/ Remove(p) \/ RemoveFails(p)
               \/ QueueFails(p) \/ DropHold(p) \/ Record(p) \/ Unlock(p)
               \/ StartWipe(p)
               \/ \E u \in Sessions : StartPoll(p, u) \/ StartJob(p, u)
                                      \/ HandBackNext(p, u)
      <3>1. UNCHANGED rec
        BY <2>3 DEF TryLock, Refresh, LookFails, Look, Exchange, ExchangeUnanswered,
             SpentBefore, TooManyRepeats, Settle, Hold, Keep, Refused, Remove,
             RemoveFails, QueueFails, DropHold, Record, Unlock, StartWipe, StartPoll,
             StartJob, HandBackNext, record
      <3> QED BY <3>1
    <2> QED BY <1>2, <2>1, <2>2, <2>3 DEF Acts, Step, Wipe
  <1>3. ASSUME NEW u \in Sessions, SetAside(u) \/ Forget(u)
        PROVE  rec'[s].done \/ rec'[s].refuse
    <2>1. CASE u # s
      BY <1>3, <2>1 DEF SetAside, Forget
    <2>2. CASE u = s
      <3>1. ~SetAside(s)
        BY DEF SetAside, Unmark, Unmarked
      <3>2. Forget(s) => UNCHANGED rec
        BY DEF Forget, Unmark, Unmarked
      <3> QED BY <1>3, <2>2, <3>1, <3>2
    <2> QED BY <2>1, <2>2
  <1>4. ASSUME NEW u \in Sessions, Abandon(u) \/ Expire(u)
        PROVE  rec'[s].done \/ rec'[s].refuse
    <2>1. \/ rec'[s] = rec[s] \/ rec'[s] = Absent
          \/ rec'[s] = [Fresh EXCEPT !.done = TRUE, !.answer = "exited"]
      BY <1>4 DEF Abandon, Expire
    <2>2. rec'[s] = rec[s] \/ rec'[s].on = FALSE \/ rec'[s].done = TRUE
      BY <1>0, <2>1, Zenon
    <2> QED BY <2>2
  <1>5. CASE \/ \E t \in Tokens : Report(t) \/ Retry(t)
             \/ \E u \in Sessions : LeaveWindow(u)
             \/ Turn \/ UNCHANGED vars
             \/ \E P \in SUBSET Procs, d \in SUBSET Dicts : Dies(P, d)
    BY <1>5 DEF Report, Retry, LeaveWindow, Turn, Dies, vars, record
  <1> QED BY <1>2, <1>3, <1>4, <1>5, Steps

(* A marked session leaves the record by its expiry alone.                 *)
LEMMA MarkedExpires ==
  ASSUME LinkInv, [Next]_vars, NEW s \in Sessions, reset'[s] = "marked",
         rec[s].on, ~rec'[s].on
  PROVE  Expire(s)
  <1> USE DEF LinkInv, Types, OutsideOK, RecOK, Recs
  <1>0. Fresh.on = TRUE /\ \A a : [Fresh EXCEPT !.done = TRUE, !.answer = a].on = TRUE
    BY DEF Absent, Fresh
  <1>1. ASSUME NEW p, NEW a, MarkDone(p, a)
        PROVE  FALSE
    <2>1. \/ rec'[s] = rec[s]
          \/ rec'[s] = [Fresh EXCEPT !.done = TRUE, !.answer = a]
      BY <1>1 DEF MarkDone
    <2>2. rec'[s] = rec[s] \/ rec'[s].on = TRUE
      BY <1>0, <2>1, Zenon
    <2> QED BY <2>2
  <1>2. ASSUME NEW p \in Procs, Acts(p)
        PROVE  FALSE
    <2>1. CASE LookEmpty(p) \/ Finish(p)
      BY <1>1, <2>1 DEF LookEmpty, Finish
    <2>2. CASE Reset(p) \/ Erase(p)
      BY <1>0, <2>2 DEF Reset, Erase, Unmarked
    <2>3. CASE \/ TryLock(p) \/ Refresh(p) \/ LookFails(p) \/ Look(p)
               \/ \E t \in Tokens : Exchange(p, t) \/ ExchangeUnanswered(p, t)
                                    \/ SpentBefore(p, t) \/ TooManyRepeats(p, t)
               \/ Hold(p) \/ Keep(p) \/ Refused(p) \/ Remove(p) \/ RemoveFails(p)
               \/ QueueFails(p) \/ DropHold(p) \/ Record(p) \/ Unlock(p)
               \/ StartWipe(p)
               \/ \E u \in Sessions : StartPoll(p, u) \/ StartJob(p, u)
                                      \/ HandBackNext(p, u)
      <3>1. UNCHANGED rec
        BY <2>3 DEF TryLock, Refresh, LookFails, Look, Exchange, ExchangeUnanswered,
             SpentBefore, TooManyRepeats, Settle, Hold, Keep, Refused, Remove,
             RemoveFails, QueueFails, DropHold, Record, Unlock, StartWipe, StartPoll,
             StartJob, HandBackNext, record
      <3> QED BY <3>1
    <2> QED BY <1>2, <2>1, <2>2, <2>3 DEF Acts, Step, Wipe
  <1>3. ASSUME NEW u \in Sessions, Forget(u) \/ Expire(u)
        PROVE  Expire(s)
    <2>1. u = s
      BY <1>3 DEF Forget, Expire
    <2>2. ~Forget(s)
      BY DEF Forget, Unmark, Unmarked
    <2> QED BY <1>3, <2>1, <2>2
  <1>4. ASSUME NEW u \in Sessions, SetAside(u) \/ Abandon(u)
        PROVE  FALSE
    <2>1. \/ rec'[s] = rec[s]
          \/ rec'[s] = [Fresh EXCEPT !.aside = TRUE]
          \/ rec'[s] = [Fresh EXCEPT !.done = TRUE, !.answer = "exited"]
      BY <1>4 DEF SetAside, Abandon
    <2>2. [Fresh EXCEPT !.aside = TRUE].on = TRUE
      BY DEF Absent, Fresh
    <2>3. rec'[s] = rec[s] \/ rec'[s].on = TRUE
      BY <1>0, <2>1, <2>2, Zenon
    <2> QED BY <2>3
  <1>5. CASE \/ \E t \in Tokens : Report(t) \/ Retry(t)
             \/ \E u \in Sessions : LeaveWindow(u)
             \/ Turn \/ UNCHANGED vars
             \/ \E P \in SUBSET Procs, d \in SUBSET Dicts : Dies(P, d)
    BY <1>5 DEF Report, Retry, LeaveWindow, Turn, Dies, vars, record
  <1> QED BY <1>2, <1>3, <1>4, <1>5, Steps

(* Nobody comes to a session that neither the record nor the memory has.   *)
LEMMA NobodyComes ==
  ASSUME LinkInv, [Next]_vars, NEW s \in Sessions, ~rec[s].on, s \notin mem,
         \A p \in Procs : pc[p] \in Working => at[p] # s
  PROVE  s \notin mem' /\ \A p \in Procs : pc'[p] \in Working => at'[p] # s
  <1> USE DEF LinkInv, IInv, LinkType, Types, OutsideOK, PlacesOK
  <1>1. ASSUME NEW p \in Procs, Acts(p)
        PROVE  /\ s \notin mem'
               /\ pc'[p] \in Working => at'[p] # s
    <2>1. ASSUME NEW u \in Sessions, StartPoll(p, u) \/ StartJob(p, u) \/ HandBackNext(p, u)
          PROVE  /\ s \notin mem'
                 /\ pc'[p] \in Working => at'[p] # s
      <3>1. CASE pc'[p] = pc[p]
        BY <2>1, <3>1 DEF StartPoll, StartJob, HandBackNext, Come, Go
      <3>2. CASE pc'[p] # pc[p]
        <4>1. at'[p] = u /\ u # s
          BY <2>1, <3>2 DEF StartPoll, StartJob, HandBackNext, IsOpen, Come
        <4>2. s \notin mem'
          BY <2>1, <4>1 DEF StartPoll, StartJob, HandBackNext
        <4> QED BY <4>1, <4>2
      <3> QED BY <3>1, <3>2
    <2>2. CASE \/ TryLock(p) \/ Refresh(p) \/ LookFails(p) \/ Look(p) \/ LookEmpty(p)
               \/ \E t \in Tokens : Exchange(p, t) \/ ExchangeUnanswered(p, t)
                                    \/ SpentBefore(p, t) \/ TooManyRepeats(p, t)
               \/ Hold(p) \/ Keep(p) \/ Refused(p) \/ Remove(p) \/ RemoveFails(p)
               \/ QueueFails(p) \/ DropHold(p) \/ Record(p) \/ Finish(p)
      <3>1. UNCHANGED <<mem, at>> /\ pc[p] \in Working
        BY <2>2 DEF TryLock, LetGo, Refresh, LookFails, Look, LookEmpty, Exchange,
             ExchangeUnanswered, SpentBefore, TooManyRepeats, Settle, Hold, Keep, Refused,
             Remove, RemoveFails, QueueFails, DropHold, Record, Finish, Working, Doing,
             Holding
      <3> QED BY <3>1
    <2>3. CASE Unlock(p) \/ StartWipe(p) \/ Reset(p) \/ Erase(p)
      <3>1. UNCHANGED mem /\ pc'[p] \notin Working
        BY <2>3 DEF Unlock, StartWipe, Reset, Erase, ReleaseAndWipe, LetGo, Go, Working,
             Doing, Holding
      <3> QED BY <3>1
    <2> QED BY <1>1, <2>1, <2>2, <2>3 DEF Acts, Step, Wipe
  <1>2. ASSUME NEW p \in Procs, Acts(p)
        PROVE  s \notin mem' /\ \A q \in Procs : pc'[q] \in Working => at'[q] # s
    BY <1>1, <1>2, OneActs
  <1>3. CASE WebDies \/ \E p \in Procs : WorkerDies(p)
    BY <1>3 DEF WebDies, WorkerDies, Dies, Working, Doing, Holding
  <1>4. CASE \/ \E t \in Tokens : Report(t) \/ Retry(t)
             \/ \E u \in Sessions : LeaveWindow(u) \/ SetAside(u) \/ Forget(u)
                                    \/ Abandon(u) \/ Expire(u)
             \/ Turn \/ UNCHANGED vars
    BY <1>4 DEF Report, Retry, LeaveWindow, SetAside, Forget, Abandon, Expire, Turn,
         vars, frame
  <1> QED BY <1>2, <1>3, <1>4 DEF Next, Acts, Procs

LEMMA MarkKeptStep ==
  ASSUME LinkInv, Marks, [Next]_vars, faults' = 0, NEW s \in Sessions, reset'[s] = "marked"
  PROVE  IF rec'[s].on THEN rec'[s].done \/ rec'[s].refuse
         ELSE s \notin mem' /\ \A p \in Procs : pc'[p] \in Working => at'[p] # s
  <1> USE DEF LinkInv, Types
  <1>1. ASSUME NEW p \in Wipers, Reset(p), IsOpen(s)
        PROVE  rec'[s].on /\ rec'[s].refuse
    <2>1. rec'[s] = [rec[s] EXCEPT !.refuse = TRUE] /\ rec[s].on
      BY <1>1 DEF Reset, IsOpen
    <2>2. rec[s] \in Recs
      BY DEF RecOK
    <2> QED BY <2>1, <2>2 DEF Recs
  <1>2. CASE reset[s] = "marked"
    <2>1. MarkKept(s)
      BY CountTypes DEF Marks
    <2>2. CASE rec[s].on /\ rec'[s].on
      BY <1>2, <2>1, <2>2, RecordStays DEF MarkKept
    <2>3. CASE rec[s].on /\ ~rec'[s].on
      <3>1. Expire(s)
        BY <2>3, MarkedExpires
      <3>2. /\ s \notin mem' /\ UNCHANGED <<pc, at>>
            /\ \A p \in Procs : pc[p] # "idle" => at[p] # s
        BY <3>1 DEF Expire, frame
      <3> QED BY <2>3, <3>2 DEF Working, Doing, Holding
    <2>4. CASE ~rec[s].on
      <3>1. ~rec'[s].on
        BY <2>4, OffStays
      <3>2. s \notin mem /\ \A p \in Procs : pc[p] \in Working => at[p] # s
        BY <1>2, <2>1, <2>4 DEF MarkKept
      <3> QED BY <2>4, <3>1, <3>2, NobodyComes
    <2> QED BY <2>2, <2>3, <2>4
  <1>3. CASE reset[s] # "marked"
    BY <1>1, <1>3, Marking
  <1> QED BY <1>2, <1>3

(* The mark was there before, for whoever is past the lock.                *)
LEMMA MarkedBefore ==
  ASSUME LinkInv, [Next]_vars, NEW p \in Procs, pc[p] \in Doing \cup {"look"},
         reset'[at[p]] = "marked"
  PROVE  reset[at[p]] = "marked"
  <1>1. at[p] \in Sessions
    BY DEF LinkInv, Types, PlacesOK
  <1>2. ASSUME NEW q \in Wipers, Reset(q)
        PROVE  FALSE
    <2>1. q \in Procs /\ pc[q] = "next"
      BY <1>2 DEF Reset, ReleaseAndWipe, Procs
    <2> QED BY <2>1, OneHolder DEF LinkInv, IInv, Free, Doing, Holding
  <1> QED BY <1>1, <1>2, Marking

LEMMA MarkSeenStep ==
  ASSUME LinkInv, Marks, [Next]_vars, faults' = 0, NEW p \in Procs,
         reset'[at'[p]] = "marked"
  PROVE  /\ pc'[p] = "look" => Known(p)'.refuse \/ refuse'[p]
         /\ pc'[p] \in Doing => refuse'[p]
  <1> USE DEF LinkInv, Types
  <1>0. /\ faults = 0 /\ (\A s \in Sessions : MarkKept(s)) /\ MarkSeen(p)
        /\ Dict(p) \in Dicts /\ at[p] \in Sessions
    BY CountTypes DEF Marks, PlacesOK, Dict, Dicts, Procs
  <1>1. ASSUME NEW s \in Sessions, reset[s] = "marked", rec[s].on, ~rec[s].done
        PROVE  Loaded(s).refuse
    <2>1. rec[s].refuse
      BY <1>0, <1>1 DEF MarkKept
    <2> QED BY <1>1, <2>1 DEF Loaded
  <1>2. ASSUME pc[p] \in Working, reset[at[p]] = "marked"
        PROVE  rec[at[p]].on
    BY <1>0, <1>2 DEF MarkKept
  <1>3. ASSUME pc'[p] = "look"
        PROVE  Known(p)'.refuse \/ refuse'[p]
    <2>1. CASE Refresh(p)
      <3>1. /\ pc[p] = "refresh" /\ UNCHANGED <<reset, at>>
            /\ view' = [view EXCEPT ![Dict(p)] = Refreshed(view[Dict(p)], at[p])]
            /\ ~view'[Dict(p)].done
        BY <1>0, <1>3, <2>1 DEF Refresh, Fault, outside, Go, IInv, LinkType
      <3>2. Known(p)' = Refreshed(view[Dict(p)], at[p]) /\ ~Known(p)'.done
        BY <1>0, <3>1 DEF Known, Dict, ViewOK
      <3>3. reset[at[p]] = "marked" /\ rec[at[p]].on
        BY <1>2, <3>1 DEF Working
      <3>. DEFINE v == view[Dict(p)]
      <3>4. /\ Refreshed(v, at[p]).done = (v.done \/ rec[at[p]].done)
            /\ Refreshed(v, at[p]).refuse = (v.refuse \/ Loaded(at[p]).refuse)
        BY <3>3 DEF Refreshed
      <3>5. ~rec[at[p]].done
        BY <3>2, <3>4
      <3>6. Loaded(at[p]).refuse
        BY <1>0, <1>1, <3>3, <3>5
      <3> QED BY <3>2, <3>4, <3>6
    <2>2. ASSUME p \in Wipers, NEW s \in Sessions, HandBackNext(p, s)
          PROVE  Known(p)'.refuse
      <3>1. /\ pc[p] = "next" /\ UNCHANGED reset /\ p \notin Polls
            /\ rec[s].on /\ ~rec[s].done
            /\ at' = [at EXCEPT ![p] = s] /\ view' = [view EXCEPT ![p] = Loaded(s)]
        BY <1>3, <2>2, KindsApart DEF HandBackNext, outside, IsOpen
      <3>2. at'[p] = s /\ Known(p)' = Loaded(s)
        BY <1>0, <3>1 DEF Known, Dict, ViewOK, PlacesOK
      <3> QED BY <1>1, <3>1, <3>2
    <2>3. CASE pc[p] = "look" /\ Still(p)
      <3>1. /\ at'[p] = at[p] /\ refuse'[p] = refuse[p] /\ Known(p)' = view'[Dict(p)]
            /\ reset[at[p]] = "marked" /\ rec[at[p]].on
        BY <1>2, <2>3, MarkedBefore DEF Still, Known, Dict, Working
      <3>2. CASE view'[Dict(p)] = view[Dict(p)]
        BY <1>0, <2>3, <3>1, <3>2 DEF MarkSeen, Known
      <3>3. CASE view'[Dict(p)] = Loaded(at[p]) /\ ~rec[at[p]].done
        BY <1>0, <1>1, <3>1, <3>3
      <3> QED BY <1>3, <2>3, <3>2, <3>3, DictStands
    <2> QED BY <1>3, <2>1, <2>2, <2>3, ComesToLook
  <1>4. ASSUME pc'[p] \in Doing
        PROVE  refuse'[p]
    <2>1. at'[p] = at[p] /\ (Look(p) \/ pc[p] \in Doing)
      BY <1>4, StaysDoing
    <2>2. CASE Look(p)
      <3>1. pc[p] = "look" /\ UNCHANGED reset
        BY <2>2 DEF Look, outside
      <3>2. Known(p).refuse \/ refuse[p]
        BY <1>0, <2>1, <3>1 DEF MarkSeen
      <3>3. refuse' = [refuse EXCEPT ![p] = refuse[p] \/ Known(p).refuse]
        BY <2>2 DEF Look
      <3>4. refuse'[p] = (refuse[p] \/ Known(p).refuse)
        BY <3>3 DEF IInv, LinkType
      <3> QED BY <3>2, <3>4
    <2>3. CASE pc[p] \in Doing
      <3>1. reset[at[p]] = "marked"
        BY <2>1, <2>3, MarkedBefore
      <3> QED BY <1>0, <1>4, <2>3, <3>1, StaysDoing DEF MarkSeen
    <2> QED BY <2>1, <2>2, <2>3
  <1> QED BY <1>3, <1>4

LEMMA RowStep ==
  ASSUME LinkInv, [Next]_vars, NEW t \in Tokens, t \in row'
  PROVE  t \in row \/ \E p \in Procs : Keep(p) /\ t = hand[p]
  <1>1. ASSUME NEW p \in Procs, Acts(p)
        PROVE  t \in row \/ (Keep(p) /\ t = hand[p])
    <2>1. CASE Keep(p) \/ Reset(p) \/ Erase(p)
      BY <2>1 DEF Keep, Reset, Erase, ReleaseAndWipe
    <2>2. CASE \/ TryLock(p) \/ Refresh(p) \/ LookFails(p) \/ Look(p) \/ LookEmpty(p)
               \/ \E u \in Tokens : Exchange(p, u) \/ ExchangeUnanswered(p, u)
                                    \/ SpentBefore(p, u) \/ TooManyRepeats(p, u)
               \/ Hold(p) \/ Refused(p) \/ Remove(p) \/ RemoveFails(p)
               \/ QueueFails(p) \/ DropHold(p) \/ Record(p) \/ Finish(p) \/ Unlock(p)
               \/ StartWipe(p)
               \/ \E s \in Sessions : StartPoll(p, s) \/ StartJob(p, s)
                                      \/ HandBackNext(p, s)
      <3>1. UNCHANGED row
        BY <2>2 DEF TryLock, Refresh, LookFails, Look, LookEmpty, Exchange,
           ExchangeUnanswered, SpentBefore, TooManyRepeats, Settle, Hold, Refused, Remove,
           RemoveFails, QueueFails, DropHold, Record, Finish, Unlock, StartWipe,
           StartPoll, StartJob, HandBackNext, link
      <3> QED BY <3>1
    <2> QED BY <1>1, <2>1, <2>2 DEF Acts, Step, Wipe
  <1>2. CASE \/ \E u \in Tokens : Report(u) \/ Retry(u)
             \/ \E u \in Sessions : LeaveWindow(u) \/ SetAside(u) \/ Forget(u)
                                    \/ Abandon(u) \/ Expire(u)
             \/ \E P \in SUBSET Procs, d \in SUBSET Dicts : Dies(P, d)
             \/ Turn \/ UNCHANGED vars
    BY <1>2 DEF Report, Retry, LeaveWindow, SetAside, Forget, Abandon, Expire, Turn,
         Dies, vars, link
  <1> QED BY <1>1, <1>2, Steps

LEMMA NoBankStep ==
  ASSUME LinkInv, Marks, [Next]_vars, faults' = 0, NEW t \in Tokens, t \in row'
  PROVE  reset'[Of[t]] # "marked"
  <1> USE DEF LinkInv, Types
  <1>0. faults = 0 /\ Of[t] \in Sessions
    BY CountTypes, OfTokens
  <1> SUFFICES ASSUME reset'[Of[t]] = "marked" PROVE FALSE
    OBVIOUS
  <1>1. \A p : ~Reset(p)
    BY DEF Reset, ReleaseAndWipe
  <1>2. reset[Of[t]] = "marked"
    BY <1>0, <1>1, Marking
  <1>3. t \notin row
    BY <1>0, <1>2 DEF Marks, WipedGetsNoBank
  <1>4. PICK p \in Procs : Keep(p) /\ t = hand[p]
    BY <1>3, RowStep
  <1>5. pc[p] = "keep" /\ ~refuse[p] /\ at[p] = Of[t]
    BY <1>4 DEF Keep, IInv, HandFact, FrameFact, InFlight, Holding, Mine
  <1> QED BY <1>0, <1>2, <1>5 DEF Marks, MarkSeen, Doing, Holding

LEMMA InitMarks == Init => Marks
  BY DEF Init, Marks, MarkKept, MarkSeen, WipedGetsNoBank

LEMMA NextMarks ==
  ASSUME LinkInv, Marks, [Next]_vars
  PROVE  Marks'
  <1> SUFFICES ASSUME faults' = 0
               PROVE  /\ \A s \in Sessions : MarkKept(s)'
                      /\ \A p \in Procs : MarkSeen(p)'
                      /\ WipedGetsNoBank'
    BY DEF Marks
  <1>1. ASSUME NEW s \in Sessions
        PROVE  MarkKept(s)'
    BY MarkKeptStep DEF MarkKept
  <1>2. ASSUME NEW p \in Procs
        PROVE  MarkSeen(p)'
    BY MarkSeenStep DEF MarkSeen
  <1>3. row' \subseteq Tokens
    BY NextTypes DEF LinkInv, Types, ItemsOK
  <1> QED BY <1>1, <1>2, <1>3, NoBankStep DEF WipedGetsNoBank

(* A household wiped while a link was open gets no bank from that link,    *)
(* whichever door finishes it, unless its mark was written over by a       *)
(* set_aside, deleted (by a forget, or a later wipe), or could not be read *)
(* (refuse_open_adds).                                                     *)
THEOREM MarkedGetsNoBank == Spec => []WipedGetsNoBank
  <1>1. LinkInv /\ Marks => WipedGetsNoBank
    BY DEF Marks, WipedGetsNoBank
  <1>2. LinkInv /\ Marks /\ [Next]_vars => Marks'
    BY NextMarks
  <1> QED BY <1>1, <1>2, InitLinkInv, InitMarks, NextLinkInv, PTL DEF Spec
==============================================================================
