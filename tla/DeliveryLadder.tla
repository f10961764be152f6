-------------------------- MODULE DeliveryLadder --------------------------
(***************************************************************************)
(* What the webhook outbox promises about each queued delivery, whoever    *)
(* carries it: a retry ladder of at most MaxAttempts counted attempts,     *)
(* outcomes that are final, and no pending delivery lost unless its hook   *)
(* was deleted.  Leases, passes, time and processes are left out.          *)
(***************************************************************************)
EXTENDS Naturals

CONSTANTS Hooks, NoHook, Rows, MaxAttempts

VARIABLES
  delivery, \* Rows -> [st, hook, attempts]
  gone      \* hooks deleted so far

Pending(r) == delivery[r].st = "pending"

Unused == [st |-> "unused", hook |-> NoHook, attempts |-> 0]

Init == /\ delivery = [r \in Rows |-> Unused]
        /\ gone = {}

(* A hook is deleted; its deliveries may now be dropped.                   *)
DeleteHook(h) == /\ gone' = gone \cup {h}
                 /\ UNCHANGED delivery

Queue(r, h) ==
  /\ delivery[r] = Unused
  /\ delivery' = [delivery EXCEPT ![r] =
                    [st |-> "pending", hook |-> h, attempts |-> 0]]
  /\ UNCHANGED gone

(* One counted attempt ends the delivery or leaves it pending.  A failure  *)
(* leaves it pending exactly while attempts remain.                        *)
Attempt(r) ==
  /\ Pending(r)
  /\ \E st \in {"pending", "delivered", "failed"} :
       /\ st = "pending" => delivery[r].attempts + 1 < MaxAttempts
       /\ st = "failed" => delivery[r].attempts + 1 = MaxAttempts
       /\ delivery' = [delivery EXCEPT ![r] =
            [st |-> st, hook |-> @.hook, attempts |-> @.attempts + 1]]
  /\ UNCHANGED gone

(* A hook is given up on: everything it still had pending has failed.      *)
GiveUp(h) ==
  /\ delivery' = [r \in Rows |->
       IF delivery[r].hook = h /\ Pending(r)
       THEN [delivery[r] EXCEPT !.st = "failed"] ELSE delivery[r]]
  /\ UNCHANGED gone

(* Rows leave the table when settled, or when their hook is gone.          *)
Drop(S) ==
  /\ \A r \in S : delivery[r].st \in {"delivered", "failed", "pruned"}
                    \/ delivery[r].hook \in gone
  /\ delivery' = [r \in Rows |->
       IF r \in S THEN [delivery[r] EXCEPT !.st = "pruned"] ELSE delivery[r]]
  /\ UNCHANGED gone

Next ==
  \/ \E h \in Hooks : DeleteHook(h) \/ GiveUp(h)
  \/ \E r \in Rows : Attempt(r) \/ \E h \in Hooks : Queue(r, h)
  \/ \E S \in SUBSET Rows : Drop(S)

Spec == Init /\ [][Next]_<<delivery, gone>>
============================================================================
