------------------------------ MODULE BulkTurn ------------------------------
(* BulkImport with a record of what held during each file's turn.          *)
EXTENDS BulkImport

(* Per worker in a turn: which of the conditions it re-checks have held at *)
(* some moment since the turn came.                                        *)
VARIABLE held

Conditions == {"wanted", "starter", "household"}

HeldNow(w) ==
  LET j == run[w].job IN
  {c \in Conditions : /\ c = "wanted" => ~job[j].cancel
                      /\ c = "starter" => signedIn[j]
                      /\ c = "household" => household[j] = "open"}

Checking == {"turn", "starter", "standing", "claimFile"}

TurnInit == Init /\ held = [w \in Workers |-> {}]

TurnNext ==
  /\ Next
  /\ held' = [w \in Workers |->
       IF pc'[w] \in Checking THEN HeldNow(w)' \cup held[w] ELSE {}]

TurnSpec == TurnInit /\ [][TurnNext]_<<vars, held>>

(* "once the turn has come, and not before": no file is started on a       *)
(* standing from before its wait.  What a cancel, a sign-out or a lockout  *)
(* took away before the lock was won, and did not give back, stops it.     *)
NoStaleTurn ==
  [][\A w \in Workers :
       pc[w] = "claimFile" /\ pc'[w] = "write" => held[w] = Conditions]_<<vars, held>>
=============================================================================
