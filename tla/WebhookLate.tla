---------------------------- MODULE WebhookLate ----------------------------
(* WebhookOutbox with a count of the posts that leave after a switch-off.  *)
EXTENDS WebhookOutbox

(* Posts each pass started for each hook while the hook was off or gone,   *)
(* or its household not active, since it was last resumed.                 *)
VARIABLE late

Stopped(h) == household # "active" \/ ~On(h)

LateInit == Init /\ late = [p \in Drainers |-> [h \in Hooks |-> 0]]

Starts(p, h) == pc[p] = "post" /\ pc'[p] = "sending" /\ row[cur[p]].hook = h

Resumed(h) == Stopped(h) /\ ~Stopped(h)'

LateNext ==
  /\ Next
  /\ late' = [p \in Drainers |-> [h \in Hooks |->
       IF Resumed(h) THEN 0
       ELSE late[p][h] + IF Starts(p, h) /\ Stopped(h) THEN 1 ELSE 0]]

LateSpec == LateInit /\ [][LateNext]_<<vars, late>>

(* A hook switched off or deleted, or one whose household is suspended or  *)
(* put up for erasure, gets at most the one post each pass had already     *)
(* read it for, until it is resumed: the hook and the status are read      *)
(* again before every post of deliver_pending.                             *)
OneLatePost == \A p \in Drainers, h \in Hooks : late[p][h] <= 1
============================================================================
