------------------------------ MODULE PurgePaid ------------------------------
(* GracePurge with a record of money that came while a purge ran.          *)
EXTENDS GracePurge

(* Money was attached to a household frozen without being asked while a    *)
(* run had it in hand, and it has not been handed back since.  A run that  *)
(* is killed or raises takes that knowledge with it: the next one takes    *)
(* what is attached by then as its baseline.                               *)
VARIABLE paid

InHand == \E p \in Purgers : pc[p] \in Purging /\ ~run[p].base

PaidInit == Init /\ paid = FALSE

PaidNext ==
  /\ Next
  /\ paid' = (/\ tenant'.st = "unverified"
              /\ <<crashes', failures'>> = <<crashes, failures>>
              /\ paid \/ (~money /\ money' /\ InHand))

PaidSpec == PaidInit /\ [][PaidNext]_<<vars, paid>>

(* A household frozen without being asked, and paid for while a purge of   *)
(* it ran, is not erased by that run nor by another that overlaps it       *)
(* ("only something new mid-purge counts").                                *)
PaidMidPurgeKept ==
  [][\A p \in Purgers :
       paid /\ pc[p] = "erase" /\ pc'[p] = "unlock" => tenant'.st # "erased"]_<<vars, paid>>
=============================================================================
