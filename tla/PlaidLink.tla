---------------------------- MODULE PlaidLink ----------------------------
(***************************************************************************)
(* One household's Hosted Link sessions (jobs/plaid_links.py).  A person   *)
(* finishes in the bank's window; Plaid then reports public tokens for the *)
(* session, each good for one exchange.  The page's poll, a worker job     *)
(* (the LINK webhook's, or the sweep's) and an erasure or data reset may   *)
(* all come to finish the session, one at a time under the household's     *)
(* sync lock.  An exchanged token is an Item that bills at Plaid until it  *)
(* is removed, so something here must always hold its access token.        *)
(*                                                                         *)
(* plaid, row, queue and lost say where each Item stands and who can still *)
(* remove it; rec and exch are the plaid_link_sessions rows; view is a     *)
(* session dict in memory: the web process's (shared by its polls), a      *)
(* job's, or a wiper's.                                                    *)
(***************************************************************************)
EXTENDS Naturals, FiniteSets

CONSTANTS
  Sessions, Tokens,      \* link tokens; the public tokens Plaid may report
  Of,                    \* the session each public token belongs to
  Polls, Jobs, Wipers,   \* status polls, worker jobs, erasures and resets
  Nobody,                \* no process, and no token
  MaxCrashes, MaxFaults  \* bounds: processes killed; calls that fail

Procs == Polls \cup Jobs \cup Wipers
Dicts == Sessions \cup Jobs \cup Wipers

ASSUME OfTokens == Of \in [Tokens -> Sessions]
ASSUME Bounds == MaxCrashes \in Nat /\ MaxFaults \in Nat
ASSUME KindsApart ==
  /\ Nobody \notin Procs \cup Tokens
  /\ Polls \cap Jobs = {} /\ Polls \cap Wipers = {} /\ Jobs \cap Wipers = {}
  /\ Sessions \cap (Jobs \cup Wipers) = {}

VARIABLES
  plaid,    \* Tokens -> none, ready (reported, unspent), live, gone
  row,      \* Items in the household's items table
  queue,    \* Tokens -> no, hold, refused: plaid_release_queue
  unheld,   \* Items whose hold could not be queued
  lost,     \* Items whose access token died with its only holder
  rec,      \* Sessions -> the recorded session
  exch,     \* Tokens -> the recorded outcome: open, kept or failed
  left,     \* sessions whose window is closed: nothing more is added
  reset,    \* Sessions -> no, marked (open at a data reset), unmarked
  standing, \* the household: ok, blocked (read-only or frozen), gone
  mem,      \* sessions the web process holds in memory
  view,     \* Dicts -> [done, refuse, exch]
  lock,     \* the household's sync lock
  pc, at, refuse, todo, hand, got, retry, later, \* each finisher's frame
  crashes, faults

link == <<plaid, row, queue, unheld, lost>>
record == <<rec, exch>>
outside == <<left, reset, standing>>
frame == <<pc, at, refuse, todo, hand, got, retry, later>>
vars == <<link, record, outside, mem, view, lock, frame, crashes, faults>>

----------------------------------------------------------------------------
Outcomes == {"open", "kept", "failed"}
NoAnswer == "none"
Absent == [on |-> FALSE, done |-> FALSE, refuse |-> FALSE, aside |-> FALSE,
           answer |-> NoAnswer]
Fresh == [Absent EXCEPT !.on = TRUE]
AllOpen == [t \in Tokens |-> "open"]
Blank == [done |-> FALSE, refuse |-> FALSE, exch |-> AllOpen]

Mine(s) == {t \in Tokens : Of[t] = s}
IsOpen(s) == rec[s].on /\ ~rec[s].done

(* The session dict a finisher works on.                                   *)
Dict(p) == IF p \in Polls THEN at[p] ELSE p
Known(p) == view[Dict(p)]

(* Fault: a mark in the record is not read with it.                       *)
LoadedBare(s) == [done |-> rec[s].done, refuse |-> FALSE,
                  exch |-> [t \in Tokens |-> IF Of[t] = s THEN exch[t] ELSE "open"]]

(* load: the record as a dict.                                             *)
Loaded(s) == [done |-> rec[s].done,
              refuse |-> rec[s].refuse /\ ~rec[s].done,
              exch |-> [t \in Tokens |-> IF Of[t] = s THEN exch[t] ELSE "open"]]

(* Types; and whoever is past its try-lock holds the lock, so one finisher  *)
(* works at a time.                                                        *)
TypeOK ==
  /\ plaid \in [Tokens -> {"none", "ready", "live", "gone"}]
  /\ row \subseteq Tokens /\ unheld \subseteq Tokens /\ lost \subseteq Tokens
  /\ queue \in [Tokens -> {"no", "hold", "refused"}]
  /\ rec \in [Sessions -> [on : BOOLEAN, done : BOOLEAN, refuse : BOOLEAN,
                           aside : BOOLEAN,
                           answer : {NoAnswer, "add", "add_failed", "exited"}]]
  /\ exch \in [Tokens -> Outcomes]
  /\ left \subseteq Sessions /\ reset \in [Sessions -> {"no", "marked", "unmarked"}]
  /\ standing \in {"ok", "blocked", "gone"}
  /\ mem \subseteq Sessions
  /\ view \in [Dicts -> [done : BOOLEAN, refuse : BOOLEAN,
                         exch : [Tokens -> Outcomes]]]
  /\ lock \in Procs \cup {Nobody}
  /\ pc \in [Procs -> {"idle", "lock", "refresh", "look", "take", "hold",
                       "keep", "back", "drop", "record", "unlock", "next"}]
  /\ at \in [Procs -> Sessions]
  /\ refuse \in [Procs -> BOOLEAN] /\ retry \in [Procs -> BOOLEAN]
  /\ todo \in [Procs -> SUBSET Tokens]
  /\ hand \in [Procs -> Tokens \cup {Nobody}]
  /\ got \in [Procs -> Outcomes]
  /\ later \in [Procs -> SUBSET Sessions]
  /\ crashes \in 0..MaxCrashes /\ faults \in 0..MaxFaults
  /\ \A p \in Procs : lock = p <=> pc[p] \notin {"idle", "lock"}

Init ==
  /\ plaid = [t \in Tokens |-> "none"]
  /\ row = {} /\ unheld = {} /\ lost = {} /\ queue = [t \in Tokens |-> "no"]
  /\ rec = [s \in Sessions |-> Fresh] /\ exch = AllOpen
  /\ left = {} /\ reset = [s \in Sessions |-> "no"] /\ standing = "ok"
  /\ mem = Sessions /\ view = [d \in Dicts |-> Blank]
  /\ lock = Nobody
  /\ pc = [p \in Procs |-> "idle"]
  /\ at \in {f \in [Procs -> Sessions] : \A p, q \in Procs : f[p] = f[q]}
  /\ refuse = [p \in Procs |-> FALSE] /\ retry = [p \in Procs |-> FALSE]
  /\ todo = [p \in Procs |-> {}] /\ later = [p \in Procs |-> {}]
  /\ hand = [p \in Procs |-> Nobody] /\ got = [p \in Procs |-> "open"]
  /\ crashes = 0 /\ faults = 0

(* One more call to Plaid, or statement of a best-effort write, fails.     *)
Fault == faults < MaxFaults /\ faults' = faults + 1
Works == UNCHANGED faults

Go(p, where) == pc' = [pc EXCEPT ![p] = where]

----------------------------------------------------------------------------
(* The person, and Plaid.  A link token may be opened in two windows, so   *)
(* it may come to report two public tokens.                                *)
Report(t) ==
  /\ plaid[t] = "none" /\ Of[t] \notin left
  /\ plaid' = [plaid EXCEPT ![t] = "ready"]
  /\ UNCHANGED <<row, queue, unheld, lost, record, outside, mem, view, lock, frame,
                 crashes, faults>>

LeaveWindow(s) ==
  /\ s \notin left /\ \A t \in Mine(s) : plaid[t] = "none"
  /\ left' = left \cup {s}
  /\ UNCHANGED <<link, record, reset, standing, mem, view, lock, frame,
                 crashes, faults>>

(* Billing lapses, or the household is frozen; and comes back.             *)
Turn ==
  /\ \/ standing = "ok" /\ standing' = "blocked"
     \/ standing = "blocked" /\ standing' = "ok"
  /\ UNCHANGED <<link, record, left, reset, mem, view, lock, frame, crashes,
                 faults>>

----------------------------------------------------------------------------
(* Statements about a session that no finisher makes.                      *)

(* What becomes of a reset's mark when the reply or the row goes.          *)
Unmarked(s) == IF reset[s] = "no" THEN "no" ELSE "unmarked"
Unmark(s) == reset' = [reset EXCEPT ![s] = Unmarked(s)]

(* set_aside: the person says they closed the window.  The whole reply is  *)
(* written over, a refusal mark with it.                                   *)
SetAside(s) ==
  /\ IsOpen(s)
  /\ rec' = [rec EXCEPT ![s] = [Fresh EXCEPT !.aside = TRUE]]
  /\ Unmark(s)
  /\ UNCHANGED <<exch, link, left, standing, mem, view, lock, frame, crashes, faults>>

(* _drop_abandoned_adds, forget: a new start needs the place of a session  *)
(* no client polls any more.                                               *)
Forget(s) ==
  /\ s \in mem /\ ~view[s].done /\ \A p \in Polls : pc[p] # "idle" => at[p] # s
  /\ mem' = mem \ {s}
  /\ view' = [view EXCEPT ![s] = Blank]
  /\ \/ Works /\ rec' = [rec EXCEPT ![s] = Absent] /\ Unmark(s)
     \/ Fault /\ UNCHANGED <<rec, reset>>
  /\ UNCHANGED <<exch, link, left, standing, lock, frame, crashes>>

(* sweep closes what is past OPEN_FOR_S: four times the life of the bank   *)
(* window, so nothing of the session is unsettled or in anyone's hands,    *)
(* and nothing more comes of it.                                           *)
Abandon(s) ==
  /\ IsOpen(s)
  /\ \A t \in Mine(s) : plaid[t] # "ready"
  /\ \A p \in Procs : pc[p] # "idle" => at[p] # s
  /\ rec' = [rec EXCEPT ![s] = [Fresh EXCEPT !.done = TRUE, !.answer = "exited"]]
  /\ left' = left \cup {s}
  /\ UNCHANGED <<exch, link, reset, standing, mem, view, lock, frame, crashes, faults>>

(* sweep deletes what is past KEEP_S, far past the life of a session in    *)
(* the web process's memory.                                               *)
Expire(s) ==
  /\ rec[s].done
  /\ \A p \in Procs : pc[p] # "idle" => at[p] # s
  /\ rec' = [rec EXCEPT ![s] = Absent]
  /\ mem' = mem \ {s}
  /\ view' = [view EXCEPT ![s] = Blank]
  /\ UNCHANGED <<exch, link, outside, lock, frame, crashes, faults>>

----------------------------------------------------------------------------
(* A finisher comes to a session.                                          *)

Come(p, s) ==
  /\ Go(p, "lock")
  /\ at' = [at EXCEPT ![p] = s]

(* plaid_link_status: the session from memory, else from the record; done  *)
(* sessions and read-only households are answered here.                    *)
StartPoll(p, s) ==
  /\ pc[p] = "idle" /\ standing = "ok"
  /\ \/ s \in mem /\ UNCHANGED <<mem, view>>
     \/ /\ s \notin mem /\ rec[s].on
        /\ mem' = mem \cup {s}
        /\ view' = [view EXCEPT ![s] = Loaded(s)]
  /\ ~view'[s].done
  /\ Come(p, s)
  /\ UNCHANGED <<link, record, outside, lock, refuse, todo, hand, got, retry,
                 later, crashes, faults>>

(* Fault: a read-only household's session is left for later.              *)
StartJobOk(p, s) ==
  /\ pc[p] = "idle" /\ IsOpen(s) /\ standing = "ok"
  /\ view' = [view EXCEPT ![p] = Loaded(s)]
  /\ refuse' = [refuse EXCEPT ![p] = rec[s].refuse]
  /\ Come(p, s)
  /\ UNCHANGED <<link, record, outside, mem, lock, todo, hand, got, retry,
                 later, crashes, faults>>

(* finish_session, for the LINK webhook or the sweep.                      *)
StartJob(p, s) ==
  /\ pc[p] = "idle" /\ IsOpen(s) /\ standing # "gone"
  /\ view' = [view EXCEPT ![p] = Loaded(s)]
  /\ refuse' = [refuse EXCEPT ![p] = rec[s].refuse \/ standing = "blocked"]
  /\ Come(p, s)
  /\ UNCHANGED <<link, record, outside, mem, lock, todo, hand, got, retry,
                 later, crashes, faults>>

(* The frame is done with.                                                 *)
LetGo(p) ==
  /\ Go(p, "idle")
  /\ refuse' = [refuse EXCEPT ![p] = FALSE]
  /\ retry' = [retry EXCEPT ![p] = FALSE]
  /\ todo' = [todo EXCEPT ![p] = {}]
  /\ UNCHANGED <<at, hand, got>>

(* tenant_sync_lock is tried, not waited for: busy.                        *)
TryLock(p) ==
  /\ pc[p] = "lock"
  /\ \/ /\ lock = Nobody /\ lock' = p
        /\ Go(p, "refresh")
        /\ UNCHANGED <<at, refuse, todo, hand, got, retry, view>>
     \/ /\ lock # Nobody /\ UNCHANGED lock
        /\ LetGo(p)
        /\ view' = IF p \in Jobs THEN [view EXCEPT ![p] = Blank] ELSE view
  /\ UNCHANGED <<link, record, outside, mem, later, crashes, faults>>

(* Fault: the session found in memory is trusted.                         *)
AsFound(v, s) == v

(* What refresh makes of a dict: outcomes are added, a refusal mark and a  *)
(* finish taken over.  With no row, or none read, the dict is as it was.   *)
Refreshed(v, s) ==
  IF ~rec[s].on THEN v
  ELSE [done |-> v.done \/ rec[s].done,
        refuse |-> v.refuse \/ Loaded(s).refuse,
        exch |-> [t \in Tokens |-> IF Loaded(s).exch[t] # "open"
                                   THEN exch[t] ELSE v.exch[t]]]

Refresh(p) ==
  /\ pc[p] = "refresh"
  /\ \/ Works /\ view' = [view EXCEPT ![Dict(p)] = Refreshed(@, at[p])]
     \/ Fault /\ UNCHANGED view
  /\ Go(p, IF view'[Dict(p)].done THEN "unlock" ELSE "look")
  /\ UNCHANGED <<link, record, outside, mem, lock, at, refuse, todo, hand, got,
                 retry, later, crashes>>

----------------------------------------------------------------------------
(* get_link_session and complete_add, under the lock.                      *)

Reported(s) == {t \in Mine(s) : plaid[t] # "none"}

(* mark_done: in memory, and on record where it is still open there.       *)
MarkDone(p, answer) ==
  /\ view' = [view EXCEPT ![Dict(p)].done = TRUE]
  /\ \/ /\ Works
        /\ rec' = IF IsOpen(at[p])
                  THEN [rec EXCEPT ![at[p]] =
                          [Fresh EXCEPT !.done = TRUE, !.answer = answer]]
                  ELSE rec
     \/ Fault /\ UNCHANGED rec

(* Plaid reports nothing added: the session stays open, unless the person  *)
(* left (exited; an erasure does not ask).                                 *)
LookEmpty(p) ==
  /\ pc[p] = "look" /\ Reported(at[p]) = {}
  /\ \/ /\ at[p] \in left /\ p \notin Wipers
        /\ MarkDone(p, "exited")
     \/ /\ at[p] \notin left \/ p \in Wipers
        /\ UNCHANGED <<view, rec, faults>>
  /\ Go(p, "unlock")
  /\ UNCHANGED <<link, exch, outside, mem, lock, at, refuse, todo, hand, got,
                 retry, later, crashes>>

(* Plaid does not answer.                                                  *)
LookFails(p) ==
  /\ pc[p] = "look" /\ Fault
  /\ Go(p, "unlock")
  /\ UNCHANGED <<link, record, outside, mem, view, lock, at, refuse, todo, hand,
                 got, retry, later, crashes>>

(* The public tokens to go through: those with no outcome yet.             *)
Look(p) ==
  /\ pc[p] = "look" /\ Reported(at[p]) # {}
  /\ todo' = [todo EXCEPT ![p] =
                {t \in Reported(at[p]) : Known(p).exch[t] = "open"}]
  /\ refuse' = [refuse EXCEPT ![p] = @ \/ Known(p).refuse]
  /\ Go(p, "take")
  /\ UNCHANGED <<link, record, outside, mem, view, lock, at, hand, got, retry,
                 later, crashes, faults>>

(* The exchange: the token is spent, and its Item's access token is in     *)
(* this frame alone.                                                       *)
Exchange(p, t) ==
  /\ pc[p] = "take" /\ t \in todo[p] /\ plaid[t] = "ready"
  /\ plaid' = [plaid EXCEPT ![t] = "live"]
  /\ hand' = [hand EXCEPT ![p] = t]
  /\ Go(p, IF refuse[p] THEN "back" ELSE "hold")
  /\ UNCHANGED <<row, queue, unheld, lost, record, outside, mem, view, lock, at, refuse,
                 todo, got, retry, later, crashes, faults>>

(* PlaidTransportError: no answer, whether or not the token was spent.     *)
ExchangeUnanswered(p, t) ==
  /\ pc[p] = "take" /\ t \in todo[p] /\ Fault
  /\ \/ UNCHANGED <<plaid, lost>>
     \/ /\ plaid[t] = "ready"
        /\ plaid' = [plaid EXCEPT ![t] = "live"]
        /\ lost' = lost \cup {t}
  /\ todo' = [todo EXCEPT ![p] = @ \ {t}]
  /\ retry' = [retry EXCEPT ![p] = TRUE]
  /\ UNCHANGED <<row, queue, unheld, record, outside, mem, view, lock, pc, at, refuse,
                 hand, got, later, crashes>>

(* INVALID_PUBLIC_TOKEN: spent before.  A door that may keep the bank      *)
(* answers with the Item its window created, when the household holds one. *)
Settle(p, t, outcome) ==
  /\ hand' = [hand EXCEPT ![p] = t]
  /\ got' = [got EXCEPT ![p] = outcome]
  /\ Go(p, "record")
  /\ UNCHANGED <<record, outside, mem, view, lock, at, refuse, todo, retry, later,
                 crashes, faults>>

SpentBefore(p, t) ==
  /\ pc[p] = "take" /\ t \in todo[p] /\ plaid[t] \in {"live", "gone"}
  /\ Settle(p, t, IF ~refuse[p] /\ t \in row THEN "kept" ELSE "failed")
  /\ UNCHANGED link

(* repeats_exhausted: too many repeated links today, so no exchange.       *)
TooManyRepeats(p, t) ==
  /\ pc[p] = "take" /\ t \in todo[p] /\ ~refuse[p]
  /\ Settle(p, t, "failed")
  /\ UNCHANGED link

(* Fault: the token is held once it is saved, not before.                 *)
HoldLater(p) ==
  /\ pc[p] = "hold"
  /\ Go(p, "keep")
  /\ UNCHANGED <<link, record, outside, mem, view, lock, at, refuse, todo, hand,
                 got, retry, later, crashes, faults>>

(* link_item: the token is held in the release queue before anything else  *)
(* is asked of Plaid.                                                      *)
Hold(p) ==
  /\ pc[p] = "hold"
  /\ \/ Works /\ queue' = [queue EXCEPT ![hand[p]] = "hold"]
              /\ UNCHANGED unheld
     \/ Fault /\ UNCHANGED queue /\ unheld' = unheld \cup {hand[p]}
  /\ Go(p, "keep")
  /\ UNCHANGED <<plaid, row, lost, record, outside, mem, view, lock, at, refuse,
                 todo, hand, got, retry, later, crashes>>

(* The items row commits...                                                *)
Keep(p) ==
  /\ pc[p] = "keep"
  /\ row' = row \cup {hand[p]}
  /\ got' = [got EXCEPT ![p] = "kept"]
  /\ Go(p, "drop")
  /\ UNCHANGED <<plaid, queue, unheld, lost, record, outside, mem, view, lock, at, refuse,
                 todo, hand, retry, later, crashes, faults>>

(* ...or the transaction refuses it (the cap, a repeat, other keys, a      *)
(* bank-link hold), or fails: either way the Item goes back.               *)
Refused(p) ==
  /\ pc[p] = "keep"
  /\ Go(p, "back")
  /\ UNCHANGED <<link, record, outside, mem, view, lock, at, refuse, todo, hand,
                 got, retry, later, crashes, faults>>

(* remove_item, for a link refused and for a hand-back.  A hand-back has   *)
(* no hold to drop.                                                        *)
Remove(p) ==
  /\ pc[p] = "back"
  /\ plaid' = [plaid EXCEPT ![hand[p]] = "gone"]
  /\ got' = [got EXCEPT ![p] = "failed"]
  /\ Go(p, IF refuse[p] THEN "record" ELSE "drop")
  /\ UNCHANGED <<row, queue, unheld, lost, record, outside, mem, view, lock, at, refuse,
                 todo, hand, retry, later, crashes, faults>>

(* The removal fails and is queued for the nightly retry, over the hold.   *)
RemoveFails(p) ==
  /\ pc[p] = "back" /\ Fault
  /\ queue' = [queue EXCEPT ![hand[p]] = "refused"]
  /\ got' = [got EXCEPT ![p] = "failed"]
  /\ Go(p, "record")
  /\ UNCHANGED <<plaid, row, unheld, lost, record, outside, mem, view, lock, at, refuse,
                 todo, hand, retry, later, crashes>>

(* In the same outage the queue's own write fails: what no hold names is   *)
(* lost.                                                                   *)
QueueFails(p) ==
  /\ pc[p] = "back" /\ Fault
  /\ lost' = IF queue[hand[p]] = "no" THEN lost \cup {hand[p]} ELSE lost
  /\ got' = [got EXCEPT ![p] = "failed"]
  /\ Go(p, "record")
  /\ UNCHANGED <<plaid, row, queue, unheld, record, outside, mem, view, lock, at, refuse,
                 todo, hand, retry, later, crashes>>

(* _drop_link_hold, once the Item is saved or removed.                     *)
DropHold(p) ==
  /\ pc[p] = "drop"
  /\ \/ Works /\ queue' = IF queue[hand[p]] = "hold"
                          THEN [queue EXCEPT ![hand[p]] = "no"] ELSE queue
     \/ Fault /\ UNCHANGED queue
  /\ Go(p, "record")
  /\ UNCHANGED <<plaid, row, unheld, lost, record, outside, mem, view, lock, at, refuse,
                 todo, hand, got, retry, later, crashes>>

(* The outcome goes into the dict and, best-effort, on record.             *)
Record(p) ==
  /\ pc[p] = "record"
  /\ view' = [view EXCEPT ![Dict(p)].exch[hand[p]] = got[p]]
  /\ \/ /\ Works
        /\ exch' = IF rec[at[p]].on THEN [exch EXCEPT ![hand[p]] = got[p]]
                                    ELSE exch
     \/ Fault /\ UNCHANGED exch
  /\ todo' = [todo EXCEPT ![p] = @ \ {hand[p]}]
  /\ hand' = [hand EXCEPT ![p] = Nobody]
  /\ got' = [got EXCEPT ![p] = "open"]
  /\ Go(p, "take")
  /\ UNCHANGED <<link, rec, outside, mem, lock, at, refuse, retry, later, crashes>>

(* Every token was gone through.  A session with an exchange unanswered    *)
(* and nothing connected stays open; any other is finished.                *)
Connected(v, s) == \E t \in Mine(s) : v.exch[t] = "kept"

Finish(p) ==
  /\ pc[p] = "take" /\ todo[p] = {}
  /\ IF retry[p] /\ ~Connected(Known(p), at[p])
     THEN UNCHANGED <<view, rec, faults>>
     ELSE MarkDone(p, IF Connected(Known(p), at[p]) THEN "add"
                      ELSE "add_failed")
  /\ Go(p, "unlock")
  /\ UNCHANGED <<link, exch, outside, mem, lock, at, refuse, todo, hand, got,
                 retry, later, crashes>>

(* Fault: a wiper lets the lock go between its sessions.                  *)
UnlockAll(p) ==
  /\ pc[p] = "unlock"
  /\ Go(p, IF p \in Wipers THEN "next" ELSE "idle")
  /\ lock' = Nobody
  /\ UNCHANGED <<link, record, outside, mem, view, at, refuse, todo, hand, got,
                 retry, later, crashes, faults>>

(* The lock is let go; a wiper keeps it and goes on to its next session.   *)
Unlock(p) ==
  /\ pc[p] = "unlock"
  /\ IF p \in Wipers
     THEN /\ Go(p, "next")
          /\ retry' = [retry EXCEPT ![p] = FALSE]
          /\ todo' = [todo EXCEPT ![p] = {}]
          /\ UNCHANGED <<at, refuse, hand, got, lock>>
     ELSE LetGo(p) /\ lock' = Nobody
  /\ view' = IF p \in Polls THEN view ELSE [view EXCEPT ![p] = Blank]
  /\ UNCHANGED <<link, record, outside, mem, later, crashes, faults>>

----------------------------------------------------------------------------
(* An erasure or a data reset: every writer's lock is waited for, open     *)
(* sessions are handed back one by one, the Items held are released, and   *)
(* the rows go.                                                            *)

StartWipe(p) ==
  /\ pc[p] = "idle" /\ lock = Nobody /\ standing # "gone"
  /\ lock' = p
  /\ later' = [later EXCEPT ![p] = {s \in Sessions : IsOpen(s)}]
  /\ refuse' = [refuse EXCEPT ![p] = TRUE]
  /\ Go(p, "next")
  /\ UNCHANGED <<link, record, outside, mem, view, at, todo, hand, got, retry,
                 crashes, faults>>

HandBackNext(p, s) ==
  /\ pc[p] = "next" /\ s \in later[p]
  /\ later' = [later EXCEPT ![p] = @ \ {s}]
  /\ IF IsOpen(s)
     THEN /\ at' = [at EXCEPT ![p] = s]
          /\ view' = [view EXCEPT ![p] = Loaded(s)]
          /\ Go(p, "look")
     ELSE UNCHANGED <<at, view, pc>>
  /\ UNCHANGED <<link, record, outside, mem, lock, refuse, todo, hand, got, retry,
                 crashes, faults>>

(* Each Item held is removed at Plaid, or its removal queued.  (That the   *)
(* nightly retry may drop what is queued before the rows go is a matter of *)
(* GracePurge.)                                                            *)
ReleaseAndWipe(p) ==
  /\ pc[p] = "next" /\ later[p] = {}
  /\ \/ Works /\ plaid' = [t \in Tokens |-> IF t \in row THEN "gone"
                                            ELSE plaid[t]]
              /\ UNCHANGED queue
     \/ \E t \in row :
          /\ Fault
          /\ plaid' = [u \in Tokens |-> IF u \in row \ {t} THEN "gone"
                                        ELSE plaid[u]]
          /\ queue' = [queue EXCEPT ![t] = "refused"]
  /\ row' = {}
  /\ lock' = Nobody
  /\ LetGo(p)
  /\ UNCHANGED <<unheld, lost, exch, left, mem, view, later, crashes>>

(* reset_tenant_data: sessions still open stay on record, marked.          *)
Reset(p) ==
  /\ ReleaseAndWipe(p)
  /\ rec' = [s \in Sessions |-> IF IsOpen(s) THEN [rec[s] EXCEPT !.refuse = TRUE]
                                ELSE Absent]
  /\ reset' = [s \in Sessions |-> IF IsOpen(s) THEN "marked" ELSE Unmarked(s)]
  /\ UNCHANGED standing

(* An erasure: the sessions go with the household.                         *)
Erase(p) ==
  /\ ReleaseAndWipe(p)
  /\ rec' = [s \in Sessions |-> Absent]
  /\ reset' = [s \in Sessions |-> Unmarked(s)]
  /\ standing' = "gone"

----------------------------------------------------------------------------
(* Fault: the nightly retry leaves the links' holds alone.                *)
RetryRefused(t) ==
  /\ queue[t] = "refused"
  /\ queue' = [queue EXCEPT ![t] = "no"]
  /\ plaid' = IF t \in row THEN plaid ELSE [plaid EXCEPT ![t] = "gone"]
  /\ UNCHANGED <<row, unheld, lost, record, outside, mem, view, lock, frame, crashes,
                 faults>>

(* retry_queued_releases, nightly.  A hold younger than an hour is left to *)
(* the link that may be about to save it; an Item held is dropped unused.  *)
Retry(t) ==
  /\ queue[t] # "no"
  /\ queue[t] = "hold" => \A p \in Procs : hand[p] # t
  /\ queue' = [queue EXCEPT ![t] = "no"]
  /\ plaid' = IF t \in row THEN plaid ELSE [plaid EXCEPT ![t] = "gone"]
  /\ UNCHANGED <<row, unheld, lost, record, outside, mem, view, lock, frame, crashes,
                 faults>>

----------------------------------------------------------------------------
(* A process is killed.  The token dies with it between the exchange and   *)
(* the hold, in a hand-back (which queues no hold), or when the hold could *)
(* not be queued.                                                          *)
OnlyInHand(p) ==
  {t \in Tokens :
     /\ t = hand[p]
     /\ \/ pc[p] = "hold"
        \/ pc[p] = "back" /\ refuse[p]
        \/ pc[p] \in {"keep", "back"} /\ t \in unheld}

Dies(P, d) ==
  /\ crashes < MaxCrashes /\ crashes' = crashes + 1
  /\ lost' = lost \cup UNION {OnlyInHand(p) : p \in P}
  /\ lock' = IF lock \in P THEN Nobody ELSE lock
  /\ pc' = [p \in Procs |-> IF p \in P THEN "idle" ELSE pc[p]]
  /\ refuse' = [p \in Procs |-> p \notin P /\ refuse[p]]
  /\ retry' = [p \in Procs |-> p \notin P /\ retry[p]]
  /\ todo' = [p \in Procs |-> IF p \in P THEN {} ELSE todo[p]]
  /\ later' = [p \in Procs |-> IF p \in P THEN {} ELSE later[p]]
  /\ hand' = [p \in Procs |-> IF p \in P THEN Nobody ELSE hand[p]]
  /\ got' = [p \in Procs |-> IF p \in P THEN "open" ELSE got[p]]
  /\ view' = [e \in Dicts |-> IF e \in d THEN Blank ELSE view[e]]
  /\ UNCHANGED <<plaid, row, queue, unheld, record, outside, at, faults>>

(* The web process: every poll, and the sessions in its memory.            *)
WebDies == mem # {} /\ Dies(Polls, Sessions) /\ mem' = {}

WorkerDies(p) == p \notin Polls /\ pc[p] # "idle" /\ Dies({p}, {p}) /\ UNCHANGED mem

----------------------------------------------------------------------------
Step(p) ==
  \/ TryLock(p) \/ Refresh(p) \/ LookEmpty(p) \/ LookFails(p) \/ Look(p)
  \/ \E t \in Tokens : Exchange(p, t) \/ ExchangeUnanswered(p, t)
                       \/ SpentBefore(p, t) \/ TooManyRepeats(p, t)
  \/ Hold(p) \/ Keep(p) \/ Refused(p) \/ Remove(p) \/ RemoveFails(p)
  \/ QueueFails(p) \/ DropHold(p) \/ Record(p) \/ Finish(p) \/ Unlock(p)

Wipe(p) ==
  \/ \E s \in Sessions : HandBackNext(p, s)
  \/ Reset(p) \/ Erase(p)

Next ==
  \/ \E t \in Tokens : Report(t) \/ Retry(t)
  \/ \E s \in Sessions : LeaveWindow(s) \/ SetAside(s) \/ Forget(s)
                         \/ Abandon(s) \/ Expire(s)
  \/ Turn
  \/ \E p \in Polls, s \in Sessions : StartPoll(p, s)
  \/ \E p \in Jobs, s \in Sessions : StartJob(p, s)
  \/ \E p \in Wipers : StartWipe(p) \/ Wipe(p)
  \/ \E p \in Procs : Step(p) \/ WorkerDies(p)
  \/ WebDies

Spec == Init /\ [][Next]_vars

(* What runs goes on running; the sweep and the nightly retry come round.  *)
FairSpec ==
  /\ Spec
  /\ \A p \in Procs : WF_vars(Step(p))
  /\ \A p \in Wipers : WF_vars(Wipe(p))
  /\ \A p \in Jobs, s \in Sessions : WF_vars(StartJob(p, s))
  /\ \A t \in Tokens : WF_vars(Retry(t))

----------------------------------------------------------------------------
(* An Item that bills at Plaid can be removed: its access token is in the  *)
(* items table, in the release queue, or in the frame that exchanged it.   *)
(* Only the windows of OnlyInHand, and failures on top of a failure, lose  *)
(* one (sync.plaid.link_item, jobs.plaid_links._hand_back).                *)
EveryItemHasHandle ==
  \A t \in Tokens : plaid[t] = "live" =>
    \/ t \in row \cup lost
    \/ queue[t] # "no"
    \/ \E p \in Procs : hand[p] = t /\ pc[p] \in {"hold", "keep", "back"}

(* Under the lock every door knows every outcome before it exchanges, so   *)
(* while nothing failed no token of a session on record is presented to    *)
(* Plaid twice (refresh).                                                  *)
NoSecondExchange ==
  crashes = 0 /\ faults = 0 =>
    \A p \in Procs : pc[p] = "take" /\ rec[at[p]].on =>
      \A t \in todo[p] : plaid[t] = "ready"

(* A household wiped while a link was open gets no bank from that link,    *)
(* whichever door finishes it, unless its mark was written over by a       *)
(* set_aside, deleted (by a forget, or a later wipe), or                   *)
(* could not be read (refuse_open_adds).                                   *)
WipedGetsNoBank ==
  faults = 0 => \A t \in row : reset[Of[t]] # "marked"

(* An erased household holds no bank: nothing here would ever sync or      *)
(* release it (hand_back_open_sessions: the writer locks exclude every     *)
(* other finisher).                                                        *)
ErasedHoldsNoBank == standing = "gone" => row = {}

(* A token Plaid reports for an open session is exchanged, or the session  *)
(* is over: with nobody polling, the sweep is the floor.                   *)
TokenSettles ==
  \A t \in Tokens : plaid[t] = "ready" /\ IsOpen(Of[t])
                      ~> plaid[t] # "ready" \/ ~IsOpen(Of[t])

(* Nothing bills for ever unseen: an Item exchanged is kept by the         *)
(* household or removed at Plaid, or was lost at once.                     *)
BillingSettles ==
  \A t \in Tokens : plaid[t] = "live"
                      ~> plaid[t] = "gone" \/ t \in row \/ t \in lost
============================================================================
