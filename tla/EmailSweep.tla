---------------------------- MODULE EmailSweep ----------------------------
(***************************************************************************)
(* One household's scheduled mail (jobs/worker.py): hourly sweeps that may *)
(* overlap decide what is due by the household's own clock, send a cadence *)
(* over its channels (mail, text or push, a webhook event) and stamp       *)
(* job_runs with when, and in which zone, it went.  Sending and stamping   *)
(* are separate statements, and the zone may be moved between any two.     *)
(* Time is counted in ticks, DayLen to a day, MonthDays to a month; a zone *)
(* is its offset in ticks.                                                 *)
(***************************************************************************)
EXTENDS Integers, FiniteSets

CONSTANTS
  Sweeps, NoSweep,
  DayLen, SendHour,         \* ticks in a day; the tick from which to send
  MonthDays, CatchUp, Slack, \* CADENCE_CATCHUP_DAYS; the two days' allowance
  Zones, Start, End,        \* offsets; the first and last tick
  Households,               \* [wants, people, budget, born, demo] to begin with
  MaxRun,                   \* bound: ticks a sweep may run on after the one
                            \* it began in
  MaxTroubles               \* bound: sends failed, sweeps killed, settings moved

Cadences == {"daily", "monthly"}
Channels == {"mail", "side", "hook"}

VARIABLES
  clock, zone,  \* the time; the household's zone
  born,         \* when its owner was created
  wants,        \* the channels its schedule asks for
  people,       \* its addresses: some, held (undeliverable), none
  budget,       \* it has saved a budget
  demo,         \* it is a demonstration, to which nothing is mailed
  stamp,        \* job_runs: [at, zone] of each job, or at = Never
  mailer,       \* the household's email lock
  sweep,        \* Sweeps -> [pc, began, zone, todo, left, cur, as, had, to,
                \*            side, hooked, failed]
  sent,         \* what last went, per job: when, in which zone, and by which
                \* zone it was found due; forgotten when a sweep is killed
                \* before it has stamped it
  troubles

mailvars == <<clock, zone, born, wants, people, budget, demo, stamp, mailer,
              sweep, sent, troubles>>

Never == -1000
Jobs == (Cadences \X {"mail", "side"}) \cup {<<"daily", "hook">>}
Quiet == [pc |-> "idle", began |-> Start, zone |-> 0, todo |-> {}, left |-> {},
          cur |-> "daily", as |-> 0, had |-> FALSE, to |-> FALSE,
          side |-> FALSE, hooked |-> FALSE, failed |-> FALSE]

ASSUME Calendar ==
  /\ DayLen \in Nat \ {0} /\ MonthDays \in Nat \ {0} /\ Slack \in Nat
  /\ Start \in Int /\ End \in Int /\ Never < Start /\ Start <= End
  /\ Zones \subseteq Int /\ NoSweep \notin Sweeps
  /\ MaxRun \in Nat /\ MaxTroubles \in Nat

ASSUME OfHouseholds ==
  \A h \in Households :
    /\ h.wants \in SUBSET Channels /\ h.people \in {"some", "held", "none"}
    /\ h.budget \in BOOLEAN /\ h.born \in {Never, Start} /\ h.demo \in BOOLEAN

(* The sweep that is past its try-lock is the lock's holder.               *)
TypeOK ==
  /\ clock \in Start..End /\ zone \in Zones /\ born \in {Never, Start}
  /\ wants \in SUBSET Channels /\ people \in {"some", "held", "none"}
  /\ budget \in BOOLEAN /\ demo \in BOOLEAN
  /\ \A r \in {stamp, sent} :
       /\ DOMAIN r = Jobs
       /\ \A j \in Jobs : r[j].at \in {Never} \cup Start..clock
                          /\ r[j].zone \in Zones
  /\ mailer \in Sweeps \cup {NoSweep}
  /\ \A s \in Sweeps :
       /\ sweep[s].pc \in {"idle", "lock", "next", "hook", "hookStamp", "send",
                           "side", "sideStamp", "stamp"}
       /\ mailer = s <=> sweep[s].pc \notin {"idle", "lock"}
       /\ sweep[s].todo \subseteq Cadences
  /\ troubles \in 0..MaxTroubles

Init ==
  /\ clock = Start /\ zone \in Zones
  /\ \E h \in Households : /\ wants = h.wants /\ people = h.people
                          /\ budget = h.budget /\ born = h.born
                          /\ demo = h.demo
  /\ stamp = [j \in Jobs |-> [at |-> Never, zone |-> zone]]
  /\ sent = [j \in Jobs |-> [at |-> Never, zone |-> zone, by |-> zone]]
  /\ mailer = NoSweep /\ sweep = [s \in Sweeps |-> Quiet]
  /\ troubles = 0

Trouble == troubles < MaxTroubles /\ troubles' = troubles + 1

----------------------------------------------------------------------------
(* The household's calendar (localtime).                                   *)

Day(z, t) == (t + z) \div DayLen
Hour(z, t) == (t + z) % DayLen
Midnight(z, t) == DayLen * Day(z, t) - z
DayOfMonth(z, t) == (Day(z, t) % MonthDays) + 1
MonthStart(z, t) == DayLen * (Day(z, t) - (DayOfMonth(z, t) - 1)) - z

(* Fault: the zone of the stamp is not looked at.                         *)
FreshHere(j, z, t) == stamp[j].at < Midnight(z, t)

(* _stamp_fresh: the day has turned since the stamp, in the zone now and   *)
(* in the zone it was stamped in.                                          *)
Fresh(j, z, t) ==
  /\ stamp[j].at < Midnight(z, t)
  /\ stamp[j].zone # z => stamp[j].at < Midnight(stamp[j].zone, t)

(* This month's card has not been stamped: any stamp of the last weeks is  *)
(* this period's.                                                          *)
Unsent(j, z, t) == stamp[j].at < MonthStart(z, t) - Slack * DayLen

(* emails_due.  A household is sent nothing on its first day, nor a card   *)
(* for a month that began before it; a card missed on the 1st stays due    *)
(* for the catch-up days.                                                  *)
DailyDue(z, t) ==
  /\ wants # {} /\ Hour(z, t) >= SendHour
  /\ Fresh(<<"daily", "mail">>, z, t)

MonthlyDue(z, t) ==
  /\ wants \cap {"mail", "side"} # {} /\ Hour(z, t) >= SendHour
  /\ IF DayOfMonth(z, t) = 1
     THEN Fresh(<<"monthly", "mail">>, z, t)
     ELSE /\ born < MonthStart(z, t) /\ DayOfMonth(z, t) <= CatchUp + 1
          /\ Unsent(<<"monthly", "mail">>, z, t)

Due(z, t) ==
  IF born >= Midnight(z, t) THEN {}
  ELSE {c \in Cadences : (c = "daily" /\ DailyDue(z, t))
                         \/ (c = "monthly" /\ MonthlyDue(z, t))}

(* _stamped_today, _stamped_this_period: what keeps a retry of a failed    *)
(* mail from sending the other channels again.                             *)
SideDone(c, z) ==
  IF c = "monthly" THEN ~Unsent(<<c, "side">>, z, clock)
                   ELSE ~Fresh(<<c, "side">>, z, clock)

----------------------------------------------------------------------------
(* The clock and the settings, which move on whatever a sweep is doing: it *)
(* may send after the midnight it began before, and stamp later still.     *)
Tick ==
  /\ clock < End /\ clock' = clock + 1
  /\ \A s \in Sweeps : sweep[s].pc # "idle" => clock < sweep[s].began + MaxRun
  /\ UNCHANGED <<zone, born, wants, people, budget, demo, stamp, mailer, sweep,
                 sent, troubles>>

Settings ==
  /\ Trouble
  /\ \/ zone' \in Zones \ {zone} /\ UNCHANGED <<people, budget>>
     \/ people' \in {"some", "held", "none"} \ {people} /\ UNCHANGED <<zone, budget>>
     \/ budget' = ~budget /\ UNCHANGED <<zone, people>>
  /\ UNCHANGED <<clock, born, wants, demo, stamp, mailer, sweep, sent>>

----------------------------------------------------------------------------
(* _email_if_due.                                                          *)
At(s, where) == sweep[s].pc = where
Set(s, new) == sweep' = [sweep EXCEPT ![s] = new]
Goto(s, where) == Set(s, [sweep[s] EXCEPT !.pc = where])
NextOne(s, left) ==
  Set(s, [Quiet EXCEPT !.pc = "next", !.began = sweep[s].began,
            !.zone = sweep[s].zone, !.todo = sweep[s].todo, !.left = left])
World == <<clock, zone, born, wants, people, budget, demo>>

Begin(s) ==
  /\ At(s, "idle")
  /\ Set(s, [Quiet EXCEPT !.pc = "lock", !.began = clock])
  /\ UNCHANGED <<World, stamp, mailer, sent, troubles>>

(* Fault: a sweep that cannot have the lock sends all the same.           *)
Locked(s) == mailer' = IF mailer = NoSweep THEN s ELSE mailer

TakesLock(s) == mailer = NoSweep /\ mailer' = s

(* The lock is tried, not waited for; under it, what is due is read.       *)
TryLock(s) ==
  /\ At(s, "lock")
  /\ \/ /\ TakesLock(s)
        /\ Set(s, [sweep[s] EXCEPT !.pc = "next", !.zone = zone,
                                   !.todo = Due(zone, sweep[s].began)])
     \/ mailer # NoSweep /\ UNCHANGED mailer /\ Set(s, Quiet)
  /\ UNCHANGED <<World, stamp, sent, troubles>>

Free(s) ==
  /\ At(s, "next") /\ sweep[s].todo = {}
  /\ mailer' = NoSweep
  /\ Set(s, Quiet)
  /\ UNCHANGED <<World, stamp, sent, troubles>>

----------------------------------------------------------------------------
(* email_tenant.                                                           *)
Job(s, channel) == <<sweep[s].cur, channel>>
Stamped(j, z) == stamp' = [stamp EXCEPT ![j] = [at |-> clock, zone |-> z]]
Sends(j, z, found) ==
  sent' = [sent EXCEPT ![j] = [at |-> clock, zone |-> z, by |-> found]]

(* Nobody to send to, or no budget to judge by, is a decision made: the    *)
(* period is stamped with it.                                              *)
DecidedAgainst(c) == Stamped(<<c, "mail">>, zone)

ForCadence(c) == IF c = "daily" THEN wants ELSE wants \ {"hook"}
NobodyThere(c) == people = "none" /\ ForCadence(c) \subseteq {"mail"}
NoVerdict(c) == c = "daily" /\ ~budget

(* Everything is read, and the other channels' stamp with it.              *)
Gathered(w) == [w EXCEPT !.pc = "send",
                         !.side = "side" \in wants /\ ~SideDone(w.cur, w.as)]

(* Each cadence on its own, the daily first, whatever the other does.  A   *)
(* demonstration is sent nothing and stamped with nothing.                 *)
Build(s, c) ==
  /\ At(s, "next") /\ c \in sweep[s].todo
  /\ c = "monthly" => "daily" \notin sweep[s].todo
  /\ LET w == [sweep[s] EXCEPT !.cur = c, !.todo = @ \ {c}, !.as = zone,
                !.had = people # "none", !.to = people = "some"]
     IN \/ /\ demo /\ UNCHANGED stamp
           /\ Set(s, [sweep[s] EXCEPT !.todo = @ \ {c}, !.left = @ \cup {c}])
        \/ /\ ~demo /\ (NobodyThere(c) \/ NoVerdict(c))
           /\ DecidedAgainst(c)
           /\ Set(s, [sweep[s] EXCEPT !.todo = @ \ {c}])
        \/ /\ ~demo /\ ~NobodyThere(c) /\ ~NoVerdict(c) /\ UNCHANGED stamp
           /\ Set(s, IF "hook" \in ForCadence(c) THEN [w EXCEPT !.pc = "hook"]
                                                 ELSE Gathered(w))
  /\ UNCHANGED <<World, mailer, sent, troubles>>

(* The day's webhook event has a stamp of its own.                         *)
Hook(s) ==
  /\ At(s, "hook")
  /\ \/ /\ ~Fresh(Job(s, "hook"), sweep[s].as, clock)
        /\ Set(s, Gathered([sweep[s] EXCEPT !.hooked = TRUE]))
        /\ UNCHANGED <<sent, troubles>>
     \/ /\ Fresh(Job(s, "hook"), sweep[s].as, clock)
        /\ Goto(s, "hookStamp")
        /\ Sends(Job(s, "hook"), sweep[s].as, sweep[s].as)
        /\ UNCHANGED troubles
     \/ Trouble /\ Set(s, Gathered(sweep[s])) /\ UNCHANGED sent
  /\ UNCHANGED <<World, stamp, mailer>>

HookStamp(s) ==
  /\ At(s, "hookStamp")
  /\ Stamped(Job(s, "hook"), sweep[s].as)
  /\ Set(s, Gathered([sweep[s] EXCEPT !.hooked = TRUE]))
  /\ UNCHANGED <<World, mailer, sent, troubles>>

(* The addresses are read again before the fan-out; the mail fails only    *)
(* when that read, or every address, fails.  It was found due in one zone  *)
(* and is built, dated and stamped in the one email_tenant read.           *)
Send(s) ==
  /\ At(s, "send")
  /\ \/ /\ "mail" \in wants /\ sweep[s].to /\ people = "some"
        /\ Sends(Job(s, "mail"), sweep[s].as, sweep[s].zone)
        /\ Goto(s, "side") /\ UNCHANGED troubles
     \/ /\ ~("mail" \in wants /\ sweep[s].to /\ people = "some")
        /\ Goto(s, "side") /\ UNCHANGED <<sent, troubles>>
     \/ /\ "mail" \in wants /\ sweep[s].to /\ Trouble
        /\ Set(s, [sweep[s] EXCEPT !.pc = "side", !.failed = TRUE])
        /\ UNCHANGED sent
  /\ UNCHANGED <<World, stamp, mailer>>

(* The text and the push, which never raise.                               *)
Side(s) ==
  /\ At(s, "side")
  /\ IF sweep[s].side
     THEN /\ Goto(s, "sideStamp")
          /\ Sends(Job(s, "side"), sweep[s].as, sweep[s].as)
     ELSE Goto(s, "stamp") /\ UNCHANGED sent
  /\ UNCHANGED <<World, stamp, mailer, troubles>>

(* Fault: the other channels are stamped with the mail alone.             *)
SideUnstamped(s) ==
  /\ At(s, "sideStamp")
  /\ Goto(s, "stamp")
  /\ UNCHANGED <<World, stamp, mailer, sent, troubles>>

SideStamp(s) ==
  /\ At(s, "sideStamp")
  /\ Stamped(Job(s, "side"), sweep[s].as)
  /\ Goto(s, "stamp")
  /\ UNCHANGED <<World, mailer, sent, troubles>>

(* A cadence whose mail failed is not stamped, and comes due again.        *)
Decided(s) == sweep[s].had \/ "side" \in wants \/ sweep[s].hooked

(* Fault: a mail that failed is stamped like one that went.               *)
SettlesAnyway(s) == Decided(s)

Settles(s) == Decided(s) /\ ~sweep[s].failed

(* What it leaves: the mail failed, or there was nobody to mail and the    *)
(* hook, the only other channel, could not be posted.                      *)
Leaves(s) == IF sweep[s].failed \/ ~Decided(s) THEN {sweep[s].cur} ELSE {}

Stamp(s) ==
  /\ At(s, "stamp")
  /\ IF Settles(s) THEN Stamped(Job(s, "mail"), sweep[s].as)
                   ELSE UNCHANGED stamp
  /\ NextOne(s, sweep[s].left \cup Leaves(s))
  /\ UNCHANGED <<World, mailer, sent, troubles>>

(* The worker is killed: the lock goes.  What it sent and did not stamp    *)
(* will be sent again, so that it no longer counts as sent.                *)
Dies(s) ==
  /\ ~At(s, "idle") /\ Trouble
  /\ mailer' = IF mailer = s THEN NoSweep ELSE mailer
  /\ sent' = [j \in Jobs |->
       IF mailer = s /\ sent[j].at > stamp[j].at
       THEN [sent[j] EXCEPT !.at = Never] ELSE sent[j]]
  /\ Set(s, Quiet)
  /\ UNCHANGED <<World, stamp>>

SweepStep(s) ==
  \/ TryLock(s) \/ Free(s) \/ \E c \in Cadences : Build(s, c)
  \/ Hook(s) \/ HookStamp(s) \/ Send(s) \/ Side(s) \/ SideStamp(s) \/ Stamp(s)

Next ==
  \/ Tick \/ Settings
  \/ \E s \in Sweeps : Begin(s) \/ SweepStep(s) \/ Dies(s)

Spec == Init /\ [][Next]_mailvars

----------------------------------------------------------------------------
NewDay(j) ==
  LET was == sent[j]  now == sent'[j] IN
  now # was /\ now.at # Never /\ was.at # Never =>
    \A z \in {was.zone, now.by} : Day(z, was.at) # Day(z, now.at)

(* The household gets its verdict once a day: once by the zone its last    *)
(* one was sent in and once by the zone the new one was found due in,      *)
(* however many sweeps overlap and whatever midnights they run across ("A  *)
(* day has only turned when both zones say so").  Two cases are outside    *)
(* it, for the code mails twice there: a sweep killed between its mail and *)
(* its stamp, and a zone moved between the due check and email_tenant's    *)
(* own read of it, when the new zone's day may be one already served.      *)
OneVerdictADay == [][NewDay(<<"daily", "mail">>)]_mailvars

(* While the mail fails and is tried again every hour, nobody is texted or *)
(* pushed twice a day, nor is the webhook event posted twice, unless a     *)
(* sweep is killed between the sending and its stamp.                      *)
OneOfEachADay == [][NewDay(<<"daily", "side">>) /\ NewDay(<<"daily", "hook">>)]_mailvars

(* A card that keeps failing for days is texted or pushed once a month,    *)
(* kills between the sending and its stamp again excepted.                 *)
OneCardTextAMonth ==
  [][LET was == sent[<<"monthly", "side">>]  now == sent'[<<"monthly", "side">>] IN
     now # was /\ now.at # Never /\ was.at # Never =>
       was.at < MonthStart(now.zone, now.at) - Slack * DayLen]_mailvars

(* Between two cadences, what is due by the sweep's own clock and zone is  *)
(* what it has yet to try and what it left undecided, and nothing else: a  *)
(* mail that failed is not passed over as decided, and one decided against *)
(* (nobody to mail, no budget, a held address) does not come due again     *)
(* every hour, whatever zone and tick the stamps end up in.                *)
LeftStaysDue ==
  \A s \in Sweeps : At(s, "next") =>
    Due(sweep[s].zone, sweep[s].began) = sweep[s].todo \cup sweep[s].left
============================================================================
