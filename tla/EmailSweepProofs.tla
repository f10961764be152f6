------------------------- MODULE EmailSweepProofs -------------------------
(***************************************************************************)
(* Proofs about EmailSweep for any number of sweeps, any zones and any     *)
(* length of day and month: no day's verdict is sent twice (OneVerdict),   *)
(* nor its text, push or webhook event (OneOfEach), nor a month's card     *)
(* texted twice (OneCardText), and what a sweep leaves due is what it did  *)
(* not decide (LeftDue).                                                   *)
(***************************************************************************)
EXTENDS EmailSweep, TLAPS

----------------------------------------------------------------------------
(* Whole division, by a divisor that is not a numeral.                     *)

LEMMA DivMod ==
  ASSUME NEW n \in Int, NEW d \in Nat \ {0}
  PROVE  /\ n \div d \in Int /\ n % d \in Int
         /\ d * (n \div d) <= n /\ n < d * (n \div d) + d
         /\ n % d = n - d * (n \div d)
OBVIOUS

LEMMA MulMono ==
  ASSUME NEW d \in Nat \ {0}, NEW a \in Int, NEW b \in Int, a <= b
  PROVE  d * a <= d * b /\ d * a \in Int /\ d * b \in Int
OBVIOUS

LEMMA DivMono ==
  ASSUME NEW d \in Nat \ {0}, NEW a \in Int, NEW b \in Int, a <= b
  PROVE  a \div d <= b \div d
<1> DEFINE q == a \div d
           r == b \div d
<1>1. q \in Int /\ r \in Int /\ d * q <= a /\ b < d * r + d
  BY DivMod
<1>2. ASSUME q >= r + 1 PROVE FALSE
  <2>0. r + 1 \in Int BY <1>1
  <2> HIDE DEF q, r
  <2>1. d * (r + 1) <= d * q
    BY <1>1, <1>2, <2>0, MulMono
  <2>2. d * (r + 1) = d * r + d
    BY <1>1
  <2>. QED BY <1>1, <2>1, <2>2
<1>. QED BY <1>1, <1>2

----------------------------------------------------------------------------
(* The calendar: a midnight and the start of a month are never after the   *)
(* time they are of, and move only forward with it.                        *)

LEMMA MidnightBefore ==
  ASSUME NEW z \in Int, NEW t \in Int
  PROVE  /\ Day(z, t) \in Int /\ Midnight(z, t) \in Int
         /\ Midnight(z, t) <= t
<1>1. t + z \in Int /\ DayLen \in Nat \ {0}
  BY Calendar
<1>2. Day(z, t) \in Int /\ DayLen * Day(z, t) <= t + z
  BY <1>1, DivMod DEF Day
<1> HIDE DEF Day
<1>3. DayLen * Day(z, t) \in Int
  BY <1>1, <1>2, MulMono
<1>. QED BY <1>2, <1>3 DEF Midnight

LEMMA MidnightMono ==
  ASSUME NEW z \in Int, NEW t \in Int, NEW u \in Int, t <= u
  PROVE  Midnight(z, t) <= Midnight(z, u) /\ Day(z, t) <= Day(z, u)
<1>1. t + z \in Int /\ u + z \in Int /\ t + z <= u + z /\ DayLen \in Nat \ {0}
  BY Calendar
<1>2. Day(z, t) <= Day(z, u)
  BY <1>1, DivMono DEF Day
<1>3. Day(z, t) \in Int /\ Day(z, u) \in Int
  BY MidnightBefore
<1>4. DayLen * Day(z, t) <= DayLen * Day(z, u) /\ DayLen * Day(z, t) \in Int
        /\ DayLen * Day(z, u) \in Int
  BY <1>1, <1>2, <1>3, MulMono
<1>. QED BY <1>2, <1>4 DEF Midnight

(* What was before a day's midnight was on another day.                    *)
LEMMA OtherDay ==
  ASSUME NEW z \in Int, NEW a \in Int, NEW t \in Int, a < Midnight(z, t)
  PROVE  Day(z, a) # Day(z, t)
<1>1. Midnight(z, a) <= a /\ Midnight(z, a) \in Int /\ Midnight(z, t) \in Int
  BY MidnightBefore
<1>2. Day(z, a) = Day(z, t) => Midnight(z, a) = Midnight(z, t)
  BY DEF Midnight
<1>. QED BY <1>1, <1>2

LEMMA MonthIs ==
  ASSUME NEW z \in Int, NEW t \in Int
  PROVE  /\ MonthStart(z, t) = DayLen * (MonthDays * (Day(z, t) \div MonthDays)) - z
         /\ MonthDays * (Day(z, t) \div MonthDays) \in Int
         /\ MonthDays * (Day(z, t) \div MonthDays) <= Day(z, t)
         /\ MonthStart(z, t) \in Int
<1> DEFINE d == Day(z, t)
           m == MonthDays * (d \div MonthDays)
<1>1. d \in Int /\ MonthDays \in Nat \ {0} /\ DayLen \in Nat \ {0}
  BY MidnightBefore, Calendar
<1>2. d \div MonthDays \in Int /\ m <= d /\ d % MonthDays = d - m
        /\ d % MonthDays \in Int
  BY <1>1, DivMod
<1>3. m \in Int
  BY <1>1, <1>2, MulMono
<1>4. MonthStart(z, t) = DayLen * (d - (((d % MonthDays) + 1) - 1)) - z
  BY DEF MonthStart, DayOfMonth
<1> HIDE DEF d, m
<1>5. d - (((d % MonthDays) + 1) - 1) = m
  BY <1>1, <1>2, <1>3
<1>6. DayLen * m \in Int
  BY <1>1, <1>3, MulMono
<1>7. MonthStart(z, t) = DayLen * m - z /\ MonthStart(z, t) \in Int
  BY <1>4, <1>5, <1>6
<1>. QED BY <1>2, <1>3, <1>7 DEF d, m

LEMMA MonthStartBefore ==
  ASSUME NEW z \in Int, NEW t \in Int
  PROVE  MonthStart(z, t) \in Int /\ MonthStart(z, t) <= t
<1> DEFINE m == MonthDays * (Day(z, t) \div MonthDays)
<1>1. /\ MonthStart(z, t) = DayLen * m - z /\ m \in Int /\ m <= Day(z, t)
      /\ MonthStart(z, t) \in Int
  BY MonthIs
<1> HIDE DEF m
<1>2. DayLen * m <= DayLen * Day(z, t) /\ DayLen * m \in Int
        /\ DayLen * Day(z, t) \in Int
  BY <1>1, MidnightBefore, MulMono, Calendar
<1>3. MonthStart(z, t) <= Midnight(z, t)
  BY <1>1, <1>2 DEF Midnight
<1>. QED BY <1>1, <1>3, MidnightBefore

LEMMA MonthStartMono ==
  ASSUME NEW z \in Int, NEW t \in Int, NEW u \in Int, t <= u
  PROVE  MonthStart(z, t) <= MonthStart(z, u)
<1> DEFINE k(x) == Day(z, x) \div MonthDays
           m(x) == MonthDays * k(x)
<1>0. /\ Day(z, t) \in Int /\ Day(z, u) \in Int /\ Day(z, t) <= Day(z, u)
      /\ MonthDays \in Nat \ {0} /\ DayLen \in Nat \ {0}
  BY MidnightBefore, MidnightMono, Calendar
<1>1. k(t) <= k(u) /\ k(t) \in Int /\ k(u) \in Int
  BY <1>0, DivMono, DivMod
<1>2. /\ MonthStart(z, t) = DayLen * m(t) - z /\ m(t) \in Int
      /\ MonthStart(z, u) = DayLen * m(u) - z /\ m(u) \in Int
  BY MonthIs
<1> HIDE DEF k
<1>3. m(t) <= m(u)
  BY <1>0, <1>1, MulMono
<1> HIDE DEF m
<1>4. DayLen * m(t) <= DayLen * m(u) /\ DayLen * m(t) \in Int /\ DayLen * m(u) \in Int
  BY <1>0, <1>2, <1>3, MulMono
<1>. QED BY <1>2, <1>4

----------------------------------------------------------------------------
(* Types: a sweep's record is kept by parts, since what a step leaves of   *)
(* it matters more than that it has a type.                                *)

Flight == {"hook", "hookStamp", "send", "side", "sideStamp", "stamp"}
Places == {"idle", "lock", "next"} \cup Flight
Work == [pc : Places, began : Int, zone : Int, todo : SUBSET Cadences,
         left : SUBSET Cadences, cur : Cadences, as : Int, had : BOOLEAN, to : BOOLEAN,
         side : BOOLEAN, hooked : BOOLEAN, failed : BOOLEAN]
Entries == [at : Int, zone : Zones]
Outgoing == [at : Int, zone : Zones, by : Int]

HouseOK ==
  /\ clock \in Start..End /\ zone \in Zones /\ born \in {Never, Start}
  /\ wants \in SUBSET Channels /\ people \in {"some", "held", "none"}
  /\ budget \in BOOLEAN /\ demo \in BOOLEAN
BooksOK == stamp \in [Jobs -> Entries] /\ sent \in [Jobs -> Outgoing]
PastOK ==
  \A j \in Jobs : /\ stamp[j].at \in {Never} \cup Start..clock
                  /\ sent[j].at \in {Never} \cup Start..clock
SweepsOK == sweep \in [Sweeps -> Work]
HoldsOK ==
  /\ mailer \in Sweeps \cup {NoSweep}
  /\ \A s \in Sweeps : mailer = s <=> sweep[s].pc \notin {"idle", "lock"}
SeenOK ==
  \A s \in Sweeps :
    /\ sweep[s].pc # "idle" => sweep[s].began <= clock
    /\ sweep[s].pc \in Flight => sweep[s].as \in Zones
    /\ sweep[s].pc \in {"hook", "hookStamp"} => sweep[s].cur = "daily"
TroublesOK == troubles \in 0..MaxTroubles

TypeInv == /\ HouseOK /\ BooksOK /\ PastOK /\ SweepsOK /\ HoldsOK /\ SeenOK
           /\ TroublesOK

LEMMA DueCadences ==
  ASSUME NEW z, NEW t
  PROVE  Due(z, t) \in SUBSET Cadences
BY DEF Due

(* Putting a record in the place of a sweep's own.                         *)
Others(s) == \A q \in Sweeps \ {s} : sweep'[q] = sweep[q]

LEMMA PutIn ==
  ASSUME SweepsOK, NEW s \in Sweeps, NEW w \in Work, Set(s, w)
  PROVE  SweepsOK' /\ Others(s) /\ sweep'[s] = w
BY DEF SweepsOK, Set, Others

LEMMA QuietWork == Quiet \in Work
BY Calendar DEF Quiet, Work, Places, Cadences

LEMMA GoesTo ==
  ASSUME SweepsOK, NEW s \in Sweeps, NEW where \in Places, Goto(s, where)
  PROVE  /\ SweepsOK' /\ Others(s) /\ sweep'[s] = [sweep[s] EXCEPT !.pc = where]
<1>1. [sweep[s] EXCEPT !.pc = where] \in Work
  BY DEF SweepsOK, Work
<1>. QED BY <1>1, PutIn DEF Goto

(* The fields of a record changed at one of them.                          *)
LEMMA At1 ==
  ASSUME NEW w \in Work, NEW where \in Places
  PROVE  LET v == [w EXCEPT !.pc = where] IN
         /\ v \in Work /\ v.pc = where /\ v.began = w.began /\ v.zone = w.zone
         /\ v.todo = w.todo /\ v.cur = w.cur /\ v.as = w.as /\ v.had = w.had
         /\ v.to = w.to /\ v.side = w.side /\ v.hooked = w.hooked
         /\ v.left = w.left
         /\ v.failed = w.failed
BY DEF Work

LEMMA GatheredIs ==
  ASSUME NEW w \in Work
  PROVE  LET v == Gathered(w) IN
         /\ v \in Work /\ v.pc = "send" /\ v.began = w.began /\ v.zone = w.zone
         /\ v.todo = w.todo /\ v.cur = w.cur /\ v.as = w.as /\ v.had = w.had
         /\ v.to = w.to /\ v.hooked = w.hooked /\ v.failed = w.failed
         /\ v.left = w.left
         /\ v.side = TRUE => "side" \in wants /\ ~SideDone(w.cur, w.as)
<1> DEFINE b == "side" \in wants /\ ~SideDone(w.cur, w.as)
<1>1. b \in BOOLEAN
  BY Zenon
<1>2. Gathered(w) = [w EXCEPT !.pc = "send", !.side = b]
  BY Zenon DEF Gathered
<1>3. b = TRUE => "side" \in wants /\ ~SideDone(w.cur, w.as)
  BY Zenon
<1> HIDE DEF b
<1>. QED BY <1>1, <1>2, <1>3 DEF Work, Places, Flight

----------------------------------------------------------------------------
(* What each step leaves in its sweep's record.                            *)

Turned(s) == SweepsOK' /\ Others(s)
Keeps(s) ==
  LET v == sweep'[s]  w == sweep[s] IN
  /\ v.began = w.began /\ v.zone = w.zone /\ v.todo = w.todo /\ v.cur = w.cur
  /\ v.as = w.as /\ v.had = w.had /\ v.to = w.to /\ v.left = w.left

LEMMA TurnGoto ==
  ASSUME SweepsOK, NEW s \in Sweeps, NEW where \in Places, Goto(s, where)
  PROVE  /\ Turned(s) /\ Keeps(s) /\ sweep'[s].pc = where
         /\ sweep'[s].side = sweep[s].side /\ sweep'[s].hooked = sweep[s].hooked
         /\ sweep'[s].failed = sweep[s].failed
<1>1. SweepsOK' /\ Others(s) /\ sweep'[s] = [sweep[s] EXCEPT !.pc = where]
  BY GoesTo
<1>2. sweep[s] \in Work
  BY DEF SweepsOK
<1>. QED BY <1>1, <1>2, At1 DEF Turned, Keeps

LEMMA TurnQuiet ==
  ASSUME SweepsOK, NEW s \in Sweeps, Set(s, Quiet)
  PROVE  /\ Turned(s) /\ sweep'[s].pc = "idle" /\ sweep'[s].todo = {}
         /\ sweep'[s].failed = FALSE /\ sweep'[s].left = {}
BY PutIn, QuietWork DEF Turned, Quiet

LEMMA TurnBegin ==
  ASSUME SweepsOK, HouseOK, NEW s \in Sweeps, Begin(s)
  PROVE  /\ Turned(s) /\ sweep'[s].pc = "lock" /\ sweep'[s].todo = {}
         /\ sweep'[s].began = clock /\ sweep'[s].failed = FALSE
         /\ sweep'[s].left = {}
<1> DEFINE w == [Quiet EXCEPT !.pc = "lock", !.began = clock]
<1>0. clock \in Int
  BY Calendar DEF HouseOK
<1>1. w \in Work
  BY <1>0, QuietWork DEF Work, Places
<1>2. w.pc = "lock" /\ w.todo = {} /\ w.began = clock /\ w.failed = FALSE
        /\ w.left = {}
  BY DEF Quiet
<1>3. Set(s, w)
  BY DEF Begin
<1> HIDE DEF w
<1>. QED BY <1>1, <1>2, <1>3, PutIn DEF Turned

LEMMA TurnTryLock ==
  ASSUME SweepsOK, HouseOK, NEW s \in Sweeps, TryLock(s)
  PROVE  /\ Turned(s) /\ sweep[s].pc = "lock"
         /\ sweep'[s].failed \in {sweep[s].failed, FALSE}
         /\ sweep'[s].left \in {sweep[s].left, {}}
         /\ \/ /\ mailer = NoSweep /\ mailer' = s
               /\ sweep'[s].pc = "next" /\ sweep'[s].began = sweep[s].began
               /\ sweep'[s].zone = zone
               /\ sweep'[s].todo = Due(zone, sweep[s].began)
            \/ /\ mailer # NoSweep /\ mailer' = mailer
               /\ sweep'[s].pc = "idle" /\ sweep'[s].todo = {}
<1> DEFINE d == Due(zone, sweep[s].began)
           w == [sweep[s] EXCEPT !.pc = "next", !.zone = zone, !.todo = d]
<1>1. d \in SUBSET Cadences
  BY DueCadences
<1>2. CASE TakesLock(s) /\ Set(s, w)
  <2> HIDE DEF d
  <2>1. w \in Work /\ w.pc = "next" /\ w.began = sweep[s].began /\ w.zone = zone
          /\ w.todo = d /\ w.failed = sweep[s].failed /\ w.left = sweep[s].left
    BY <1>1, Calendar DEF SweepsOK, HouseOK, Work, Places
  <2>2. Set(s, w)
    BY <1>2
  <2> HIDE DEF w
  <2>3. Turned(s) /\ sweep'[s] = w
    BY <2>1, <2>2, PutIn DEF Turned
  <2>. QED BY <1>2, <2>1, <2>3 DEF TakesLock, TryLock, At, d
<1>3. CASE mailer # NoSweep /\ UNCHANGED mailer /\ Set(s, Quiet)
  <2>1. At(s, "lock")
    BY DEF TryLock
  <2>. QED BY <1>3, <2>1, TurnQuiet DEF At
<1>. QED BY <1>2, <1>3 DEF TryLock

LEMMA TurnNextOne ==
  ASSUME SweepsOK, NEW s \in Sweeps, NEW l \in SUBSET Cadences, NextOne(s, l)
  PROVE  /\ Turned(s) /\ sweep'[s].pc = "next"
         /\ sweep'[s].began = sweep[s].began /\ sweep'[s].zone = sweep[s].zone
         /\ sweep'[s].todo = sweep[s].todo /\ sweep'[s].failed = FALSE
         /\ sweep'[s].left = l
<1> DEFINE w == [Quiet EXCEPT !.pc = "next", !.began = sweep[s].began,
                   !.zone = sweep[s].zone, !.todo = sweep[s].todo, !.left = l]
<1>1. w \in Work /\ w.pc = "next" /\ w.began = sweep[s].began
        /\ w.zone = sweep[s].zone /\ w.todo = sweep[s].todo /\ w.failed = FALSE
        /\ w.left = l
  BY QuietWork DEF Work, Places, SweepsOK, Quiet
<1>2. Set(s, w)
  BY DEF NextOne
<1> HIDE DEF w
<1>. QED BY <1>1, <1>2, PutIn DEF Turned

LEMMA StampMoves ==
  ASSUME SweepsOK, NEW s \in Sweeps, Stamp(s)
  PROVE  /\ Turned(s) /\ sweep[s].pc = "stamp" /\ sweep'[s].pc = "next"
         /\ sweep'[s].began = sweep[s].began /\ sweep'[s].zone = sweep[s].zone
         /\ sweep'[s].todo = sweep[s].todo /\ sweep'[s].failed = FALSE
         /\ sweep'[s].left = sweep[s].left \cup Leaves(s)
<1>1. sweep[s].left \cup Leaves(s) \in SUBSET Cadences
  BY DEF SweepsOK, Work, Leaves
<1>2. NextOne(s, sweep[s].left \cup Leaves(s)) /\ sweep[s].pc = "stamp"
  BY DEF Stamp, At
<1> HIDE DEF Leaves
<1>. QED BY <1>1, <1>2, TurnNextOne

LEMMA TurnGathered ==
  ASSUME SweepsOK, NEW s \in Sweeps, NEW w \in Work, Set(s, Gathered(w)),
         w.began = sweep[s].began /\ w.zone = sweep[s].zone,
         w.todo = sweep[s].todo /\ w.cur = sweep[s].cur,
         w.as = sweep[s].as /\ w.had = sweep[s].had /\ w.to = sweep[s].to,
         w.failed = sweep[s].failed /\ w.left = sweep[s].left
  PROVE  /\ Turned(s) /\ Keeps(s) /\ sweep'[s].pc = "send"
         /\ sweep'[s].hooked = w.hooked /\ sweep'[s].failed = sweep[s].failed
         /\ sweep'[s].side = TRUE
              => "side" \in wants /\ ~SideDone(sweep[s].cur, sweep[s].as)
<1> DEFINE g == Gathered(w)
<1>1. /\ g \in Work /\ g.pc = "send" /\ g.began = w.began /\ g.zone = w.zone
      /\ g.todo = w.todo /\ g.cur = w.cur /\ g.as = w.as /\ g.had = w.had
      /\ g.to = w.to /\ g.hooked = w.hooked /\ g.failed = w.failed
      /\ g.left = w.left
  BY GatheredIs
<1>2. g.side = TRUE
        => "side" \in wants /\ ~SideDone(sweep[s].cur, sweep[s].as)
  BY GatheredIs
<1>3. Set(s, g)
  OBVIOUS
<1> HIDE DEF g
<1>4. SweepsOK' /\ Others(s) /\ sweep'[s] = g
  BY <1>1, <1>3, PutIn
<1>. QED BY <1>1, <1>2, <1>4 DEF Turned, Keeps

LEMMA TurnHooked ==
  ASSUME SweepsOK, NEW s \in Sweeps,
         Set(s, Gathered([sweep[s] EXCEPT !.hooked = TRUE]))
  PROVE  /\ Turned(s) /\ Keeps(s) /\ sweep'[s].pc = "send"
         /\ sweep'[s].hooked = TRUE /\ sweep'[s].failed = sweep[s].failed
         /\ sweep'[s].side = TRUE
              => "side" \in wants /\ ~SideDone(sweep[s].cur, sweep[s].as)
<1> DEFINE w == [sweep[s] EXCEPT !.hooked = TRUE]
<1>1. w \in Work /\ w.hooked = TRUE
  BY DEF SweepsOK, Work
<1>2. /\ w.began = sweep[s].began /\ w.zone = sweep[s].zone
      /\ w.todo = sweep[s].todo /\ w.cur = sweep[s].cur
      /\ w.as = sweep[s].as /\ w.had = sweep[s].had /\ w.to = sweep[s].to
      /\ w.failed = sweep[s].failed /\ w.left = sweep[s].left
  BY DEF SweepsOK, Work
<1> HIDE DEF w
<1>3. Set(s, Gathered(w))
  BY DEF w
<1>. QED BY <1>1, <1>2, <1>3, TurnGathered

(* A cadence's turn: left to a demonstration, decided against and stamped, *)
(* or taken in hand.                                                       *)
LEMMA TurnBuild ==
  ASSUME SweepsOK, HouseOK, NEW s \in Sweeps, NEW c \in Cadences, Build(s, c)
  PROVE  /\ Turned(s) /\ sweep[s].pc = "next" /\ c \in sweep[s].todo
         /\ c = "monthly" => "daily" \notin sweep[s].todo
         /\ sweep'[s].began = sweep[s].began /\ sweep'[s].zone = sweep[s].zone
         /\ sweep'[s].todo = sweep[s].todo \ {c}
         /\ sweep'[s].failed = sweep[s].failed
         /\ \/ /\ sweep'[s].pc = "next" /\ UNCHANGED stamp
               /\ sweep'[s].left = sweep[s].left \cup {c}
            \/ /\ sweep'[s].pc = "next" /\ Stamped(<<c, "mail">>, zone)
               /\ sweep'[s].left = sweep[s].left
            \/ /\ sweep'[s].pc \in {"hook", "send"} /\ UNCHANGED stamp
               /\ sweep'[s].left = sweep[s].left
               /\ sweep'[s].cur = c /\ sweep'[s].as = zone
               /\ sweep'[s].pc = "hook" => c = "daily"
               /\ sweep'[s].to = TRUE => sweep'[s].had = TRUE
               /\ sweep'[s].pc = "send" /\ sweep'[s].side = TRUE => ~SideDone(c, zone)
               /\ \/ sweep'[s].had = TRUE \/ "side" \in wants
                  \/ sweep'[s].pc = "hook"
<1> DEFINE had == people # "none"
           to == people = "some"
           done == [sweep[s] EXCEPT !.todo = @ \ {c}]
           left == [sweep[s] EXCEPT !.todo = @ \ {c}, !.left = @ \cup {c}]
           w == [sweep[s] EXCEPT !.cur = c, !.todo = @ \ {c}, !.as = zone,
                   !.had = had, !.to = to]
<1>1. /\ sweep[s].pc = "next" /\ c \in sweep[s].todo
      /\ c = "monthly" => "daily" \notin sweep[s].todo
  BY DEF Build, At
<1>2. CASE DecidedAgainst(c) /\ Set(s, done)
  <2>1. done \in Work /\ done.pc = "next" /\ done.began = sweep[s].began
          /\ done.zone = sweep[s].zone /\ done.todo = sweep[s].todo \ {c}
          /\ done.failed = sweep[s].failed /\ done.left = sweep[s].left
    BY <1>1 DEF SweepsOK, Work, Places
  <2>2. Set(s, done) /\ Stamped(<<c, "mail">>, zone)
    BY <1>2 DEF DecidedAgainst
  <2> HIDE DEF done, left
  <2>. QED BY <1>1, <2>1, <2>2, PutIn DEF Turned
<1>4. CASE UNCHANGED stamp /\ Set(s, left)
  <2>1. left \in Work /\ left.pc = "next" /\ left.began = sweep[s].began
          /\ left.zone = sweep[s].zone /\ left.todo = sweep[s].todo \ {c}
          /\ left.failed = sweep[s].failed /\ left.left = sweep[s].left \cup {c}
    BY <1>1 DEF SweepsOK, Work, Places
  <2>2. Set(s, left)
    BY <1>4
  <2> HIDE DEF done, left
  <2>. QED BY <1>1, <1>4, <2>1, <2>2, PutIn DEF Turned
<1>3. CASE /\ ~NobodyThere(c) /\ ~NoVerdict(c) /\ UNCHANGED stamp
           /\ Set(s, IF "hook" \in ForCadence(c) THEN [w EXCEPT !.pc = "hook"]
                                                 ELSE Gathered(w))
  <2>1. had \in BOOLEAN /\ to \in BOOLEAN
    BY Zenon
  <2>2. /\ to = TRUE => had = TRUE
        /\ had = TRUE \/ people = "none"
    BY Zenon
  <2>3. zone \in Int
    BY Calendar DEF HouseOK
  <2>4. people = "none" => \/ "side" \in wants
                           \/ "hook" \in ForCadence(c)
    BY <1>3 DEF NobodyThere, ForCadence, HouseOK, Channels
  <2>5. "hook" \in ForCadence(c) => c = "daily"
    BY DEF ForCadence
  <2> HIDE DEF had, to
  <2>6. /\ w \in Work /\ w.began = sweep[s].began /\ w.zone = sweep[s].zone
        /\ w.todo = sweep[s].todo \ {c} /\ w.cur = c /\ w.as = zone
        /\ w.had = had /\ w.to = to /\ w.failed = sweep[s].failed
        /\ w.left = sweep[s].left
    BY <2>1, <2>3 DEF SweepsOK, Work
  <2> HIDE DEF w
  <2>7. CASE "hook" \in ForCadence(c)
    <3>1. Set(s, [w EXCEPT !.pc = "hook"])
      BY <1>3, <2>7
    <3>2. "hook" \in Places
      BY DEF Places, Flight
    <3>3. [w EXCEPT !.pc = "hook"] \in Work
      BY <2>6, <3>2, At1
    <3>4. SweepsOK' /\ Others(s) /\ sweep'[s] = [w EXCEPT !.pc = "hook"]
      BY <3>1, <3>3, PutIn
    <3>. QED
      BY <1>1, <1>3, <2>2, <2>5, <2>6, <2>7, <3>2, <3>4, At1 DEF Turned
  <2>8. CASE ~("hook" \in ForCadence(c))
    <3> DEFINE g == Gathered(w)
    <3>1. /\ g \in Work /\ g.pc = "send" /\ g.began = w.began
          /\ g.zone = w.zone /\ g.todo = w.todo /\ g.cur = c /\ g.as = zone
          /\ g.had = had /\ g.to = to /\ g.failed = w.failed /\ g.left = w.left
      BY <2>6, GatheredIs
    <3>2. g.side = TRUE => ~SideDone(c, zone)
      BY <2>6, GatheredIs
    <3>3. Set(s, g)
      BY <1>3, <2>8
    <3> HIDE DEF g
    <3>4. SweepsOK' /\ Others(s) /\ sweep'[s] = g
      BY <3>1, <3>3, <2>6, PutIn
    <3>. QED
      BY <1>1, <1>3, <2>2, <2>4, <2>6, <2>8, <3>1, <3>2, <3>4 DEF Turned
  <2>. QED BY <2>7, <2>8
<1>. QED BY <1>2, <1>3, <1>4 DEF Build

(* The books, written at one job.                                          *)
LEMMA StampedAt ==
  ASSUME BooksOK, HouseOK, NEW j \in Jobs, NEW z \in Zones, Stamped(j, z)
  PROVE  /\ stamp' \in [Jobs -> Entries]
         /\ stamp'[j].at = clock /\ stamp'[j].zone = z
         /\ \A k \in Jobs \ {j} : stamp'[k] = stamp[k]
<1>1. clock \in Int
  BY Calendar DEF HouseOK
<1>2. [at |-> clock, zone |-> z] \in Entries
  BY <1>1 DEF Entries
<1>. QED BY <1>2 DEF Stamped, BooksOK

LEMMA SentAt ==
  ASSUME BooksOK, HouseOK, NEW j \in Jobs, NEW z \in Zones, NEW y \in Int,
         Sends(j, z, y)
  PROVE  /\ sent' \in [Jobs -> Outgoing]
         /\ sent'[j].at = clock /\ sent'[j].zone = z /\ sent'[j].by = y
         /\ \A k \in Jobs \ {j} : sent'[k] = sent[k]
<1>1. clock \in Int
  BY Calendar DEF HouseOK
<1>2. [at |-> clock, zone |-> z, by |-> y] \in Outgoing
  BY <1>1 DEF Outgoing
<1>. QED BY <1>2 DEF Sends, BooksOK

LEMMA JobOf ==
  ASSUME SweepsOK, NEW s \in Sweeps
  PROVE  /\ Job(s, "mail") \in Jobs /\ Job(s, "side") \in Jobs
         /\ sweep[s].cur = "daily" => Job(s, "hook") \in Jobs
BY DEF SweepsOK, Work, Job, Jobs

LEMMA TurnHook ==
  ASSUME SweepsOK, NEW s \in Sweeps, Hook(s)
  PROVE  /\ Turned(s) /\ Keeps(s) /\ sweep[s].pc = "hook"
         /\ sweep'[s].failed = sweep[s].failed
         /\ \/ /\ sweep'[s].pc = "send" /\ sent' = sent
               /\ sweep'[s].hooked = TRUE \/ Trouble
               /\ sweep'[s].side = TRUE => ~SideDone(sweep[s].cur, sweep[s].as)
            \/ /\ sweep'[s].pc = "hookStamp"
               /\ Fresh(Job(s, "hook"), sweep[s].as, clock)
               /\ Sends(Job(s, "hook"), sweep[s].as, sweep[s].as)
<1>1. sweep[s].pc = "hook" /\ sweep[s] \in Work
  BY DEF Hook, At, SweepsOK
<1>2. CASE Set(s, Gathered([sweep[s] EXCEPT !.hooked = TRUE])) /\ UNCHANGED sent
  BY <1>1, <1>2, TurnHooked
<1>3. CASE /\ Fresh(Job(s, "hook"), sweep[s].as, clock)
           /\ Goto(s, "hookStamp") /\ Sends(Job(s, "hook"), sweep[s].as, sweep[s].as)
  <2>1. "hookStamp" \in Places
    BY DEF Places, Flight
  <2>. QED BY <1>1, <1>3, <2>1, TurnGoto
<1>4. CASE Trouble /\ Set(s, Gathered(sweep[s])) /\ UNCHANGED sent
  BY <1>1, <1>4, TurnGathered
<1>. QED BY <1>2, <1>3, <1>4 DEF Hook

LEMMA TurnHookStamp ==
  ASSUME SweepsOK, NEW s \in Sweeps, HookStamp(s)
  PROVE  /\ Turned(s) /\ Keeps(s) /\ sweep[s].pc = "hookStamp"
         /\ sweep'[s].pc = "send" /\ sweep'[s].failed = sweep[s].failed
         /\ sweep'[s].hooked = TRUE
         /\ sweep'[s].side = TRUE => ~SideDone(sweep[s].cur, sweep[s].as)
BY TurnHooked DEF HookStamp, At

(* What a send leaves for the mail: nothing sent, or sent now, in the zone *)
(* read last and for what was due in the zone read first.                  *)
LEMMA TurnSend ==
  ASSUME SweepsOK, BooksOK, HouseOK, SeenOK, NEW s \in Sweeps, Send(s)
  PROVE  /\ Turned(s) /\ Keeps(s) /\ sweep[s].pc = "send" /\ sweep'[s].pc = "side"
         /\ sweep'[s].side = sweep[s].side /\ sweep'[s].hooked = sweep[s].hooked
         /\ \/ sent' = sent
            \/ /\ sweep[s].to = TRUE /\ sweep'[s].failed = sweep[s].failed
               /\ sent' \in [Jobs -> Outgoing]
               /\ sent'[Job(s, "mail")].at = clock
               /\ sent'[Job(s, "mail")].zone = sweep[s].as
               /\ sent'[Job(s, "mail")].by = sweep[s].zone
               /\ \A j \in Jobs \ {Job(s, "mail")} : sent'[j] = sent[j]
<1>1. /\ sweep[s].pc = "send" /\ sweep[s] \in Work /\ "side" \in Places
      /\ "send" \in Flight
  BY DEF Send, At, SweepsOK, Places, Flight
<1>2. CASE /\ "mail" \in wants /\ sweep[s].to /\ people = "some"
           /\ Sends(Job(s, "mail"), sweep[s].as, sweep[s].zone)
           /\ Goto(s, "side")
  <2>1. sweep[s].as \in Zones /\ sweep[s].zone \in Int /\ Job(s, "mail") \in Jobs
    BY <1>1, JobOf DEF SeenOK, Work
  <2>2. /\ sent' \in [Jobs -> Outgoing] /\ sent'[Job(s, "mail")].at = clock
        /\ sent'[Job(s, "mail")].zone = sweep[s].as
        /\ sent'[Job(s, "mail")].by = sweep[s].zone
        /\ \A j \in Jobs \ {Job(s, "mail")} : sent'[j] = sent[j]
    BY <1>2, <2>1, SentAt
  <2>3. sweep[s].to = TRUE
    BY <1>1, <1>2, Zenon DEF Work
  <2>4. /\ Turned(s) /\ Keeps(s) /\ sweep'[s].pc = "side"
        /\ sweep'[s].side = sweep[s].side /\ sweep'[s].hooked = sweep[s].hooked
        /\ sweep'[s].failed = sweep[s].failed
    BY <1>1, <1>2, TurnGoto
  <2>. QED BY <1>1, <2>2, <2>3, <2>4
<1>3. CASE Goto(s, "side") /\ UNCHANGED sent
  BY <1>1, <1>3, TurnGoto
<1>4. CASE UNCHANGED sent /\ Set(s, [sweep[s] EXCEPT !.pc = "side", !.failed = TRUE])
  <2> DEFINE w == [sweep[s] EXCEPT !.pc = "side", !.failed = TRUE]
  <2>1. /\ w \in Work /\ w.pc = "side" /\ w.began = sweep[s].began
        /\ w.zone = sweep[s].zone /\ w.todo = sweep[s].todo /\ w.cur = sweep[s].cur
        /\ w.as = sweep[s].as /\ w.had = sweep[s].had /\ w.to = sweep[s].to
        /\ w.side = sweep[s].side /\ w.hooked = sweep[s].hooked
        /\ w.left = sweep[s].left
    BY <1>1 DEF Work
  <2>2. Set(s, w)
    BY <1>4
  <2> HIDE DEF w
  <2>3. SweepsOK' /\ Others(s) /\ sweep'[s] = w
    BY <2>1, <2>2, PutIn
  <2>. QED BY <1>1, <1>4, <2>1, <2>3 DEF Turned, Keeps
<1>. QED BY <1>2, <1>3, <1>4 DEF Send

LEMMA TurnSide ==
  ASSUME SweepsOK, NEW s \in Sweeps, Side(s)
  PROVE  /\ Turned(s) /\ Keeps(s) /\ sweep[s].pc = "side"
         /\ sweep'[s].hooked = sweep[s].hooked /\ sweep'[s].failed = sweep[s].failed
         /\ sweep'[s].side = sweep[s].side
         /\ \/ /\ sweep[s].side = TRUE /\ sweep'[s].pc = "sideStamp"
               /\ Sends(Job(s, "side"), sweep[s].as, sweep[s].as)
            \/ sweep'[s].pc = "stamp" /\ sent' = sent
<1>1. /\ sweep[s].pc = "side" /\ sweep[s] \in Work
      /\ "sideStamp" \in Places /\ "stamp" \in Places
  BY DEF Side, At, SweepsOK, Places, Flight
<1>2. CASE sweep[s].side = TRUE
  <2>1. Goto(s, "sideStamp") /\ Sends(Job(s, "side"), sweep[s].as, sweep[s].as)
    BY <1>2, Zenon DEF Side
  <2>. QED BY <1>1, <1>2, <2>1, TurnGoto
<1>3. CASE sweep[s].side = FALSE
  <2>1. Goto(s, "stamp") /\ UNCHANGED sent
    BY <1>3, Zenon DEF Side
  <2>. QED BY <1>1, <2>1, TurnGoto
<1>. QED BY <1>1, <1>2, <1>3 DEF Work

LEMMA TurnSideStamp ==
  ASSUME SweepsOK, NEW s \in Sweeps, SideStamp(s)
  PROVE  /\ Turned(s) /\ Keeps(s) /\ sweep[s].pc = "sideStamp"
         /\ sweep'[s].pc = "stamp"
         /\ sweep'[s].hooked = sweep[s].hooked /\ sweep'[s].failed = sweep[s].failed
<1>1. "stamp" \in Places
  BY DEF Places, Flight
<1>. QED BY <1>1, TurnGoto DEF SideStamp, At

LEMMA TurnDies ==
  ASSUME SweepsOK, BooksOK, NEW s \in Sweeps, Dies(s)
  PROVE  /\ Turned(s) /\ sweep'[s].pc = "idle" /\ sweep'[s].todo = {}
         /\ sweep'[s].failed = FALSE /\ sweep[s].pc # "idle" /\ Trouble
         /\ sent' \in [Jobs -> Outgoing]
         /\ mailer # s => sent' = sent
         /\ \A j \in Jobs : \/ sent'[j] = sent[j] /\ ~(sent[j].at > stamp[j].at)
                            \/ sent'[j] = sent[j] /\ mailer # s
                            \/ sent'[j].at = Never
<1>1. /\ Turned(s) /\ sweep'[s].pc = "idle" /\ sweep'[s].todo = {}
      /\ sweep'[s].failed = FALSE
  BY TurnQuiet DEF Dies
<1>2. sweep[s].pc # "idle" /\ Trouble
  BY DEF Dies, At
<1>3. Never \in Int
  BY DEF Never
<1>4. \A j \in Jobs : sent[j] \in Outgoing /\ [sent[j] EXCEPT !.at = Never] \in Outgoing
                        /\ [sent[j] EXCEPT !.at = Never].at = Never
  BY <1>3 DEF BooksOK, Outgoing
<1>5. sent' = [j \in Jobs |->
       IF mailer = s /\ sent[j].at > stamp[j].at
       THEN [sent[j] EXCEPT !.at = Never] ELSE sent[j]]
  BY DEF Dies
<1>6. ASSUME mailer # s PROVE sent' = sent
  BY <1>5, <1>6 DEF BooksOK
<1>. QED BY <1>1, <1>2, <1>4, <1>5, <1>6

----------------------------------------------------------------------------
(* TypeInv, and through it TypeOK: it adds to TypeOK the types of a        *)
(* sweep's record, that nothing is stamped or sent ahead of the clock and  *)
(* that a sweep began before now.                                          *)

LEMMA TypeInit == Init => TypeInv
<1> SUFFICES ASSUME Init PROVE TypeInv
  OBVIOUS
<1>1. Start \in Int /\ End \in Int /\ Start <= End /\ Never \in Int
  BY Calendar DEF Never
<1>2. HouseOK
  BY <1>1, OfHouseholds DEF Init, HouseOK
<1>3. stamp \in [Jobs -> Entries] /\ \A j \in Jobs : stamp[j].at = Never
  BY <1>1 DEF Init, Entries
<1>4. sent \in [Jobs -> Outgoing] /\ \A j \in Jobs : sent[j].at = Never
  BY <1>1, Calendar DEF Init, Outgoing
<1>8. BooksOK /\ PastOK
  BY <1>3, <1>4 DEF BooksOK, PastOK
<1>5. SweepsOK /\ \A s \in Sweeps : sweep[s].pc = "idle"
  <2>1. sweep = [s \in Sweeps |-> Quiet] /\ Quiet.pc = "idle"
    BY DEF Init, Quiet
  <2>. QED BY <2>1, QuietWork DEF SweepsOK
<1>6. HoldsOK /\ SeenOK
  BY <1>5, Calendar DEF Init, HoldsOK, SeenOK, Flight
<1>7. TroublesOK
  BY Calendar DEF Init, TroublesOK
<1>. QED BY <1>2, <1>8, <1>5, <1>6, <1>7 DEF TypeInv

LEMMA ClockStands ==
  ASSUME TypeInv, UNCHANGED World
  PROVE  /\ HouseOK'
         /\ (BooksOK /\ UNCHANGED <<stamp, sent>>) => BooksOK' /\ PastOK'
BY DEF TypeInv, HouseOK, World, BooksOK, PastOK

(* A step that writes at most one job of each book, with the time it is.   *)
Wrote(Type, book, after) ==
  /\ after \in [Jobs -> Type]
  /\ \A j \in Jobs : after[j].at \in {book[j].at, clock, Never}

LEMMA BooksKept ==
  ASSUME TypeInv, UNCHANGED World, Wrote(Entries, stamp, stamp'), Wrote(Outgoing, sent, sent')
  PROVE  BooksOK' /\ PastOK'
<1>1. clock \in Start..clock /\ clock' = clock
  BY Calendar DEF TypeInv, HouseOK, World
<1>. QED BY <1>1 DEF TypeInv, BooksOK, PastOK, Wrote

LEMMA WroteNothing ==
  ASSUME TypeInv
  PROVE  /\ stamp' = stamp => Wrote(Entries, stamp, stamp')
         /\ sent' = sent => Wrote(Outgoing, sent, sent')
BY DEF TypeInv, BooksOK, Wrote

LEMMA WroteStamp ==
  ASSUME TypeInv, NEW j \in Jobs, NEW z \in Zones, Stamped(j, z)
  PROVE  Wrote(Entries, stamp, stamp')
<1>1. BooksOK /\ HouseOK
  BY DEF TypeInv
<1>. QED BY <1>1, StampedAt DEF Wrote

LEMMA WroteSent ==
  ASSUME TypeInv, NEW j \in Jobs, NEW z \in Zones, NEW y \in Int,
         Sends(j, z, y)
  PROVE  Wrote(Outgoing, sent, sent')
<1>1. BooksOK /\ HouseOK
  BY DEF TypeInv
<1>. QED BY <1>1, SentAt DEF Wrote

(* A sweep that keeps, or gives up, its place.                             *)
LEMMA HolderStays ==
  ASSUME TypeInv, NEW s \in Sweeps, Turned(s), UNCHANGED mailer,
         sweep[s].pc \in {"idle", "lock"} <=> sweep'[s].pc \in {"idle", "lock"}
  PROVE  HoldsOK'
<1>1. \A q \in Sweeps : q # s => sweep'[q] = sweep[q]
  BY DEF Turned, Others
<1>2. \A q \in Sweeps : sweep'[q].pc \in {"idle", "lock"}
                          <=> sweep[q].pc \in {"idle", "lock"}
  BY <1>1
<1>. QED BY <1>2 DEF TypeInv, HoldsOK

LEMMA SeenStays ==
  ASSUME TypeInv, UNCHANGED clock, NEW s \in Sweeps, Turned(s),
         sweep'[s].pc # "idle" => sweep'[s].began = sweep[s].began
                                  /\ sweep[s].pc # "idle",
         sweep'[s].pc \in Flight => sweep'[s].as \in Zones,
         sweep'[s].pc \in {"hook", "hookStamp"} => sweep'[s].cur = "daily"
  PROVE  SeenOK'
BY DEF TypeInv, SeenOK, Turned, Others

(* The one holder of the lock is the one sweep in flight.                  *)
LEMMA OneInHand ==
  ASSUME TypeInv, NEW s \in Sweeps, NEW q \in Sweeps,
         sweep[s].pc \notin {"idle", "lock"}, sweep[q].pc \notin {"idle", "lock"}
  PROVE  s = q
BY DEF TypeInv, HoldsOK

LEMMA Moved ==
  ASSUME Trouble, TroublesOK
  PROVE  TroublesOK' /\ troubles' = troubles + 1 /\ troubles' # 0
BY Calendar DEF Trouble, TroublesOK

LEMMA TypeStep == TypeInv /\ [Next]_mailvars => TypeInv'
<1> SUFFICES ASSUME TypeInv, [Next]_mailvars PROVE TypeInv'
  OBVIOUS
<1> USE DEF TypeInv
<1>0. /\ {"idle", "lock"} \cap Flight = {} /\ "next" \notin Flight
      /\ clock \in Int /\ Never \in Int
  BY Calendar DEF Flight, HouseOK, Never
<1>1. CASE Tick
  <2>1. clock' = clock + 1 /\ clock < End
    BY <1>1 DEF Tick
  <2>2. HouseOK'
    BY <1>1, <2>1, Calendar DEF Tick, HouseOK
  <2>3. BooksOK' /\ SweepsOK' /\ HoldsOK' /\ TroublesOK'
    BY <1>1 DEF Tick, BooksOK, SweepsOK, HoldsOK, TroublesOK
  <2>4. PastOK'
    BY <1>0, <1>1, <2>1, Calendar DEF Tick, PastOK
  <2>5. SeenOK'
    BY <1>0, <1>1, <2>1 DEF Tick, SeenOK, SweepsOK, Work
  <2>. QED BY <2>2, <2>3, <2>4, <2>5
<1>2. CASE Settings
  <2>1. budget \in BOOLEAN /\ (~budget) \in BOOLEAN
    BY Zenon DEF HouseOK
  <2>2. zone' \in Zones /\ people' \in {"some", "held", "none"}
    BY <1>2 DEF Settings, HouseOK
  <2>3. budget' \in BOOLEAN
    BY <1>2, <2>1, Zenon DEF Settings
  <2>4. UNCHANGED <<clock, born, wants, demo, stamp, mailer, sweep, sent>> /\ TroublesOK'
    BY <1>2, Moved DEF Settings
  <2>5. /\ clock' \in Start..End /\ born' \in {Never, Start} /\ demo' \in BOOLEAN
        /\ wants' \in SUBSET Channels
    BY <2>4 DEF HouseOK
  <2>6. HouseOK'
    BY <2>2, <2>3, <2>5, Zenon DEF HouseOK
  <2>7. BooksOK' /\ PastOK' /\ SweepsOK' /\ HoldsOK' /\ SeenOK'
    BY <2>4 DEF BooksOK, PastOK, SweepsOK, HoldsOK, SeenOK
  <2>. QED BY <2>4, <2>6, <2>7
<1>3. ASSUME NEW s \in Sweeps, Begin(s)
      PROVE  TypeInv'
  <2>1. /\ Turned(s) /\ sweep'[s].pc = "lock" /\ sweep'[s].began = clock
        /\ sweep[s].pc = "idle"
        /\ UNCHANGED <<clock, World, stamp, mailer, sent, troubles>>
    BY <1>3, TurnBegin DEF Begin, At, World
  <2>2. HouseOK' /\ BooksOK' /\ PastOK' /\ TroublesOK'
    BY <2>1, ClockStands DEF TroublesOK
  <2>3. HoldsOK'
    BY <2>1, HolderStays
  <2>4. SeenOK'
    BY <1>0, <2>1 DEF SeenOK, Turned, Others
  <2>. QED BY <2>1, <2>2, <2>3, <2>4 DEF Turned
<1>4. ASSUME NEW s \in Sweeps, TryLock(s)
      PROVE  TypeInv'
  <2>1. /\ Turned(s) /\ sweep[s].pc = "lock"
        /\ \/ /\ mailer = NoSweep /\ mailer' = s
              /\ sweep'[s].pc = "next" /\ sweep'[s].began = sweep[s].began
           \/ /\ mailer # NoSweep /\ mailer' = mailer /\ sweep'[s].pc = "idle"
    BY <1>4, TurnTryLock
  <2>2. UNCHANGED <<clock, World, stamp, sent, troubles>>
    BY <1>4 DEF TryLock, World
  <2>3. HouseOK' /\ BooksOK' /\ PastOK' /\ TroublesOK'
    BY <2>2, ClockStands DEF TroublesOK
  <2>4. HoldsOK'
    BY <2>1, Calendar DEF HoldsOK, Turned, Others
  <2>5. SeenOK'
    BY <1>0, <2>1, <2>2, SeenStays
  <2>. QED BY <2>1, <2>3, <2>4, <2>5 DEF Turned
<1>5. ASSUME NEW s \in Sweeps, Free(s)
      PROVE  TypeInv'
  <2>1. Turned(s) /\ sweep'[s].pc = "idle" /\ sweep[s].pc = "next" /\ mailer' = NoSweep
    BY <1>5, TurnQuiet DEF Free, At
  <2>2. UNCHANGED <<clock, World, stamp, sent, troubles>>
    BY <1>5 DEF Free, World
  <2>3. HouseOK' /\ BooksOK' /\ PastOK' /\ TroublesOK'
    BY <2>2, ClockStands DEF TroublesOK
  <2>4. HoldsOK'
    BY <2>1, Calendar DEF HoldsOK, Turned, Others
  <2>5. SeenOK'
    BY <1>0, <2>1, <2>2, SeenStays
  <2>. QED BY <2>1, <2>3, <2>4, <2>5 DEF Turned
<1>6. ASSUME NEW s \in Sweeps, NEW c \in Cadences, Build(s, c)
      PROVE  TypeInv'
  <2>1. /\ Turned(s) /\ sweep[s].pc = "next"
        /\ sweep'[s].began = sweep[s].began
        /\ \/ sweep'[s].pc = "next" /\ UNCHANGED stamp
           \/ sweep'[s].pc = "next" /\ Stamped(<<c, "mail">>, zone)
           \/ /\ sweep'[s].pc \in {"hook", "send"} /\ UNCHANGED stamp
              /\ sweep'[s].as = zone /\ sweep'[s].cur = c
              /\ sweep'[s].pc = "hook" => c = "daily"
    BY <1>6, TurnBuild
  <2>2. UNCHANGED <<clock, World, mailer, sent, troubles>>
    BY <1>6 DEF Build, World
  <2>3. <<c, "mail">> \in Jobs /\ zone \in Zones
    BY DEF Jobs, HouseOK
  <2>4. Wrote(Entries, stamp, stamp') /\ Wrote(Outgoing, sent, sent')
    BY <2>1, <2>2, <2>3, WroteNothing, WroteStamp
  <2>5. HouseOK' /\ BooksOK' /\ PastOK' /\ TroublesOK'
    BY <2>2, <2>4, ClockStands, BooksKept DEF TroublesOK
  <2>6. HoldsOK' /\ SeenOK'
    BY <1>0, <2>1, <2>2, <2>3, HolderStays, SeenStays
  <2>. QED BY <2>1, <2>5, <2>6 DEF Turned
<1>7. ASSUME NEW s \in Sweeps, Hook(s) \/ HookStamp(s) \/ Send(s) \/ Side(s)
                                 \/ SideStamp(s)
      PROVE  TypeInv'
  <2>1. sweep[s].pc \in Flight /\ sweep'[s].pc \in Flight /\ Turned(s) /\ Keeps(s)
    BY <1>7, TurnHook, TurnHookStamp, TurnSend, TurnSide, TurnSideStamp DEF Flight
  <2>2. UNCHANGED <<clock, World, mailer>>
    BY <1>7 DEF Hook, HookStamp, Send, Side, SideStamp, World
  <2>3. /\ sweep[s].as \in Zones /\ sweep[s].as \in Int /\ sweep[s].cur \in Cadences
        /\ Job(s, "mail") \in Jobs /\ Job(s, "side") \in Jobs
    BY <2>1, JobOf DEF SeenOK, SweepsOK, Work
  <2>4. sweep[s].pc \in {"hook", "hookStamp"} =>
          sweep[s].cur = "daily" /\ Job(s, "hook") \in Jobs
    BY JobOf DEF SeenOK
  <2>5. sweep'[s].pc \in {"hook", "hookStamp"} => sweep[s].pc = "hook"
    BY <1>7, TurnHook, TurnHookStamp, TurnSend, TurnSide, TurnSideStamp
  <2>6. HoldsOK' /\ SeenOK'
    BY <1>0, <2>1, <2>2, <2>3, <2>4, <2>5, HolderStays, SeenStays DEF Keeps
  <2>7. Wrote(Entries, stamp, stamp')
    <3>1. CASE Hook(s) \/ Send(s) \/ Side(s)
      BY <3>1, WroteNothing DEF Hook, Send, Side
    <3>2. CASE HookStamp(s)
      BY <2>3, <2>4, <3>2, TurnHookStamp, WroteStamp DEF HookStamp
    <3>3. CASE SideStamp(s)
      BY <2>3, <3>3, WroteStamp DEF SideStamp
    <3>. QED BY <1>7, <3>1, <3>2, <3>3
  <2>8. Wrote(Outgoing, sent, sent')
    <3>1. CASE Hook(s)
      BY <2>3, <2>4, <3>1, TurnHook, WroteNothing, WroteSent
    <3>2. CASE HookStamp(s) \/ SideStamp(s)
      BY <3>2, WroteNothing DEF HookStamp, SideStamp
    <3>3. CASE Send(s)
      BY <3>3, TurnSend, WroteNothing DEF Wrote
    <3>4. CASE Side(s)
      BY <2>3, <3>4, TurnSide, WroteNothing, WroteSent
    <3>. QED BY <1>7, <3>1, <3>2, <3>3, <3>4
  <2>9. TroublesOK'
    <3>1. CASE troubles' = troubles
      BY <3>1 DEF TroublesOK
    <3>2. CASE Trouble
      BY <3>2, Moved
    <3>. QED BY <1>7, <3>1, <3>2 DEF Hook, HookStamp, Send, Side, SideStamp
  <2>. QED BY <2>1, <2>2, <2>6, <2>7, <2>8, <2>9, ClockStands, BooksKept DEF Turned
<1>8. ASSUME NEW s \in Sweeps, Stamp(s)
      PROVE  TypeInv'
  <2>1. /\ sweep[s].pc = "stamp" /\ Turned(s) /\ sweep'[s].pc = "next"
        /\ sweep'[s].began = sweep[s].began
    BY <1>8, StampMoves DEF Stamp, At
  <2>2. UNCHANGED <<clock, World, mailer, sent, troubles>>
    BY <1>8 DEF Stamp, World
  <2>3. sweep[s].as \in Zones /\ Job(s, "mail") \in Jobs
    BY <2>1, JobOf DEF SeenOK, Flight
  <2>4. Wrote(Entries, stamp, stamp') /\ Wrote(Outgoing, sent, sent')
    BY <1>8, <2>2, <2>3, WroteNothing, WroteStamp DEF Stamp
  <2>5. HouseOK' /\ BooksOK' /\ PastOK' /\ TroublesOK'
    BY <2>2, <2>4, ClockStands, BooksKept DEF TroublesOK
  <2>6. HoldsOK' /\ SeenOK'
    BY <1>0, <2>1, <2>2, HolderStays, SeenStays
  <2>. QED BY <2>1, <2>5, <2>6 DEF Turned
<1>9. ASSUME NEW s \in Sweeps, Dies(s)
      PROVE  TypeInv'
  <2>1. /\ Turned(s) /\ sweep'[s].pc = "idle" /\ Trouble
        /\ sent' \in [Jobs -> Outgoing]
        /\ \A j \in Jobs : sent'[j] = sent[j] \/ sent'[j].at = Never
    BY <1>9, TurnDies
  <2>2. UNCHANGED <<clock, World, stamp>>
    BY <1>9 DEF Dies, World
  <2>3. Wrote(Entries, stamp, stamp') /\ Wrote(Outgoing, sent, sent')
    BY <2>1, <2>2, WroteNothing DEF Wrote
  <2>4. HouseOK' /\ BooksOK' /\ PastOK' /\ TroublesOK'
    BY <2>1, <2>2, <2>3, ClockStands, BooksKept, Moved
  <2>5. mailer' = IF mailer = s THEN NoSweep ELSE mailer
    BY <1>9 DEF Dies
  <2>6. HoldsOK'
    BY <2>1, <2>5, Calendar DEF HoldsOK, Turned, Others
  <2>7. SeenOK'
    BY <1>0, <2>1, <2>2, SeenStays
  <2>. QED BY <2>1, <2>4, <2>6, <2>7 DEF Turned
<1>10. CASE UNCHANGED mailvars
  BY <1>10 DEF mailvars, HouseOK, BooksOK, PastOK, SweepsOK, HoldsOK, SeenOK,
     TroublesOK
<1>. QED
  BY <1>1, <1>2, <1>3, <1>4, <1>5, <1>6, <1>7, <1>8, <1>9, <1>10 DEF Next, SweepStep

(* Every variable keeps its type, the lock is with the one sweep past its  *)
(* try-lock, and no stamp lies ahead of the clock.                         *)
THEOREM TypeCorrect == Spec => []TypeOK
<1>1. TypeInv => TypeOK
  <2> SUFFICES ASSUME TypeInv PROVE TypeOK
    OBVIOUS
  <2>3. \A r \in {stamp, sent} :
          /\ DOMAIN r = Jobs
          /\ \A j \in Jobs : r[j].at \in {Never} \cup Start..clock
                             /\ r[j].zone \in Zones
    BY DEF TypeInv, BooksOK, Entries, Outgoing, PastOK
  <2>4. \A s \in Sweeps :
          /\ sweep[s].pc \in {"idle", "lock", "next", "hook", "hookStamp",
                              "send", "side", "sideStamp", "stamp"}
          /\ sweep[s].todo \subseteq Cadences
    BY DEF TypeInv, SweepsOK, Work, Places, Flight
  <2>. QED BY <2>3, <2>4 DEF TypeInv, HouseOK, HoldsOK, TroublesOK, TypeOK
<1>. QED BY <1>1, TypeInit, TypeStep, PTL DEF Spec

----------------------------------------------------------------------------
(* What keeps two of a kind apart.  Over: by entry e the day had turned at *)
(* t, in zone z and in the entry's own; Open: e leaves cadence c open at   *)
(* t.  Tied: what last went is accounted for by the stamp, whose zone is   *)
(* its own, or which was written on a later day of its zone.               *)

Over(e, z, t) ==
  e.at < Midnight(z, t) /\ (e.zone # z => e.at < Midnight(e.zone, t))
Open(c, e, z, t) ==
  IF c = "monthly" THEN e.at < MonthStart(z, t) - Slack * DayLen ELSE Over(e, z, t)
Tied(c, was, e) ==
  was.at # Never =>
    /\ was.at <= e.at
    /\ c = "daily" => e.zone = was.zone \/ was.at < Midnight(was.zone, e.at)

LEMMA EntryIs ==
  ASSUME NEW e \in Entries
  PROVE  e.at \in Int /\ e.zone \in Int
BY Calendar DEF Entries

LEMMA OutgoingIs ==
  ASSUME NEW e \in Outgoing
  PROVE  e.at \in Int /\ e.zone \in Int /\ e.by \in Int
BY Calendar DEF Outgoing

LEMMA OverLater ==
  ASSUME NEW e \in Entries, NEW z \in Int, NEW t \in Int, NEW u \in Int, t <= u,
         Over(e, z, t)
  PROVE  Over(e, z, u)
<1>1. e.at \in Int /\ e.zone \in Int
  BY EntryIs
<1>2. Midnight(z, t) <= Midnight(z, u) /\ Midnight(z, t) \in Int /\ Midnight(z, u) \in Int
  BY MidnightMono, MidnightBefore
<1>3. /\ Midnight(e.zone, t) <= Midnight(e.zone, u)
      /\ Midnight(e.zone, t) \in Int /\ Midnight(e.zone, u) \in Int
  BY <1>1, MidnightMono, MidnightBefore
<1>. QED BY <1>1, <1>2, <1>3 DEF Over

LEMMA OpenLater ==
  ASSUME NEW e \in Entries, NEW c \in Cadences, NEW z \in Int, NEW t \in Int,
         NEW u \in Int, t <= u, Open(c, e, z, t)
  PROVE  Open(c, e, z, u)
<1>1. e.at \in Int /\ Slack * DayLen \in Int
  BY EntryIs, Calendar
<1>2. /\ MonthStart(z, t) <= MonthStart(z, u)
      /\ MonthStart(z, t) \in Int /\ MonthStart(z, u) \in Int
  BY MonthStartMono, MonthStartBefore
<1>3. CASE c = "monthly"
  <2> DEFINE d == Slack * DayLen
  <2>1. d \in Int /\ e.at < MonthStart(z, t) - d
    BY <1>1, <1>3 DEF Open
  <2> HIDE DEF d
  <2>2. e.at < MonthStart(z, u) - d
    BY <1>1, <1>2, <2>1
  <2>. QED BY <1>3, <2>2 DEF Open, d
<1>4. CASE c # "monthly"
  BY <1>4, OverLater DEF Open
<1>. QED BY <1>3, <1>4

(* What is open was stamped before now.                                    *)
LEMMA OpenBefore ==
  ASSUME NEW e \in Entries, NEW c \in Cadences, NEW z \in Int, NEW t \in Int,
         NEW u \in Int, t <= u, Open(c, e, z, t)
  PROVE  e.at < u
<1>1. /\ e.at \in Int /\ Midnight(z, t) \in Int /\ Midnight(z, t) <= t
      /\ MonthStart(z, t) \in Int /\ MonthStart(z, t) <= t
  BY EntryIs, MidnightBefore, MonthStartBefore
<1> DEFINE d == Slack * DayLen
<1>2. d \in Nat
  BY Calendar
<1>3. CASE c = "monthly"
  <2>1. e.at < MonthStart(z, t) - d
    BY <1>3 DEF Open
  <2> HIDE DEF d
  <2>. QED BY <1>1, <1>2, <2>1
<1>4. CASE c # "monthly"
  BY <1>1, <1>4 DEF Open, Over
<1>. QED BY <1>3, <1>4

(* The heart of it: a stamp by which the day has turned, to which what     *)
(* last went is tied, tells that it went before this day's midnight in the *)
(* zone it went in and in the one it would go in now.                      *)
LEMMA DayTurned ==
  ASSUME NEW was \in Outgoing, NEW e \in Entries, NEW z \in Int, NEW t \in Int,
         NEW u \in Int, t <= u, e.at <= u, was.at # Never,
         Tied("daily", was, e), Over(e, z, t)
  PROVE  was.at < Midnight(z, u) /\ was.at < Midnight(was.zone, u) /\ was.at <= u
<1>1. was.at \in Int /\ was.zone \in Int /\ e.at \in Int /\ e.zone \in Int
  BY EntryIs, OutgoingIs
<1>2. Over(e, z, u)
  BY OverLater
<1>3. /\ Midnight(z, u) \in Int /\ Midnight(e.zone, u) \in Int
      /\ Midnight(was.zone, u) \in Int /\ Midnight(was.zone, e.at) \in Int
  BY <1>1, MidnightBefore
<1>4. Midnight(was.zone, e.at) <= Midnight(was.zone, u)
  BY <1>1, MidnightMono
<1>5. was.at <= e.at
        /\ (e.zone = was.zone \/ was.at < Midnight(was.zone, e.at))
  BY DEF Tied
<1>6. e.at < Midnight(z, u) /\ (e.zone # z => e.at < Midnight(e.zone, u))
  BY <1>2 DEF Over
<1>7. e.at < Midnight(e.zone, u)
  BY <1>6
<1>. QED BY <1>1, <1>3, <1>4, <1>5, <1>6, <1>7

(* So the stamp may be written anew, in any zone, and still account for it. *)
LEMMA TiedAnew ==
  ASSUME NEW was \in Outgoing, NEW e \in Entries, NEW z \in Int, NEW t \in Int,
         NEW u \in Int, NEW new \in Entries, t <= u, e.at <= u, new.at = u,
         Tied("daily", was, e), Over(e, z, t)
  PROVE  Tied("daily", was, new)
BY DayTurned DEF Tied

(* The invariant.  FitOf: what a sweep has in hand was open when it looked *)
(* and has not been stamped since; Bet: the sweep with record w has sent   *)
(* job j, or may have, and not stamped it yet, so that what went (e) is    *)
(* later than the stamp (r).                                               *)
Told == {<<"daily", "mail">>, <<"daily", "side">>, <<"daily", "hook">>,
         <<"monthly", "side">>}

FitOf(w, st, se, t) ==
  /\ "daily" \in w.todo =>
       w.pc = "next" /\ Over(st[<<"daily", "mail">>], w.zone, w.began)
  /\ w.pc \in Flight /\ w.cur = "daily" =>
       Over(st[<<"daily", "mail">>], w.zone, w.began)
  /\ w.pc \in {"send", "side"} /\ w.side = TRUE =>
       Open(w.cur, st[<<w.cur, "side">>], w.as, t)
  /\ w.pc \in Flight /\ w.to = TRUE => w.had = TRUE
  /\ w.pc \notin {"side", "sideStamp", "stamp"} => w.failed = FALSE
  /\ w.pc = "hookStamp" => se[<<"daily", "hook">>].zone = w.as
  /\ w.pc = "sideStamp" => se[<<w.cur, "side">>].zone = w.as
Bet(w, j, e, r) ==
  /\ w.cur = j[1] /\ e.zone = w.as /\ r.at < e.at
  /\ \/ /\ j[2] = "mail" /\ w.pc \in {"side", "sideStamp", "stamp"}
        /\ w.had = TRUE /\ w.failed = FALSE
     \/ j[2] = "side" /\ w.pc = "sideStamp"
     \/ j[2] = "hook" /\ w.pc = "hookStamp"

Fit == \A s \in Sweeps : FitOf(sweep[s], stamp, sent, clock)
Booked ==
  \A j \in Told : \/ Tied(j[1], sent[j], stamp[j])
                  \/ \E s \in Sweeps : Bet(sweep[s], j, sent[j], stamp[j])

BookInv == TypeInv /\ Fit /\ Booked

----------------------------------------------------------------------------
(* Fit is kept: only the holder of the lock writes what it has looked at.  *)

LEMMA EntriesOf ==
  ASSUME BooksOK, NEW j \in Jobs
  PROVE  stamp[j] \in Entries /\ sent[j] \in Outgoing
BY DEF BooksOK

LEMMA DailyJobs ==
  /\ <<"daily", "mail">> \in Jobs /\ <<"daily", "side">> \in Jobs
  /\ <<"daily", "hook">> \in Jobs /\ <<"monthly", "side">> \in Jobs
  /\ Told \subseteq Jobs
BY DEF Jobs, Cadences, Told

LEMMA FitStands ==
  ASSUME TypeInv, NEW w \in Work, FitOf(w, stamp, sent, clock),
         w.pc \in Flight => w.as \in Zones,
         stamp' = stamp, sent' = sent, clock' \in Int, clock <= clock'
  PROVE  FitOf(w, stamp', sent', clock')
<1>1. clock \in Int
  BY Calendar DEF TypeInv, HouseOK
<1>2. w.pc \in {"send", "side"} /\ w.side = TRUE =>
        Open(w.cur, stamp[<<w.cur, "side">>], w.as, clock')
  <2> SUFFICES ASSUME w.pc \in {"send", "side"}, w.side = TRUE
               PROVE  Open(w.cur, stamp[<<w.cur, "side">>], w.as, clock')
    OBVIOUS
  <2>1. w.cur \in Cadences /\ w.as \in Int
    BY DEF Work
  <2>2. <<w.cur, "side">> \in Jobs
    BY <2>1 DEF Jobs
  <2>3. stamp[<<w.cur, "side">>] \in Entries
    BY <2>2 DEF TypeInv, BooksOK
  <2>4. Open(w.cur, stamp[<<w.cur, "side">>], w.as, clock)
    BY DEF FitOf
  <2>. QED BY <1>1, <2>1, <2>3, <2>4, OpenLater
<1>. QED BY <1>2 DEF FitOf

(* A sweep that is not past its try-lock has nothing in hand.              *)
LEMMA FitAway ==
  ASSUME NEW w, NEW st, NEW se, NEW t, NEW st2, NEW se2, NEW t2,
         FitOf(w, st, se, t), w.pc \in {"idle", "lock"}
  PROVE  FitOf(w, st2, se2, t2)
BY DEF FitOf, Flight

LEMMA FitOthers ==
  ASSUME TypeInv, Fit, NEW s \in Sweeps, sweep[s].pc \notin {"idle", "lock"},
         Others(s), NEW q \in Sweeps, q # s
  PROVE  FitOf(sweep'[q], stamp', sent', clock')
<1>1. sweep'[q] = sweep[q] /\ sweep[q].pc \in {"idle", "lock"}
  BY OneInHand DEF Others
<1>2. FitOf(sweep[q], stamp, sent, clock)
  BY DEF Fit
<1>3. FitOf(sweep[q], stamp', sent', clock')
  BY <1>1, <1>2, FitAway
<1>. QED BY <1>1, <1>3

LEMMA FreshIsOver ==
  \A j, z, t : Fresh(j, z, t) <=> Over(stamp[j], z, t)
BY DEF Fresh, Over

LEMMA StillOpen ==
  \A c, z : ~SideDone(c, z) <=> Open(c, stamp[<<c, "side">>], z, clock)
BY FreshIsOver DEF SideDone, Open, Unsent

LEMMA FitInit == Init => Fit
BY DEF Init, Fit, FitOf, Quiet, Flight

LEMMA FitStep == TypeInv /\ Fit /\ [Next]_mailvars => Fit'
<1> SUFFICES ASSUME TypeInv, Fit, [Next]_mailvars PROVE Fit'
  OBVIOUS
<1>0. /\ HouseOK /\ BooksOK /\ SweepsOK /\ SeenOK /\ clock \in Int
      /\ \A s \in Sweeps : FitOf(sweep[s], stamp, sent, clock) /\ sweep[s] \in Work
  BY Calendar DEF TypeInv, HouseOK, SweepsOK, Fit
<1>1. ASSUME UNCHANGED <<stamp, sent>>, clock' \in Int, clock <= clock',
             NEW q \in Sweeps, sweep'[q] = sweep[q]
      PROVE  FitOf(sweep'[q], stamp', sent', clock')
  <2>1. sweep[q].pc \in Flight => sweep[q].as \in Zones
    BY <1>0 DEF SeenOK
  <2>2. FitOf(sweep[q], stamp', sent', clock')
    BY <1>0, <1>1, <2>1, FitStands
  <2>. QED BY <1>1, <2>2
<1>2. CASE Tick \/ Settings
  <2>1. UNCHANGED <<stamp, sent, sweep>> /\ clock' \in Int /\ clock <= clock'
    BY <1>0, <1>2 DEF Tick, Settings
  <2>. QED BY <1>1, <2>1 DEF Fit
<1>3. ASSUME NEW s \in Sweeps, Begin(s) \/ TryLock(s)
      PROVE  Fit'
  <2>1. UNCHANGED <<stamp, sent>> /\ clock' \in Int /\ clock <= clock' /\ clock' = clock
    BY <1>0, <1>3 DEF Begin, TryLock, World
  <2>2. Turned(s) /\ sweep'[s].failed = FALSE
    BY <1>0, <1>3, TurnBegin, TurnTryLock DEF FitOf
  <2>3. /\ sweep'[s].pc \in {"idle", "lock", "next"}
        /\ "daily" \in sweep'[s].todo =>
             sweep'[s].pc = "next"
             /\ Over(stamp[<<"daily", "mail">>], sweep'[s].zone, sweep'[s].began)
    <3>1. CASE Begin(s)
      BY <1>0, <3>1, TurnBegin
    <3>2. CASE TryLock(s)
      <4>1. \/ /\ sweep'[s].pc = "next" /\ sweep'[s].began = sweep[s].began
               /\ sweep'[s].zone = zone
               /\ sweep'[s].todo = Due(zone, sweep[s].began)
            \/ sweep'[s].pc = "idle" /\ sweep'[s].todo = {}
        BY <1>0, <3>2, TurnTryLock
      <4>2. "daily" \in Due(zone, sweep[s].began) =>
              Fresh(<<"daily", "mail">>, zone, sweep[s].began)
        BY DEF Due, DailyDue
      <4>. QED BY <4>1, <4>2, FreshIsOver
    <3>. QED BY <1>3, <3>1, <3>2
  <2>4. FitOf(sweep'[s], stamp', sent', clock')
    BY <2>1, <2>2, <2>3 DEF FitOf, Flight
  <2>. QED BY <1>1, <2>1, <2>2, <2>4 DEF Fit, Turned, Others
<1>4. ASSUME NEW s \in Sweeps, Free(s)
      PROVE  Fit'
  <2>1. /\ Turned(s) /\ sweep'[s].pc = "idle" /\ sweep'[s].todo = {}
        /\ sweep'[s].failed = FALSE /\ sweep[s].pc = "next"
    BY <1>0, <1>4, TurnQuiet DEF Free, At
  <2>2. FitOf(sweep'[s], stamp', sent', clock')
    BY <2>1 DEF FitOf, Flight
  <2>. QED BY <2>1, <2>2, FitOthers DEF Fit, Turned
<1>5. ASSUME NEW s \in Sweeps, Dies(s)
      PROVE  Fit'
  <2>1. /\ Turned(s) /\ sweep'[s].pc = "idle" /\ sweep'[s].todo = {}
        /\ sweep'[s].failed = FALSE
        /\ mailer # s => sent' = sent
    BY <1>0, <1>5, TurnDies
  <2>2. UNCHANGED <<stamp, clock>>
    BY <1>5 DEF Dies, World
  <2>3. FitOf(sweep'[s], stamp', sent', clock')
    BY <2>1 DEF FitOf, Flight
  <2>4. ASSUME NEW q \in Sweeps, q # s
        PROVE  FitOf(sweep'[q], stamp', sent', clock')
    <3>1. sweep'[q] = sweep[q]
      BY <2>1, <2>4 DEF Turned, Others
    <3>2. CASE sweep[s].pc \notin {"idle", "lock"}
      BY <2>1, <2>4, <3>2, FitOthers DEF Turned
    <3>3. CASE sweep[s].pc \in {"idle", "lock"}
      <4>1. sent' = sent
        BY <2>1, <3>3 DEF TypeInv, HoldsOK
      <4>. QED BY <1>0, <1>1, <2>2, <3>1, <4>1
    <3>. QED BY <3>2, <3>3
  <2>. QED BY <2>3, <2>4 DEF Fit
<1>6. ASSUME NEW s \in Sweeps, NEW c \in Cadences, Build(s, c)
      PROVE  Fit'
  <2>1. FitOf(sweep[s], stamp, sent, clock)
    BY <1>0
  <2>2. UNCHANGED <<sent, clock>> /\ zone \in Int
    BY <1>0, <1>6, Calendar DEF Build, World, HouseOK
  <2>3. sweep[s].pc = "next" /\ sweep[s].failed = FALSE
    BY <1>0, <1>6, <2>1, TurnBuild DEF FitOf
  <2>4. Turned(s) /\ FitOf(sweep'[s], stamp', sent', clock')
    <3>1. /\ Turned(s) /\ c \in sweep[s].todo
          /\ c = "monthly" => "daily" \notin sweep[s].todo
          /\ sweep'[s].began = sweep[s].began /\ sweep'[s].zone = sweep[s].zone
          /\ sweep'[s].todo = sweep[s].todo \ {c} /\ sweep'[s].failed = FALSE
      BY <1>0, <1>6, <2>3, TurnBuild
    <3>2. "daily" \notin sweep'[s].todo
      BY <3>1 DEF Cadences
    <3>3. CASE sweep'[s].pc = "next"
      BY <3>1, <3>2, <3>3 DEF FitOf, Flight
    <3>4. CASE sweep'[s].pc # "next"
      <4>1. /\ sweep'[s].pc \in {"hook", "send"} /\ stamp' = stamp
            /\ sweep'[s].cur = c /\ sweep'[s].as = zone
            /\ sweep'[s].to = TRUE => sweep'[s].had = TRUE
            /\ sweep'[s].pc = "send" /\ sweep'[s].side = TRUE => ~SideDone(c, zone)
        BY <1>0, <1>6, <3>4, TurnBuild
      <4>2. c = "daily" => Over(stamp[<<"daily", "mail">>], sweep[s].zone, sweep[s].began)
        BY <2>1, <3>1 DEF FitOf
      <4>3. sweep'[s].pc = "send" /\ sweep'[s].side = TRUE =>
              Open(c, stamp[<<c, "side">>], zone, clock)
        BY <4>1, StillOpen
      <4>. QED BY <2>2, <3>1, <3>2, <4>1, <4>2, <4>3 DEF FitOf
    <3>. QED BY <3>1, <3>3, <3>4
  <2>. QED BY <2>3, <2>4, FitOthers DEF Fit, Turned
<1>7. ASSUME NEW s \in Sweeps, sweep[s].pc \in Flight, Turned(s), Keeps(s),
             sweep'[s].pc \in Flight, clock' = clock,
             stamp'[<<"daily", "mail">>] = stamp[<<"daily", "mail">>],
             sweep'[s].pc \notin {"side", "sideStamp", "stamp"} =>
               sweep'[s].failed = FALSE,
             sweep'[s].pc \in {"send", "side"} /\ sweep'[s].side = TRUE =>
               Open(sweep[s].cur, stamp'[<<sweep[s].cur, "side">>], sweep[s].as, clock),
             sweep'[s].pc = "hookStamp" =>
               sent'[<<"daily", "hook">>].zone = sweep[s].as,
             sweep'[s].pc = "sideStamp" =>
               sent'[<<sweep[s].cur, "side">>].zone = sweep[s].as
      PROVE  Fit'
  <2>1. FitOf(sweep[s], stamp, sent, clock)
    BY <1>0
  <2>2. "daily" \notin sweep[s].todo
    BY <1>7, <2>1 DEF FitOf, Flight
  <2>3. FitOf(sweep'[s], stamp', sent', clock')
    BY <1>7, <2>1, <2>2 DEF FitOf, Keeps
  <2>4. sweep[s].pc \notin {"idle", "lock"}
    BY <1>7 DEF Flight
  <2>. QED BY <1>7, <2>3, <2>4, FitOthers DEF Fit, Turned
<1>8. ASSUME NEW s \in Sweeps, sweep[s].pc \in Flight
      PROVE  /\ sweep[s].cur \in Cadences /\ sweep[s].as \in Zones
             /\ sweep[s].as \in Int /\ sweep[s].zone \in Int
             /\ Job(s, "mail") \in Jobs /\ Job(s, "side") \in Jobs
             /\ Job(s, "hook") = <<sweep[s].cur, "hook">>
             /\ Job(s, "side") = <<sweep[s].cur, "side">>
             /\ Job(s, "mail") = <<sweep[s].cur, "mail">>
             /\ sweep[s].pc \in {"hook", "hookStamp"} =>
                  sweep[s].cur = "daily" /\ Job(s, "hook") \in Jobs
             /\ FitOf(sweep[s], stamp, sent, clock)
             /\ clock \in Int /\ HouseOK /\ BooksOK /\ SweepsOK /\ SeenOK
  BY <1>0, <1>8, JobOf DEF Job, SeenOK, Work
<1>9. ASSUME NEW s \in Sweeps, Hook(s)
      PROVE  Fit'
  <2>1. /\ Turned(s) /\ Keeps(s) /\ sweep[s].pc = "hook"
        /\ sweep'[s].failed = sweep[s].failed
        /\ \/ /\ sweep'[s].pc = "send"
              /\ sweep'[s].side = TRUE => ~SideDone(sweep[s].cur, sweep[s].as)
           \/ /\ sweep'[s].pc = "hookStamp"
              /\ Sends(Job(s, "hook"), sweep[s].as, sweep[s].as)
    BY <1>0, <1>9, TurnHook
  <2>2. UNCHANGED <<stamp, clock>>
    BY <1>9 DEF Hook, World
  <2>3. sweep[s].pc \in Flight /\ sweep'[s].pc \in Flight
    BY <2>1 DEF Flight
  <2>4. sweep'[s].failed = FALSE
    BY <1>8, <2>1, <2>3 DEF FitOf
  <2>5. sweep'[s].pc = "hookStamp" => sent'[<<"daily", "hook">>].zone = sweep[s].as
    BY <1>8, <2>1, <2>3, SentAt
  <2>6. sweep'[s].pc \in {"send", "side"} /\ sweep'[s].side = TRUE =>
          Open(sweep[s].cur, stamp'[<<sweep[s].cur, "side">>], sweep[s].as, clock)
    BY <2>1, <2>2, StillOpen
  <2>. QED BY <1>7, <2>1, <2>2, <2>3, <2>4, <2>5, <2>6
<1>10. ASSUME NEW s \in Sweeps, HookStamp(s)
       PROVE  Fit'
  <2>1. /\ Turned(s) /\ Keeps(s) /\ sweep[s].pc = "hookStamp"
        /\ sweep'[s].pc = "send" /\ sweep'[s].failed = sweep[s].failed
        /\ sweep'[s].side = TRUE => ~SideDone(sweep[s].cur, sweep[s].as)
    BY <1>0, <1>10, TurnHookStamp
  <2>2. UNCHANGED <<clock, sent>> /\ Stamped(Job(s, "hook"), sweep[s].as)
    BY <1>10 DEF HookStamp, World
  <2>3. sweep[s].pc \in Flight /\ sweep'[s].pc \in Flight
    BY <2>1 DEF Flight
  <2>4. sweep'[s].failed = FALSE /\ sweep[s].cur = "daily"
          /\ Job(s, "hook") \in Jobs /\ Job(s, "hook") = <<"daily", "hook">>
    BY <1>8, <2>1, <2>3 DEF FitOf
  <2>5. \A k \in Jobs \ {<<"daily", "hook">>} : stamp'[k] = stamp[k]
    BY <1>8, <2>2, <2>3, <2>4, StampedAt
  <2>6. /\ stamp'[<<"daily", "mail">>] = stamp[<<"daily", "mail">>]
        /\ stamp'[<<"daily", "side">>] = stamp[<<"daily", "side">>]
    BY <2>5, DailyJobs
  <2>7. sweep'[s].pc \in {"send", "side"} /\ sweep'[s].side = TRUE =>
          Open(sweep[s].cur, stamp'[<<sweep[s].cur, "side">>], sweep[s].as, clock)
    BY <2>1, <2>4, <2>6, StillOpen
  <2>. QED BY <1>7, <2>1, <2>2, <2>3, <2>4, <2>6, <2>7
<1>11. ASSUME NEW s \in Sweeps, Send(s)
       PROVE  Fit'
  <2>1. /\ Turned(s) /\ Keeps(s) /\ sweep[s].pc = "send" /\ sweep'[s].pc = "side"
        /\ sweep'[s].side = sweep[s].side
    BY <1>0, <1>11, TurnSend
  <2>2. UNCHANGED <<clock, stamp>>
    BY <1>11 DEF Send, World
  <2>3. sweep[s].pc \in Flight /\ sweep'[s].pc \in Flight
    BY <2>1 DEF Flight
  <2>4. sweep'[s].side = TRUE =>
          Open(sweep[s].cur, stamp'[<<sweep[s].cur, "side">>], sweep[s].as, clock)
    BY <1>8, <2>1, <2>2, <2>3 DEF FitOf
  <2>. QED BY <1>7, <2>1, <2>2, <2>3, <2>4
<1>12. ASSUME NEW s \in Sweeps, Side(s)
       PROVE  Fit'
  <2>1. /\ Turned(s) /\ Keeps(s) /\ sweep[s].pc = "side"
        /\ \/ /\ sweep'[s].pc = "sideStamp"
              /\ Sends(Job(s, "side"), sweep[s].as, sweep[s].as)
           \/ sweep'[s].pc = "stamp"
    BY <1>0, <1>12, TurnSide
  <2>2. UNCHANGED <<clock, stamp>>
    BY <1>12 DEF Side, World
  <2>3. sweep[s].pc \in Flight /\ sweep'[s].pc \in Flight
    BY <2>1 DEF Flight
  <2>4. sweep'[s].pc = "sideStamp" => sent'[<<sweep[s].cur, "side">>].zone = sweep[s].as
    BY <1>8, <2>1, <2>3, SentAt
  <2>. QED BY <1>7, <2>1, <2>2, <2>3, <2>4
<1>13. ASSUME NEW s \in Sweeps, SideStamp(s)
       PROVE  Fit'
  <2>1. /\ Turned(s) /\ Keeps(s) /\ sweep[s].pc = "sideStamp" /\ sweep'[s].pc = "stamp"
    BY <1>0, <1>13, TurnSideStamp
  <2>2. UNCHANGED <<clock, sent>> /\ Stamped(Job(s, "side"), sweep[s].as)
    BY <1>13 DEF SideStamp, World
  <2>3. sweep[s].pc \in Flight /\ sweep'[s].pc \in Flight
    BY <2>1 DEF Flight
  <2>4. stamp'[<<"daily", "mail">>] = stamp[<<"daily", "mail">>]
    BY <1>8, <2>2, <2>3, StampedAt, DailyJobs
  <2>. QED BY <1>7, <2>1, <2>2, <2>3, <2>4
<1>14. ASSUME NEW s \in Sweeps, Stamp(s)
       PROVE  Fit'
  <2>1. /\ Turned(s) /\ sweep[s].pc = "stamp" /\ sweep'[s].pc = "next"
        /\ sweep'[s].began = sweep[s].began /\ sweep'[s].zone = sweep[s].zone
        /\ sweep'[s].todo = sweep[s].todo /\ sweep'[s].failed = FALSE
    BY <1>0, <1>14, StampMoves
  <2>2. FitOf(sweep[s], stamp, sent, clock)
    BY <1>0
  <2>3. "daily" \notin sweep'[s].todo
    BY <2>1, <2>2 DEF FitOf
  <2>4. FitOf(sweep'[s], stamp', sent', clock')
    BY <2>1, <2>3 DEF FitOf, Flight
  <2>. QED BY <2>1, <2>4, FitOthers DEF Fit, Turned
<1>15. CASE UNCHANGED mailvars
  <2>1. UNCHANGED <<stamp, sent, sweep>> /\ clock' \in Int /\ clock <= clock'
    BY <1>0, <1>15 DEF mailvars
  <2>. QED BY <1>1, <2>1 DEF Fit
<1>. QED
  BY <1>2, <1>3, <1>4, <1>5, <1>6, <1>9, <1>10, <1>11, <1>12, <1>13, <1>14, <1>15
  DEF Next, SweepStep

----------------------------------------------------------------------------
(* Booked is kept.                                                         *)

(* Only the holder can have sent and not stamped.                          *)
LEMMA OnlyTheHolder ==
  ASSUME BookInv, NEW s \in Sweeps, sweep[s].pc \notin {"idle", "lock"},
         NEW j \in Told
  PROVE  Tied(j[1], sent[j], stamp[j]) \/ Bet(sweep[s], j, sent[j], stamp[j])
<1>1. \A q \in Sweeps : Bet(sweep[q], j, sent[j], stamp[j]) => q = s
  BY OneInHand DEF BookInv, Bet
<1>. QED BY <1>1 DEF BookInv, Booked

LEMMA BookedStands ==
  ASSUME Booked, stamp' = stamp, sent' = sent,
         \A q \in Sweeps : sweep[q].pc \in Flight => sweep'[q] = sweep[q]
  PROVE  Booked'
<1>1. \A q \in Sweeps : \A j \in Told :
        Bet(sweep[q], j, sent[j], stamp[j]) => Bet(sweep'[q], j, sent'[j], stamp'[j])
  BY DEF Bet, Flight
<1>. QED BY <1>1 DEF Booked

(* A stamp written anew by a sweep for which the day had turned.           *)
LEMMA Restamped ==
  ASSUME BookInv, NEW j \in Jobs, j[1] = "daily", NEW z \in Int, NEW t \in Int,
         t <= clock, Over(stamp[j], z, t), Tied(j[1], sent[j], stamp[j]),
         NEW y \in Zones, Stamped(j, y), sent' = sent
  PROVE  Tied(j[1], sent'[j], stamp'[j])
<1>1. /\ HouseOK /\ BooksOK /\ clock \in Int
      /\ stamp[j] \in Entries /\ sent[j] \in Outgoing /\ stamp[j].at <= clock
  BY Calendar, EntriesOf DEF BookInv, TypeInv, HouseOK, PastOK, Never
<1>2. stamp'[j] \in Entries /\ stamp'[j].at = clock
  BY <1>1, StampedAt
<1>. QED BY <1>1, <1>2, TiedAnew

(* A stamp in the zone the thing went in.                                  *)
LEMMA StampedSame ==
  ASSUME BookInv, NEW j \in Jobs, NEW y \in Zones, sent[j].zone = y,
         Stamped(j, y), sent' = sent
  PROVE  Tied(j[1], sent'[j], stamp'[j])
<1>1. HouseOK /\ BooksOK /\ clock \in Int /\ sent[j].at <= clock
  BY Calendar DEF BookInv, TypeInv, HouseOK, PastOK, Never
<1>2. stamp'[j].at = clock /\ stamp'[j].zone = y
  BY <1>1, StampedAt
<1>. QED BY <1>1, <1>2 DEF Tied

LEMMA BookedInit == Init => Booked
BY DailyJobs DEF Init, Booked, Tied

LEMMA BookedStep == BookInv /\ [Next]_mailvars => Booked'
<1> SUFFICES ASSUME BookInv, [Next]_mailvars PROVE Booked'
  OBVIOUS
<1>0. /\ TypeInv /\ HouseOK /\ BooksOK /\ SweepsOK /\ SeenOK /\ Booked
      /\ clock \in Int /\ zone \in Zones /\ zone \in Int
      /\ \A s \in Sweeps : FitOf(sweep[s], stamp, sent, clock) /\ sweep[s] \in Work
  BY Calendar DEF BookInv, TypeInv, HouseOK, SweepsOK, Fit
<1>1. CASE Tick \/ Settings \/ UNCHANGED mailvars
  BY <1>0, <1>1, BookedStands DEF Tick, Settings, mailvars
<1>2. ASSUME NEW s \in Sweeps, Begin(s) \/ TryLock(s) \/ Free(s)
      PROVE  Booked'
  <2>1. Turned(s) /\ sweep[s].pc \notin Flight
    BY <1>0, <1>2, TurnBegin, TurnTryLock, TurnQuiet
    DEF Begin, TryLock, Free, At, Flight
  <2>2. UNCHANGED <<stamp, sent>>
    BY <1>2 DEF Begin, TryLock, Free
  <2>. QED BY <1>0, <2>1, <2>2, BookedStands DEF Turned, Others
<1>3. ASSUME NEW s \in Sweeps, NEW c \in Cadences, Build(s, c)
      PROVE  Booked'
  <2>1. /\ Turned(s) /\ sweep[s].pc = "next" /\ c \in sweep[s].todo
        /\ UNCHANGED stamp \/ Stamped(<<c, "mail">>, zone)
    BY <1>0, <1>3, TurnBuild
  <2>2. sent' = sent
    BY <1>3 DEF Build
  <2>3. CASE UNCHANGED stamp
    BY <1>0, <2>1, <2>2, <2>3, BookedStands DEF Turned, Others, Flight
  <2>4. ASSUME Stamped(<<c, "mail">>, zone), NEW j \in Told
        PROVE  Tied(j[1], sent'[j], stamp'[j])
    <3>1. Tied(j[1], sent[j], stamp[j])
      BY <2>1, OnlyTheHolder DEF Bet
    <3>2. CASE j = <<c, "mail">>
      <4>1. c = "daily" /\ j \in Jobs /\ j[1] = "daily"
        BY <3>2, DailyJobs DEF Told
      <4>2. Over(stamp[j], sweep[s].zone, sweep[s].began)
        BY <1>0, <2>1, <3>2, <4>1 DEF FitOf
      <4>3. /\ sweep[s].zone \in Int /\ sweep[s].began \in Int
            /\ sweep[s].began <= clock
        BY <1>0, <2>1 DEF Work, SeenOK
      <4>. QED BY <1>0, <2>2, <2>4, <3>1, <3>2, <4>1, <4>2, <4>3, Restamped
    <3>3. CASE j # <<c, "mail">>
      <4>1. stamp'[j] = stamp[j]
        BY <1>0, <2>4, <3>3, StampedAt, DailyJobs DEF Jobs
      <4>. QED BY <2>2, <3>1, <4>1
    <3>. QED BY <3>2, <3>3
  <2>. QED BY <2>1, <2>3, <2>4 DEF Booked
<1>4. ASSUME NEW s \in Sweeps, sweep[s].pc \in Flight
      PROVE  /\ sweep[s].cur \in Cadences /\ sweep[s].as \in Zones
             /\ sweep[s].as \in Int /\ sweep[s].zone \in Int
             /\ Job(s, "mail") \in Jobs /\ Job(s, "side") \in Jobs
             /\ Job(s, "hook") = <<sweep[s].cur, "hook">>
             /\ Job(s, "side") = <<sweep[s].cur, "side">>
             /\ Job(s, "mail") = <<sweep[s].cur, "mail">>
             /\ sweep[s].pc \in {"hook", "hookStamp"} =>
                  sweep[s].cur = "daily" /\ Job(s, "hook") \in Jobs
             /\ sweep[s].pc \notin {"idle", "lock"}
  BY <1>0, <1>4, JobOf DEF Job, SeenOK, Work, Flight
<1>5. ASSUME NEW s \in Sweeps, Hook(s)
      PROVE  Booked'
  <2>1. /\ Turned(s) /\ Keeps(s) /\ sweep[s].pc = "hook"
        /\ \/ sent' = sent
           \/ /\ sweep'[s].pc = "hookStamp"
              /\ Fresh(Job(s, "hook"), sweep[s].as, clock)
              /\ Sends(Job(s, "hook"), sweep[s].as, sweep[s].as)
    BY <1>0, <1>5, TurnHook
  <2>2. stamp' = stamp /\ sweep[s].pc \in Flight
    BY <1>5, <2>1 DEF Hook, Flight
  <2>3. ASSUME NEW j \in Told
        PROVE  Tied(j[1], sent'[j], stamp'[j]) \/ Bet(sweep'[s], j, sent'[j], stamp'[j])
    <3>1. Tied(j[1], sent[j], stamp[j])
      BY <1>4, <2>1, <2>2, OnlyTheHolder DEF Bet
    <3>2. CASE sent'[j] = sent[j]
      BY <2>2, <3>1, <3>2
    <3>3. CASE sent'[j] # sent[j]
      <4>1. /\ sweep'[s].pc = "hookStamp" /\ Fresh(Job(s, "hook"), sweep[s].as, clock)
            /\ Sends(Job(s, "hook"), sweep[s].as, sweep[s].as)
        BY <2>1, <3>3
      <4>2. /\ j = Job(s, "hook") /\ sent'[j].zone = sweep[s].as
            /\ sent'[j].at = clock
        BY <1>0, <1>4, <2>1, <2>2, <3>3, <4>1, SentAt, DailyJobs
      <4>3. Open("daily", stamp[j], sweep[s].as, clock) /\ stamp[j] \in Entries
        BY <1>0, <4>1, <4>2, FreshIsOver, DailyJobs, EntriesOf DEF Open
      <4>4. stamp'[j].at < sent'[j].at
        BY <1>0, <1>4, <2>2, <4>2, <4>3, OpenBefore DEF Cadences
      <4>5. j[1] = sweep[s].cur /\ j[2] = "hook"
        BY <1>4, <2>2, <4>2
      <4>. QED BY <2>1, <4>1, <4>2, <4>4, <4>5 DEF Bet, Keeps
    <3>. QED BY <3>2, <3>3
  <2>. QED BY <2>3 DEF Booked
<1>6. ASSUME NEW s \in Sweeps, HookStamp(s)
      PROVE  Booked'
  <2>1. sweep[s].pc = "hookStamp"
    BY <1>6 DEF HookStamp, At
  <2>2. sent' = sent /\ Stamped(Job(s, "hook"), sweep[s].as)
    BY <1>6 DEF HookStamp
  <2>3. sweep[s].pc \in Flight /\ Job(s, "hook") = <<"daily", "hook">>
          /\ Job(s, "hook") \in Jobs
    BY <1>4, <2>1 DEF Flight
  <2>4. ASSUME NEW j \in Told
        PROVE  Tied(j[1], sent'[j], stamp'[j])
    <3>1. CASE j = <<"daily", "hook">>
      <4>1. sent[j].zone = sweep[s].as
        BY <1>0, <2>1, <3>1 DEF FitOf
      <4>. QED BY <1>4, <2>2, <2>3, <3>1, <4>1, StampedSame
    <3>2. CASE j # <<"daily", "hook">>
      <4>1. Tied(j[1], sent[j], stamp[j])
        BY <1>4, <2>1, <2>3, <3>2, OnlyTheHolder DEF Bet, Told
      <4>2. stamp'[j] = stamp[j]
        BY <1>0, <1>4, <2>2, <2>3, <3>2, StampedAt, DailyJobs
      <4>. QED BY <2>2, <4>1, <4>2
    <3>. QED BY <3>1, <3>2
  <2>. QED BY <2>4 DEF Booked
<1>7. ASSUME NEW s \in Sweeps, Send(s)
      PROVE  Booked'
  <2>1. /\ Turned(s) /\ Keeps(s) /\ sweep[s].pc = "send" /\ sweep'[s].pc = "side"
        /\ \/ sent' = sent
           \/ /\ sweep[s].to = TRUE /\ sweep'[s].failed = sweep[s].failed
              /\ sent'[Job(s, "mail")].zone = sweep[s].as
              /\ sent'[Job(s, "mail")].at = clock
              /\ \A j \in Jobs \ {Job(s, "mail")} : sent'[j] = sent[j]
    BY <1>0, <1>7, TurnSend
  <2>2. stamp' = stamp /\ sweep[s].pc \in Flight
    BY <1>7, <2>1 DEF Send, Flight
  <2>3. ASSUME NEW j \in Told
        PROVE  Tied(j[1], sent'[j], stamp'[j]) \/ Bet(sweep'[s], j, sent'[j], stamp'[j])
    <3>1. Tied(j[1], sent[j], stamp[j])
      BY <1>4, <2>1, <2>2, OnlyTheHolder DEF Bet
    <3>2. CASE sent'[j] = sent[j]
      BY <2>2, <3>1, <3>2
    <3>3. CASE sent'[j] # sent[j]
      <4>1. /\ j = Job(s, "mail") /\ sent'[j].zone = sweep[s].as
            /\ sent'[j].at = clock
        BY <2>1, <3>3, DailyJobs
      <4>2. sweep[s].had = TRUE /\ sweep[s].failed = FALSE
        BY <1>0, <2>1, <2>2, <3>3 DEF FitOf
      <4>3. j[1] = sweep[s].cur /\ j[2] = "mail"
        BY <1>4, <2>2, <4>1
      <4>4. sweep[s].cur = "daily" /\ j = <<"daily", "mail">> /\ stamp[j] \in Entries
        BY <1>0, <4>3, DailyJobs, EntriesOf DEF Told
      <4>5. /\ Open("daily", stamp[j], sweep[s].zone, sweep[s].began)
            /\ sweep[s].began \in Int /\ sweep[s].began <= clock
        BY <1>0, <2>1, <2>2, <4>4 DEF FitOf, Open, Work, SeenOK
      <4>6. stamp'[j].at < sent'[j].at
        BY <1>0, <1>4, <2>2, <4>1, <4>4, <4>5, OpenBefore DEF Cadences
      <4>. QED BY <2>1, <3>3, <4>1, <4>2, <4>3, <4>6 DEF Bet, Keeps
    <3>. QED BY <3>2, <3>3
  <2>. QED BY <2>3 DEF Booked
<1>8. ASSUME NEW s \in Sweeps, Side(s)
      PROVE  Booked'
  <2>1. /\ Turned(s) /\ Keeps(s) /\ sweep[s].pc = "side"
        /\ sweep'[s].failed = sweep[s].failed
        /\ \/ /\ sweep[s].side = TRUE /\ sweep'[s].pc = "sideStamp"
              /\ Sends(Job(s, "side"), sweep[s].as, sweep[s].as)
           \/ sweep'[s].pc = "stamp" /\ sent' = sent
    BY <1>0, <1>8, TurnSide
  <2>2. stamp' = stamp /\ sweep[s].pc \in Flight
    BY <1>8, <2>1 DEF Side, Flight
  <2>3. ASSUME NEW j \in Told
        PROVE  Tied(j[1], sent'[j], stamp'[j]) \/ Bet(sweep'[s], j, sent'[j], stamp'[j])
    <3>1. CASE sent'[j] = sent[j]
      <4>1. Tied(j[1], sent[j], stamp[j]) \/ Bet(sweep[s], j, sent[j], stamp[j])
        BY <1>4, <2>2, OnlyTheHolder
      <4>2. Bet(sweep[s], j, sent[j], stamp[j]) => Bet(sweep'[s], j, sent[j], stamp[j])
        BY <2>1 DEF Bet, Keeps
      <4>. QED BY <2>2, <3>1, <4>1, <4>2
    <3>2. CASE sent'[j] # sent[j]
      <4>1. /\ sweep[s].side = TRUE /\ sweep'[s].pc = "sideStamp"
            /\ Sends(Job(s, "side"), sweep[s].as, sweep[s].as)
        BY <2>1, <3>2
      <4>2. /\ j = Job(s, "side") /\ sent'[j].zone = sweep[s].as
            /\ sent'[j].at = clock
        BY <1>0, <1>4, <2>2, <3>2, <4>1, SentAt, DailyJobs
      <4>3. /\ Open(sweep[s].cur, stamp[j], sweep[s].as, clock)
            /\ stamp[j] \in Entries
        BY <1>0, <1>4, <2>1, <2>2, <4>1, <4>2, DailyJobs, EntriesOf DEF FitOf
      <4>4. stamp'[j].at < sent'[j].at
        BY <1>0, <1>4, <2>2, <4>2, <4>3, OpenBefore
      <4>5. j[1] = sweep[s].cur /\ j[2] = "side"
        BY <1>4, <2>2, <4>2
      <4>. QED BY <2>1, <4>1, <4>2, <4>4, <4>5 DEF Bet, Keeps
    <3>. QED BY <3>1, <3>2
  <2>. QED BY <2>3 DEF Booked
<1>9. ASSUME NEW s \in Sweeps, SideStamp(s)
      PROVE  Booked'
  <2>1. /\ Turned(s) /\ Keeps(s) /\ sweep[s].pc = "sideStamp"
        /\ sweep'[s].pc = "stamp" /\ sweep'[s].failed = sweep[s].failed
    BY <1>0, <1>9, TurnSideStamp
  <2>2. sent' = sent /\ Stamped(Job(s, "side"), sweep[s].as)
    BY <1>9 DEF SideStamp
  <2>3. sweep[s].pc \in Flight
    BY <2>1 DEF Flight
  <2>4. ASSUME NEW j \in Told
        PROVE  Tied(j[1], sent'[j], stamp'[j]) \/ Bet(sweep'[s], j, sent'[j], stamp'[j])
    <3>1. CASE j = Job(s, "side")
      <4>1. sent[j].zone = sweep[s].as
        BY <1>0, <1>4, <2>1, <2>3, <3>1 DEF FitOf
      <4>. QED BY <1>4, <2>2, <2>3, <3>1, <4>1, StampedSame
    <3>2. CASE j # Job(s, "side")
      <4>1. Tied(j[1], sent[j], stamp[j]) \/ Bet(sweep[s], j, sent[j], stamp[j])
        BY <1>4, <2>3, OnlyTheHolder
      <4>2. Bet(sweep[s], j, sent[j], stamp[j]) => Bet(sweep'[s], j, sent[j], stamp[j])
        <5>1. j[1] = sweep[s].cur /\ j[2] = "side" => j = Job(s, "side")
          BY <1>4, <2>3 DEF Told
        <5>. QED BY <2>1, <3>2, <5>1 DEF Bet, Keeps
      <4>3. stamp'[j] = stamp[j]
        BY <1>0, <1>4, <2>2, <2>3, <3>2, StampedAt, DailyJobs
      <4>. QED BY <2>2, <4>1, <4>2, <4>3
    <3>. QED BY <3>1, <3>2
  <2>. QED BY <2>4 DEF Booked
<1>10. ASSUME NEW s \in Sweeps, Stamp(s)
       PROVE  Booked'
  <2>1. sweep[s].pc = "stamp" /\ sweep[s].pc \in Flight /\ sent' = sent
    BY <1>10 DEF Stamp, At, Flight
  <2>2. \/ stamp' = stamp /\ ~(sweep[s].had = TRUE /\ sweep[s].failed = FALSE)
        \/ Stamped(Job(s, "mail"), sweep[s].as)
    <3>1. CASE Settles(s)
      BY <1>10, <3>1 DEF Stamp
    <3>2. CASE ~Settles(s)
      <4>1. stamp' = stamp
        BY <1>10, <3>2 DEF Stamp
      <4>2. ASSUME sweep[s].had = TRUE, sweep[s].failed = FALSE PROVE FALSE
        BY <3>2, <4>2, Zenon DEF Decided, Settles
      <4>. QED BY <4>1, <4>2
    <3>. QED BY <3>1, <3>2
  <2>3. ASSUME NEW j \in Told
        PROVE  Tied(j[1], sent'[j], stamp'[j])
    <3>1. Tied(j[1], sent[j], stamp[j]) \/ Bet(sweep[s], j, sent[j], stamp[j])
      BY <1>4, <2>1, OnlyTheHolder
    <3>2. Bet(sweep[s], j, sent[j], stamp[j]) =>
            /\ j = Job(s, "mail") /\ sent[j].zone = sweep[s].as
            /\ sweep[s].had = TRUE /\ sweep[s].failed = FALSE
      BY <1>4, <2>1 DEF Bet, Told
    <3>3. CASE stamp' = stamp
      <4>1. CASE Bet(sweep[s], j, sent[j], stamp[j])
        BY <1>4, <2>1, <2>2, <3>2, <4>1, StampedSame
      <4>2. CASE Tied(j[1], sent[j], stamp[j])
        BY <2>1, <3>3, <4>2
      <4>. QED BY <3>1, <4>1, <4>2
    <3>4. CASE Stamped(Job(s, "mail"), sweep[s].as) /\ Bet(sweep[s], j, sent[j], stamp[j])
      BY <1>4, <2>1, <3>2, <3>4, StampedSame
    <3>5. CASE Stamped(Job(s, "mail"), sweep[s].as) /\ j # Job(s, "mail")
      <4>0. j \in Jobs \ {Job(s, "mail")} /\ Job(s, "mail") \in Jobs
              /\ sweep[s].as \in Zones
        BY <1>4, <2>1, <3>5, DailyJobs
      <4>1. stamp'[j] = stamp[j]
        BY <1>0, <3>5, <4>0, StampedAt
      <4>. QED BY <2>1, <3>1, <3>2, <3>5, <4>1
    <3>6. CASE /\ Stamped(Job(s, "mail"), sweep[s].as) /\ j = Job(s, "mail")
               /\ Tied(j[1], sent[j], stamp[j])
      <4>1. sweep[s].cur = "daily" /\ j = <<"daily", "mail">>
        BY <1>4, <2>1, <3>6 DEF Told
      <4>2. Over(stamp[j], sweep[s].zone, sweep[s].began)
        BY <1>0, <2>1, <4>1 DEF FitOf
      <4>3. /\ sweep[s].zone \in Int /\ sweep[s].began \in Int
            /\ sweep[s].began <= clock
        BY <1>0, <2>1 DEF Work, SeenOK
      <4>. QED BY <1>4, <2>1, <3>6, <4>1, <4>2, <4>3, Restamped
    <3>. QED BY <2>2, <3>1, <3>3, <3>4, <3>5, <3>6
  <2>. QED BY <2>3 DEF Booked
<1>11. ASSUME NEW s \in Sweeps, Dies(s)
       PROVE  Booked'
  <2>1. /\ Turned(s)
        /\ \A j \in Jobs : \/ sent'[j] = sent[j] /\ ~(sent[j].at > stamp[j].at)
                           \/ sent'[j] = sent[j] /\ mailer # s
                           \/ sent'[j].at = Never
    BY <1>0, <1>11, TurnDies
  <2>2. stamp' = stamp
    BY <1>11 DEF Dies
  <2>3. ASSUME NEW j \in Told
        PROVE  \/ Tied(j[1], sent'[j], stamp'[j])
               \/ \E q \in Sweeps : Bet(sweep'[q], j, sent'[j], stamp'[j])
    <3>1. CASE sent'[j].at = Never
      BY <3>1 DEF Tied
    <3>2. CASE sent'[j] = sent[j] /\ sent'[j].at # Never
      <4>1. ~(sent[j].at > stamp[j].at) \/ mailer # s
        BY <2>1, <3>2, DailyJobs
      <4>2. ~Bet(sweep[s], j, sent[j], stamp[j])
        <5>1. /\ stamp[j].at \in Int /\ sent[j].at \in Int
          BY <1>0, DailyJobs, EntriesOf, EntryIs, OutgoingIs
        <5>2. sweep[s].pc \notin {"idle", "lock"} => mailer = s
          BY <1>0 DEF TypeInv, HoldsOK
        <5>. QED BY <4>1, <5>1, <5>2 DEF Bet
      <4>3. ASSUME NEW q \in Sweeps, Bet(sweep[q], j, sent[j], stamp[j])
            PROVE  Bet(sweep'[q], j, sent'[j], stamp'[j])
        <5>1. q # s
          BY <4>2, <4>3
        <5>2. sweep'[q] = sweep[q]
          BY <2>1, <5>1 DEF Turned, Others
        <5>. QED BY <2>2, <3>2, <4>3, <5>2
      <4>. QED BY <1>0, <2>2, <3>2, <4>3 DEF Booked
    <3>. QED BY <2>1, <3>1, <3>2, DailyJobs
  <2>4. \A j \in Told : \/ Tied(j[1], sent'[j], stamp'[j])
                       \/ \E q \in Sweeps : Bet(sweep'[q], j, sent'[j], stamp'[j])
    BY <2>3
  <2>. QED BY <2>4, Zenon DEF Booked
<1>. QED
  BY <1>1, <1>2, <1>3, <1>5, <1>6, <1>7, <1>8, <1>9, <1>10, <1>11
  DEF Next, SweepStep

LEMMA BookInductive ==
  /\ Init => BookInv
  /\ BookInv /\ [Next]_mailvars => BookInv'
BY TypeInit, TypeStep, FitInit, FitStep, BookedInit, BookedStep DEF BookInv

LEMMA BookKept == Spec => []BookInv
BY BookInductive, PTL DEF Spec

----------------------------------------------------------------------------
(* What goes out is tied to a stamp by which it was open.                  *)

Afresh(j) ==
  /\ sent'[j].at = clock /\ sent'[j].by \in Int
  /\ j[2] = "mail" \/ sent'[j].by = sent'[j].zone
  /\ Tied(j[1], sent[j], stamp[j])
  /\ \E t \in Int : t <= clock /\ Open(j[1], stamp[j], sent'[j].by, t)

LEMMA SentAfresh ==
  ASSUME BookInv, [Next]_mailvars, NEW j \in Told
  PROVE  sent'[j] = sent[j] \/ sent'[j].at = Never \/ Afresh(j)
<1>0. /\ TypeInv /\ HouseOK /\ BooksOK /\ SweepsOK /\ SeenOK /\ clock \in Int
      /\ \A s \in Sweeps : FitOf(sweep[s], stamp, sent, clock) /\ sweep[s] \in Work
  BY Calendar DEF BookInv, TypeInv, HouseOK, SweepsOK, Fit
<1>1. ASSUME NEW s \in Sweeps, sweep[s].pc \in Flight
      PROVE  /\ sweep[s].cur \in Cadences /\ sweep[s].as \in Zones
             /\ sweep[s].as \in Int /\ sweep[s].zone \in Int
             /\ Job(s, "mail") \in Jobs /\ Job(s, "side") \in Jobs
             /\ Job(s, "hook") = <<sweep[s].cur, "hook">>
             /\ Job(s, "side") = <<sweep[s].cur, "side">>
             /\ Job(s, "mail") = <<sweep[s].cur, "mail">>
             /\ sweep[s].pc \in {"hook", "hookStamp"} =>
                  sweep[s].cur = "daily" /\ Job(s, "hook") \in Jobs
             /\ sweep[s].pc \notin {"idle", "lock"}
  BY <1>0, <1>1, JobOf DEF Job, SeenOK, Work, Flight
<1>2. ASSUME NEW s \in Sweeps, Hook(s), sent'[j] # sent[j]
      PROVE  Afresh(j)
  <2>1. /\ sweep[s].pc = "hook" /\ Fresh(Job(s, "hook"), sweep[s].as, clock)
        /\ Sends(Job(s, "hook"), sweep[s].as, sweep[s].as)
    BY <1>0, <1>2, TurnHook
  <2>2. sweep[s].pc \in Flight
    BY <2>1 DEF Flight
  <2>3. /\ j = Job(s, "hook") /\ j[1] = "daily" /\ sent'[j].at = clock
        /\ sent'[j].zone = sweep[s].as /\ sent'[j].by = sweep[s].as
        /\ sweep[s].as \in Int
    BY <1>0, <1>1, <1>2, <2>1, <2>2, SentAt, DailyJobs
  <2>4. Open(j[1], stamp[j], sweep[s].as, clock)
    BY <2>1, <2>3, FreshIsOver DEF Open
  <2>5. Tied(j[1], sent[j], stamp[j])
    BY <1>1, <2>1, <2>2, OnlyTheHolder DEF Bet
  <2>. QED BY <1>0, <2>3, <2>4, <2>5 DEF Afresh
<1>3. ASSUME NEW s \in Sweeps, Send(s), sent'[j] # sent[j], sent'[j].at # Never
      PROVE  Afresh(j)
  <2>1. /\ sweep[s].pc = "send"
        /\ sent'[Job(s, "mail")].by = sweep[s].zone
        /\ sent'[Job(s, "mail")].at = clock
        /\ \A k \in Jobs \ {Job(s, "mail")} : sent'[k] = sent[k]
    BY <1>0, <1>3, TurnSend
  <2>2. sweep[s].pc \in Flight
    BY <2>1 DEF Flight
  <2>3. j = Job(s, "mail") /\ sent'[j].at = clock /\ sent'[j].by = sweep[s].zone
    BY <1>3, <2>1, DailyJobs
  <2>4. sweep[s].cur = "daily" /\ j = <<"daily", "mail">> /\ sweep[s].zone \in Int
    BY <1>1, <2>2, <2>3 DEF Told
  <2>5. Over(stamp[j], sweep[s].zone, sweep[s].began)
    BY <1>0, <2>2, <2>3, <2>4 DEF FitOf
  <2>6. sweep[s].began \in Int /\ sweep[s].began <= clock
    BY <1>0, <2>1 DEF Work, SeenOK
  <2>7. Open(j[1], stamp[j], sweep[s].zone, sweep[s].began)
    BY <2>4, <2>5 DEF Open
  <2>8. Tied(j[1], sent[j], stamp[j])
    BY <1>1, <2>1, <2>2, OnlyTheHolder DEF Bet
  <2>. QED BY <2>3, <2>4, <2>6, <2>7, <2>8 DEF Afresh
<1>4. ASSUME NEW s \in Sweeps, Side(s), sent'[j] # sent[j]
      PROVE  Afresh(j)
  <2>1. /\ sweep[s].pc = "side" /\ sweep[s].side = TRUE
        /\ Sends(Job(s, "side"), sweep[s].as, sweep[s].as)
    BY <1>0, <1>4, TurnSide
  <2>2. sweep[s].pc \in Flight
    BY <2>1 DEF Flight
  <2>3. /\ j = <<sweep[s].cur, "side">> /\ sent'[j].at = clock
        /\ sent'[j].zone = sweep[s].as /\ sent'[j].by = sweep[s].as
        /\ sweep[s].as \in Int
    BY <1>0, <1>1, <1>4, <2>1, <2>2, SentAt, DailyJobs
  <2>4. Open(j[1], stamp[j], sweep[s].as, clock)
    BY <1>0, <2>1, <2>3 DEF FitOf
  <2>5. Tied(j[1], sent[j], stamp[j])
    BY <1>1, <2>1, <2>2, <2>3, OnlyTheHolder DEF Bet
  <2>. QED BY <1>0, <2>3, <2>4, <2>5 DEF Afresh
<1>5. ASSUME NEW s \in Sweeps, Dies(s)
      PROVE  sent'[j] = sent[j] \/ sent'[j].at = Never
  BY <1>0, <1>5, TurnDies, DailyJobs
<1>6. ASSUME NEW s \in Sweeps,
             \/ Begin(s) \/ TryLock(s) \/ Free(s) \/ HookStamp(s)
             \/ SideStamp(s) \/ Stamp(s) \/ \E c \in Cadences : Build(s, c)
      PROVE  sent' = sent
  BY <1>6 DEF Begin, TryLock, Free, HookStamp, SideStamp, Stamp, Build
<1>7. CASE Tick \/ Settings \/ UNCHANGED mailvars
  BY <1>7 DEF Tick, Settings, mailvars
<1>. QED BY <1>2, <1>3, <1>4, <1>5, <1>6, <1>7 DEF Next, SweepStep

LEMMA EachOnItsDay ==
  ASSUME BookInv, [Next]_mailvars, NEW j \in Told, j[1] = "daily"
  PROVE  NewDay(j)
<1> SUFFICES ASSUME sent'[j] # sent[j], sent'[j].at # Never, sent[j].at # Never
             PROVE  /\ Day(sent[j].zone, sent[j].at) # Day(sent[j].zone, sent'[j].at)
                    /\ Day(sent'[j].by, sent[j].at) # Day(sent'[j].by, sent'[j].at)
  BY DEF NewDay
<1>1. Afresh(j)
  BY SentAfresh
<1>2. /\ stamp[j] \in Entries /\ sent[j] \in Outgoing /\ clock \in Int
      /\ stamp[j].at <= clock
  BY Calendar, DailyJobs, EntriesOf DEF BookInv, TypeInv, HouseOK, PastOK, Never
<1> DEFINE z == sent'[j].by
<1>3. z \in Int
  BY <1>1 DEF Afresh
<1>4. PICK t \in Int : t <= clock /\ Open(j[1], stamp[j], z, t)
  BY <1>1 DEF Afresh
<1>5. Over(stamp[j], z, t) /\ Tied("daily", sent[j], stamp[j])
  BY <1>1, <1>4 DEF Open, Afresh
<1> HIDE DEF z
<1>6. sent[j].at < Midnight(z, clock) /\ sent[j].at < Midnight(sent[j].zone, clock)
  BY <1>2, <1>3, <1>4, <1>5, DayTurned
<1>7. /\ Day(z, sent[j].at) # Day(z, clock)
      /\ Day(sent[j].zone, sent[j].at) # Day(sent[j].zone, clock)
  BY <1>2, <1>3, <1>6, OutgoingIs, OtherDay
<1>8. sent'[j].at = clock
  BY <1>1 DEF Afresh
<1>. QED BY <1>7, <1>8 DEF z

(* The household gets its verdict once a day, by the zone its last one was *)
(* sent in and by the one the new one was found due in, however many       *)
(* sweeps overlap and however long they run; what a killed sweep sent      *)
(* without a stamp does not count.                                         *)
THEOREM OneVerdict == Spec => OneVerdictADay
<1>1. BookInv /\ [Next]_mailvars => [NewDay(<<"daily", "mail">>)]_mailvars
  BY EachOnItsDay DEF Told
<1>. QED BY <1>1, BookKept, PTL DEF Spec, OneVerdictADay

(* Nor is anybody texted, pushed or posted to twice a day while the mail   *)
(* fails and is tried again.                                               *)
THEOREM OneOfEach == Spec => OneOfEachADay
<1>1. BookInv /\ [Next]_mailvars =>
        [NewDay(<<"daily", "side">>) /\ NewDay(<<"daily", "hook">>)]_mailvars
  BY EachOnItsDay DEF Told
<1>. QED BY <1>1, BookKept, PTL DEF Spec, OneOfEachADay

(* A card that keeps failing is texted or pushed once a month.             *)
THEOREM OneCardText == Spec => OneCardTextAMonth
<1> DEFINE j == <<"monthly", "side">>
           Once == LET was == sent[<<"monthly", "side">>]
                       now == sent'[<<"monthly", "side">>]
                   IN  now # was /\ now.at # Never /\ was.at # Never =>
                         was.at < MonthStart(now.zone, now.at) - Slack * DayLen
<1>1. ASSUME BookInv, [Next]_mailvars, sent'[j] # sent[j], sent'[j].at # Never,
             sent[j].at # Never
      PROVE  sent[j].at < MonthStart(sent'[j].zone, sent'[j].at) - Slack * DayLen
  <2>1. j \in Told /\ j \in Jobs /\ j[1] = "monthly"
    BY DailyJobs DEF Told
  <2>2. Afresh(j)
    BY <1>1, <2>1, SentAfresh
  <2>3. /\ stamp[j] \in Entries /\ sent[j] \in Outgoing /\ clock \in Int
        /\ stamp[j].at <= clock
    BY <1>1, <2>1, Calendar, EntriesOf DEF BookInv, TypeInv, HouseOK, PastOK, Never
  <2> DEFINE z == sent'[j].zone
  <2>4. z \in Int /\ sent'[j].at = clock /\ sent'[j].by = z
    BY <2>2 DEF Afresh
  <2>5. PICK t \in Int : t <= clock /\ Open("monthly", stamp[j], z, t)
    BY <2>1, <2>2, <2>4 DEF Afresh
  <2>6. Open("monthly", stamp[j], z, clock)
    BY <2>3, <2>4, <2>5, OpenLater DEF Cadences
  <2>7. sent[j].at <= stamp[j].at
    BY <1>1, <2>2 DEF Afresh, Tied
  <2>8. stamp[j].at < MonthStart(z, clock) - Slack * DayLen
    BY <2>6 DEF Open
  <2>9. /\ sent[j].at \in Int /\ stamp[j].at \in Int /\ MonthStart(z, clock) \in Int
    BY <2>3, <2>4, EntryIs, OutgoingIs, MonthStartBefore
  <2> DEFINE m == MonthStart(z, clock) - Slack * DayLen
  <2>10. m \in Int /\ stamp[j].at < m
    <3>1. Slack * DayLen \in Int
      BY Calendar
    <3>. QED BY <2>8, <2>9, <3>1
  <2> HIDE DEF m
  <2>11. sent[j].at < m
    BY <2>7, <2>9, <2>10
  <2>. QED BY <2>4, <2>11 DEF m
<1>2. BookInv /\ [Next]_mailvars => [Once]_mailvars
  BY <1>1
<1>3. OneCardTextAMonth <=> [][Once]_mailvars
  BY DEF OneCardTextAMonth
<1> HIDE DEF Once
<1>. QED BY <1>2, <1>3, BookKept, PTL DEF Spec

----------------------------------------------------------------------------
(* Due, of one cadence and by its stamp.                                   *)

DueBy(c, e, b, w, z, t) ==
  /\ ~(b >= Midnight(z, t)) /\ Hour(z, t) >= SendHour
  /\ IF c = "daily" THEN w # {} /\ Over(e, z, t)
     ELSE /\ w \cap {"mail", "side"} # {}
          /\ IF DayOfMonth(z, t) = 1 THEN Over(e, z, t)
             ELSE /\ b < MonthStart(z, t) /\ DayOfMonth(z, t) <= CatchUp + 1
                  /\ e.at < MonthStart(z, t) - Slack * DayLen

LEMMA DueIs ==
  ASSUME NEW z, NEW t, NEW c \in Cadences
  PROVE  c \in Due(z, t) <=> DueBy(c, stamp[<<c, "mail">>], born, wants, z, t)
<1>1. CASE c = "daily"
  BY <1>1, FreshIsOver DEF Due, DueBy, DailyDue, Cadences
<1>2. CASE c = "monthly"
  BY <1>2, FreshIsOver DEF Due, DueBy, MonthlyDue, Unsent, Cadences
<1>. QED BY <1>1, <1>2 DEF Cadences

LEMMA StampedIsNotDue ==
  ASSUME NEW e \in Entries, NEW z \in Int, NEW t \in Int, t <= e.at
  PROVE  \A c, b, w : ~DueBy(c, e, b, w, z, t)
<1>1. e.at \in Int /\ Midnight(z, t) \in Int /\ Midnight(z, t) <= t
        /\ MonthStart(z, t) \in Int /\ MonthStart(z, t) <= t
  BY EntryIs, MidnightBefore, MonthStartBefore
<1>2. ~Over(e, z, t)
  BY <1>1 DEF Over
<1> DEFINE d == Slack * DayLen
<1>3. d \in Nat
  BY Calendar
<1> HIDE DEF d
<1>4. ~(e.at < MonthStart(z, t) - d)
  BY <1>1, <1>3
<1>. QED BY <1>2, <1>4 DEF DueBy, d

(* What is due by the sweep's own clock and zone is what it has still to   *)
(* take up, what it has in hand and what it left.                          *)
OwedOf(w, st, b, wa) ==
  /\ w.pc = "lock" => w.left = {}
  /\ w.pc = "next" \/ w.pc \in Flight =>
       /\ w.todo \cap w.left = {}
       /\ w.pc \in Flight => w.cur \notin w.todo \cup w.left
       /\ \A c \in Cadences :
            DueBy(c, st[<<c, "mail">>], b, wa, w.zone, w.began) <=>
              c \in w.todo \cup w.left \/ (w.pc \in Flight /\ w.cur = c)
Owed == \A s \in Sweeps : OwedOf(sweep[s], stamp, born, wants)

LEMMA OwedInit == Init => Owed
BY DEF Init, Owed, OwedOf, Quiet, Flight

LEMMA OwedStep == TypeInv /\ Owed /\ [Next]_mailvars => Owed'
<1> SUFFICES ASSUME TypeInv, Owed, [Next]_mailvars
             PROVE  \A s \in Sweeps : OwedOf(sweep'[s], stamp', born', wants')
  BY DEF Owed
<1>0. /\ HouseOK /\ BooksOK /\ SweepsOK /\ SeenOK /\ clock \in Int
      /\ zone \in Zones /\ zone \in Int
      /\ \A s \in Sweeps : /\ OwedOf(sweep[s], stamp, born, wants)
                           /\ sweep[s] \in Work
  BY Calendar DEF TypeInv, HouseOK, SweepsOK, Owed
<1>3. UNCHANGED <<born, wants>>
  BY DEF Next, SweepStep, Tick, Settings, Begin, TryLock, Free, Build, Hook,
     HookStamp, Send, Side, SideStamp, Stamp, Dies, World, mailvars
<1>4. ASSUME NEW q \in Sweeps, sweep'[q] = sweep[q],
             stamp' = stamp \/ sweep[q].pc \in {"idle", "lock"}
      PROVE  OwedOf(sweep'[q], stamp', born', wants')
  <2>1. CASE stamp' = stamp
    BY <1>0, <1>3, <1>4, <2>1
  <2>2. CASE sweep[q].pc \in {"idle", "lock"}
    <3>1. OwedOf(sweep[q], stamp, born, wants)
      BY <1>0
    <3>. QED BY <1>4, <2>2, <3>1 DEF OwedOf, Flight
  <2>. QED BY <1>4, <2>1, <2>2
<1>5. ASSUME NEW s \in Sweeps, Turned(s),
             stamp' = stamp \/ sweep[s].pc \notin {"idle", "lock"},
             OwedOf(sweep'[s], stamp', born, wants)
      PROVE  \A q \in Sweeps : OwedOf(sweep'[q], stamp', born', wants')
  <2> SUFFICES ASSUME NEW q \in Sweeps, q # s
               PROVE  OwedOf(sweep'[q], stamp', born', wants')
    BY <1>3, <1>5
  <2>1. sweep'[q] = sweep[q]
    BY <1>5 DEF Turned, Others
  <2>2. stamp' = stamp \/ sweep[q].pc \in {"idle", "lock"}
    BY <1>5, OneInHand
  <2>. QED BY <1>4, <2>1, <2>2
<1>6. CASE Tick \/ Settings \/ UNCHANGED mailvars
  <2>1. UNCHANGED <<sweep, stamp>>
    BY <1>6 DEF Tick, Settings, mailvars
  <2>. QED BY <1>4, <2>1
<1>7. ASSUME NEW s \in Sweeps, Begin(s) \/ TryLock(s)
      PROVE  \A q \in Sweeps : OwedOf(sweep'[q], stamp', born', wants')
  <2>1. stamp' = stamp
    BY <1>7 DEF Begin, TryLock
  <2>2. Turned(s) /\ OwedOf(sweep'[s], stamp, born, wants)
    <3>1. CASE Begin(s)
      <4>1. Turned(s) /\ sweep'[s].pc = "lock" /\ sweep'[s].left = {}
        BY <1>0, <3>1, TurnBegin
      <4>. QED BY <4>1 DEF OwedOf, Flight
    <3>2. CASE TryLock(s)
      <4>1. /\ Turned(s) /\ sweep[s].pc = "lock"
            /\ sweep'[s].left \in {sweep[s].left, {}}
            /\ \/ /\ sweep'[s].pc = "next" /\ sweep'[s].began = sweep[s].began
                  /\ sweep'[s].zone = zone
                  /\ sweep'[s].todo = Due(zone, sweep[s].began)
               \/ sweep'[s].pc = "idle"
        BY <1>0, <3>2, TurnTryLock
      <4>2. \A c \in Cadences :
              DueBy(c, stamp[<<c, "mail">>], born, wants, zone, sweep[s].began)
                <=> c \in Due(zone, sweep[s].began)
        BY DueIs
      <4>3. sweep[s].left = {}
        BY <1>0, <4>1 DEF OwedOf
      <4>. QED BY <4>1, <4>2, <4>3 DEF OwedOf, Flight
    <3>. QED BY <1>7, <3>1, <3>2
  <2>. QED BY <1>5, <2>1, <2>2
<1>8. ASSUME NEW s \in Sweeps, Free(s) \/ Dies(s)
      PROVE  \A q \in Sweeps : OwedOf(sweep'[q], stamp', born', wants')
  <2>1. Turned(s) /\ sweep'[s].pc = "idle" /\ stamp' = stamp
    BY <1>0, <1>8, TurnQuiet DEF Free, Dies
  <2>2. OwedOf(sweep'[s], stamp', born, wants)
    BY <2>1 DEF OwedOf, Flight
  <2>. QED BY <1>5, <2>1, <2>2
<1>9. ASSUME NEW s \in Sweeps, NEW c \in Cadences, Build(s, c)
      PROVE  \A q \in Sweeps : OwedOf(sweep'[q], stamp', born', wants')
  <2>1. /\ Turned(s) /\ sweep[s].pc = "next" /\ c \in sweep[s].todo
        /\ sweep'[s].began = sweep[s].began /\ sweep'[s].zone = sweep[s].zone
        /\ sweep'[s].todo = sweep[s].todo \ {c}
        /\ \/ /\ sweep'[s].pc = "next" /\ UNCHANGED stamp
              /\ sweep'[s].left = sweep[s].left \cup {c}
           \/ /\ sweep'[s].pc = "next" /\ Stamped(<<c, "mail">>, zone)
              /\ sweep'[s].left = sweep[s].left
           \/ /\ sweep'[s].pc \in {"hook", "send"} /\ UNCHANGED stamp
              /\ sweep'[s].cur = c /\ sweep'[s].left = sweep[s].left
    BY <1>0, <1>9, TurnBuild
  <2>2. OwedOf(sweep[s], stamp, born, wants)
    BY <1>0
  <2>3. CASE /\ sweep'[s].pc = "next" /\ Stamped(<<c, "mail">>, zone)
             /\ sweep'[s].left = sweep[s].left
    <3>1. <<c, "mail">> \in Jobs /\ \A d \in Cadences : <<d, "mail">> \in Jobs
      BY DEF Jobs
    <3>2. /\ stamp'[<<c, "mail">>] \in Entries /\ stamp'[<<c, "mail">>].at = clock
          /\ \A d \in Cadences \ {c} : stamp'[<<d, "mail">>] = stamp[<<d, "mail">>]
      BY <1>0, <2>3, <3>1, StampedAt
    <3>3. sweep[s].zone \in Int /\ sweep[s].began \in Int /\ sweep[s].began <= clock
      BY <1>0, <2>1 DEF Work, SeenOK
    <3>4. ~DueBy(c, stamp'[<<c, "mail">>], born, wants, sweep[s].zone, sweep[s].began)
      BY <3>2, <3>3, StampedIsNotDue
    <3>5. OwedOf(sweep'[s], stamp', born, wants)
      BY <2>1, <2>2, <2>3, <3>2, <3>4 DEF OwedOf, Flight
    <3>. QED BY <1>5, <2>1, <3>5
  <2>4. CASE /\ sweep'[s].pc \in {"hook", "send"} /\ UNCHANGED stamp
             /\ sweep'[s].cur = c /\ sweep'[s].left = sweep[s].left
    <3>1. OwedOf(sweep'[s], stamp', born, wants)
      BY <2>1, <2>2, <2>4 DEF OwedOf, Flight
    <3>. QED BY <1>5, <2>1, <2>4, <3>1
  <2>5. CASE /\ sweep'[s].pc = "next" /\ UNCHANGED stamp
             /\ sweep'[s].left = sweep[s].left \cup {c}
    <3>1. OwedOf(sweep'[s], stamp', born, wants)
      BY <2>1, <2>2, <2>5 DEF OwedOf, Flight
    <3>. QED BY <1>5, <2>1, <2>5, <3>1
  <2>. QED BY <2>1, <2>3, <2>4, <2>5
<1>10. ASSUME NEW s \in Sweeps, sweep[s].pc \in Flight, sweep'[s].pc \in Flight,
              Turned(s), Keeps(s),
              \A d \in Cadences : stamp'[<<d, "mail">>] = stamp[<<d, "mail">>]
       PROVE  \A q \in Sweeps : OwedOf(sweep'[q], stamp', born', wants')
  <2>1. OwedOf(sweep[s], stamp, born, wants)
    BY <1>0
  <2>2. OwedOf(sweep'[s], stamp', born, wants)
    BY <1>10, <2>1 DEF OwedOf, Keeps, Flight
  <2>3. sweep[s].pc \notin {"idle", "lock"}
    BY <1>10 DEF Flight
  <2>. QED BY <1>5, <1>10, <2>2, <2>3
<1>11. ASSUME NEW s \in Sweeps, Hook(s) \/ Send(s) \/ Side(s)
       PROVE  \A q \in Sweeps : OwedOf(sweep'[q], stamp', born', wants')
  <2>1. stamp' = stamp
    BY <1>11 DEF Hook, Send, Side
  <2>2. /\ sweep[s].pc \in Flight /\ sweep'[s].pc \in Flight
        /\ Turned(s) /\ Keeps(s)
    BY <1>0, <1>11, TurnHook, TurnSend, TurnSide DEF Flight
  <2>. QED BY <1>10, <2>1, <2>2
<1>12. ASSUME NEW s \in Sweeps, NEW j \in Jobs, NEW z \in Zones, j[2] # "mail",
              Stamped(j, z)
       PROVE  \A d \in Cadences : stamp'[<<d, "mail">>] = stamp[<<d, "mail">>]
  <2>1. \A d \in Cadences : <<d, "mail">> \in Jobs /\ <<d, "mail">> # j
    BY <1>12 DEF Jobs
  <2>. QED BY <1>0, <1>12, <2>1, StampedAt
<1>13. ASSUME NEW s \in Sweeps, HookStamp(s) \/ SideStamp(s)
       PROVE  \A q \in Sweeps : OwedOf(sweep'[q], stamp', born', wants')
  <2>1. /\ sweep[s].pc \in {"hookStamp", "sideStamp"}
        /\ sweep[s].pc \in Flight /\ sweep'[s].pc \in Flight
        /\ Turned(s) /\ Keeps(s)
    BY <1>0, <1>13, TurnHookStamp, TurnSideStamp DEF Flight
  <2>2. sweep[s].as \in Zones
    BY <1>0, <2>1 DEF SeenOK
  <2>3. \A d \in Cadences : stamp'[<<d, "mail">>] = stamp[<<d, "mail">>]
    <3>1. CASE HookStamp(s)
      <4>1. Job(s, "hook") \in Jobs /\ Job(s, "hook")[2] = "hook"
        BY <1>0, <3>1, JobOf DEF HookStamp, At, SeenOK, Job
      <4>. QED BY <1>12, <2>2, <3>1, <4>1 DEF HookStamp
    <3>2. CASE SideStamp(s)
      <4>1. Job(s, "side") \in Jobs /\ Job(s, "side")[2] = "side"
        BY <1>0, JobOf DEF Job
      <4>. QED BY <1>12, <2>2, <3>2, <4>1 DEF SideStamp
    <3>. QED BY <1>13, <3>1, <3>2
  <2>. QED BY <1>10, <2>1, <2>3
<1>14. ASSUME NEW s \in Sweeps, Stamp(s)
       PROVE  \A q \in Sweeps : OwedOf(sweep'[q], stamp', born', wants')
  <2>1. /\ Turned(s) /\ sweep[s].pc = "stamp" /\ sweep'[s].pc = "next"
        /\ sweep'[s].began = sweep[s].began /\ sweep'[s].zone = sweep[s].zone
        /\ sweep'[s].todo = sweep[s].todo
        /\ sweep'[s].left = sweep[s].left \cup Leaves(s)
    BY <1>0, <1>14, StampMoves
  <2>2. OwedOf(sweep[s], stamp, born, wants) /\ sweep[s].pc \in Flight
    BY <1>0, <2>1 DEF Flight
  <2> DEFINE c == sweep[s].cur
  <2>3. CASE Settles(s)
    <3>1. Stamped(Job(s, "mail"), sweep[s].as) /\ Leaves(s) = {}
      BY <1>14, <2>3 DEF Stamp, Settles, Leaves
    <3>2. c \in Cadences /\ Job(s, "mail") = <<c, "mail">> /\ sweep[s].as \in Zones
            /\ <<c, "mail">> \in Jobs /\ \A d \in Cadences : <<d, "mail">> \in Jobs
      BY <1>0, <2>2 DEF Work, Job, SeenOK, Jobs
    <3>3. /\ stamp'[<<c, "mail">>] \in Entries /\ stamp'[<<c, "mail">>].at = clock
          /\ \A d \in Cadences \ {c} : stamp'[<<d, "mail">>] = stamp[<<d, "mail">>]
      BY <1>0, <3>1, <3>2, StampedAt
    <3>4. sweep[s].zone \in Int /\ sweep[s].began \in Int /\ sweep[s].began <= clock
      BY <1>0, <2>1 DEF Work, SeenOK
    <3>5. ~DueBy(c, stamp'[<<c, "mail">>], born, wants, sweep[s].zone, sweep[s].began)
      BY <3>3, <3>4, StampedIsNotDue
    <3>6. OwedOf(sweep'[s], stamp', born, wants)
      BY <2>1, <2>2, <3>1, <3>3, <3>5 DEF OwedOf, Flight
    <3>. QED BY <1>5, <2>1, <3>6
  <2>4. CASE ~Settles(s)
    <3>1. stamp' = stamp /\ Leaves(s) = {c}
      BY <1>14, <2>4 DEF Stamp, Settles, Leaves
    <3>2. OwedOf(sweep'[s], stamp', born, wants)
      BY <2>1, <2>2, <3>1 DEF OwedOf, Flight
    <3>. QED BY <1>5, <2>1, <3>1, <3>2
  <2>. QED BY <2>3, <2>4
<1>. QED
  BY <1>6, <1>7, <1>8, <1>9, <1>11, <1>13, <1>14 DEF Next, SweepStep

(* Between two cadences what is due by the sweep's own clock is exactly    *)
(* what it has yet to try and what it left undecided: a failed mail comes  *)
(* due again and a decision does not.                                      *)
THEOREM LeftDue == Spec => []LeftStaysDue
<1>1. ASSUME TypeInv, Owed PROVE LeftStaysDue
  <2> SUFFICES ASSUME NEW s \in Sweeps, At(s, "next")
               PROVE  Due(sweep[s].zone, sweep[s].began)
                        = sweep[s].todo \cup sweep[s].left
    BY DEF LeftStaysDue
  <2>1. /\ OwedOf(sweep[s], stamp, born, wants) /\ sweep[s].pc = "next"
        /\ sweep[s].todo \in SUBSET Cadences /\ sweep[s].left \in SUBSET Cadences
    BY <1>1 DEF Owed, At, TypeInv, SweepsOK, Work
  <2>2. \A c \in Cadences : c \in Due(sweep[s].zone, sweep[s].began)
                              <=> c \in sweep[s].todo \cup sweep[s].left
    BY <2>1, DueIs DEF OwedOf, Flight
  <2>3. Due(sweep[s].zone, sweep[s].began) \in SUBSET Cadences
    BY DueCadences
  <2>. QED BY <2>1, <2>2, <2>3
<1>. QED BY <1>1, TypeInit, TypeStep, OwedInit, OwedStep, PTL DEF Spec

============================================================================
