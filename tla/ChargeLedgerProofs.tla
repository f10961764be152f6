------------------------ MODULE ChargeLedgerProofs ------------------------
(***************************************************************************)
(* CountedOnce and CaughtUp, for any purchases, pages, replays, answers    *)
(* and faults.  Two facts carry the proof.  The feed's log is in order     *)
(* (LogOK): a hold is reported before the row that replaces it, an id is   *)
(* removed once and never reported after.  And the ledger follows the log  *)
(* (Follows): what the pull has read so far stands in the rows, and what a *)
(* pull that died wrote ahead of the cursor is within Reach, the end of    *)
(* the log until a later pull has come to it.                              *)
(***************************************************************************)
EXTENDS ChargeLedger, TLAPS

Entries == [id : Ids, op : {"add", "remove"}]
Stages == Forms \cup {"none", "gone"}

(* The forms a charge may have once it is past f.                          *)
Past(f) == CASE f = "hold" -> {"post", "anew", "gone"}
             [] f = "post" -> {"anew", "gone"}
             [] OTHER -> {"gone"}

IsEntry(l, n, op, i) == n \in 1..Len(l) /\ l[n].op = op /\ l[n].id = i

LogOK(l, st) ==
  /\ l \in Seq(Entries)
  /\ st \in [Charges -> Stages]
  /\ \A c \in Charges : \A m, n \in 1..Len(l) :
       IsEntry(l, m, "add", HoldOf(c)) /\ IsEntry(l, n, "add", PostOf(c)) => m < n
  /\ \A i \in Ids : \A m, n \in 1..Len(l) :
       IsEntry(l, m, "remove", i) =>
         /\ IsEntry(l, n, "add", i) => n < m
         /\ IsEntry(l, n, "remove", i) => n = m
  /\ \A c \in Charges, f \in Forms : \A n \in 1..Len(l) :
       /\ IsEntry(l, n, "remove", <<c, f>>) => st[c] \in Past(f)
       /\ IsEntry(l, n, "add", <<c, f>>) => st[c] = f \/ st[c] \in Past(f)

----------------------------------------------------------------------------
(* The log. *)

(* What an append makes of a log.                                          *)
LEMMA Appended ==
  ASSUME NEW l \in Seq(Entries), NEW e \in Entries
  PROVE /\ Append(l, e) \in Seq(Entries)
        /\ Len(l) \in Nat /\ Len(Append(l, e)) = Len(l) + 1
        /\ Append(l, e)[Len(l) + 1] = e
        /\ \A n \in 1..Len(l) : Append(l, e)[n] = l[n]
  OBVIOUS

LEMMA OneEntry ==
  ASSUME NEW l \in Seq(Entries), NEW e \in Entries
  PROVE l \o <<e>> = Append(l, e)
  OBVIOUS

LEMMA TwoEntries ==
  ASSUME NEW l \in Seq(Entries), NEW e \in Entries, NEW g \in Entries
  PROVE l \o <<e, g>> = Append(Append(l, e), g)
  OBVIOUS

LEMMA EntryTypes ==
  ASSUME NEW c \in Charges, NEW f \in Forms
  PROVE /\ <<c, f>> \in Ids
        /\ Added(<<c, f>>) \in Entries /\ Removed(<<c, f>>) \in Entries
        /\ Added(<<c, f>>).op = "add" /\ Added(<<c, f>>).id = <<c, f>>
        /\ Removed(<<c, f>>).op = "remove" /\ Removed(<<c, f>>).id = <<c, f>>
  BY DEF Ids, Entries, Added, Removed

(* The entries of a longer log are those of the shorter and the new one.   *)
LEMMA LongerLog ==
  ASSUME NEW l \in Seq(Entries), NEW e \in Entries, NEW n, NEW op, NEW i
  PROVE IsEntry(Append(l, e), n, op, i) <=>
          \/ IsEntry(l, n, op, i)
          \/ n = Len(l) + 1 /\ e.op = op /\ e.id = i
  BY Appended DEF IsEntry

(* A charge may move on.                                                   *)
LEMMA Advance ==
  ASSUME NEW l, NEW st, LogOK(l, st), NEW c \in Charges,
         NEW s \in Stages, \A f \in Forms : st[c] = f \/ st[c] \in Past(f) => s \in Past(f)
  PROVE LogOK(l, [st EXCEPT ![c] = s])
  BY DEF LogOK

(* A row is reported while it is the charge's.                             *)
LEMMA AddEntry ==
  ASSUME NEW l, NEW st, LogOK(l, st), NEW c \in Charges, NEW f \in Forms,
         st[c] = f \/ st[c] \in Past(f),
         \A n \in 1..Len(l) : ~IsEntry(l, n, "remove", <<c, f>>),
         f = "hold" => \A n \in 1..Len(l) : ~IsEntry(l, n, "add", PostOf(c))
  PROVE LogOK(Append(l, Added(<<c, f>>)), st)
  <1> DEFINE e == Added(<<c, f>>)
             ll == Append(l, e)
  <1>1. l \in Seq(Entries) /\ st \in [Charges -> Stages] BY DEF LogOK
  <1>2. e \in Entries /\ e.op = "add" /\ e.id = <<c, f>> BY EntryTypes
  <1> HIDE DEF e
  <1>3. ll \in Seq(Entries) /\ Len(l) \in Nat /\ Len(ll) = Len(l) + 1
    BY <1>1, <1>2, Appended
  <1>4. \A n, op, i : IsEntry(ll, n, op, i) <=>
          \/ IsEntry(l, n, op, i)
          \/ n = Len(l) + 1 /\ op = "add" /\ i = <<c, f>>
    BY <1>1, <1>2, LongerLog
  <1>5. \A n, op, i : IsEntry(l, n, op, i) => n \in 1..Len(l)
    BY DEF IsEntry
  <1> HIDE DEF ll
  <1>6. ASSUME NEW d \in Charges, NEW m \in 1..Len(ll), NEW n \in 1..Len(ll),
               IsEntry(ll, m, "add", HoldOf(d)), IsEntry(ll, n, "add", PostOf(d))
        PROVE m < n
    <2>1. CASE IsEntry(l, m, "add", HoldOf(d)) /\ IsEntry(l, n, "add", PostOf(d))
      BY <2>1, <1>5 DEF LogOK
    <2>2. CASE IsEntry(l, m, "add", HoldOf(d)) /\ n = Len(l) + 1
      BY <2>2, <1>3, <1>5
    <2>3. CASE HoldOf(d) = <<c, f>> /\ IsEntry(l, n, "add", PostOf(d))
      <3>1. d = c /\ f = "hold" BY <2>3 DEF HoldOf
      <3> QED BY <2>3, <3>1, <1>5
    <2>4. HoldOf(d) # <<c, f>> \/ PostOf(d) # <<c, f>> BY DEF HoldOf, PostOf
    <2> QED BY <1>4, <1>6, <2>1, <2>2, <2>3, <2>4
  <1>7. ASSUME NEW i \in Ids, NEW m \in 1..Len(ll), NEW n \in 1..Len(ll),
               IsEntry(ll, m, "remove", i)
        PROVE /\ IsEntry(ll, n, "add", i) => n < m
              /\ IsEntry(ll, n, "remove", i) => n = m
    <2>1. IsEntry(l, m, "remove", i) BY <1>4, <1>7
    <2>2. m \in 1..Len(l) /\ i # <<c, f>> BY <2>1, <1>5
    <2>3. \A op : IsEntry(ll, n, op, i) => IsEntry(l, n, op, i) BY <1>4, <2>2
    <2> QED BY <2>1, <2>2, <2>3, <1>5 DEF LogOK
  <1>8. ASSUME NEW d \in Charges, NEW g \in Forms, NEW n \in 1..Len(ll)
        PROVE /\ IsEntry(ll, n, "remove", <<d, g>>) => st[d] \in Past(g)
              /\ IsEntry(ll, n, "add", <<d, g>>) => st[d] = g \/ st[d] \in Past(g)
    <2>1. IsEntry(ll, n, "remove", <<d, g>>) => st[d] \in Past(g)
      BY <1>4, <1>5 DEF LogOK
    <2>2. ASSUME IsEntry(ll, n, "add", <<d, g>>)
          PROVE st[d] = g \/ st[d] \in Past(g)
      <3>1. CASE IsEntry(l, n, "add", <<d, g>>) BY <3>1, <1>5 DEF LogOK
      <3>2. CASE d = c /\ g = f BY <3>2
      <3> QED BY <1>4, <2>2, <3>1, <3>2
    <2> QED BY <2>1, <2>2
  <1> QED BY <1>1, <1>3, <1>6, <1>7, <1>8 DEF LogOK, ll, e

(* A row is removed once the charge is past it.                            *)
LEMMA RemoveEntry ==
  ASSUME NEW l, NEW st, LogOK(l, st), NEW c \in Charges, NEW f \in Forms,
         st[c] \in Past(f),
         \A n \in 1..Len(l) : ~IsEntry(l, n, "remove", <<c, f>>)
  PROVE LogOK(Append(l, Removed(<<c, f>>)), st)
  <1> DEFINE e == Removed(<<c, f>>)
             ll == Append(l, e)
  <1>1. l \in Seq(Entries) /\ st \in [Charges -> Stages] BY DEF LogOK
  <1>2. e \in Entries /\ e.op = "remove" /\ e.id = <<c, f>> BY EntryTypes
  <1> HIDE DEF e
  <1>3. ll \in Seq(Entries) /\ Len(l) \in Nat /\ Len(ll) = Len(l) + 1
    BY <1>1, <1>2, Appended
  <1>4. \A n, op, i : IsEntry(ll, n, op, i) <=>
          \/ IsEntry(l, n, op, i)
          \/ n = Len(l) + 1 /\ op = "remove" /\ i = <<c, f>>
    BY <1>1, <1>2, LongerLog
  <1>5. \A n, op, i : IsEntry(l, n, op, i) => n \in 1..Len(l)
    BY DEF IsEntry
  <1> HIDE DEF ll
  <1>6. ASSUME NEW d \in Charges, NEW m \in 1..Len(ll), NEW n \in 1..Len(ll),
               IsEntry(ll, m, "add", HoldOf(d)), IsEntry(ll, n, "add", PostOf(d))
        PROVE m < n
    BY <1>4, <1>5, <1>6 DEF LogOK
  <1>7. ASSUME NEW i \in Ids, NEW m \in 1..Len(ll), NEW n \in 1..Len(ll),
               IsEntry(ll, m, "remove", i)
        PROVE /\ IsEntry(ll, n, "add", i) => n < m
              /\ IsEntry(ll, n, "remove", i) => n = m
    <2>1. CASE i = <<c, f>>
      <3>1. m = Len(l) + 1 BY <2>1, <1>4, <1>5, <1>7
      <3>2. IsEntry(ll, n, "add", i) => n \in 1..Len(l) BY <1>4, <1>5
      <3>3. IsEntry(ll, n, "remove", i) => n = Len(l) + 1 BY <2>1, <1>4, <1>5
      <3> QED BY <1>3, <3>1, <3>2, <3>3
    <2>2. CASE i # <<c, f>>
      <3>1. m \in 1..Len(l) /\ IsEntry(l, m, "remove", i) BY <2>2, <1>4, <1>5, <1>7
      <3>2. \A op : IsEntry(ll, n, op, i) => IsEntry(l, n, op, i) BY <2>2, <1>4
      <3> QED BY <3>1, <3>2, <1>5 DEF LogOK
    <2> QED BY <2>1, <2>2
  <1>8. ASSUME NEW d \in Charges, NEW g \in Forms, NEW n \in 1..Len(ll)
        PROVE /\ IsEntry(ll, n, "remove", <<d, g>>) => st[d] \in Past(g)
              /\ IsEntry(ll, n, "add", <<d, g>>) => st[d] = g \/ st[d] \in Past(g)
    <2>1. IsEntry(ll, n, "add", <<d, g>>) => st[d] = g \/ st[d] \in Past(g)
      BY <1>4, <1>5 DEF LogOK
    <2>2. ASSUME IsEntry(ll, n, "remove", <<d, g>>)
          PROVE st[d] \in Past(g)
      <3>1. CASE IsEntry(l, n, "remove", <<d, g>>) BY <3>1, <1>5 DEF LogOK
      <3>2. CASE d = c /\ g = f BY <3>2
      <3> QED BY <1>4, <2>2, <3>1, <3>2
    <2> QED BY <2>1, <2>2
  <1> QED BY <1>1, <1>3, <1>6, <1>7, <1>8 DEF LogOK, ll, e

----------------------------------------------------------------------------
(* The bank's steps. *)

LogType ==
  /\ LogOK(log, stage)
  /\ named \subseteq Charges
  /\ feed \in {"cursor", "window"}

(* What a step of the bank does to the log, and what it leaves alone.      *)
Grows ==
  /\ LogOK(log', stage')
  /\ Len(log) <= Len(log') /\ \A n \in 1..Len(log) : log'[n] = log[n]
  /\ named \subseteq named' /\ named' \subseteq Charges
  /\ \A c \in named' \ named : \A n \in 1..Len(log) :
       ~IsEntry(log, n, "add", PostOf(c))
  /\ feed = "window" => named' = named
  /\ UNCHANGED <<feed, rows, cursor, pull, torn>>

LEMMA OneMore ==
  ASSUME NEW e \in Entries, log \in Seq(Entries), log' = log \o <<e>>
  PROVE /\ log' = Append(log, e) /\ Len(log) <= Len(log')
        /\ \A n \in 1..Len(log) : log'[n] = log[n]
  BY OneEntry, Appended

LEMMA TwoMore ==
  ASSUME NEW e \in Entries, NEW g \in Entries, log \in Seq(Entries),
         log' = log \o <<e, g>>
  PROVE /\ log' = Append(Append(log, e), g) /\ Len(log) <= Len(log')
        /\ \A n \in 1..Len(log) : log'[n] = log[n]
  <1>1. log' = Append(Append(log, e), g) BY TwoEntries
  <1>2. /\ Append(log, e) \in Seq(Entries) /\ Len(log) \in Nat
        /\ Len(Append(log, e)) = Len(log) + 1
        /\ \A n \in 1..Len(log) : Append(log, e)[n] = log[n]
    BY Appended
  <1>3. /\ Len(log') = Len(log) + 2
        /\ \A n \in 1..Len(log) + 1 : log'[n] = Append(log, e)[n]
    BY <1>1, <1>2, Appended
  <1> QED BY <1>1, <1>2, <1>3

LEMMA AuthorizeGrows ==
  ASSUME LogType, NEW c \in Charges, Authorize(c)
  PROVE Grows
  <1>1. /\ stage[c] = "none" /\ stage' = [stage EXCEPT ![c] = "hold"]
        /\ log' = log \o <<Added(<<c, "hold">>)>>
        /\ UNCHANGED <<named, feed, rows, cursor, pull, torn>>
    BY DEF Authorize, Reports, HoldOf, Others, pullvars
  <1>2. LogOK(log, stage') BY <1>1, Advance DEF LogType, Past, Forms, Stages
  <1>3. \A n \in 1..Len(log) : /\ ~IsEntry(log, n, "remove", <<c, "hold">>)
                               /\ ~IsEntry(log, n, "add", PostOf(c))
    BY <1>1 DEF LogType, LogOK, Past, Forms, PostOf
  <1>4. stage'[c] = "hold" BY <1>1 DEF LogType, LogOK
  <1>5. LogOK(Append(log, Added(<<c, "hold">>)), stage')
    BY <1>2, <1>3, <1>4, AddEntry DEF Forms
  <1>6. Added(<<c, "hold">>) \in Entries /\ log \in Seq(Entries)
    BY EntryTypes DEF Forms, LogType, LogOK
  <1> QED BY <1>1, <1>5, <1>6, OneMore DEF Grows, LogType

(* A row of form g takes the place of the row of form f.                   *)
LEMMA ReplacedGrows ==
  ASSUME LogType, NEW c \in Charges, NEW f \in {"hold", "post"}, NEW g \in Forms,
         stage[c] = f, f = "hold" => g = "post", f = "post" => g = "anew",
         stage' = [stage EXCEPT ![c] = g],
         \/ log' = log \o <<Added(<<c, g>>)>>
         \/ log' = log \o <<Added(<<c, g>>), Removed(<<c, f>>)>>
         \/ log' = log \o <<Removed(<<c, f>>), Added(<<c, g>>)>>
  PROVE /\ LogOK(log', stage')
        /\ Len(log) <= Len(log') /\ \A n \in 1..Len(log) : log'[n] = log[n]
        /\ \A n \in 1..Len(log) : ~IsEntry(log, n, "add", <<c, g>>)
  <1>1. LogOK(log, stage') BY Advance DEF LogType, Past, Forms, Stages
  <1>2. \A n \in 1..Len(log) : /\ ~IsEntry(log, n, "remove", <<c, g>>)
                               /\ ~IsEntry(log, n, "add", <<c, g>>)
                               /\ ~IsEntry(log, n, "remove", <<c, f>>)
    BY DEF LogType, LogOK, Past, Forms
  <1>3. stage'[c] = g /\ g \in Past(f) /\ f \in Forms /\ g # "hold" /\ f # g
    BY DEF LogType, LogOK, Past, Forms
  <1> DEFINE a == Added(<<c, g>>)
             r == Removed(<<c, f>>)
  <1>4. /\ a \in Entries /\ a.op = "add" /\ a.id = <<c, g>>
        /\ r \in Entries /\ r.op = "remove" /\ r.id = <<c, f>>
    BY <1>3, EntryTypes
  <1>5. log \in Seq(Entries) BY DEF LogType, LogOK
  <1>6. LogOK(Append(log, a), stage') BY <1>1, <1>2, <1>3, AddEntry
  <1>7. LogOK(Append(log, r), stage') BY <1>1, <1>2, <1>3, RemoveEntry
  <1> HIDE DEF a, r
  <1>8. LogOK(Append(Append(log, a), r), stage')
    <2>1. \A n \in 1..Len(Append(log, a)) :
            ~IsEntry(Append(log, a), n, "remove", <<c, f>>)
      BY <1>2, <1>4, <1>5, LongerLog DEF IsEntry
    <2> QED BY <2>1, <1>3, <1>6, RemoveEntry DEF r
  <1>9. LogOK(Append(Append(log, r), a), stage')
    <2>1. \A n \in 1..Len(Append(log, r)) :
            ~IsEntry(Append(log, r), n, "remove", <<c, g>>)
      BY <1>2, <1>3, <1>4, <1>5, LongerLog DEF IsEntry
    <2> QED BY <2>1, <1>3, <1>7, AddEntry DEF a
  <1>10. CASE log' = log \o <<a>> BY <1>10, <1>2, <1>4, <1>5, <1>6, OneMore
  <1>11. CASE log' = log \o <<a, r>> BY <1>11, <1>2, <1>4, <1>5, <1>8, TwoMore
  <1>12. CASE log' = log \o <<r, a>> BY <1>12, <1>2, <1>4, <1>5, <1>9, TwoMore
  <1> QED BY <1>10, <1>11, <1>12 DEF a, r

LEMMA PostsGrows ==
  ASSUME LogType, NEW c \in Charges, Posts(c)
  PROVE Grows
  <1>1. /\ stage[c] = "hold" /\ stage' = [stage EXCEPT ![c] = "post"]
        /\ \/ log' = log \o <<Added(<<c, "post">>)>>
           \/ log' = log \o <<Added(<<c, "post">>), Removed(<<c, "hold">>)>>
           \/ log' = log \o <<Removed(<<c, "hold">>), Added(<<c, "post">>)>>
        /\ named' = named \/ (feed = "cursor" /\ named' = named \cup {c})
        /\ UNCHANGED <<feed, rows, cursor, pull, torn>>
    BY DEF Posts, Post, Replaced, Reports, Others, pullvars, HoldOf, PostOf
  <1>2. /\ LogOK(log', stage')
        /\ Len(log) <= Len(log') /\ \A n \in 1..Len(log) : log'[n] = log[n]
        /\ \A n \in 1..Len(log) : ~IsEntry(log, n, "add", <<c, "post">>)
    BY <1>1, ReplacedGrows DEF Forms
  <1> QED BY <1>1, <1>2 DEF Grows, LogType, PostOf

LEMMA RenumbersGrows ==
  ASSUME LogType, NEW c \in Charges, Renumbers(c)
  PROVE Grows
  <1>1. /\ stage[c] = "post" /\ stage' = [stage EXCEPT ![c] = "anew"]
        /\ \/ log' = log \o <<Added(<<c, "anew">>), Removed(<<c, "post">>)>>
           \/ log' = log \o <<Removed(<<c, "post">>), Added(<<c, "anew">>)>>
        /\ UNCHANGED <<named, feed, rows, cursor, pull, torn>>
    BY DEF Renumbers, Renumber, Replaced, Reports, Others, pullvars, PostOf
  <1>2. /\ LogOK(log', stage')
        /\ Len(log) <= Len(log') /\ \A n \in 1..Len(log) : log'[n] = log[n]
    BY <1>1, ReplacedGrows DEF Forms
  <1> QED BY <1>1, <1>2 DEF Grows, LogType

LEMMA WithdrawGrows ==
  ASSUME LogType, NEW c \in Charges, Withdraw(c)
  PROVE Grows
  <1>1. /\ stage[c] \in Forms /\ stage' = [stage EXCEPT ![c] = "gone"]
        /\ log' = log \o <<Removed(<<c, stage[c]>>)>>
        /\ UNCHANGED <<named, feed, rows, cursor, pull, torn>>
    BY DEF Withdraw, Reports, Others, pullvars
  <1>2. LogOK(log, stage') BY <1>1, Advance DEF LogType, Past, Forms, Stages
  <1>3. \A n \in 1..Len(log) : ~IsEntry(log, n, "remove", <<c, stage[c]>>)
    BY <1>1 DEF LogType, LogOK, Past, Forms
  <1>4. stage'[c] \in Past(stage[c]) BY <1>1 DEF LogType, LogOK, Past, Forms
  <1>5. LogOK(Append(log, Removed(<<c, stage[c]>>)), stage')
    BY <1>1, <1>2, <1>3, <1>4, RemoveEntry
  <1>6. Removed(<<c, stage[c]>>) \in Entries /\ log \in Seq(Entries)
    BY <1>1, EntryTypes DEF LogType, LogOK
  <1> QED BY <1>1, <1>5, <1>6, OneMore DEF Grows, LogType

LEMMA ReportAgainGrows ==
  ASSUME LogType, NEW c \in Charges, ReportAgain(c)
  PROVE Grows
  <1>1. /\ stage[c] \in Forms /\ stage' = stage
        /\ log' = log \o <<Added(<<c, stage[c]>>)>>
        /\ UNCHANGED <<named, feed, rows, cursor, pull, torn>>
    BY DEF ReportAgain, Reports, Others, pullvars
  <1>2. \A n \in 1..Len(log) :
          /\ ~IsEntry(log, n, "remove", <<c, stage[c]>>)
          /\ stage[c] = "hold" => ~IsEntry(log, n, "add", PostOf(c))
    BY <1>1 DEF LogType, LogOK, Past, Forms, PostOf
  <1>3. LogOK(Append(log, Added(<<c, stage[c]>>)), stage)
    BY <1>1, <1>2, AddEntry DEF LogType
  <1>4. Added(<<c, stage[c]>>) \in Entries /\ log \in Seq(Entries)
    BY <1>1, EntryTypes DEF LogType, LogOK
  <1> QED BY <1>1, <1>3, <1>4, OneMore DEF Grows, LogType

LEMMA BankGrows == ASSUME LogType, BankStep PROVE Grows
  BY AuthorizeGrows, PostsGrows, RenumbersGrows, WithdrawGrows, ReportAgainGrows
     DEF BankStep

----------------------------------------------------------------------------
(* What a stretch of a log says. *)

In(l, op, a, b) == {l[n].id : n \in {m \in (a + 1)..b : l[m].op = op}}

LEMMA SaysIn == \A op, a, b : Says(op, a, b) = In(log, op, a, b)
  BY DEF Says, In

LEMMA InIs ==
  ASSUME NEW l \in Seq(Entries), NEW op, NEW i,
         NEW a \in Nat, NEW b \in Nat, b <= Len(l)
  PROVE i \in In(l, op, a, b) <=>
          \E n \in 1..Len(l) : IsEntry(l, n, op, i) /\ a < n /\ n <= b
  BY DEF In, IsEntry

LEMMA InIds ==
  ASSUME NEW l \in Seq(Entries), NEW op, NEW a \in Nat, NEW b \in Nat, b <= Len(l)
  PROVE In(l, op, a, b) \subseteq Ids
  <1> SUFFICES ASSUME NEW i \in In(l, op, a, b) PROVE i \in Ids OBVIOUS
  <1>1. PICK n \in 1..Len(l) : IsEntry(l, n, op, i) BY InIs
  <1>2. l[n] \in Entries /\ l[n].id = i BY <1>1 DEF IsEntry
  <1> QED BY <1>2 DEF Entries

(* A longer stretch says more, in this log and in a longer one.            *)
LEMMA InMore ==
  ASSUME NEW l, NEW op, NEW a \in Nat, NEW b \in Nat, a <= b
  PROVE /\ In(l, op, 0, a) \subseteq In(l, op, 0, b)
        /\ In(l, op, 0, b) = In(l, op, 0, a) \cup In(l, op, a, b)
  BY DEF In

LEMMA InLonger ==
  ASSUME NEW l \in Seq(Entries), NEW ll \in Seq(Entries), NEW op,
         NEW a \in Nat, a <= Len(l), \A n \in 1..Len(l) : ll[n] = l[n]
  PROVE In(ll, op, 0, a) = In(l, op, 0, a)
  BY DEF In

(* A hold is not reported behind the row that names it.                    *)
LEMMA HoldsFirst ==
  ASSUME NEW l, NEW st, LogOK(l, st), NEW c \in Charges,
         NEW a \in Nat, NEW b \in Nat, a <= b, b <= Len(l),
         PostOf(c) \in In(l, "add", 0, a)
  PROVE HoldOf(c) \notin In(l, "add", a, b)
  <1>1. l \in Seq(Entries) /\ Len(l) \in Nat /\ a <= Len(l) BY DEF LogOK
  <1>2. PICK n \in 1..Len(l) : IsEntry(l, n, "add", PostOf(c)) /\ n <= a
    BY <1>1, InIs
  <1>3. ASSUME HoldOf(c) \in In(l, "add", a, b) PROVE FALSE
    <2>1. PICK m \in 1..Len(l) : IsEntry(l, m, "add", HoldOf(c)) /\ a < m
      BY <1>1, <1>3, InIs
    <2>2. m < n BY <1>2, <2>1 DEF LogOK
    <2> QED BY <1>1, <1>2, <2>1, <2>2
  <1> QED BY <1>3

(* What was removed is neither reported nor removed again.                 *)
LEMMA GoneForGood ==
  ASSUME NEW l, NEW st, LogOK(l, st), NEW i \in Ids,
         NEW a \in Nat, NEW b \in Nat, a <= b, b <= Len(l),
         i \in In(l, "remove", 0, a)
  PROVE i \notin In(l, "add", a, b) /\ i \notin In(l, "remove", a, b)
  <1>1. l \in Seq(Entries) /\ Len(l) \in Nat /\ a <= Len(l) BY DEF LogOK
  <1>2. PICK m \in 1..Len(l) : IsEntry(l, m, "remove", i) /\ m <= a
    BY <1>1, InIs
  <1>3. ASSUME i \in In(l, "add", a, b) PROVE FALSE
    <2>1. PICK n \in 1..Len(l) : IsEntry(l, n, "add", i) /\ a < n
      BY <1>1, <1>3, InIs
    <2>2. n < m BY <1>2, <2>1 DEF LogOK
    <2> QED BY <1>1, <1>2, <2>1, <2>2
  <1>4. ASSUME i \in In(l, "remove", a, b) PROVE FALSE
    <2>1. PICK n \in 1..Len(l) : IsEntry(l, n, "remove", i) /\ a < n
      BY <1>1, <1>4, InIs
    <2>2. n = m BY <1>2, <2>1 DEF LogOK
    <2> QED BY <1>1, <1>2, <2>1, <2>2
  <1> QED BY <1>3, <1>4

----------------------------------------------------------------------------
(* The ledger. *)

PullType ==
  /\ rows \in [Ids -> {"absent", "live"} \cup Gone]
  /\ torn \in BOOLEAN
  /\ pull \in [step : {"idle", "next", "wrote", "end"}, at : Nat,
               more : BOOLEAN, saw : SUBSET Ids]
  /\ cursor \in Nat /\ cursor <= pull.at /\ pull.at <= Len(log)
  /\ pull.step = "idle" => pull.at = cursor

(* The pull has come to what was the log's end when it wrote its last page. *)
Through == pull.step = "end" \/ (pull.step = "wrote" /\ ~pull.more)

(* How far the rows may be ahead of the log as read.                       *)
Reach == IF torn /\ ~Through THEN Len(log) ELSE pull.at

Adds(k) == In(log, "add", 0, k)
Removes(k) == In(log, "remove", 0, k)

SettledAt(i, k) == i[1] \in named /\ i = HoldOf(i[1]) /\ PostOf(i[1]) \in Adds(k)

Followed(i) ==
  /\ rows[i] = "live" => i \in Adds(Reach)
  /\ rows[i] = "live" /\ i \in Removes(pull.at) =>
       pull.step = "wrote" /\ i \in pull.saw
  /\ SettledAt(i, pull.at) => rows[i] # "live"
  /\ i \in Adds(pull.at) =>
       \/ rows[i] \in {"live", "retired"}
       \/ i \in Removes(Reach)
       \/ SettledAt(i, Reach)

SawRight ==
  pull.step = "wrote" =>
    /\ pull.saw \subseteq Removes(pull.at)
    /\ \A i \in pull.saw : i \notin Removes(cursor)

Follows == SawRight /\ \A i \in Ids : Followed(i)

LInv ==
  /\ LogType /\ PullType
  /\ feed = "window" => named = {}
  /\ feed = "cursor" => Follows

LEMMA InitLInv == Init => LInv
  <1> SUFFICES ASSUME Init PROVE LInv OBVIOUS
  <1>1. /\ log = <<>> /\ stage = [c \in Charges |-> "none"] /\ named = {}
        /\ rows = [i \in Ids |-> "absent"] /\ cursor = 0 /\ torn = FALSE
        /\ pull = Idle(0) /\ feed \in {"cursor", "window"}
    BY DEF Init
  <1>2. LogType BY <1>1 DEF LogType, LogOK, Stages
  <1>3. PullType
    <2>1. /\ pull.step = "idle" /\ pull.at = 0
          /\ pull \in [step : {"idle", "next", "wrote", "end"}, at : Nat,
                       more : BOOLEAN, saw : SUBSET Ids]
      BY <1>1 DEF Idle
    <2>2. Len(log) = 0 /\ cursor = 0 /\ torn \in BOOLEAN BY <1>1
    <2>3. rows \in [Ids -> {"absent", "live"} \cup Gone] BY <1>1
    <2> QED BY <2>1, <2>2, <2>3 DEF PullType
  <1>4. Follows
    <2>1. pull.step = "idle" /\ pull.at = 0 BY <1>1 DEF Idle
    <2>2. Adds(0) = {} BY <1>1 DEF Adds, In
    <2> QED BY <1>1, <2>1, <2>2 DEF Follows, SawRight, Followed, SettledAt
  <1> QED BY <1>1, <1>2, <1>3, <1>4 DEF LInv

LEMMA ReachType ==
  ASSUME LogType, PullType
  PROVE Reach \in Nat /\ pull.at <= Reach /\ Reach <= Len(log) /\ pull.at \in Nat
        /\ Len(log) \in Nat /\ log \in Seq(Entries)
  BY DEF Reach, LogType, LogOK, PullType

(* The ledger stays where it was when the log grows.                       *)
LEMMA BankStepLInv == ASSUME LInv, BankStep PROVE LInv'
  <1>1. Grows BY BankGrows DEF LInv
  <1>2. LogType' BY <1>1 DEF Grows, LogType, LInv
  <1>3. /\ Reach \in Nat /\ pull.at <= Reach /\ Reach <= Len(log)
        /\ pull.at \in Nat /\ Len(log) \in Nat /\ log \in Seq(Entries)
    BY ReachType DEF LInv
  <1>4. /\ log' \in Seq(Entries) /\ Len(log') \in Nat /\ Len(log) <= Len(log')
        /\ \A n \in 1..Len(log) : log'[n] = log[n]
    BY <1>1 DEF Grows, LogOK
  <1>5. PullType'
    BY <1>1, <1>3, <1>4 DEF Grows, PullType, LInv
  <1>6. feed' = "window" => named' = {} BY <1>1 DEF Grows, LInv
  <1>7. ASSUME feed' = "cursor" PROVE Follows'
    <2>1. Follows /\ UNCHANGED <<rows, cursor, pull, torn>>
      BY <1>1, <1>7 DEF Grows, LInv
    <2>2. cursor \in Nat /\ cursor <= Len(log) BY <1>3 DEF LInv, PullType
    <2>3. Reach' \in Nat /\ Reach <= Reach' /\ Reach' <= Len(log')
      BY <1>3, <1>4, <2>1 DEF Reach, Through
    <2>4. ASSUME NEW k \in Nat, k <= Len(log)
          PROVE /\ In(log', "add", 0, k) = In(log, "add", 0, k)
                /\ In(log', "remove", 0, k) = In(log, "remove", 0, k)
      BY <1>4, <1>3, <2>4, InLonger
    <2>5. /\ Adds(Reach) \subseteq Adds(Reach)'
          /\ Removes(Reach) \subseteq Removes(Reach)'
      <3>1. /\ In(log', "add", 0, Reach) \subseteq In(log', "add", 0, Reach')
            /\ In(log', "remove", 0, Reach) \subseteq In(log', "remove", 0, Reach')
        BY <1>3, <2>3, InMore
      <3> QED BY <1>3, <2>4, <3>1 DEF Adds, Removes
    <2>6. /\ Adds(pull.at)' = Adds(pull.at) /\ Removes(pull.at)' = Removes(pull.at)
          /\ Removes(cursor)' = Removes(cursor)
      BY <1>3, <2>1, <2>2, <2>4 DEF Adds, Removes
    <2>7. SawRight' BY <2>1, <2>6 DEF Follows, SawRight
    <2>8. ASSUME NEW i \in Ids PROVE Followed(i)'
      <3>1. SettledAt(i, pull.at)' => SettledAt(i, pull.at)
        <4>1. ASSUME i[1] \in named' \ named, PostOf(i[1]) \in Adds(pull.at)
              PROVE FALSE
          <5>1. PICK n \in 1..Len(log) : IsEntry(log, n, "add", PostOf(i[1]))
            BY <1>3, <4>1, InIs DEF Adds
          <5> QED BY <1>1, <4>1, <5>1 DEF Grows
        <4> QED BY <2>6, <4>1 DEF SettledAt
      <3>2. SettledAt(i, Reach) => SettledAt(i, Reach)'
        BY <1>1, <2>5 DEF SettledAt, Grows
      <3> QED BY <2>1, <2>5, <2>6, <3>1, <3>2 DEF Follows, Followed
    <2> QED BY <2>7, <2>8 DEF Follows
  <1> QED BY <1>2, <1>5, <1>6, <1>7 DEF LInv

(* Steps that leave the feed, the rows and the pull alone.                 *)
LEMMA LedgerAside ==
  ASSUME LInv, UNCHANGED <<bankvars, rows, pullvars>>
  PROVE LInv'
  BY DEF LInv, LogType, PullType, Follows, SawRight, Followed, SettledAt, Reach,
         Through, Adds, Removes, bankvars, pullvars

(* The feed is a window: there is no log to follow.                        *)
LEMMA WindowStep ==
  ASSUME LInv, feed = "window", UNCHANGED bankvars, PullType'
  PROVE LInv'
  BY DEF LInv, LogType, bankvars

LEMMA WrittenType ==
  ASSUME NEW r \in [Ids -> {"absent", "live"} \cup Gone], NEW ids
  PROVE /\ Written(r, ids) \in [Ids -> {"absent", "live"} \cup Gone]
        /\ \A i \in Ids :
             /\ i \in ids => Written(r, ids)[i] \in {"live", "retired"}
             /\ i \notin ids => Written(r, ids)[i] = r[i]
             /\ r[i] = "retired" => Written(r, ids)[i] = "retired"
             /\ Written(r, ids)[i] = "live" => r[i] = "live" \/ i \in ids
             /\ r[i] = "live" => Written(r, ids)[i] = "live"
  BY DEF Written, BackOr, Gone

(* The steps of a window feed.                                             *)
LEMMA WindowSteps ==
  ASSUME LInv,
         \/ WriteWindow
         \/ \E carried \in BOOLEAN : ReconcileVanished(carried)
         \/ \E some \in SUBSET AtBank : TornWindow(some)
  PROVE LInv'
  <1>1. /\ rows \in [Ids -> {"absent", "live"} \cup Gone] /\ torn \in BOOLEAN
        /\ cursor \in Nat /\ pull.at \in Nat
        /\ cursor <= Len(log) /\ Len(log) \in Nat
    BY ReachType DEF LInv, PullType
  <1>2. CASE WriteWindow
    <2>1. /\ feed = "window" /\ rows' = Written(rows, AtBank)
          /\ pull' = [step |-> "wrote", at |-> cursor, more |-> FALSE, saw |-> AtBank]
          /\ UNCHANGED <<bankvars, cursor, torn>>
      BY <1>2 DEF WriteWindow
    <2>2. AtBank \subseteq Ids BY DEF AtBank, Ids
    <2>3. rows' \in [Ids -> {"absent", "live"} \cup Gone]
      BY <1>1, <2>1, WrittenType
    <2>4. /\ pull'.step = "wrote" /\ pull'.at = cursor
          /\ pull' \in [step : {"idle", "next", "wrote", "end"}, at : Nat,
                        more : BOOLEAN, saw : SUBSET Ids]
      BY <1>1, <2>1, <2>2
    <2>5. PullType' BY <1>1, <2>1, <2>3, <2>4 DEF PullType, bankvars
    <2> QED BY <2>1, <2>5, WindowStep
  <1>3. CASE \E carried \in BOOLEAN : ReconcileVanished(carried)
    <2>1. /\ feed = "window" /\ pull' = Idle(cursor) /\ torn' = FALSE
          /\ rows' = [i \in Ids |-> IF i \in Vanished /\ rows[i] = "live"
                                    THEN "removed" ELSE rows[i]]
          /\ UNCHANGED <<bankvars, cursor>>
      BY <1>3 DEF ReconcileVanished, RetireRows
    <2>2. rows' \in [Ids -> {"absent", "live"} \cup Gone]
      BY <1>1, <2>1 DEF Gone
    <2>3. /\ pull'.step = "idle" /\ pull'.at = cursor
          /\ pull' \in [step : {"idle", "next", "wrote", "end"}, at : Nat,
                        more : BOOLEAN, saw : SUBSET Ids]
      BY <1>1, <2>1 DEF Idle
    <2>4. /\ torn' \in BOOLEAN /\ log' = log /\ cursor' = cursor
      BY <2>1 DEF bankvars
    <2>5. PullType' BY <1>1, <2>2, <2>3, <2>4 DEF PullType
    <2> QED BY <2>1, <2>5, WindowStep
  <1>4. CASE \E some \in SUBSET AtBank : TornWindow(some)
    <2>1. PICK some \in SUBSET AtBank : TornWindow(some) BY <1>4
    <2>2. /\ feed = "window" /\ rows' = Written(rows, some) /\ torn' = TRUE
          /\ UNCHANGED <<bankvars, cursor, pull>>
      BY <2>1 DEF TornWindow
    <2>3. rows' \in [Ids -> {"absent", "live"} \cup Gone]
      BY <1>1, <2>2, WrittenType
    <2>4. PullType' BY <2>2, <2>3 DEF PullType, bankvars, LInv
    <2> QED BY <2>2, <2>4, WindowStep
  <1> QED BY <1>2, <1>3, <1>4

(* A row retired by hand is no longer live, and is not missed.             *)
LEMMA RetirePendingStep ==
  ASSUME LInv, NEW j \in Ids, RetirePending(j)
  PROVE LInv'
  <1>1. /\ rows' = [rows EXCEPT ![j] = "retired"]
        /\ UNCHANGED <<bankvars, pullvars>>
    BY DEF RetirePending
  <1>2. LogType' /\ (feed' = "window" => named' = {})
    BY <1>1 DEF LInv, LogType, bankvars
  <1>3. PullType'
    BY <1>1 DEF LInv, PullType, bankvars, pullvars, Gone
  <1>4. ASSUME feed' = "cursor" PROVE Follows'
    <2>1. Follows BY <1>1, <1>4 DEF LInv, bankvars
    <2>2. SawRight'
      BY <1>1, <2>1 DEF Follows, SawRight, Removes, bankvars, pullvars
    <2>3. ASSUME NEW i \in Ids PROVE Followed(i)'
      <3>1. rows'[i] = rows[i] \/ rows'[i] = "retired"
        BY <1>1 DEF LInv, PullType
      <3>2. /\ Reach' = Reach
            /\ Adds(Reach)' = Adds(Reach) /\ Removes(Reach)' = Removes(Reach)
            /\ Adds(pull.at)' = Adds(pull.at)
            /\ Removes(pull.at)' = Removes(pull.at)
            /\ SettledAt(i, pull.at)' = SettledAt(i, pull.at)
            /\ SettledAt(i, Reach)' = SettledAt(i, Reach)
        BY <1>1 DEF Reach, Through, Adds, Removes, SettledAt, bankvars, pullvars
      <3>3. Followed(i) BY <2>1 DEF Follows
      <3> QED BY <1>1, <3>1, <3>2, <3>3 DEF Followed, pullvars
    <2> QED BY <2>2, <2>3 DEF Follows
  <1> QED BY <1>2, <1>3, <1>4 DEF LInv

(* The cursor is saved where a pull has come through.                      *)
LEMMA SaveCursorStep == ASSUME LInv, SaveCursor PROVE LInv'
  <1>1. /\ feed = "cursor" /\ pull.step = "end" /\ cursor' = pull.at
        /\ pull' = Idle(pull.at) /\ torn' = FALSE
        /\ UNCHANGED <<bankvars, rows>>
    BY DEF SaveCursor
  <1>2. /\ pull.at \in Nat /\ pull.at <= Len(log) /\ Len(log) \in Nat
        /\ rows \in [Ids -> {"absent", "live"} \cup Gone]
    BY ReachType DEF LInv, PullType
  <1>3. /\ pull'.step = "idle" /\ pull'.at = pull.at
        /\ pull' \in [step : {"idle", "next", "wrote", "end"}, at : Nat,
                      more : BOOLEAN, saw : SUBSET Ids]
    BY <1>1, <1>2 DEF Idle
  <1>4. LogType' /\ (feed' = "window" => named' = {})
    BY <1>1 DEF LInv, LogType, bankvars
  <1>5. PullType'
    <2>1. /\ torn' \in BOOLEAN /\ log' = log /\ cursor' = pull.at /\ rows' = rows
      BY <1>1 DEF bankvars
    <2> QED BY <1>2, <1>3, <2>1 DEF PullType
  <1>6. Follows'
    <2>1. Follows BY <1>1 DEF LInv
    <2>2. Reach = pull.at /\ Reach' = pull.at
      BY <1>1, <1>3 DEF Reach, Through
    <2>3. SawRight' BY <1>3 DEF SawRight
    <2>4. ASSUME NEW i \in Ids PROVE Followed(i)'
      <3>1. Followed(i) BY <2>1 DEF Follows
      <3> QED BY <1>1, <1>3, <2>2, <3>1 DEF Followed, Adds, Removes, SettledAt, bankvars
    <2> QED BY <2>3, <2>4 DEF Follows
  <1> QED BY <1>1, <1>4, <1>5, <1>6 DEF LInv

(* A pull that dies leaves the cursor where it was, and the rows ahead.    *)
LEMMA PullDiesStep == ASSUME LInv, PullDies PROVE LInv'
  <1>1. /\ cursor' = cursor /\ pull' = Idle(cursor) /\ torn' = TRUE
        /\ UNCHANGED <<bankvars, rows>>
    BY DEF PullDies, DiesAt
  <1>2. /\ pull.at \in Nat /\ pull.at <= Reach /\ Reach <= Len(log)
        /\ Reach \in Nat /\ Len(log) \in Nat
        /\ cursor \in Nat /\ cursor <= pull.at /\ cursor <= Len(log)
    BY ReachType DEF LInv, PullType
  <1>3. /\ pull'.step = "idle" /\ pull'.at = cursor
        /\ pull' \in [step : {"idle", "next", "wrote", "end"}, at : Nat,
                      more : BOOLEAN, saw : SUBSET Ids]
    BY <1>1, <1>2 DEF Idle
  <1>4. LogType' /\ (feed' = "window" => named' = {})
    BY <1>1 DEF LInv, LogType, bankvars
  <1>5. PullType' BY <1>1, <1>2, <1>3 DEF PullType, bankvars, LInv
  <1>6. ASSUME feed = "cursor" PROVE Follows'
    <2>1. Follows BY <1>6 DEF LInv
    <2>2. Reach' = Len(log)
      BY <1>1, <1>3 DEF Reach, Through, bankvars
    <2>3. SawRight' BY <1>3 DEF SawRight
    <2>4. /\ Adds(cursor) \subseteq Adds(pull.at) /\ Adds(Reach) \subseteq Adds(Len(log))
          /\ Removes(cursor) \subseteq Removes(pull.at)
          /\ Removes(Reach) \subseteq Removes(Len(log))
      BY <1>2, InMore DEF Adds, Removes
    <2>5. ASSUME NEW i \in Ids PROVE Followed(i)'
      <3>1. Followed(i) BY <2>1 DEF Follows
      <3>2. rows[i] = "live" => i \notin Removes(cursor)
        BY <2>1, <2>4, <3>1 DEF Follows, SawRight, Followed
      <3>3. SettledAt(i, cursor) => SettledAt(i, pull.at)
        BY <2>4 DEF SettledAt
      <3>4. SettledAt(i, Reach) => SettledAt(i, Len(log))
        BY <2>4 DEF SettledAt
      <3>5. /\ Adds(Reach)' = Adds(Len(log)) /\ Removes(Reach)' = Removes(Len(log))
            /\ Adds(pull.at)' = Adds(cursor) /\ Removes(pull.at)' = Removes(cursor)
            /\ SettledAt(i, pull.at)' = SettledAt(i, cursor)
            /\ SettledAt(i, Reach)' = SettledAt(i, Len(log))
        BY <1>1, <1>3, <2>2 DEF Adds, Removes, SettledAt, bankvars
      <3> QED BY <1>1, <2>4, <3>1, <3>2, <3>3, <3>4, <3>5 DEF Followed
    <2> QED BY <2>3, <2>5 DEF Follows
  <1> QED BY <1>1, <1>4, <1>5, <1>6 DEF LInv, bankvars

(* The removals of a page.                                                 *)
LEMMA MarkRemovedStep ==
  ASSUME LInv, NEW carried \in BOOLEAN, MarkRemoved(carried)
  PROVE LInv'
  <1>1. /\ feed = "cursor" /\ pull.step = "wrote"
        /\ rows' = [i \in Ids |-> IF i \in pull.saw /\ rows[i] = "live"
                                  THEN "removed" ELSE rows[i]]
        /\ pull' = [step |-> IF pull.more THEN "next" ELSE "end", at |-> pull.at,
                    more |-> pull.more, saw |-> {}]
        /\ UNCHANGED <<bankvars, cursor, torn>>
    BY DEF MarkRemoved, RetireRows
  <1>2. /\ pull.at \in Nat /\ pull.at <= Reach /\ Reach <= Len(log)
        /\ Reach \in Nat /\ Len(log) \in Nat
        /\ cursor \in Nat /\ cursor <= pull.at /\ pull.more \in BOOLEAN
        /\ rows \in [Ids -> {"absent", "live"} \cup Gone]
    BY ReachType DEF LInv, PullType
  <1>3. /\ pull'.step \in {"next", "end"} /\ pull'.at = pull.at
        /\ pull'.step = "end" <=> ~pull.more
        /\ pull' \in [step : {"idle", "next", "wrote", "end"}, at : Nat,
                      more : BOOLEAN, saw : SUBSET Ids]
    BY <1>1, <1>2
  <1>4. LogType' /\ (feed' = "window" => named' = {})
    BY <1>1 DEF LInv, LogType, bankvars
  <1>5. PullType'
    <2>1. /\ torn' \in BOOLEAN /\ log' = log /\ cursor' = cursor
      BY <1>1 DEF bankvars, LInv, PullType
    <2>2. rows' \in [Ids -> {"absent", "live"} \cup Gone]
      BY <1>1, <1>2 DEF Gone
    <2> QED BY <1>2, <1>3, <2>1, <2>2 DEF PullType, LInv
  <1>6. Follows'
    <2>1. Follows BY <1>1 DEF LInv
    <2>2. Reach' = Reach
      BY <1>1, <1>3 DEF Reach, Through, bankvars
    <2>3. SawRight' BY <1>3 DEF SawRight
    <2>4. Removes(pull.at) \subseteq Removes(Reach)
      BY <1>2, InMore DEF Removes
    <2>5. ASSUME NEW i \in Ids PROVE Followed(i)'
      <3>1. Followed(i) BY <2>1 DEF Follows
      <3>2. /\ rows'[i] = "live" => rows[i] = "live" /\ i \notin pull.saw
            /\ rows[i] \in {"live", "retired"} =>
                 rows'[i] \in {"live", "retired"} \/ i \in pull.saw
        BY <1>1
      <3>3. i \in pull.saw => i \in Removes(Reach)
        BY <1>1, <2>1, <2>4 DEF Follows, SawRight
      <3>4. /\ Adds(Reach)' = Adds(Reach) /\ Removes(Reach)' = Removes(Reach)
            /\ Adds(pull.at)' = Adds(pull.at) /\ Removes(pull.at)' = Removes(pull.at)
            /\ SettledAt(i, pull.at)' = SettledAt(i, pull.at)
            /\ SettledAt(i, Reach)' = SettledAt(i, Reach)
        BY <1>1, <1>3, <2>2 DEF Adds, Removes, SettledAt, bankvars
      <3> QED BY <3>1, <3>2, <3>3, <3>4 DEF Followed
    <2> QED BY <2>3, <2>5 DEF Follows
  <1> QED BY <1>1, <1>4, <1>5, <1>6 DEF LInv

(* A page that was torn is read again from the cursor.                     *)
LEMMA TornPageStep ==
  ASSUME LInv, NEW to \in 1..Len(log), NEW some \in SUBSET Says("add", pull.at, to),
         TornPage(to, some)
  PROVE LInv'
  <1>1. /\ feed = "cursor" /\ pull.step \in {"idle", "next"}
        /\ to \in (pull.at + 1)..Len(log)
        /\ rows' = Written(rows, some)
        /\ pull' = Idle(cursor) /\ torn' = TRUE
        /\ UNCHANGED <<bankvars, cursor>>
    BY DEF TornPage
  <1>2. /\ pull.at \in Nat /\ pull.at <= Reach /\ Reach <= Len(log)
        /\ Reach \in Nat /\ Len(log) \in Nat /\ log \in Seq(Entries)
        /\ cursor \in Nat /\ cursor <= pull.at /\ cursor <= Len(log)
        /\ rows \in [Ids -> {"absent", "live"} \cup Gone]
        /\ to \in Nat /\ pull.at <= to /\ to <= Len(log) /\ cursor <= to
    BY <1>1, ReachType DEF LInv, PullType
  <1>3. /\ pull'.step = "idle" /\ pull'.at = cursor
        /\ pull' \in [step : {"idle", "next", "wrote", "end"}, at : Nat,
                      more : BOOLEAN, saw : SUBSET Ids]
    BY <1>1, <1>2 DEF Idle
  <1>4. LogType' /\ (feed' = "window" => named' = {})
    BY <1>1 DEF LInv, LogType, bankvars
  <1>5. PullType'
    <2>1. /\ torn' \in BOOLEAN /\ log' = log /\ cursor' = cursor
      BY <1>1 DEF bankvars
    <2>2. rows' \in [Ids -> {"absent", "live"} \cup Gone]
      BY <1>1, <1>2, WrittenType
    <2> QED BY <1>2, <1>3, <2>1, <2>2 DEF PullType
  <1>6. Follows'
    <2>1. Follows /\ LogOK(log, stage) BY <1>1 DEF LInv, LogType
    <2>2. Reach' = Len(log)
      BY <1>1, <1>3 DEF Reach, Through, bankvars
    <2>3. SawRight' BY <1>3 DEF SawRight
    <2>4. /\ Adds(cursor) \subseteq Adds(pull.at) /\ Adds(Reach) \subseteq Adds(Len(log))
          /\ Removes(cursor) \subseteq Removes(pull.at)
          /\ Removes(Reach) \subseteq Removes(Len(log))
      BY <1>2, InMore DEF Adds, Removes
    <2>5. some \subseteq In(log, "add", pull.at, to) BY SaysIn
    <2>6. some \subseteq Adds(Len(log))
      <3>1. In(log, "add", pull.at, to) \subseteq In(log, "add", 0, to)
        <4>1. In(log, "add", 0, to) = In(log, "add", 0, pull.at)
                                        \cup In(log, "add", pull.at, to)
          BY <1>2, InMore
        <4> QED BY <4>1
      <3>2. In(log, "add", 0, to) \subseteq In(log, "add", 0, Len(log))
        BY <1>2, InMore
      <3> QED BY <2>5, <3>1, <3>2 DEF Adds
    <2>7. ASSUME NEW i \in Ids PROVE Followed(i)'
      <3>1. Followed(i) BY <2>1 DEF Follows
      <3>2. i \in some => i \notin Removes(cursor)
        <4>1. i \in Removes(cursor) => i \in In(log, "remove", 0, pull.at)
          BY <2>4 DEF Removes
        <4> QED BY <1>2, <2>1, <2>5, <4>1, GoneForGood
      <3>3. i \in some => ~SettledAt(i, cursor)
        <4>1. ASSUME i \in some, SettledAt(i, cursor) PROVE FALSE
          <5>1. /\ i[1] \in Charges /\ i = HoldOf(i[1])
                /\ PostOf(i[1]) \in In(log, "add", 0, pull.at)
            BY <4>1, <2>4 DEF SettledAt, Adds, LInv, LogType
          <5> QED BY <1>2, <2>1, <2>5, <4>1, <5>1, HoldsFirst
        <4> QED BY <4>1
      <3>4. /\ SettledAt(i, cursor) => SettledAt(i, pull.at)
            /\ SettledAt(i, Reach) => SettledAt(i, Len(log))
        BY <2>4 DEF SettledAt
      <3>5. /\ rows'[i] = "live" => rows[i] = "live" \/ i \in some
            /\ rows[i] \in {"live", "retired"} => rows'[i] \in {"live", "retired"}
        BY <1>1, <1>2, WrittenType
      <3>6. /\ Adds(Reach)' = Adds(Len(log)) /\ Removes(Reach)' = Removes(Len(log))
            /\ Adds(pull.at)' = Adds(cursor) /\ Removes(pull.at)' = Removes(cursor)
            /\ SettledAt(i, pull.at)' = SettledAt(i, cursor)
            /\ SettledAt(i, Reach)' = SettledAt(i, Len(log))
        BY <1>1, <1>3, <2>2 DEF Adds, Removes, SettledAt, bankvars
      <3>7. rows[i] = "live" => i \notin Removes(cursor)
        BY <1>1, <2>4, <3>1 DEF Followed
      <3> QED BY <2>4, <2>6, <3>1, <3>2, <3>3, <3>4, <3>5, <3>6, <3>7 DEF Followed
    <2> QED BY <2>3, <2>7 DEF Follows
  <1> QED BY <1>1, <1>4, <1>5, <1>6 DEF LInv

LEMMA SettledType ==
  ASSUME NEW r \in [Ids -> {"absent", "live"} \cup Gone], NEW cs
  PROVE /\ Settled(r, cs) \in [Ids -> {"absent", "live"} \cup Gone]
        /\ \A i \in Ids :
             /\ Settled(r, cs)[i] = "live" =>
                  r[i] = "live" /\ \A c \in cs : i # HoldOf(c)
             /\ r[i] \in {"live", "retired"} =>
                  \/ Settled(r, cs)[i] \in {"live", "retired"}
                  \/ \E c \in cs : i = HoldOf(c)
  BY DEF Settled, Gone

(* A page: its rows, and the holds they settle.                            *)
LEMMA WritePageStep ==
  ASSUME LInv, NEW to \in 1..Len(log), NEW carried \in SUBSET Children,
         WritePage(to, carried)
  PROVE LInv'
  <1> DEFINE adds == Says("add", pull.at, to)
             wrote == Written(rows, adds)
             cs == Settling(wrote, adds)
  <1>1. /\ feed = "cursor" /\ pull.step \in {"idle", "next"}
        /\ to \in (pull.at + 1)..Len(log)
        /\ rows' = Settled(wrote, cs)
        /\ pull' = [step |-> "wrote", at |-> to, more |-> to < Len(log),
                    saw |-> Says("remove", pull.at, to)]
        /\ UNCHANGED <<bankvars, cursor, torn>>
    BY DEF WritePage
  <1>2. /\ pull.at \in Nat /\ pull.at <= Reach /\ Reach <= Len(log)
        /\ Reach \in Nat /\ Len(log) \in Nat /\ log \in Seq(Entries)
        /\ cursor \in Nat /\ cursor <= pull.at /\ cursor <= Len(log)
        /\ rows \in [Ids -> {"absent", "live"} \cup Gone]
        /\ to \in Nat /\ pull.at <= to /\ to <= Len(log) /\ cursor <= to
    BY <1>1, ReachType DEF LInv, PullType
  <1>3. adds = In(log, "add", pull.at, to)
        /\ Says("remove", pull.at, to) = In(log, "remove", pull.at, to)
    BY SaysIn
  <1>4. /\ pull'.step = "wrote" /\ pull'.at = to /\ (pull'.more <=> to < Len(log))
        /\ pull'.saw = In(log, "remove", pull.at, to)
        /\ pull' \in [step : {"idle", "next", "wrote", "end"}, at : Nat,
                      more : BOOLEAN, saw : SUBSET Ids]
    <2>1. In(log, "remove", pull.at, to) \subseteq Ids BY <1>2, InIds
    <2>2. /\ pull'.step = "wrote" /\ pull'.at = to
          /\ pull'.saw = In(log, "remove", pull.at, to)
      BY <1>1, <1>3
    <2>3. pull'.more = (to < Len(log)) BY <1>1
    <2>4. pull' = [step |-> pull'.step, at |-> pull'.at, more |-> pull'.more,
                   saw |-> pull'.saw]
      BY <1>1
    <2>5. pull'.more \in BOOLEAN BY <2>3
    <2> QED BY <1>2, <2>1, <2>2, <2>3, <2>4, <2>5
  <1>5. /\ wrote \in [Ids -> {"absent", "live"} \cup Gone]
        /\ \A i \in Ids :
             /\ i \in adds => wrote[i] \in {"live", "retired"}
             /\ rows[i] \in {"live", "retired"} => wrote[i] \in {"live", "retired"}
             /\ wrote[i] = "live" => rows[i] = "live" \/ i \in adds
    BY <1>2, WrittenType
  <1>6. /\ rows' \in [Ids -> {"absent", "live"} \cup Gone]
        /\ \A i \in Ids :
             /\ rows'[i] = "live" => wrote[i] = "live" /\ \A c \in cs : i # HoldOf(c)
             /\ wrote[i] \in {"live", "retired"} =>
                  \/ rows'[i] \in {"live", "retired"}
                  \/ \E c \in cs : i = HoldOf(c)
    BY <1>1, <1>5, SettledType
  <1>7. \A c \in Charges : c \in cs <=> /\ c \in named /\ PostOf(c) \in adds
                                        /\ wrote[HoldOf(c)] # "absent"
    BY DEF Settling, LInv, LogType
  <1>8. cs \subseteq named BY DEF Settling
  <1> HIDE DEF adds, wrote, cs
  <1>9. LogType' /\ (feed' = "window" => named' = {})
    BY <1>1 DEF LInv, LogType, bankvars
  <1>10. PullType'
    <2>1. /\ torn' \in BOOLEAN /\ log' = log /\ cursor' = cursor
      BY <1>1 DEF bankvars, LInv, PullType
    <2> QED BY <1>2, <1>4, <1>6, <2>1 DEF PullType
  <1>11. Follows'
    <2>1. Follows /\ LogOK(log, stage) /\ named \subseteq Charges
      BY <1>1 DEF LInv, LogType
    <2>2. Reach' \in Nat /\ Reach <= Reach' /\ to <= Reach' /\ Reach' <= Len(log)
      <3>1. torn \in BOOLEAN /\ torn' = torn /\ log' = log
        BY <1>1 DEF LInv, PullType, bankvars
      <3>2. ~Through BY <1>1 DEF Through
      <3>3. Through' <=> ~(to < Len(log)) BY <1>4 DEF Through
      <3> QED BY <1>2, <1>4, <3>1, <3>2, <3>3 DEF Reach
    <2> DEFINE k == Reach'
    <2>3. /\ Adds(Reach) \subseteq In(log, "add", 0, k)
          /\ Adds(to) \subseteq In(log, "add", 0, k)
          /\ Removes(Reach) \subseteq In(log, "remove", 0, k)
          /\ Adds(to) = Adds(pull.at) \cup adds
          /\ Removes(to) = Removes(pull.at) \cup pull'.saw
          /\ Removes(cursor) \subseteq Removes(pull.at)
      <3> HIDE DEF k
      <3>1. k \in Nat /\ Reach <= k /\ to <= k BY <2>2 DEF k
      <3>2. /\ In(log, "add", 0, Reach) \subseteq In(log, "add", 0, k)
            /\ In(log, "add", 0, to) \subseteq In(log, "add", 0, k)
            /\ In(log, "remove", 0, Reach) \subseteq In(log, "remove", 0, k)
        BY <1>2, <3>1, InMore
      <3>3. /\ Adds(to) = Adds(pull.at) \cup adds
            /\ Removes(to) = Removes(pull.at) \cup pull'.saw
            /\ Removes(cursor) \subseteq Removes(pull.at)
        <4>0. pull.at \in Nat /\ to \in Nat /\ pull.at <= to BY <1>2
        <4>1. In(log, "add", 0, to) = In(log, "add", 0, pull.at) \cup adds
          <5>1. In(log, "add", 0, to)
                  = In(log, "add", 0, pull.at) \cup In(log, "add", pull.at, to)
            BY <4>0, InMore
          <5> QED BY <1>3, <5>1
        <4>2. In(log, "remove", 0, to) = In(log, "remove", 0, pull.at) \cup pull'.saw
          <5>1. In(log, "remove", 0, to)
                  = In(log, "remove", 0, pull.at) \cup In(log, "remove", pull.at, to)
            BY <4>0, InMore
          <5> QED BY <1>4, <5>1
        <4>3. In(log, "remove", 0, cursor) \subseteq In(log, "remove", 0, pull.at)
          BY <1>2, InMore
        <4> QED BY <4>1, <4>2, <4>3 DEF Adds, Removes
      <3> QED BY <3>2, <3>3 DEF Adds, Removes
    <2>4. /\ Adds(Reach)' = In(log, "add", 0, k)
          /\ Removes(Reach)' = In(log, "remove", 0, k)
          /\ Adds(pull.at)' = Adds(to) /\ Removes(pull.at)' = Removes(to)
          /\ Removes(cursor)' = Removes(cursor)
          /\ log' = log /\ named' = named
      BY <1>1, <1>4 DEF Adds, Removes, bankvars
    <2> HIDE DEF k
    <2>5. SawRight'
      <3>1. ASSUME NEW i \in pull'.saw PROVE i \notin Removes(cursor)
        <4>1. i \in Ids BY <1>4
        <4>2. i \in Removes(cursor) => i \in In(log, "remove", 0, pull.at)
          BY <2>3 DEF Removes
        <4> QED BY <1>2, <1>4, <2>1, <4>1, <4>2, GoneForGood
      <3> QED BY <1>4, <2>3, <2>4, <3>1 DEF SawRight
    <2>6. ASSUME NEW i \in Ids PROVE Followed(i)'
      <3>1. Followed(i) BY <2>1 DEF Follows
      <3>2. rows'[i] = "live" => rows[i] = "live" \/ i \in adds
        BY <1>5, <1>6
      <3>3. rows'[i] = "live" => i \in Adds(Reach)'
        BY <2>3, <2>4, <3>1, <3>2 DEF Followed
      <3>4. ASSUME rows'[i] = "live", i \in Removes(to) PROVE i \in pull'.saw
        <4>1. CASE i \in Removes(pull.at)
          <5>1. rows[i] # "live" BY <1>1, <3>1, <4>1 DEF Followed
          <5>2. i \notin adds
            BY <1>2, <1>3, <2>1, <4>1, GoneForGood DEF Removes
          <5> QED BY <3>2, <3>4, <5>1, <5>2
        <4> QED BY <2>3, <3>4, <4>1
      <3>5. ASSUME rows'[i] = "live", i[1] \in named, i = HoldOf(i[1]),
                   PostOf(i[1]) \in Adds(to)
            PROVE FALSE
        <4>1. i[1] \in Charges BY <2>1, <3>5
        <4>2. CASE PostOf(i[1]) \in adds
          BY <1>6, <1>7, <3>5, <4>1, <4>2
        <4>3. CASE PostOf(i[1]) \in Adds(pull.at)
          <5>1. rows[i] # "live" BY <3>1, <3>5, <4>3 DEF Followed, SettledAt
          <5>2. i \notin adds
            BY <1>2, <1>3, <2>1, <3>5, <4>1, <4>3, HoldsFirst DEF Adds
          <5> QED BY <3>2, <3>5, <5>1, <5>2
        <4> QED BY <2>3, <3>5, <4>2, <4>3
      <3>6. ASSUME i \in Adds(to)
            PROVE \/ rows'[i] \in {"live", "retired"}
                  \/ i \in Removes(Reach)'
                  \/ SettledAt(i, Reach)'
        <4>1. CASE wrote[i] \in {"live", "retired"}
          <5>1. CASE rows'[i] \in {"live", "retired"} BY <5>1
          <5>2. CASE \E c \in cs : i = HoldOf(c)
            <6>1. PICK c \in cs : i = HoldOf(c) BY <5>2
            <6>2. c \in named /\ c \in Charges /\ i[1] = c
              BY <1>8, <2>1, <6>1 DEF HoldOf
            <6>3. PostOf(c) \in In(log, "add", 0, k) BY <1>7, <2>3, <6>1, <6>2
            <6> QED BY <2>4, <6>1, <6>2, <6>3 DEF SettledAt
          <5> QED BY <1>6, <4>1, <5>1, <5>2
        <4>2. CASE wrote[i] \notin {"live", "retired"}
          <5>1. i \in Adds(pull.at) /\ rows[i] \notin {"live", "retired"}
            BY <1>5, <2>3, <3>6, <4>2
          <5>2. i \in Removes(Reach) \/ SettledAt(i, Reach)
            BY <3>1, <5>1 DEF Followed
          <5> QED BY <2>3, <2>4, <5>2 DEF SettledAt
        <4> QED BY <4>1, <4>2
      <3>7. SettledAt(i, pull.at)' =>
              i[1] \in named /\ i = HoldOf(i[1]) /\ PostOf(i[1]) \in Adds(to)
        BY <2>4 DEF SettledAt
      <3> QED BY <1>4, <2>4, <3>3, <3>4, <3>5, <3>6, <3>7 DEF Followed
    <2> QED BY <2>5, <2>6 DEF Follows
  <1> QED BY <1>1, <1>9, <1>10, <1>11 DEF LInv

LEMMA NextLInv == LInv /\ [Next]_ledgervars => LInv'
  <1> SUFFICES ASSUME LInv, [Next]_ledgervars PROVE LInv' OBVIOUS
  <1>1. CASE BankStep BY <1>1, BankStepLInv
  <1>2. CASE PullStep
    BY <1>2, WritePageStep, MarkRemovedStep, SaveCursorStep, WindowSteps DEF PullStep
  <1>3. CASE PersonStep
    <2>1. CASE \E k \in Kinds, i \in Ids : Answer(k, i)
      BY <2>1, LedgerAside DEF Answer
    <2>2. CASE \E i \in Ids : RetirePending(i) BY <2>2, RetirePendingStep
    <2> QED BY <1>3, <2>1, <2>2 DEF PersonStep
  <1>4. CASE SweepStep
    BY <1>4, LedgerAside DEF SweepStep, SweepFinds, SweepCarries
  <1>5. CASE Trouble
    BY <1>5, PullDiesStep, TornPageStep, WindowSteps DEF Trouble
  <1>6. CASE SplitStep
    BY <1>6, LedgerAside DEF SplitStep, ListStale, drop_stale
  <1>7. CASE UNCHANGED ledgervars BY <1>7, LedgerAside DEF ledgervars
  <1> QED BY <1>1, <1>2, <1>3, <1>4, <1>5, <1>6, <1>7 DEF Next

(* No purchase is counted twice, whatever pages the feed makes of its log, *)
(* however many pulls die and are replayed over them, and whether or not   *)
(* the removal of a hold ever comes.                                       *)
THEOREM Counted == Spec => []CountedOnce
  <1>1. LInv => CountedOnce
    <2> SUFFICES ASSUME LInv, NEW c \in named,
                        rows[HoldOf(c)] = "live", PostOf(c) \in Says("add", 0, pull.at)
                 PROVE FALSE
      BY DEF CountedOnce
    <2>1. c \in Charges /\ HoldOf(c) \in Ids /\ HoldOf(c)[1] = c
      BY DEF LInv, LogType, HoldOf, Ids, Forms
    <2>2. feed = "cursor" /\ Followed(HoldOf(c))
      BY <2>1 DEF LInv, LogType, Follows
    <2>3. SettledAt(HoldOf(c), pull.at) BY <2>1, SaysIn DEF SettledAt, Adds
    <2> QED BY <2>2, <2>3 DEF Followed
  <1> QED BY <1>1, InitLInv, NextLInv, PTL DEF Spec

(* A pull that has come through leaves the ledger as the feed has it at    *)
(* the cursor, less what was settled or retired by hand, whatever earlier  *)
(* pulls left half-written.                                                *)
THEOREM CatchesUp == Spec => []CaughtUp
  <1>1. LInv => CaughtUp
    <2> SUFFICES ASSUME LInv, feed = "cursor", pull.step = "idle", ~torn, NEW i \in Ids
                 PROVE rows[i] = "live" <=> Held(i) /\ ~SettledBy(i) /\ rows[i] # "retired"
      BY DEF CaughtUp
    <2>1. pull.at = cursor /\ Reach = cursor BY DEF LInv, PullType, Reach
    <2>2. Followed(i) BY DEF LInv, Follows
    <2>3. Held(i) <=> i \in Adds(cursor) /\ i \notin Removes(cursor)
      BY SaysIn DEF Held, Adds, Removes
    <2>4. SettledBy(i) <=> SettledAt(i, cursor)
      BY SaysIn DEF SettledBy, SettledAt, Adds
    <2> QED BY <2>1, <2>2, <2>3, <2>4 DEF Followed
  <1> QED BY <1>1, InitLInv, NextLInv, PTL DEF Spec
=============================================================================
