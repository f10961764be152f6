--------------------------- MODULE ChargeLedger ---------------------------
(***************************************************************************)
(* A household's charges as its bank reports them and as its ledger keeps  *)
(* them (sync/base.py, sync/plaid.py, sync/simplefin.py), and what a       *)
(* person wrote on them (sync/reanchor.py, web/api.py).  A purchase shows  *)
(* first as a pending hold and then posts as a new row under a new id;     *)
(* after a re-link the bank numbers it once more.  The ledger must count   *)
(* it once, and what was written on one row must follow it to the next.    *)
(***************************************************************************)
EXTENDS Naturals, FiniteSets, Sequences, SequencesExt

CONSTANTS
  Charges,     \* the purchases
  Alike,       \* those of one payee and price, within one week
  MaxAnswers,  \* bound: what a person writes
  MaxFaults,   \* bound: pulls that die, carries that fail
  MaxEvents    \* bound: these, what the feed reports and what is retired;
               \* a purchase counts for two

ASSUME AlikeAssumption == Alike \subseteq Charges
ASSUME ChargesFinite == IsFiniteSet(Charges)
ASSUME LedgerBounds == MaxAnswers \in Nat /\ MaxFaults \in Nat /\ MaxEvents \in Nat

VARIABLES
  feed,    \* "cursor" (Plaid) or "window" (SimpleFIN, MX)
  log,     \* what the feed reported: rows added and removed, in order
  stage,   \* Charges -> none, hold, post, anew, gone: at the bank
  named,   \* charges whose posted row names its hold
  tipped,  \* charges that posted for another amount than was held
  rows,    \* Ids -> absent, live, removed, retired: the transactions table
  cursor,  \* items.tx_cursor: the log's entries read by a finished pull
  pull,    \* the running pull: step, at, more and the window it saw
  torn,    \* a pull died since the last one that finished
  ans,     \* Kinds -> Ids -> the answer a row carries, or 0
  said,    \* history: the answers a person gave, each known by its place
  overruled, \* history: answers the person replaced
  sweep,   \* the move the nightly sweep is about to make, or <<>>
  listed,  \* rows whose split a pass found not to add up any more
  faults

bankvars == <<feed, log, stage, named, tipped>>
pullvars == <<cursor, pull, torn>>
answervars == <<ans, said, overruled>>
ledgervars == <<bankvars, pullvars, rows, answervars, sweep, listed, faults>>

Forms == {"hold", "post", "anew"}
Ids == Charges \X Forms

(* A pin is columns of the row, which a settlement copies; a child is a    *)
(* row of its own (a receipt, a flag), which it moves.  A split is several *)
(* rows, moved all or none, whose parts add up to the amount of the row it *)
(* was written on: over, if that had posted for another than was held.     *)
Children == {"child", "split"}
Kinds == {"pin"} \cup Children

Holds == {i \in Ids : i[2] = "hold"}
PostOf(c) == <<c, "post">>
HoldOf(c) == <<c, "hold">>
Gone == {"removed", "retired"}

TypeOK ==
  /\ feed \in {"cursor", "window"}
  /\ log \in Seq([id : Ids, op : {"add", "remove"}])
  /\ stage \in [Charges -> Forms \cup {"none", "gone"}]
  /\ named \subseteq Charges /\ tipped \subseteq Charges
  /\ rows \in [Ids -> {"absent", "live"} \cup Gone]
  /\ \A i \in Ids : rows[i] = "retired" => i \in Holds
  /\ cursor \in 0..Len(log)
  /\ pull \in [step : {"idle", "next", "wrote", "end"}, at : 0..Len(log),
               more : BOOLEAN, saw : SUBSET Ids]
  /\ (pull.step = "idle" => pull.at = cursor)
  /\ torn \in BOOLEAN
  /\ ans \in [Kinds -> [Ids -> 0..Len(said)]]
  /\ \A k \in Kinds, i \in Ids : ans[k][i] # 0 => rows[i] # "absent"
  /\ said \in Seq([about : Charges, kind : Kinds, over : BOOLEAN])
  /\ overruled \subseteq DOMAIN said
  /\ sweep \in {<<>>} \cup (Ids \X Ids) /\ listed \subseteq Ids
  /\ faults \in 0..MaxFaults

Idle(at) == [step |-> "idle", at |-> at, more |-> FALSE, saw |-> {}]

Init ==
  /\ feed \in {"cursor", "window"} /\ log = <<>>
  /\ stage = [c \in Charges |-> "none"] /\ named = {} /\ tipped = {}
  /\ rows = [i \in Ids |-> "absent"]
  /\ cursor = 0 /\ pull = Idle(0) /\ torn = FALSE
  /\ ans = [k \in Kinds |-> [i \in Ids |-> 0]]
  /\ said = <<>> /\ overruled = {} /\ sweep = <<>>
  /\ listed = {} /\ faults = 0

Events == Len(log) + Len(said) + faults
            + Cardinality({i \in Ids : rows[i] = "retired"})
            + 2 * Cardinality({c \in Charges : stage[c] # "none"})

-----------------------------------------------------------------------------
(* The bank, and the feed's account of it. *)

Added(i) == [id |-> i, op |-> "add"]
Removed(i) == [id |-> i, op |-> "remove"]

Reports(entries) ==
  /\ Events + Len(entries) <= MaxEvents
  /\ log' = log \o entries

Others == <<feed, rows, pullvars, answervars, sweep, listed, faults>>

Authorize(c) ==
  /\ stage[c] = "none" /\ Events + 3 <= MaxEvents
  /\ stage' = [stage EXCEPT ![c] = "hold"]
  /\ Reports(<<Added(HoldOf(c))>>)
  /\ UNCHANGED <<named, tipped, Others>>

(* The posted row may come before or after its hold's removal, and the     *)
(* removal may be missed.                                                  *)
Replaced(old, new) ==
  {<<Added(new), Removed(old)>>, <<Removed(old), Added(new)>>}

Post(c, names, tips, entries) ==
  /\ stage[c] = "hold"
  /\ stage' = [stage EXCEPT ![c] = "post"]
  /\ Reports(entries)
  /\ named' = IF names THEN named \cup {c} ELSE named
  /\ tipped' = IF tips THEN tipped \cup {c} ELSE tipped
  /\ UNCHANGED Others

Renumber(c, entries) ==
  /\ stage[c] = "post"
  /\ stage' = [stage EXCEPT ![c] = "anew"]
  /\ Reports(entries)
  /\ UNCHANGED <<named, tipped, Others>>

Withdraw(c) ==
  /\ stage[c] \in Forms
  /\ stage' = [stage EXCEPT ![c] = "gone"]
  /\ Reports(<<Removed(<<c, stage[c]>>)>>)
  /\ UNCHANGED <<named, tipped, Others>>

ReportAgain(c) ==
  /\ stage[c] \in Forms
  /\ Reports(<<Added(<<c, stage[c]>>)>>)
  /\ UNCHANGED <<stage, named, tipped, Others>>

Posts(c) ==
  \/ /\ feed = "cursor"
     /\ \E names, tips \in BOOLEAN, entries \in
           Replaced(HoldOf(c), PostOf(c)) \cup {<<Added(PostOf(c))>>} :
              Post(c, names, tips, entries)
  \/ /\ feed = "window"
     /\ \E tips \in BOOLEAN : Post(c, FALSE, tips, <<Added(PostOf(c))>>)

Renumbers(c) ==
  /\ feed = "cursor"
  /\ \E entries \in Replaced(PostOf(c), <<c, "anew">>) : Renumber(c, entries)

-----------------------------------------------------------------------------
(* Which live row is a retired row's charge. *)

OtherPrice(i) == i[1] \in tipped /\ i[2] # "hold"

Resembles(i, j) ==
  IF i[1] = j[1] THEN OtherPrice(i) = OtherPrice(j)
  ELSE {i[1], j[1]} \subseteq Alike /\ ~OtherPrice(i) /\ ~OtherPrice(j)

Live(r) == {i \in Ids : r[i] = "live"}

Naming(r, i) ==
  {j \in Live(r) : i = HoldOf(j[1]) /\ j = PostOf(j[1]) /\ j[1] \in named}

LookAlikes(r, i) == {j \in Live(r) \ {i} : Resembles(i, j)}

(* find_twin: the row that names it, else the only one that looks like it. *)
Twins(r, i) ==
  IF Naming(r, i) # {} THEN Naming(r, i)
  ELSE {j \in LookAlikes(r, i) : LookAlikes(r, i) = {j}}

(* Fault: an override alone does not make a row worth a look. *)
CarriesChild(a, i) == a["child"][i] # 0

Carries(a, i) == \E k \in Kinds : a[k][i] # 0

Stranded(r, a) == {i \in Ids : r[i] = "removed" /\ Carries(a, i)}

(* _move: the live row keeps its own answer, and the retired row lets go   *)
(* of exactly what the live row took.                                      *)
Taken(mine, theirs) == IF mine = 0 THEN theirs ELSE mine
LeftBehind(mine, theirs) == IF mine \in {0, theirs} THEN 0 ELSE theirs

Move(a, i, j) ==
  [k \in Kinds |-> [a[k] EXCEPT ![j] = Taken(a[k][j], a[k][i]),
                                ![i] = LeftBehind(a[k][j], a[k][i])]]

ReanchorRow(r, a, i) ==
  IF i \in Stranded(r, a) /\ Twins(r, i) # {}
  THEN Move(a, i, CHOOSE j \in Twins(r, i) : TRUE) ELSE a

(* One stranded row after another.                                         *)
Reanchored(r, a, order) ==
  LET after[n \in 0..Len(order)] ==
        IF n = 0 THEN a ELSE ReanchorRow(r, after[n - 1], order[n])
  IN after[Len(order)]

-----------------------------------------------------------------------------
(* A pull of the feed: a page covers a stretch of the log. *)

Says(op, from, to) ==
  {log[n].id : n \in {m \in (from + 1)..to : log[m].op = op}}

AtBank == {<<c, stage[c]>> : c \in {d \in Charges : stage[d] \in Forms}}

(* _write_rows: a row the feed re-reports comes back, unless a person      *)
(* retired it.                                                             *)
BackOr(s) == IF s = "retired" THEN s ELSE "live"

Written(r, ids) == [i \in Ids |-> IF i \in ids THEN BackOr(r[i]) ELSE r[i]]

(* _settle_pendings: the holds the page's posted rows name, where the      *)
(* ledger has them.                                                        *)
Settling(r, ids) ==
  {c \in named : PostOf(c) \in ids /\ r[HoldOf(c)] # "absent"}

(* Fault: the removal is left to the feed's own delta. *)
SettledByFeed(r, cs) == r

Settled(r, cs) ==
  [i \in Ids |-> IF i \in {HoldOf(c) : c \in cs} /\ r[i] = "live"
                 THEN "removed" ELSE r[i]]

PinsCopied(pins, cs) ==
  [i \in Ids |-> IF i \in {PostOf(c) : c \in cs}
                 THEN Taken(pins[i], pins[HoldOf(i[1])]) ELSE pins[i]]

ChildrenMoved(kids, cs) ==
  LET free == {c \in cs : kids[PostOf(c)] = 0}
  IN [i \in Ids |-> CASE i \in {PostOf(c) : c \in free} -> kids[HoldOf(i[1])]
                      [] i \in {HoldOf(c) : c \in free} -> 0
                      [] OTHER -> kids[i]]

(* The statements that move children are best-effort, each for itself: the *)
(* page lands whether or not they do.                                      *)
SettledAnswers(cs, carried) ==
  [k \in Kinds |-> IF k = "pin" THEN PinsCopied(ans[k], cs)
                   ELSE IF k \in carried THEN ChildrenMoved(ans[k], cs)
                   ELSE ans[k]]

Fails(happens) == /\ happens => faults < MaxFaults /\ Events < MaxEvents
                  /\ faults' = IF happens THEN faults + 1 ELSE faults

(* upsert_transactions of one page: its rows and the holds they settle are *)
(* one commit.                                                             *)
WritePage(to, carried) ==
  LET adds == Says("add", pull.at, to)
      wrote == Written(rows, adds)
      cs == Settling(wrote, adds)
  IN /\ feed = "cursor" /\ pull.step \in {"idle", "next"}
     /\ to \in (pull.at + 1)..Len(log)
     /\ (cs = {}) => carried = Children
     /\ rows' = Settled(wrote, cs)
     /\ ans' = SettledAnswers(cs, carried)
     /\ pull' = [step |-> "wrote", at |-> to, more |-> to < Len(log),
                 saw |-> Says("remove", pull.at, to)]
     /\ Fails(carried # Children)
     /\ UNCHANGED <<bankvars, cursor, torn, said, overruled, sweep, listed>>

(* A page that settles nothing is written row by row. *)
TornPage(to, some) ==
  /\ feed = "cursor" /\ pull.step \in {"idle", "next"}
  /\ to \in (pull.at + 1)..Len(log)
  /\ ~ \E c \in named : PostOf(c) \in Says("add", pull.at, to)
  /\ rows' = Written(rows, some)
  /\ pull' = Idle(cursor) /\ torn' = TRUE /\ Fails(TRUE)
  /\ UNCHANGED <<bankvars, cursor, answervars, sweep, listed>>

(* mark_removed, and the re-anchor it ends in. *)
RetireRows(gone, carried) ==
  LET r == [i \in Ids |-> IF i \in gone /\ rows[i] = "live" THEN "removed"
                          ELSE rows[i]]
      moving == {i \in gone : Carries(ans, i)}
  IN /\ rows' = r
     /\ moving = {} => carried
     /\ \E order \in SetToSeqs(moving) :
          ans' = IF carried THEN Reanchored(r, ans, order) ELSE ans
     /\ Fails(~carried)

MarkRemoved(carried) ==
  /\ feed = "cursor" /\ pull.step = "wrote"
  /\ RetireRows(pull.saw, carried)
  /\ pull' = [step |-> IF pull.more THEN "next" ELSE "end", at |-> pull.at,
              more |-> pull.more, saw |-> {}]
  /\ UNCHANGED <<bankvars, cursor, torn, said, overruled, sweep, listed>>

(* The cursor moves only after the last page. *)
SaveCursor ==
  /\ feed = "cursor" /\ pull.step = "end"
  /\ cursor' = pull.at /\ pull' = Idle(pull.at) /\ torn' = FALSE
  /\ UNCHANGED <<bankvars, rows, answervars, sweep, listed, faults>>

(* Fault: a pull that died is taken up where it stopped. *)
DiesOnwards == pull.at

DiesAt == cursor

PullDies ==
  /\ pull.step # "idle"
  /\ cursor' = DiesAt /\ pull' = Idle(DiesAt) /\ torn' = TRUE /\ Fails(TRUE)
  /\ UNCHANGED <<bankvars, rows, answervars, sweep, listed>>

(* A stateless feed sends its whole window, and what it stopped carrying   *)
(* is found by its absence.                                                *)
WriteWindow ==
  /\ feed = "window" /\ pull.step = "idle"
  /\ rows' = Written(rows, AtBank)
  /\ pull' = [step |-> "wrote", at |-> cursor, more |-> FALSE, saw |-> AtBank]
  /\ UNCHANGED <<bankvars, cursor, torn, answervars, sweep, listed, faults>>

TornWindow(some) ==
  /\ feed = "window" /\ pull.step = "idle"
  /\ rows' = Written(rows, some)
  /\ torn' = TRUE /\ Fails(TRUE)
  /\ UNCHANGED <<bankvars, cursor, pull, answervars, sweep, listed>>

Vanished == {i \in Holds : rows[i] = "live" /\ i \notin pull.saw}

ReconcileVanished(carried) ==
  /\ feed = "window" /\ pull.step = "wrote"
  /\ RetireRows(Vanished, carried)
  /\ pull' = Idle(cursor) /\ torn' = FALSE
  /\ UNCHANGED <<bankvars, cursor, said, overruled, sweep, listed>>

-----------------------------------------------------------------------------
(* The person, whose edits run under the pairing lock in shared mode. *)

(* live_edit_ids: the row itself, or the posted row a settled hold became. *)
EditRow(i) == IF rows[i] = "live" THEN {i}
              ELSE IF rows[i] \in Gone THEN Naming(rows, i) ELSE {}

Answer(k, i) ==
  /\ Len(said) < MaxAnswers /\ Events < MaxEvents
  /\ \E j \in EditRow(i) :
       /\ said' = Append(said, [about |-> j[1], kind |-> k,
                                over |-> OtherPrice(j)])
       /\ ans' = [ans EXCEPT ![k][j] = Len(said) + 1]
       /\ overruled' = overruled \cup ({ans[k][j]} \ {0})
  /\ UNCHANGED <<bankvars, pullvars, rows, sweep, listed, faults>>

(* Fault: the row is not asked again whether it is a hold. *)
RetireAny(i) ==
  /\ rows[i] = "live" /\ Events < MaxEvents
  /\ rows' = [rows EXCEPT ![i] = "retired"]
  /\ UNCHANGED <<bankvars, pullvars, answervars, sweep, listed, faults>>

(* retire_pending: its UPDATE checks again that the row is a live hold. *)
RetirePending(i) ==
  /\ i \in Holds /\ rows[i] = "live" /\ Events < MaxEvents
  /\ rows' = [rows EXCEPT ![i] = "retired"]
  /\ UNCHANGED <<bankvars, pullvars, answervars, sweep, listed, faults>>

-----------------------------------------------------------------------------
(* The nightly sweep, under a lock of its own: pulls and edits go on. *)

SweepFinds(i, j) ==
  /\ sweep = <<>>
  /\ sweep' = <<i, j>>
  /\ UNCHANGED <<bankvars, pullvars, rows, answervars, listed, faults>>

(* Fault: the rows are taken as they were when the pair was found. *)
AsFound(i, j) == TRUE

(* carry reads both rows again under their locks. *)
StillApart(i, j) == rows[i] \in Gone /\ rows[j] = "live"

SweepCarries(i, j, carried) ==
  /\ sweep = <<i, j>>
  /\ ans' = IF carried /\ StillApart(i, j) THEN Move(ans, i, j) ELSE ans
  /\ sweep' = <<>>
  /\ Fails(~carried)
  /\ UNCHANGED <<bankvars, pullvars, rows, said, overruled, listed>>

-----------------------------------------------------------------------------
(* The end of a pass: a split that no longer adds up to its row is dropped *)
(* (engine/splits.py).                                                     *)

Fits(n, i) == said[n].over <=> OtherPrice(i)

stale == {i \in Ids : ans["split"][i] # 0 /\ ~Fits(ans["split"][i], i)}

ListStale ==
  /\ listed' = stale
  /\ UNCHANGED <<bankvars, pullvars, rows, answervars, sweep, faults>>

(* Fault: the rows are taken as they were listed. *)
AsListed == listed

(* The DELETE judges each listed row again.                                *)
StillStale == listed \cap stale

drop_stale ==
  /\ listed # {}
  /\ ans' = [ans EXCEPT !["split"] =
               [i \in Ids |-> IF i \in StillStale THEN 0 ELSE @[i]]]
  /\ listed' = {}
  /\ UNCHANGED <<bankvars, pullvars, rows, said, overruled, sweep, faults>>

-----------------------------------------------------------------------------
BankStep == \E c \in Charges :
  Authorize(c) \/ Posts(c) \/ Renumbers(c) \/ Withdraw(c) \/ ReportAgain(c)

PullStep ==
  \/ \E to \in 1..Len(log), carried \in SUBSET Children : WritePage(to, carried)
  \/ \E carried \in BOOLEAN : MarkRemoved(carried)
  \/ SaveCursor
  \/ WriteWindow
  \/ \E carried \in BOOLEAN : ReconcileVanished(carried)

PersonStep ==
  \/ \E k \in Kinds, i \in Ids : Answer(k, i)
  \/ \E i \in Ids : RetirePending(i)

SweepStep ==
  \/ \E i \in Stranded(rows, ans) : \E j \in Twins(rows, i) : SweepFinds(i, j)
  \/ \E i, j \in Ids, carried \in BOOLEAN : SweepCarries(i, j, carried)

SplitStep == ListStale \/ drop_stale

Trouble ==
  \/ PullDies
  \/ \E to \in 1..Len(log) :
       \E some \in SUBSET Says("add", pull.at, to) : TornPage(to, some)
  \/ \E some \in SUBSET AtBank : TornWindow(some)

Next == BankStep \/ PullStep \/ PersonStep \/ SweepStep \/ SplitStep \/ Trouble

(* The worker sweeps every night; nothing is assumed of the feed. *)
Spec == Init /\ [][Next]_ledgervars /\ WF_ledgervars(SweepStep)

-----------------------------------------------------------------------------
(* No purchase is counted twice: a hold and the posted row that names it   *)
(* are never both live once the ledger has read of the posted row (sync/   *)
(* base.py: "a settling page lands as ONE commit"), whatever pages the     *)
(* feed makes of it, however often they are replayed, and whether or not   *)
(* the feed's own removal comes.  The one window left is a pull that died  *)
(* and is replayed: its earlier attempt wrote rows from further on.        *)
CountedOnce ==
  \A c \in named :
    rows[HoldOf(c)] = "live" /\ rows[PostOf(c)] = "live"
      => PostOf(c) \notin Says("add", 0, pull.at)

(* When no pull runs and none has died since, the ledger is the feed at    *)
(* its cursor: the rows the feed last reported as there, less the holds a  *)
(* posted row named and those a person retired (sync/plaid.py: the cursor  *)
(* moves only after full pagination).                                      *)
Held(i) == i \in Says("add", 0, cursor) \ Says("remove", 0, cursor)
SettledBy(i) == /\ i[1] \in named /\ i = HoldOf(i[1])
                /\ PostOf(i[1]) \in Says("add", 0, cursor)

CaughtUp ==
  feed = "cursor" /\ pull.step = "idle" /\ ~torn
    => \A i \in Ids : rows[i] = "live" <=>
         Held(i) /\ ~SettledBy(i) /\ rows[i] # "retired"

(* A split that stopped adding up: the charge it was written on, or one    *)
(* that passes for it, has posted for another amount than it was split at. *)
Outgrown(n) ==
  /\ said[n].kind = "split" /\ ~said[n].over
  /\ \E c \in tipped : c = said[n].about \/ {c, said[n].about} \subseteq Alike

OnRow(n) == \E i \in Ids : ans[said[n].kind][i] = n

(* What a person wrote is on a row of the ledger until the person replaces *)
(* it (sync/reanchor.py: "nulling that one would destroy it, not tidy up"). *)
(* All the code ever drops is a split whose charge posted for another      *)
(* amount; one the person wrote anew meanwhile is not dropped with it      *)
(* (engine/splits.py, drop_stale).                                         *)
AnswerKept == \A n \in DOMAIN said \ overruled : OnRow(n) \/ Outgrown(n)

(* What a live row shows is the person's to change: no settlement, replay  *)
(* or sweep takes it off a row that stays live, or writes over it.  Only a *)
(* split that does not add up to its row is taken off.                     *)
ShownAnswerStands ==
  [][\A k \in Kinds, i \in Ids :
       rows[i] = "live" /\ rows'[i] = "live" /\ ans[k][i] # 0 /\ said' = said
       => \/ ans'[k][i] = ans[k][i]
          \/ k = "split" /\ ~Fits(ans[k][i], i) /\ ans'[k][i] = 0]_ledgervars

(* Every answer ends where the person can see it, or where the code has    *)
(* reason to leave it: on a hold the person retired, or on a row whose     *)
(* charge is not there, is ambiguous or bears an answer already, be it one *)
(* the person has replaced elsewhere.  A split may have been dropped.      *)
Placed(n) ==
  LET k == said[n].kind
  IN \/ n \in overruled
     \/ ~OnRow(n) /\ Outgrown(n)
     \/ \E i \in Ids :
          /\ ans[k][i] = n
          /\ \/ rows[i] \in {"live", "retired"}
             \/ Twins(rows, i) = {}
             \/ \E j \in Twins(rows, i) : ans[k][j] # 0

AnswersFollow ==
  <>[](\A n \in DOMAIN said : Placed(n))
=============================================================================
