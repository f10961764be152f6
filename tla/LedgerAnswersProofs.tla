------------------------ MODULE LedgerAnswersProofs ------------------------
(***************************************************************************)
(* What a person wrote on the ledger's rows, for any purchases, pages,     *)
(* retirements, sweeps and faults: it is never lost (AnswerKept), and what *)
(* a live row shows is not taken off it (ShownAnswerStands).               *)
(*                                                                         *)
(* Every step but the person's own carries the answers over (Carried): an  *)
(* answer stays on some row, only a row that was written bears one, and a  *)
(* live row keeps its own.  A re-anchor makes any number of moves, one row *)
(* after another; that each carries the answers over is by induction on    *)
(* the rows done, which rests on every set of naturals having a least one. *)
(***************************************************************************)
EXTENDS ChargeLedgerProofs, FiniteSetTheorems, WellFoundedInduction

----------------------------------------------------------------------------
(* A re-anchor, row by row. *)

LEMMA LeastNatural ==
  ASSUME NEW T \in SUBSET Nat, T # {}
  PROVE  \E x \in T : \A y \in T : x <= y
<1>1. PICK x \in T : \A y \in T : ~ (<<y, x>> \in OpToRel(<, Nat))
  BY WFMin, NatLessThanWellFounded
<1>2. \A y \in T : ~(y < x)
  BY <1>1 DEF OpToRel
<1>. QED BY <1>2

(* The answers after each of the first m rows.                             *)
RunOf(g, r, a, order, m) ==
  g = [n \in 0..m |-> IF n = 0 THEN a ELSE ReanchorRow(r, g[n - 1], order[n])]

RunTo(r, a, order, m) == \E g : RunOf(g, r, a, order, m)

LEMMA RunStarts == ASSUME NEW r, NEW a, NEW order PROVE RunTo(r, a, order, 0)
<1>. DEFINE g == [n \in 0..0 |-> a]
<1>1. RunOf(g, r, a, order, 0)
  BY DEF RunOf
<1>. QED BY <1>1 DEF RunTo

LEMMA RunGoesOn ==
  ASSUME NEW r, NEW a, NEW order, NEW m \in Nat, RunTo(r, a, order, m)
  PROVE  RunTo(r, a, order, m + 1)
<1>1. PICK g : RunOf(g, r, a, order, m)
  BY DEF RunTo
<1>. DEFINE F(f, n) == IF n = 0 THEN a ELSE ReanchorRow(r, f[n - 1], order[n])
            h == [n \in 0..(m + 1) |-> F(g, n)]
<1>2. \A n \in 0..m : g[n] = F(g, n)
  BY <1>1 DEF RunOf
<1>3. \A n \in 0..(m + 1) : h[n] = F(g, n)
  OBVIOUS
<1>4. \A n \in 0..m : h[n] = g[n]
  BY <1>2, <1>3
<1>5. ASSUME NEW n \in 0..(m + 1) PROVE F(g, n) = F(h, n)
  <2>. HIDE DEF h
  <2>1. n # 0 => g[n - 1] = h[n - 1]
    <3>. SUFFICES ASSUME n # 0 PROVE n - 1 \in 0..m
      BY <1>4
    <3>. QED OBVIOUS
  <2>. QED BY <2>1
<1>6. h = [n \in 0..(m + 1) |-> F(h, n)]
  BY <1>5
<1>. HIDE DEF h
<1>. QED BY <1>6 DEF RunOf, RunTo

LEMMA RunExists ==
  ASSUME NEW r, NEW a, NEW order, NEW m \in Nat PROVE RunTo(r, a, order, m)
<1>. DEFINE T == {k \in Nat : ~RunTo(r, a, order, k)}
<1>. SUFFICES ASSUME T # {} PROVE FALSE
  OBVIOUS
<1>1. PICK k \in T : \A y \in T : k <= y
  <2>. T \in SUBSET Nat
    OBVIOUS
  <2>. HIDE DEF T
  <2>. QED BY LeastNatural
<1>2. k \in Nat /\ k # 0 /\ k - 1 \in Nat
  BY RunStarts
<1>3. RunTo(r, a, order, k - 1)
  BY <1>1, <1>2
<1>4. RunTo(r, a, order, (k - 1) + 1)
  BY <1>2, <1>3, RunGoesOn
<1>. QED BY <1>2, <1>4

(* What each row's re-anchor keeps within G, all of them together do.      *)
LEMMA ReanchoredStays ==
  ASSUME NEW r, NEW G, NEW a \in G, NEW order, Len(order) \in Nat,
         \A n \in 1..Len(order), b \in G : ReanchorRow(r, b, order[n]) \in G
  PROVE  Reanchored(r, a, order) \in G
<1>. DEFINE m == Len(order)
            g == CHOOSE f : RunOf(f, r, a, order, m)
<1>1. RunOf(g, r, a, order, m)
  BY RunExists DEF RunTo
<1>2. Reanchored(r, a, order) = g[m]
  BY DEF Reanchored, RunOf
<1>. HIDE DEF g
<1>3. \A n \in 0..m : g[n] = IF n = 0 THEN a ELSE ReanchorRow(r, g[n - 1], order[n])
  BY <1>1 DEF RunOf
<1>. DEFINE T == {n \in Nat : n <= m /\ g[n] \notin G}
<1>4. T = {}
  <2>. SUFFICES ASSUME T # {} PROVE FALSE
    OBVIOUS
  <2>1. PICK k \in T : \A y \in T : k <= y
    <3>. T \in SUBSET Nat
      OBVIOUS
    <3>. HIDE DEF T
    <3>. QED BY LeastNatural
  <2>2. k \in 1..m /\ k - 1 \in Nat /\ g[k - 1] \in G
    BY <1>3, <2>1
  <2>. QED BY <1>3, <2>2
<1>. QED BY <1>2, <1>4

----------------------------------------------------------------------------
(* A move of one row's answers to another. *)

Answers(n) == [Kinds -> [Ids -> 0..n]]

OnRows(r, a) == \A k \in Kinds, i \in Ids : a[k][i] # 0 => r[i] # "absent"

(* Each answer of a is somewhere in b.                                     *)
Keeps(a, b) ==
  \A k \in Kinds, i \in Ids : a[k][i] # 0 => \E j \in Ids : b[k][j] = a[k][i]

(* What a row of S bears in a, it bears in b.                              *)
Stands(S, a, b) == \A k \in Kinds, i \in S : a[k][i] # 0 => b[k][i] = a[k][i]

(* The answers of a, carried over to rows r whose live ones keep theirs.   *)
CarriedOver(r, a, n) ==
  {b \in Answers(n) : OnRows(r, b) /\ Keeps(a, b) /\ Stands(Live(r), a, b)}

RowStates == {"absent", "live"} \cup Gone

LEMMA MoveIs ==
  ASSUME NEW n \in Nat, NEW a \in Answers(n), NEW i \in Ids, NEW j \in Ids, i # j
  PROVE  /\ Move(a, i, j) \in Answers(n)
         /\ \A k \in Kinds :
              /\ Move(a, i, j)[k][j] = Taken(a[k][j], a[k][i])
              /\ Move(a, i, j)[k][i] = LeftBehind(a[k][j], a[k][i])
              /\ \A x \in Ids \ {i, j} : Move(a, i, j)[k][x] = a[k][x]
<1>. DEFINE b == Move(a, i, j)
<1>1. \A k \in Kinds : a[k] \in [Ids -> 0..n]
  BY DEF Answers
<1>2. ASSUME NEW k \in Kinds
      PROVE  b[k] = [a[k] EXCEPT ![j] = Taken(a[k][j], a[k][i]),
                                 ![i] = LeftBehind(a[k][j], a[k][i])]
  BY DEF Move
<1>3. \A k \in Kinds : Taken(a[k][j], a[k][i]) \in 0..n
                       /\ LeftBehind(a[k][j], a[k][i]) \in 0..n
  BY <1>1 DEF Taken, LeftBehind
<1>4. b = [k \in Kinds |-> b[k]]
  BY DEF Move
<1>. HIDE DEF b
<1>5. ASSUME NEW k \in Kinds PROVE b[k] \in [Ids -> 0..n]
  <2>. DEFINE f == a[k]
              x == Taken(a[k][j], a[k][i])
              y == LeftBehind(a[k][j], a[k][i])
  <2>1. f \in [Ids -> 0..n] /\ x \in 0..n /\ y \in 0..n
    BY <1>1, <1>3
  <2>2. b[k] = [f EXCEPT ![j] = x, ![i] = y]
    BY <1>2
  <2>. HIDE DEF f, x, y
  <2>. QED BY <2>1, <2>2
<1>6. b \in Answers(n)
  BY <1>4, <1>5 DEF Answers
<1>7. \A k \in Kinds : /\ b[k][j] = Taken(a[k][j], a[k][i])
                       /\ b[k][i] = LeftBehind(a[k][j], a[k][i])
                       /\ \A x \in Ids \ {i, j} : b[k][x] = a[k][x]
  BY <1>1, <1>2
<1>. QED BY <1>6, <1>7 DEF b

(* A move from a row that is gone to a live one carries the answers over.  *)
LEMMA MoveCarries ==
  ASSUME NEW n \in Nat, NEW r, NEW a \in Answers(n), OnRows(r, a),
         NEW i \in Ids, NEW j \in Ids, r[i] \in Gone, r[j] = "live"
  PROVE  Move(a, i, j) \in CarriedOver(r, a, n)
<1>. DEFINE b == Move(a, i, j)
<1>1. i # j
  BY DEF Gone
<1>2. /\ b \in Answers(n)
      /\ \A k \in Kinds : /\ b[k][j] = Taken(a[k][j], a[k][i])
                          /\ b[k][i] = LeftBehind(a[k][j], a[k][i])
                          /\ \A x \in Ids \ {i, j} : b[k][x] = a[k][x]
  BY <1>1, MoveIs
<1>. HIDE DEF b
<1>3. OnRows(r, b)
  BY <1>2 DEF OnRows, Gone
<1>4. Keeps(a, b)
  <2>. SUFFICES ASSUME NEW k \in Kinds, NEW x \in Ids, a[k][x] # 0
                PROVE  \E y \in Ids : b[k][y] = a[k][x]
    BY DEF Keeps
  <2>1. CASE x \notin {i, j}
    BY <1>2, <2>1
  <2>2. CASE x = j
    BY <1>2, <2>2 DEF Taken
  <2>3. CASE x = i
    BY <1>2, <2>3 DEF Taken, LeftBehind
  <2>. QED BY <2>1, <2>2, <2>3
<1>5. Stands(Live(r), a, b)
  BY <1>2 DEF Stands, Live, Taken, Gone
<1>. QED BY <1>2, <1>3, <1>4, <1>5 DEF CarriedOver, b

LEMMA CarriedOn ==
  ASSUME NEW n, NEW r, NEW a, NEW b \in CarriedOver(r, a, n),
         NEW c \in CarriedOver(r, b, n)
  PROVE  c \in CarriedOver(r, a, n)
<1>1. Keeps(a, c)
  BY DEF CarriedOver, Keeps
<1>2. Stands(Live(r), a, c)
  <2>1. Live(r) \subseteq Ids
    BY DEF Live
  <2>. QED BY <2>1 DEF CarriedOver, Stands
<1>. QED BY <1>1, <1>2 DEF CarriedOver

LEMMA CarriedAtAll ==
  ASSUME NEW n, NEW r, NEW a \in Answers(n), OnRows(r, a)
  PROVE  a \in CarriedOver(r, a, n)
BY DEF CarriedOver, Keeps, Stands

(* A re-anchor carries the answers over, however many rows it moves.       *)
LEMMA ReanchorCarries ==
  ASSUME NEW n \in Nat, NEW r, NEW a \in Answers(n), OnRows(r, a),
         NEW order, Len(order) \in Nat, \A m \in 1..Len(order) : order[m] \in Ids
  PROVE  Reanchored(r, a, order) \in CarriedOver(r, a, n)
<1>1. a \in CarriedOver(r, a, n)
  BY CarriedAtAll
<1>2. ASSUME NEW b \in CarriedOver(r, a, n), NEW i \in Ids
      PROVE  ReanchorRow(r, b, i) \in CarriedOver(r, a, n)
  <2>1. CASE ~(i \in Stranded(r, b) /\ Twins(r, i) # {})
    BY <2>1 DEF ReanchorRow
  <2>2. CASE i \in Stranded(r, b) /\ Twins(r, i) # {}
    <3>1. PICK j : j \in Twins(r, i) /\ ReanchorRow(r, b, i) = Move(b, i, j)
      BY <2>2 DEF ReanchorRow
    <3>2. j \in Ids /\ r[j] = "live"
      BY <3>1 DEF Twins, Naming, LookAlikes, Live
    <3>3. r[i] \in Gone
      BY <2>2 DEF Stranded, Gone
    <3>4. Move(b, i, j) \in CarriedOver(r, b, n)
      BY <3>2, <3>3, MoveCarries DEF CarriedOver
    <3>. QED BY <3>1, <3>4, CarriedOn
  <2>. QED BY <2>1, <2>2
<1>. QED BY <1>1, <1>2, ReanchoredStays

----------------------------------------------------------------------------
(* Every step but the person's carries the answers over. *)

Sayings == [about : Charges, kind : Kinds, over : BOOLEAN]

AnswerType ==
  /\ ans \in Answers(Len(said)) /\ OnRows(rows, ans)
  /\ said \in Seq(Sayings)
  /\ overruled \subseteq DOMAIN said

LedgerInv == LInv /\ AnswerType

(* No row of the table is lost, and only holds are retired.                *)
RowsStay ==
  \A i \in Ids : /\ rows[i] # "absent" => rows'[i] # "absent"
                 /\ rows'[i] = "retired" => rows[i] = "retired" \/ i \in Holds

Carried ==
  /\ RowsStay
  /\ UNCHANGED <<said, overruled>>
  /\ ans' \in Answers(Len(said)) /\ OnRows(rows', ans')
  /\ Keeps(ans, ans')
  /\ Stands(Live(rows) \cap Live(rows'), ans, ans')

LEMMA RowsTyped ==
  ASSUME LInv PROVE rows \in [Ids -> RowStates] /\ named \subseteq Charges
BY DEF LInv, PullType, RowStates, LogType

LEMMA NothingWritten ==
  ASSUME LedgerInv, RowsStay, UNCHANGED answervars
  PROVE  Carried
<1>1. UNCHANGED <<ans, said, overruled>>
  BY DEF answervars
<1>2. OnRows(rows', ans')
  BY <1>1 DEF LedgerInv, AnswerType, OnRows, RowsStay
<1>3. Keeps(ans, ans')
  BY <1>1 DEF Keeps
<1>4. Stands(Live(rows) \cap Live(rows'), ans, ans')
  BY <1>1 DEF Stands
<1>. QED BY <1>1, <1>2, <1>3, <1>4 DEF LedgerInv, AnswerType, Carried

LEMMA WrittenStays ==
  ASSUME NEW r \in [Ids -> RowStates], NEW ids, NEW i \in Ids
  PROVE  /\ Written(r, ids)[i] \in RowStates
         /\ r[i] # "absent" \/ i \in ids => Written(r, ids)[i] # "absent"
         /\ Written(r, ids)[i] = "retired" <=> r[i] = "retired"
BY DEF Written, BackOr, RowStates, Gone

(* The rows of a re-anchor, in whatever order.                             *)
LEMMA OrderIs ==
  ASSUME NEW moving \in SUBSET Ids, NEW order \in SetToSeqs(moving)
  PROVE  Len(order) \in Nat /\ \A m \in 1..Len(order) : order[m] \in Ids
<1>1. IsFiniteSet(Ids)
  <2>1. IsFiniteSet(Forms)
    <3>1. IsFiniteSet({"hold"})
      BY FS_Singleton
    <3>2. IsFiniteSet({"hold"} \cup {"post"})
      BY <3>1, FS_AddElement
    <3>3. IsFiniteSet(({"hold"} \cup {"post"}) \cup {"anew"})
      BY <3>2, FS_AddElement
    <3>4. Forms = ({"hold"} \cup {"post"}) \cup {"anew"}
      BY DEF Forms
    <3>. QED BY <3>3, <3>4
  <2>. QED BY ChargesFinite, <2>1, FS_Product DEF Ids
<1>2. Cardinality(moving) \in Nat
  BY <1>1, FS_Subset, FS_CardinalityType
<1>3. order \in [1..Cardinality(moving) -> moving]
  BY DEF SetToSeqs
<1>4. Len(order) = Cardinality(moving)
  BY <1>2, <1>3
<1>. QED BY <1>2, <1>3, <1>4

(* The rows a pull retires, and the re-anchor that follows.                *)
LEMMA RetireRowsCarries ==
  ASSUME LedgerInv, NEW gone \in SUBSET Ids, NEW carried \in BOOLEAN,
         RetireRows(gone, carried), UNCHANGED <<said, overruled>>
  PROVE  Carried
<1>. DEFINE n == Len(said)
            moving == {i \in gone : Carries(ans, i)}
<1>1. n \in Nat /\ ans \in Answers(n) /\ rows \in [Ids -> RowStates]
  BY RowsTyped DEF LedgerInv, AnswerType
<1>2. rows' = [i \in Ids |-> IF i \in gone /\ rows[i] = "live" THEN "removed"
                             ELSE rows[i]]
  BY DEF RetireRows
<1>3. RowsStay /\ OnRows(rows', ans) /\ Live(rows') \subseteq Live(rows)
  BY <1>1, <1>2 DEF RowsStay, OnRows, LedgerInv, AnswerType, Live, RowStates, Gone
<1>4. PICK order \in SetToSeqs(moving) :
        ans' = IF carried THEN Reanchored(rows', ans, order) ELSE ans
  BY <1>2 DEF RetireRows
<1>5. Len(order) \in Nat /\ \A m \in 1..Len(order) : order[m] \in Ids
  BY <1>4, OrderIs
<1>6. ans' \in CarriedOver(rows', ans, n)
  <2>1. CASE carried
    BY <1>1, <1>3, <1>4, <1>5, <2>1, ReanchorCarries
  <2>2. CASE ~carried
    BY <1>1, <1>3, <1>4, <2>2, CarriedAtAll
  <2>. QED BY <2>1, <2>2
<1>7. Stands(Live(rows) \cap Live(rows'), ans, ans')
  BY <1>6 DEF CarriedOver, Stands
<1>. QED BY <1>3, <1>6, <1>7 DEF CarriedOver, Carried

LEMMA RowForms ==
  ASSUME NEW c \in Charges
  PROVE  /\ HoldOf(c) \in Holds /\ HoldOf(c) \in Ids /\ HoldOf(c)[1] = c
         /\ PostOf(c) \in Ids /\ PostOf(c) \notin Holds /\ PostOf(c)[1] = c
BY DEF HoldOf, PostOf, Holds, Ids, Forms

(* A settlement, kind by kind: a row shows what it showed, or its hold's;  *)
(* what a row showed it shows still, or its posted row does.               *)
Follow(f, g, cs) ==
  \A i \in Ids :
    /\ \/ g[i] \in {0, f[i]}
       \/ \E c \in cs : i = PostOf(c) /\ g[i] = f[HoldOf(c)]
    /\ f[i] # 0 => \/ g[i] = f[i]
                   \/ \E c \in cs : i = HoldOf(c) /\ g[PostOf(c)] = f[i]

LEMMA PinsFollow ==
  ASSUME NEW n \in Nat, NEW f \in [Ids -> 0..n], NEW cs \in SUBSET Charges
  PROVE  PinsCopied(f, cs) \in [Ids -> 0..n] /\ Follow(f, PinsCopied(f, cs), cs)
<1>. DEFINE g == PinsCopied(f, cs)
<1>1. ASSUME NEW i \in Ids
      PROVE  /\ HoldOf(i[1]) \in Ids
             /\ g[i] = IF i \in {PostOf(c) : c \in cs}
                       THEN Taken(f[i], f[HoldOf(i[1])]) ELSE f[i]
  BY RowForms DEF PinsCopied, Ids
<1>2. g \in [Ids -> 0..n]
  BY <1>1 DEF PinsCopied, Taken
<1>. HIDE DEF g
<1>3. ASSUME NEW i \in Ids
      PROVE  \/ g[i] \in {0, f[i]}
             \/ \E c \in cs : i = PostOf(c) /\ g[i] = f[HoldOf(c)]
  BY <1>1, RowForms DEF Taken
<1>4. ASSUME NEW i \in Ids, f[i] # 0 PROVE g[i] = f[i]
  BY <1>1, <1>4 DEF Taken
<1>. QED BY <1>2, <1>3, <1>4 DEF Follow, g

LEMMA ChildrenFollow ==
  ASSUME NEW n \in Nat, NEW f \in [Ids -> 0..n], NEW cs \in SUBSET Charges
  PROVE  ChildrenMoved(f, cs) \in [Ids -> 0..n] /\ Follow(f, ChildrenMoved(f, cs), cs)
<1>. DEFINE g == ChildrenMoved(f, cs)
            free == {c \in cs : f[PostOf(c)] = 0}
<1>1. ASSUME NEW i \in Ids
      PROVE  /\ HoldOf(i[1]) \in Ids
             /\ g[i] = IF i \in {PostOf(c) : c \in free} THEN f[HoldOf(i[1])]
                       ELSE IF i \in {HoldOf(c) : c \in free} THEN 0 ELSE f[i]
  <2>1. ~(i \in {PostOf(c) : c \in free} /\ i \in {HoldOf(c) : c \in free})
    BY RowForms
  <2>. QED BY <2>1, RowForms DEF ChildrenMoved, Ids
<1>2. g \in [Ids -> 0..n]
  BY <1>1 DEF ChildrenMoved
<1>. HIDE DEF g
<1>3. ASSUME NEW i \in Ids
      PROVE  \/ g[i] \in {0, f[i]}
             \/ \E c \in cs : i = PostOf(c) /\ g[i] = f[HoldOf(c)]
  BY <1>1, RowForms
<1>4. ASSUME NEW i \in Ids, f[i] # 0
      PROVE  \/ g[i] = f[i]
             \/ \E c \in cs : i = HoldOf(c) /\ g[PostOf(c)] = f[i]
  <2>1. i \notin {PostOf(c) : c \in free}
    BY <1>4
  <2>2. ASSUME NEW c \in free, i = HoldOf(c) PROVE g[PostOf(c)] = f[i]
    BY <1>1, <2>2, RowForms
  <2>. QED BY <1>1, <2>1, <2>2
<1>. QED BY <1>2, <1>3, <1>4 DEF Follow, g

LEMMA AllFollow ==
  ASSUME LedgerInv, NEW cs \in SUBSET Charges, NEW carried
  PROVE  /\ SettledAnswers(cs, carried) \in Answers(Len(said))
         /\ \A k \in Kinds : Follow(ans[k], SettledAnswers(cs, carried)[k], cs)
<1>. DEFINE b == SettledAnswers(cs, carried)
            n == Len(said)
<1>1. n \in Nat /\ \A k \in Kinds : ans[k] \in [Ids -> 0..n]
  BY DEF LedgerInv, AnswerType, Answers
<1>2. ASSUME NEW k \in Kinds PROVE b[k] \in [Ids -> 0..n] /\ Follow(ans[k], b[k], cs)
  <2>. DEFINE f == ans[k]
  <2>1. \/ b[k] = PinsCopied(f, cs) \/ b[k] = ChildrenMoved(f, cs) \/ b[k] = f
    BY DEF SettledAnswers
  <2>2. Follow(f, f, cs)
    BY DEF Follow
  <2>3. n \in Nat /\ f \in [Ids -> 0..n]
    BY <1>1
  <2>. HIDE DEF f, b, n
  <2>4. b[k] \in [Ids -> 0..n] /\ Follow(f, b[k], cs)
    BY <2>1, <2>2, <2>3, PinsFollow, ChildrenFollow
  <2>. QED BY <2>4 DEF f
<1>3. b = [k \in Kinds |-> b[k]]
  BY DEF SettledAnswers
<1>. HIDE DEF b
<1>4. b \in Answers(n)
  BY <1>2, <1>3 DEF Answers
<1>. QED BY <1>2, <1>4 DEF b

(* A page of posted rows and the holds they settle.                        *)
LEMMA SettledCarries ==
  ASSUME LedgerInv, NEW ids, NEW cs \in SUBSET Charges, NEW carried,
         \A c \in cs : PostOf(c) \in ids,
         rows' = Settled(Written(rows, ids), cs), ans' = SettledAnswers(cs, carried),
         UNCHANGED <<said, overruled>>
  PROVE  Carried
<1>. DEFINE wrote == Written(rows, ids)
<1>1. rows \in [Ids -> RowStates]
  BY RowsTyped DEF LedgerInv
<1>2. \A i \in Ids : /\ wrote[i] # "absent" => rows'[i] # "absent"
                     /\ rows'[i] = "retired" => wrote[i] = "retired"
                     /\ i \in {HoldOf(c) : c \in cs} => rows'[i] # "live"
  BY DEF Settled
<1>3. RowsStay
  BY <1>1, <1>2, WrittenStays DEF RowsStay
<1>4. \A c \in cs : PostOf(c) \in Ids /\ rows'[PostOf(c)] # "absent"
  BY <1>1, <1>2, WrittenStays, RowForms
<1>5. ans' \in Answers(Len(said)) /\ \A k \in Kinds : Follow(ans[k], ans'[k], cs)
  BY AllFollow
<1>6. OnRows(rows', ans')
  <2>. SUFFICES ASSUME NEW k \in Kinds, NEW i \in Ids, ans'[k][i] # 0
                PROVE  rows'[i] # "absent"
    BY DEF OnRows
  <2>1. ans'[k][i] = ans[k][i] \/ \E c \in cs : i = PostOf(c)
    BY <1>5 DEF Follow
  <2>. QED BY <1>3, <1>4, <2>1 DEF RowsStay, LedgerInv, AnswerType, OnRows
<1>7. Keeps(ans, ans')
  BY <1>4, <1>5 DEF Keeps, Follow
<1>8. Stands(Live(rows) \cap Live(rows'), ans, ans')
  BY <1>2, <1>5 DEF Stands, Live, Follow
<1>. QED BY <1>3, <1>5, <1>6, <1>7, <1>8 DEF Carried

LEMMA WritePageCarries ==
  ASSUME LedgerInv, NEW to \in 1..Len(log), NEW carried, WritePage(to, carried)
  PROVE  Carried
<1>. DEFINE adds == Says("add", pull.at, to)
            cs == Settling(Written(rows, adds), adds)
<1>1. /\ rows' = Settled(Written(rows, adds), cs)
      /\ ans' = SettledAnswers(cs, carried)
      /\ UNCHANGED <<said, overruled>>
  BY DEF WritePage
<1>2. cs \subseteq Charges /\ \A c \in cs : PostOf(c) \in adds
  BY RowsTyped DEF Settling, LedgerInv
<1>. HIDE DEF adds, cs
<1>. QED BY <1>1, <1>2, SettledCarries

(* Rows the feed re-reports, written with no settlement.                   *)
LEMMA WrittenCarries ==
  ASSUME LedgerInv, NEW ids, rows' = Written(rows, ids), UNCHANGED answervars
  PROVE  Carried
<1>1. RowsStay
  BY RowsTyped, WrittenStays DEF RowsStay, LedgerInv
<1>. QED BY <1>1, NothingWritten

LEMMA SweepCarriesOver ==
  ASSUME LedgerInv, NEW i \in Ids, NEW j \in Ids, NEW carried \in BOOLEAN,
         SweepCarries(i, j, carried)
  PROVE  Carried
<1>1. /\ ans' = IF carried /\ StillApart(i, j) THEN Move(ans, i, j) ELSE ans
      /\ UNCHANGED <<rows, said, overruled>>
  BY DEF SweepCarries
<1>2. Len(said) \in Nat /\ ans \in Answers(Len(said)) /\ OnRows(rows, ans)
  BY DEF LedgerInv, AnswerType
<1>3. ans' \in CarriedOver(rows, ans, Len(said))
  <2>1. CASE carried /\ StillApart(i, j)
    BY <1>1, <1>2, <2>1, MoveCarries DEF StillApart
  <2>2. CASE ~(carried /\ StillApart(i, j))
    BY <1>1, <1>2, <2>2, CarriedAtAll
  <2>. QED BY <2>1, <2>2
<1>4. RowsStay
  BY <1>1 DEF RowsStay
<1>5. Stands(Live(rows) \cap Live(rows'), ans, ans')
  BY <1>3 DEF CarriedOver, Stands
<1>6. OnRows(rows', ans')
  BY <1>1, <1>3 DEF CarriedOver
<1>. QED BY <1>1, <1>3, <1>4, <1>5, <1>6 DEF CarriedOver, Carried

LEMMA PullCarries == ASSUME LedgerInv, PullStep PROVE Carried
<1>1. CASE \E to \in 1..Len(log), carried \in SUBSET Children : WritePage(to, carried)
  BY <1>1, WritePageCarries
<1>2. CASE \E carried \in BOOLEAN : MarkRemoved(carried)
  <2>1. PICK carried \in BOOLEAN : MarkRemoved(carried)
    BY <1>2
  <2>2. RetireRows(pull.saw, carried) /\ UNCHANGED <<said, overruled>>
    BY <2>1 DEF MarkRemoved
  <2>3. pull.saw \subseteq Ids
    BY DEF LedgerInv, LInv, PullType
  <2>. QED BY <2>2, <2>3, RetireRowsCarries
<1>3. CASE SaveCursor
  BY <1>3, NothingWritten DEF SaveCursor, RowsStay
<1>4. CASE WriteWindow
  BY <1>4, WrittenCarries DEF WriteWindow
<1>5. CASE \E carried \in BOOLEAN : ReconcileVanished(carried)
  <2>1. PICK carried \in BOOLEAN : ReconcileVanished(carried)
    BY <1>5
  <2>2. RetireRows(Vanished, carried) /\ UNCHANGED <<said, overruled>>
    BY <2>1 DEF ReconcileVanished
  <2>3. Vanished \subseteq Ids
    BY DEF Vanished, Holds
  <2>. QED BY <2>2, <2>3, RetireRowsCarries
<1>. QED BY <1>1, <1>2, <1>3, <1>4, <1>5 DEF PullStep

LEMMA RetirePendingCarries ==
  ASSUME LedgerInv, NEW i \in Ids, RetirePending(i) PROVE Carried
<1>1. RowsStay
  BY RowsTyped DEF RowsStay, RetirePending, LedgerInv
<1>. QED BY <1>1, NothingWritten DEF RetirePending

(* What a pass drops: the splits that do not add up to their rows.         *)
LEMMA DropIs ==
  ASSUME LedgerInv, drop_stale
  PROVE  /\ UNCHANGED <<rows, said, overruled, sweep, tipped>>
         /\ AnswerType'
         /\ \A k \in Kinds, i \in Ids :
              ans'[k][i] = IF k = "split" /\ i \in StillStale THEN 0 ELSE ans[k][i]
<1>1. /\ ans' = [ans EXCEPT !["split"] =
                   [i \in Ids |-> IF i \in StillStale THEN 0 ELSE ans["split"][i]]]
      /\ UNCHANGED <<rows, said, overruled, sweep, tipped>>
  BY DEF drop_stale, bankvars
<1>2. Len(said) \in Nat /\ ans \in Answers(Len(said)) /\ "split" \in Kinds
  BY DEF LedgerInv, AnswerType, Kinds, Children
<1>. DEFINE f == [i \in Ids |-> IF i \in StillStale THEN 0 ELSE ans["split"][i]]
<1>3. f \in [Ids -> 0..Len(said)]
  BY <1>2 DEF Answers
<1>4. \A k \in Kinds, i \in Ids :
        ans'[k][i] = IF k = "split" /\ i \in StillStale THEN 0 ELSE ans[k][i]
  BY <1>1, <1>2 DEF Answers
<1>5. ans' \in Answers(Len(said))
  <2>. HIDE DEF f
  <2>1. ans' = [ans EXCEPT !["split"] = f]
    BY <1>1 DEF f
  <2>. QED BY <1>2, <1>3, <2>1 DEF Answers
<1>6. OnRows(rows', ans')
  BY <1>1, <1>4 DEF LedgerInv, AnswerType, OnRows
<1>. QED BY <1>1, <1>4, <1>5, <1>6 DEF LedgerInv, AnswerType

(* Every step but the person's own and a drop carries the answers over.    *)
LEMMA StepCarries ==
  ASSUME LedgerInv, [Next]_ledgervars
  PROVE  Carried \/ drop_stale \/ \E k \in Kinds, i \in Ids : Answer(k, i)
<1>1. CASE BankStep
  <2>1. UNCHANGED <<rows, answervars>>
    BY <1>1 DEF BankStep, Authorize, Posts, Post, Renumbers, Renumber, Withdraw,
                ReportAgain, Others
  <2>. QED BY <2>1, NothingWritten DEF RowsStay
<1>2. CASE PullStep
  BY <1>2, PullCarries
<1>3. CASE PersonStep
  BY <1>3, RetirePendingCarries DEF PersonStep
<1>4. CASE SweepStep
  <2>1. CASE \E i, j \in Ids, carried \in BOOLEAN : SweepCarries(i, j, carried)
    BY <2>1, SweepCarriesOver
  <2>2. CASE \E i \in Stranded(rows, ans) : \E j \in Twins(rows, i) : SweepFinds(i, j)
    BY <2>2, NothingWritten DEF SweepFinds, RowsStay
  <2>. QED BY <1>4, <2>1, <2>2 DEF SweepStep
<1>5. CASE Trouble
  <2>1. CASE PullDies
    BY <2>1, NothingWritten DEF PullDies, RowsStay
  <2>2. CASE \E to \in 1..Len(log) :
               \E some \in SUBSET Says("add", pull.at, to) : TornPage(to, some)
    BY <2>2, WrittenCarries DEF TornPage
  <2>3. CASE \E some \in SUBSET AtBank : TornWindow(some)
    BY <2>3, WrittenCarries DEF TornWindow
  <2>. QED BY <1>5, <2>1, <2>2, <2>3 DEF Trouble
<1>6. CASE SplitStep
  BY <1>6, NothingWritten DEF SplitStep, ListStale, RowsStay
<1>7. CASE UNCHANGED ledgervars
  BY <1>7, NothingWritten DEF ledgervars, RowsStay
<1>. QED BY <1>1, <1>2, <1>3, <1>4, <1>5, <1>6, <1>7 DEF Next

----------------------------------------------------------------------------
(* The person's own step. *)

LEMMA TwinsLive ==
  ASSUME NEW r, NEW i, NEW j \in Twins(r, i) PROVE j \in Ids /\ r[j] = "live"
BY DEF Twins, Naming, LookAlikes, Live

LEMMA AppendIs ==
  ASSUME NEW S, NEW s \in Seq(S), NEW e
  PROVE  /\ Len(s) \in Nat /\ Len(Append(s, e)) = Len(s) + 1
         /\ DOMAIN s = 1..Len(s) /\ DOMAIN Append(s, e) = 1..(Len(s) + 1)
         /\ Append(s, e)[Len(s) + 1] = e
         /\ \A n \in 1..Len(s) : Append(s, e)[n] = s[n]
OBVIOUS

LEMMA AnswerIs ==
  ASSUME LedgerInv, NEW k \in Kinds, NEW i \in Ids, Answer(k, i)
  PROVE  \E j \in Ids :
           /\ rows[j] = "live" /\ UNCHANGED rows
           /\ said' = Append(said, [about |-> j[1], kind |-> k, over |-> OtherPrice(j)])
           /\ overruled' = overruled \cup ({ans[k][j]} \ {0})
           /\ \A h \in Kinds, x \in Ids :
                ans'[h][x] = IF h = k /\ x = j THEN Len(said) + 1 ELSE ans[h][x]
           /\ ans' \in Answers(Len(said) + 1)
<1>1. PICK j \in EditRow(i) :
        /\ said' = Append(said, [about |-> j[1], kind |-> k, over |-> OtherPrice(j)])
        /\ ans' = [ans EXCEPT ![k][j] = Len(said) + 1]
        /\ overruled' = overruled \cup ({ans[k][j]} \ {0})
  BY DEF Answer
<1>2. j \in Ids /\ rows[j] = "live"
  BY DEF EditRow, Naming, Live
<1>3. UNCHANGED rows
  BY DEF Answer
<1>4. Len(said) \in Nat /\ ans \in Answers(Len(said))
  BY DEF LedgerInv, AnswerType
<1>5. \A h \in Kinds : ans[h] \in [Ids -> 0..Len(said)]
  BY <1>4 DEF Answers
<1>6. \A h \in Kinds, x \in Ids :
        ans'[h][x] = IF h = k /\ x = j THEN Len(said) + 1 ELSE ans[h][x]
  BY <1>1, <1>2, <1>4, <1>5 DEF Answers
<1>7. ans' \in Answers(Len(said) + 1)
  <2>1. ans' = [ans EXCEPT ![k] = [ans[k] EXCEPT ![j] = Len(said) + 1]]
    BY <1>1
  <2>. DEFINE f == [ans[k] EXCEPT ![j] = Len(said) + 1]
  <2>2. f \in [Ids -> 0..(Len(said) + 1)]
    BY <1>2, <1>4, <1>5
  <2>3. ans \in [Kinds -> [Ids -> 0..(Len(said) + 1)]]
    <3>1. \A h \in Kinds : ans[h] \in [Ids -> 0..(Len(said) + 1)]
      BY <1>4, <1>5
    <3>2. ans = [h \in Kinds |-> ans[h]]
      BY <1>4 DEF Answers
    <3>. QED BY <3>1, <3>2
  <2>. HIDE DEF f
  <2>4. ans' = [ans EXCEPT ![k] = f]
    BY <2>1 DEF f
  <2>. QED BY <2>2, <2>3, <2>4 DEF Answers
<1>. QED BY <1>1, <1>2, <1>3, <1>6, <1>7

LEMMA AnswerKeepsType ==
  ASSUME LedgerInv, NEW k \in Kinds, NEW i \in Ids, Answer(k, i)
  PROVE  AnswerType'
<1>1. PICK j \in Ids :
        /\ rows[j] = "live" /\ UNCHANGED rows
        /\ said' = Append(said, [about |-> j[1], kind |-> k, over |-> OtherPrice(j)])
        /\ overruled' = overruled \cup ({ans[k][j]} \ {0})
        /\ \A h \in Kinds, x \in Ids :
             ans'[h][x] = IF h = k /\ x = j THEN Len(said) + 1 ELSE ans[h][x]
        /\ ans' \in Answers(Len(said) + 1)
  BY AnswerIs
<1>2. /\ said \in Seq(Sayings) /\ Len(said) \in Nat
      /\ DOMAIN said = 1..Len(said)
  BY DEF LedgerInv, AnswerType
<1>3. /\ said' \in Seq(Sayings) /\ Len(said') = Len(said) + 1
      /\ DOMAIN said' = 1..(Len(said) + 1)
  <2>1. [about |-> j[1], kind |-> k, over |-> OtherPrice(j)] \in Sayings
    BY DEF Ids, Sayings, OtherPrice
  <2>. HIDE DEF Sayings
  <2>2. Append(said, [about |-> j[1], kind |-> k, over |-> OtherPrice(j)])
          \in Seq(Sayings)
    BY <1>2, <2>1
  <2>. QED BY <1>1, <1>2, <2>2, AppendIs
<1>4. OnRows(rows', ans')
  BY <1>1 DEF LedgerInv, AnswerType, OnRows
<1>5. ans[k][j] \in 0..Len(said)
  BY DEF LedgerInv, AnswerType, Answers
<1>6. overruled' \subseteq DOMAIN said'
  BY <1>1, <1>2, <1>3, <1>5 DEF LedgerInv, AnswerType
<1>. QED BY <1>1, <1>3, <1>4, <1>6 DEF AnswerType

LEMMA SaidIs ==
  ASSUME LedgerInv, NEW n \in DOMAIN said
  PROVE  n # 0 /\ said[n].kind \in Kinds
<1>1. said \in Seq(Sayings)
  BY DEF LedgerInv, AnswerType
<1>2. n \in 1..Len(said) /\ Len(said) \in Nat /\ said[n] \in Sayings
  BY <1>1
<1>. QED BY <1>2 DEF Sayings

LEMMA InitLedgerInv == Init => LedgerInv
<1>. SUFFICES ASSUME Init PROVE LedgerInv
  OBVIOUS
<1>1. ans = [k \in Kinds |-> [i \in Ids |-> 0]] /\ said = <<>> /\ overruled = {}
  BY DEF Init
<1>2. AnswerType
  BY <1>1 DEF AnswerType, Answers, OnRows
<1>. QED BY <1>2, InitLInv DEF LedgerInv

LEMMA NextLedgerInv == LedgerInv /\ [Next]_ledgervars => LedgerInv'
<1>. SUFFICES ASSUME LedgerInv, [Next]_ledgervars PROVE LedgerInv'
  OBVIOUS
<1>1. LInv'
  BY NextLInv DEF LedgerInv
<1>2. CASE Carried
  BY <1>1, <1>2 DEF Carried, LedgerInv, AnswerType
<1>3. CASE \E k \in Kinds, i \in Ids : Answer(k, i)
  BY <1>1, <1>3, AnswerKeepsType DEF LedgerInv
<1>4. CASE drop_stale
  BY <1>1, <1>4, DropIs DEF LedgerInv
<1>. QED BY <1>2, <1>3, <1>4, StepCarries

----------------------------------------------------------------------------
(* Where a split lies.  A row was written once its charge had posted, so   *)
(* the price of a row that is there never changes; a split written on a    *)
(* row of the new price stays on such rows of its charge, and one written  *)
(* on a row of the old price gets onto rows of its charge and of those     *)
(* that pass for it.                                                       *)

Came == \A i \in Ids : rows[i] # "absent" /\ i \notin Holds
                         => stage[i[1]] \in Past("hold")

Lies(n, i) ==
  IF said[n].over THEN i[1] = said[n].about /\ OtherPrice(i)
  ELSE i[1] = said[n].about \/ {i[1], said[n].about} \subseteq Alike

Lying(a) == \A i \in Ids : a["split"][i] # 0 => Lies(a["split"][i], i)

(* Rows between which the code moves a split.                              *)
Near(i, j) ==
  IF i[1] = j[1] THEN OtherPrice(i) => OtherPrice(j)
  ELSE {i[1], j[1]} \subseteq Alike /\ ~OtherPrice(i)

SweepNear ==
  sweep # <<>> => /\ Near(sweep[1], sweep[2])
                  /\ \A m \in {1, 2} : sweep[m] \in Ids /\ rows[sweep[m]] # "absent"

SplitInv == LedgerInv /\ Came /\ Lying(ans) /\ SweepNear

LEMMA LiesOn ==
  ASSUME NEW n, NEW i, NEW j, Lies(n, i), Near(i, j) PROVE Lies(n, j)
BY DEF Lies, Near

LEMMA TwinsNear ==
  ASSUME NEW r, NEW i, NEW j \in Twins(r, i) PROVE Near(i, j)
<1>1. CASE j \in Naming(r, i)
  BY <1>1 DEF Naming, HoldOf, PostOf, Near, OtherPrice
<1>2. CASE j \in LookAlikes(r, i)
  BY <1>2 DEF LookAlikes, Resembles, Near
<1>. QED BY <1>1, <1>2 DEF Twins

LEMMA MoveLies ==
  ASSUME NEW n \in Nat, NEW a \in Answers(n), Lying(a),
         NEW i \in Ids, NEW j \in Ids, i # j, Near(i, j)
  PROVE  Lying(Move(a, i, j))
<1>. DEFINE b == Move(a, i, j)
<1>1. /\ b["split"][j] = Taken(a["split"][j], a["split"][i])
      /\ b["split"][i] = LeftBehind(a["split"][j], a["split"][i])
      /\ \A x \in Ids \ {i, j} : b["split"][x] = a["split"][x]
  BY MoveIs DEF Kinds, Children
<1>. HIDE DEF b
<1>2. ASSUME NEW x \in Ids, b["split"][x] # 0 PROVE Lies(b["split"][x], x)
  <2>1. CASE x \notin {i, j}
    BY <1>1, <1>2, <2>1 DEF Lying
  <2>2. CASE x = i
    BY <1>1, <1>2, <2>2 DEF Lying, LeftBehind
  <2>3. CASE x = j
    <3>1. CASE b["split"][j] = a["split"][j]
      BY <1>2, <2>3, <3>1 DEF Lying
    <3>2. CASE b["split"][j] = a["split"][i]
      <4>1. Lies(a["split"][i], i)
        BY <1>2, <2>3, <3>2 DEF Lying
      <4>. QED BY <2>3, <3>2, <4>1, LiesOn
    <3>. QED BY <1>1, <3>1, <3>2 DEF Taken
  <2>. QED BY <2>1, <2>2, <2>3
<1>. QED BY <1>2 DEF Lying, b

LEMMA ReanchorLies ==
  ASSUME NEW n \in Nat, NEW r, NEW a \in Answers(n), Lying(a),
         NEW order, Len(order) \in Nat, \A m \in 1..Len(order) : order[m] \in Ids
  PROVE  Lying(Reanchored(r, a, order))
<1>. DEFINE G == {b \in Answers(n) : Lying(b)}
<1>1. ASSUME NEW b \in G, NEW i \in Ids PROVE ReanchorRow(r, b, i) \in G
  <2>1. CASE ~(i \in Stranded(r, b) /\ Twins(r, i) # {})
    BY <2>1 DEF ReanchorRow
  <2>2. CASE i \in Stranded(r, b) /\ Twins(r, i) # {}
    <3>1. PICK j : j \in Twins(r, i) /\ ReanchorRow(r, b, i) = Move(b, i, j)
      BY <2>2 DEF ReanchorRow
    <3>2. j \in Ids /\ i # j
      BY <2>2, <3>1, TwinsLive DEF Stranded
    <3>3. Near(i, j)
      BY <3>1, TwinsNear
    <3>. QED BY <1>1, <3>1, <3>2, <3>3, MoveIs, MoveLies
  <2>. QED BY <2>1, <2>2
<1>2. a \in G
  OBVIOUS
<1>. HIDE DEF G
<1>3. Reanchored(r, a, order) \in G
  BY <1>1, <1>2, ReanchoredStays
<1>. QED BY <1>3 DEF G

(* What a settlement leaves where, and what it writes.                     *)
LEMMA SettledLies ==
  ASSUME SplitInv, NEW cs \in SUBSET Charges, NEW carried
  PROVE  Lying(SettledAnswers(cs, carried))
<1>. DEFINE b == SettledAnswers(cs, carried)
<1>1. Follow(ans["split"], b["split"], cs)
  BY AllFollow DEF SplitInv, Kinds, Children
<1>. HIDE DEF b
<1>2. ASSUME NEW i \in Ids, b["split"][i] # 0 PROVE Lies(b["split"][i], i)
  <2>1. CASE b["split"][i] = ans["split"][i]
    BY <1>2, <2>1 DEF SplitInv, Lying
  <2>2. CASE \E c \in cs : i = PostOf(c) /\ b["split"][i] = ans["split"][HoldOf(c)]
    <3>1. PICK c \in cs : i = PostOf(c) /\ b["split"][i] = ans["split"][HoldOf(c)]
      BY <2>2
    <3>2. Near(HoldOf(c), PostOf(c))
      BY DEF Near, HoldOf, PostOf, OtherPrice
    <3>3. Lies(ans["split"][HoldOf(c)], HoldOf(c))
      BY <1>2, <3>1, RowForms DEF SplitInv, Lying
    <3>. QED BY <3>1, <3>2, <3>3, LiesOn
  <2>. QED BY <1>1, <1>2, <2>1, <2>2 DEF Follow
<1>. QED BY <1>2 DEF Lying, b

(* A row that is there was written by a page of what the feed reported.    *)
LEMMA WrittenCame ==
  ASSUME LInv, Came, NEW ids, UNCHANGED stage,
         \A i \in ids : i \in Ids /\ (i \notin Holds => stage[i[1]] \in Past("hold")),
         \A i \in Ids : rows'[i] # "absent" => rows[i] # "absent" \/ i \in ids
  PROVE  Came'
BY DEF Came

LEMMA SaysCame ==
  ASSUME LInv, NEW a \in Nat, NEW b \in Nat, b <= Len(log)
  PROVE  \A i \in Says("add", a, b) :
           i \in Ids /\ (i \notin Holds => stage[i[1]] \in Past("hold"))
<1>. SUFFICES ASSUME NEW i \in Says("add", a, b)
              PROVE  i \in Ids /\ (i \notin Holds => stage[i[1]] \in Past("hold"))
  OBVIOUS
<1>1. LogOK(log, stage) /\ log \in Seq(Entries)
  BY DEF LInv, LogType, LogOK
<1>2. i \in In(log, "add", a, b)
  BY SaysIn
<1>3. i \in Ids
  BY <1>1, <1>2, InIds
<1>4. PICK n \in 1..Len(log) : IsEntry(log, n, "add", i)
  BY <1>1, <1>2, InIs
<1>5. PICK c \in Charges, f \in Forms : i = <<c, f>>
  BY <1>3 DEF Ids
<1>6. stage[c] = f \/ stage[c] \in Past(f)
  BY <1>1, <1>4, <1>5 DEF LogOK
<1>7. i \notin Holds => f # "hold"
  BY <1>3, <1>5 DEF Holds
<1>. QED BY <1>3, <1>5, <1>6, <1>7 DEF Past, Forms

LEMMA AtBankCame ==
  \A i \in AtBank : i \in Ids /\ (i \notin Holds => stage[i[1]] \in Past("hold"))
BY DEF AtBank, Ids, Holds, Past, Forms

(* No row is there before its charge has posted.                           *)
LEMMA NextCame ==
  ASSUME LedgerInv, Came, [Next]_ledgervars PROVE Came'
<1>1. /\ rows \in [Ids -> RowStates] /\ pull.at \in Nat /\ cursor \in Nat
      /\ Len(log) \in Nat /\ LInv
  BY RowsTyped, ReachType DEF LedgerInv, LInv, PullType
<1>2. CASE BankStep
  <2>1. UNCHANGED rows
    BY <1>2 DEF BankStep, Authorize, Posts, Post, Renumbers, Renumber, Withdraw,
                ReportAgain, Others
  <2>2. stage \in [Charges -> Stages]
    BY DEF LedgerInv, LInv, LogType, LogOK
  <2>3. ASSUME NEW c \in Charges PROVE stage[c] \in Past("hold") => stage'[c] \in Past("hold")
    BY <1>2, <2>2 DEF BankStep, Authorize, Posts, Post, Renumbers, Renumber, Withdraw,
                      ReportAgain, Past, Forms, Stages
  <2>. QED BY <2>1, <2>3 DEF Came, Ids
<1>3. CASE UNCHANGED <<rows, stage>>
  BY <1>3 DEF Came
<1>4. ASSUME NEW to \in 1..Len(log), NEW carried, WritePage(to, carried) PROVE Came'
  <2>. DEFINE adds == Says("add", pull.at, to)
              cs == Settling(Written(rows, adds), adds)
  <2>1. rows' = Settled(Written(rows, adds), cs) /\ UNCHANGED stage
    BY <1>4 DEF WritePage, bankvars
  <2>2. \A i \in Ids : rows'[i] # "absent" => rows[i] # "absent" \/ i \in adds
    BY <2>1 DEF Settled, Written
  <2>3. \A i \in adds : i \in Ids /\ (i \notin Holds => stage[i[1]] \in Past("hold"))
    BY <1>1, SaysCame
  <2>. HIDE DEF adds, cs
  <2>. QED BY <1>1, <2>1, <2>2, <2>3, WrittenCame
<1>5. ASSUME NEW gone, NEW carried, RetireRows(gone, carried), UNCHANGED stage PROVE Came'
  <2>1. \A i \in Ids : rows'[i] # "absent" => rows[i] # "absent"
    BY <1>5 DEF RetireRows
  <2>. QED BY <1>5, <2>1 DEF Came
<1>6. ASSUME NEW ids, rows' = Written(rows, ids), UNCHANGED stage,
             \A i \in ids : i \in Ids /\ (i \notin Holds => stage[i[1]] \in Past("hold"))
      PROVE  Came'
  <2>1. \A i \in Ids : rows'[i] # "absent" => rows[i] # "absent" \/ i \in ids
    BY <1>6 DEF Written
  <2>. QED BY <1>1, <1>6, <2>1, WrittenCame
<1>7. CASE PullStep
  <2>1. CASE \E carried \in BOOLEAN : MarkRemoved(carried)
    BY <1>5, <2>1 DEF MarkRemoved, bankvars
  <2>2. CASE \E carried \in BOOLEAN : ReconcileVanished(carried)
    BY <1>5, <2>2 DEF ReconcileVanished, bankvars
  <2>3. CASE WriteWindow
    BY <1>6, <2>3, AtBankCame DEF WriteWindow, bankvars
  <2>4. CASE SaveCursor
    BY <1>3, <2>4 DEF SaveCursor, bankvars
  <2>. QED BY <1>4, <1>7, <2>1, <2>2, <2>3, <2>4 DEF PullStep
<1>8. CASE PersonStep
  <2>1. UNCHANGED stage /\ \A i \in Ids : rows'[i] # "absent" => rows[i] # "absent"
    BY <1>1, <1>8 DEF PersonStep, Answer, RetirePending, bankvars
  <2>. QED BY <2>1 DEF Came
<1>9. CASE SweepStep \/ SplitStep
  BY <1>3, <1>9 DEF SweepStep, SweepFinds, SweepCarries, SplitStep, ListStale,
                    drop_stale, bankvars
<1>10. CASE Trouble
  <2>1. CASE PullDies
    BY <1>3, <2>1 DEF PullDies, bankvars
  <2>2. CASE \E to \in 1..Len(log) :
               \E some \in SUBSET Says("add", pull.at, to) : TornPage(to, some)
    <3>1. PICK to \in 1..Len(log) :
            \E some \in SUBSET Says("add", pull.at, to) : TornPage(to, some)
      BY <2>2
    <3>2. \A i \in Says("add", pull.at, to) :
            i \in Ids /\ (i \notin Holds => stage[i[1]] \in Past("hold"))
      BY <1>1, SaysCame
    <3>. QED BY <1>6, <3>1, <3>2 DEF TornPage, bankvars
  <2>3. CASE \E some \in SUBSET AtBank : TornWindow(some)
    BY <1>6, <2>3, AtBankCame DEF TornWindow, bankvars
  <2>. QED BY <1>10, <2>1, <2>2, <2>3 DEF Trouble
<1>. QED BY <1>2, <1>3, <1>7, <1>8, <1>9, <1>10 DEF Next, ledgervars, bankvars

(* The price of a row that is there stands.                                *)
LEMMA PriceStands ==
  ASSUME LedgerInv, Came, [Next]_ledgervars,
         NEW i \in Ids, rows[i] # "absent"
  PROVE  OtherPrice(i)' = OtherPrice(i)
<1>1. CASE \E c \in Charges : Posts(c)
  <2>1. PICK c \in Charges : Posts(c)
    BY <1>1
  <2>2. stage[c] = "hold" /\ (tipped' = tipped \/ tipped' = tipped \cup {c})
    BY <2>1 DEF Posts, Post
  <2>3. i[1] = c => i \in Holds
    BY <2>2 DEF Came, Past
  <2>. QED BY <2>2, <2>3 DEF OtherPrice, Holds
<1>2. CASE ~(\E c \in Charges : Posts(c))
  <2>1. UNCHANGED tipped
    BY <1>2 DEF Next, BankStep, Authorize, Renumbers, Renumber, Withdraw, ReportAgain,
                PullStep, WritePage, MarkRemoved, SaveCursor, WriteWindow,
                ReconcileVanished, PersonStep, Answer, RetirePending, SweepStep,
                SweepFinds, SweepCarries, SplitStep, ListStale, drop_stale, Trouble,
                PullDies, TornPage, TornWindow, bankvars, ledgervars
  <2>. QED BY <2>1 DEF OtherPrice
<1>. QED BY <1>1, <1>2

(* What is said stays said.                                                *)
LEMMA SaidStands ==
  ASSUME LedgerInv, [Next]_ledgervars
  PROVE  /\ DOMAIN said = 1..Len(said) /\ Len(said) \in Nat
         /\ \A n \in 1..Len(said) : n \in DOMAIN said' /\ said'[n] = said[n]
<1>1. said \in Seq(Sayings) /\ Len(said) \in Nat /\ DOMAIN said = 1..Len(said)
  BY DEF LedgerInv, AnswerType
<1>2. said' = said \/ \E k \in Kinds, i \in Ids : Answer(k, i)
  BY StepCarries DEF Carried, drop_stale
<1>3. ASSUME NEW e, said' = Append(said, e)
      PROVE  \A n \in 1..Len(said) : n \in DOMAIN said' /\ said'[n] = said[n]
  BY <1>1, <1>3
<1>4. CASE \E k \in Kinds, i \in Ids : Answer(k, i)
  BY <1>1, <1>3, <1>4, AnswerIs
<1>. QED BY <1>1, <1>2, <1>4

(* A split that lies well where its row was there lies well afterwards.    *)
LEMMA LiesStill ==
  ASSUME LedgerInv, Came, [Next]_ledgervars,
         NEW i \in Ids, rows[i] # "absent", NEW n \in 1..Len(said), Lies(n, i)
  PROVE  Lies(n, i)'
BY PriceStands, SaidStands DEF Lies

(* Of the answers of a step that neither the bank nor the person takes.    *)
LEMMA StepLies ==
  ASSUME SplitInv, [Next]_ledgervars, ~BankStep,
         ~ \E k \in Kinds, i \in Ids : Answer(k, i)
  PROVE  Lying(ans') /\ UNCHANGED <<said, tipped>>
<1>1. /\ LedgerInv /\ Lying(ans) /\ SweepNear
      /\ Len(said) \in Nat /\ ans \in Answers(Len(said)) /\ "split" \in Kinds
  BY DEF SplitInv, LedgerInv, AnswerType, Kinds, Children
<1>2. UNCHANGED said
  BY <1>1, StepCarries DEF Carried, drop_stale
<1>3. UNCHANGED tipped
  BY DEF Next, PullStep, WritePage, MarkRemoved, SaveCursor, WriteWindow,
         ReconcileVanished, PersonStep, RetirePending, SweepStep, SweepFinds,
         SweepCarries, SplitStep, ListStale, drop_stale, Trouble, PullDies,
         TornPage, TornWindow, bankvars, ledgervars
<1>. SUFFICES Lying(ans')
  BY <1>2, <1>3
<1>4. CASE UNCHANGED ans
  BY <1>1, <1>4 DEF Lying
<1>5. ASSUME NEW to \in 1..Len(log), NEW carried, WritePage(to, carried)
      PROVE  Lying(ans')
  <2>. DEFINE adds == Says("add", pull.at, to)
              cs == Settling(Written(rows, adds), adds)
  <2>1. ans' = SettledAnswers(cs, carried)
    BY <1>5 DEF WritePage
  <2>2. cs \subseteq Charges
    BY <1>1, RowsTyped DEF Settling, LedgerInv
  <2>. HIDE DEF cs
  <2>. QED BY <2>1, <2>2, SettledLies
<1>6. ASSUME NEW gone \in SUBSET Ids, NEW carried \in BOOLEAN, RetireRows(gone, carried)
      PROVE  Lying(ans')
  <2>1. PICK order \in SetToSeqs({i \in gone : Carries(ans, i)}) :
          ans' = IF carried THEN Reanchored(rows', ans, order) ELSE ans
    BY <1>6 DEF RetireRows
  <2>2. Len(order) \in Nat /\ \A m \in 1..Len(order) : order[m] \in Ids
    BY <2>1, OrderIs
  <2>. QED BY <1>1, <2>1, <2>2, ReanchorLies
<1>7. ASSUME NEW i \in Ids, NEW j \in Ids, NEW carried \in BOOLEAN,
             SweepCarries(i, j, carried)
      PROVE  Lying(ans')
  <2>1. /\ ans' = IF carried /\ StillApart(i, j) THEN Move(ans, i, j) ELSE ans
        /\ sweep = <<i, j>>
    BY <1>7 DEF SweepCarries
  <2>2. Near(i, j)
    BY <1>1, <2>1 DEF SweepNear
  <2>3. StillApart(i, j) => i # j
    BY DEF StillApart, Gone
  <2>. QED BY <1>1, <2>1, <2>2, <2>3, MoveLies
<1>8. CASE drop_stale
  <2>1. \A i \in Ids : ans'["split"][i] \in {0, ans["split"][i]}
    BY <1>1, <1>8, DropIs
  <2>. QED BY <1>1, <2>1 DEF Lying
<1>9. CASE PullStep
  <2>1. pull.saw \subseteq Ids /\ Vanished \subseteq Ids
    BY <1>1 DEF LedgerInv, LInv, PullType, Vanished, Holds
  <2>2. CASE \E carried \in BOOLEAN : MarkRemoved(carried)
    BY <1>6, <2>1, <2>2 DEF MarkRemoved
  <2>3. CASE \E carried \in BOOLEAN : ReconcileVanished(carried)
    BY <1>6, <2>1, <2>3 DEF ReconcileVanished
  <2>4. CASE SaveCursor \/ WriteWindow
    BY <1>4, <2>4 DEF SaveCursor, WriteWindow, answervars
  <2>. QED BY <1>5, <1>9, <2>2, <2>3, <2>4 DEF PullStep
<1>10. CASE PersonStep \/ Trouble \/ UNCHANGED ledgervars
  BY <1>4, <1>10 DEF PersonStep, RetirePending, Trouble, PullDies, TornPage, TornWindow,
                     answervars, ledgervars
<1>11. CASE SweepStep
  <2>1. CASE \E i \in Stranded(rows, ans) : \E j \in Twins(rows, i) : SweepFinds(i, j)
    BY <1>4, <2>1 DEF SweepFinds, answervars
  <2>. QED BY <1>7, <1>11, <2>1 DEF SweepStep
<1>12. CASE SplitStep
  BY <1>4, <1>8, <1>12 DEF SplitStep, ListStale, answervars
<1>. QED BY <1>9, <1>10, <1>11, <1>12 DEF Next

LEMMA NextLying == ASSUME SplitInv, [Next]_ledgervars PROVE Lying(ans)'
<1>1. /\ LedgerInv /\ Came /\ Lying(ans) /\ Len(said) \in Nat
      /\ ans["split"] \in [Ids -> 0..Len(said)]
      /\ \A i \in Ids : ans["split"][i] # 0 => rows[i] # "absent"
  BY DEF SplitInv, LedgerInv, AnswerType, Answers, OnRows, Kinds, Children
<1>2. CASE BankStep
  <2>1. UNCHANGED ans
    BY <1>2 DEF BankStep, Authorize, Posts, Post, Renumbers, Renumber, Withdraw,
                ReportAgain, Others, answervars
  <2>. SUFFICES ASSUME NEW i \in Ids, ans["split"][i] # 0
                PROVE  Lies(ans["split"][i], i)'
    BY <2>1 DEF Lying
  <2>2. ans["split"][i] \in 1..Len(said) /\ Lies(ans["split"][i], i)
    BY <1>1 DEF Lying
  <2>3. \A n \in 1..Len(said) : Lies(n, i) => Lies(n, i)'
    BY <1>1, LiesStill
  <2>4. Lies(ans["split"][i], i) => Lies(ans["split"][i], i)'
    <3>1. DOMAIN said = 1..Len(said)
             /\ \A n \in 1..Len(said) : said'[n] = said[n]
      BY <1>1, SaidStands
    <3>2. OtherPrice(i)' = OtherPrice(i)
      BY <1>1, PriceStands
    <3>. QED BY <2>1, <2>2, <3>1, <3>2 DEF Lies
  <2>. QED BY <2>2, <2>4
<1>3. CASE \E k \in Kinds, i \in Ids : Answer(k, i)
  <2>1. PICK k \in Kinds, i \in Ids : Answer(k, i)
    BY <1>3
  <2>2. PICK j \in Ids :
          /\ said' = Append(said, [about |-> j[1], kind |-> k, over |-> OtherPrice(j)])
          /\ \A h \in Kinds, x \in Ids :
               ans'[h][x] = IF h = k /\ x = j THEN Len(said) + 1 ELSE ans[h][x]
    BY <1>1, <2>1, AnswerIs
  <2>3. UNCHANGED tipped
    BY <2>1 DEF Answer, bankvars
  <2>4. /\ said'[Len(said) + 1] = [about |-> j[1], kind |-> k, over |-> OtherPrice(j)]
        /\ \A n \in 1..Len(said) : said'[n] = said[n]
    BY <1>1, <2>2, AppendIs DEF LedgerInv, AnswerType
  <2>5. ASSUME NEW x \in Ids, ans'["split"][x] # 0 PROVE Lies(ans["split"][x], x)'
    <3>1. CASE k = "split" /\ x = j
      <4>1. ans'["split"][x] = Len(said) + 1
        BY <2>2, <3>1 DEF Kinds, Children
      <4>2. /\ said'[ans'["split"][x]].over = OtherPrice(j)
            /\ said'[ans'["split"][x]].about = j[1]
        BY <2>4, <4>1
      <4>3. OtherPrice(j)' = OtherPrice(j)
        BY <2>3 DEF OtherPrice
      <4>. QED BY <3>1, <4>2, <4>3 DEF Lies
    <3>2. CASE ~(k = "split" /\ x = j)
      <4>1. ans'["split"][x] = ans["split"][x]
        BY <2>2, <3>2 DEF Kinds, Children
      <4>2. ans["split"][x] \in 1..Len(said) /\ Lies(ans["split"][x], x)
        BY <1>1, <2>5, <4>1 DEF Lying
      <4>3. said'[ans'["split"][x]] = said[ans["split"][x]]
        BY <2>4, <4>1, <4>2
      <4>4. OtherPrice(x)' = OtherPrice(x)
        BY <2>3 DEF OtherPrice
      <4>. QED BY <4>2, <4>3, <4>4 DEF Lies
    <3>. QED BY <3>1, <3>2
  <2>. QED BY <2>5 DEF Lying
<1>4. CASE ~BankStep /\ ~ \E k \in Kinds, i \in Ids : Answer(k, i)
  BY <1>4, StepLies DEF Lying, Lies, OtherPrice
<1>. QED BY <1>2, <1>3, <1>4

LEMMA NextSweepNear == ASSUME SplitInv, [Next]_ledgervars PROVE SweepNear'
<1>1. LedgerInv /\ Came /\ SweepNear
  BY DEF SplitInv
<1>2. \A i \in Ids : rows[i] # "absent" => rows'[i] # "absent"
  BY <1>1, StepCarries DEF Carried, RowsStay, drop_stale, Answer
<1>3. \A i \in Ids : rows[i] # "absent" => OtherPrice(i)' = OtherPrice(i)
  BY <1>1, PriceStands
<1>4. CASE UNCHANGED sweep
  BY <1>1, <1>2, <1>3, <1>4 DEF SweepNear, Near
<1>5. CASE sweep' = <<>>
  BY <1>5 DEF SweepNear
<1>6. CASE \E i \in Stranded(rows, ans) : \E j \in Twins(rows, i) : SweepFinds(i, j)
  <2>1. PICK i \in Stranded(rows, ans) : \E j \in Twins(rows, i) : SweepFinds(i, j)
    BY <1>6
  <2>2. PICK j \in Twins(rows, i) : SweepFinds(i, j)
    BY <2>1
  <2>3. i \in Ids /\ rows[i] # "absent" /\ j \in Ids /\ rows[j] # "absent" /\ Near(i, j)
    BY TwinsLive, TwinsNear DEF Stranded
  <2>4. sweep' = <<i, j>> /\ UNCHANGED <<rows, tipped>>
    BY <2>2 DEF SweepFinds, bankvars
  <2>5. sweep'[1] = i /\ sweep'[2] = j
    BY <2>4
  <2>. QED BY <2>3, <2>4, <2>5 DEF SweepNear, Near, OtherPrice
<1>7. UNCHANGED sweep \/ sweep' = <<>>
      \/ \E i \in Stranded(rows, ans) : \E j \in Twins(rows, i) : SweepFinds(i, j)
  BY DEF Next, BankStep, Authorize, Posts, Post, Renumbers, Renumber, Withdraw,
         ReportAgain, Others, PullStep, WritePage, MarkRemoved, SaveCursor, WriteWindow,
         ReconcileVanished, PersonStep, Answer, RetirePending, SweepStep, SweepCarries,
         SplitStep, ListStale, drop_stale, Trouble, PullDies, TornPage, TornWindow,
         ledgervars
<1>. QED BY <1>4, <1>5, <1>6, <1>7

LEMMA InitSplitInv == Init => SplitInv
<1>. SUFFICES ASSUME Init PROVE SplitInv
  OBVIOUS
<1>1. rows = [i \in Ids |-> "absent"] /\ ans = [k \in Kinds |-> [i \in Ids |-> 0]]
      /\ sweep = <<>>
  BY DEF Init
<1>2. "split" \in Kinds
  BY DEF Kinds, Children
<1>. QED BY <1>1, <1>2, InitLedgerInv DEF SplitInv, Came, Lying, SweepNear

LEMMA NextSplitInv == SplitInv /\ [Next]_ledgervars => SplitInv'
BY NextLedgerInv, NextCame, NextLying, NextSweepNear DEF SplitInv

(* A split that no longer fits its row was outgrown.                       *)
LEMMA MisfitOutgrown ==
  ASSUME SplitInv, NEW i \in Ids, ans["split"][i] # 0, ~Fits(ans["split"][i], i)
  PROVE  \/ Outgrown(ans["split"][i])
         \/ said[ans["split"][i]].kind # "split"
<1>1. Lies(ans["split"][i], i)
  BY DEF SplitInv, Lying
<1>. QED BY <1>1 DEF Lies, Fits, Outgrown, OtherPrice

----------------------------------------------------------------------------
(* What a person wrote, on whichever row, is on some row of the ledger     *)
(* until the person replaces it: through pages that settle holds, removals *)
(* and vanished rows that are re-anchored in any order, best-effort moves  *)
(* that fail, pulls that die, and the sweep's stale pairs                  *)
(* (sync/reanchor.py, sync/base.py's _settle_pendings).  What a pass drops *)
(* (engine/splits.py) is a split whose charge posted for another amount,   *)
(* and no split written since on a row it had listed.                      *)
THEOREM AnswersKept == Spec => []AnswerKept
<1>1. Init => SplitInv /\ AnswerKept
  BY InitSplitInv DEF Init, AnswerKept
<1>2. SplitInv /\ AnswerKept /\ [Next]_ledgervars => SplitInv' /\ AnswerKept'
  <2>. SUFFICES ASSUME SplitInv, AnswerKept, [Next]_ledgervars PROVE AnswerKept'
    BY NextSplitInv
  <2>1. /\ LedgerInv /\ Came /\ said \in Seq(Sayings) /\ Len(said) \in Nat
        /\ DOMAIN said = 1..Len(said)
        /\ \A n \in 1..Len(said) : n \in DOMAIN said' /\ said'[n] = said[n]
    BY SaidStands DEF SplitInv, LedgerInv, AnswerType
  <2>2. tipped \subseteq tipped'
    <3>1. CASE BankStep
      BY <3>1 DEF BankStep, Authorize, Posts, Post, Renumbers, Renumber, Withdraw,
                  ReportAgain
    <3>. QED
      BY <3>1 DEF Next, PullStep, WritePage, MarkRemoved, SaveCursor, WriteWindow,
         ReconcileVanished, PersonStep, Answer, RetirePending, SweepStep, SweepFinds,
         SweepCarries, SplitStep, ListStale, drop_stale, Trouble, PullDies,
         TornPage, TornWindow, bankvars, ledgervars
  <2>3. \A n \in DOMAIN said : Outgrown(n) => Outgrown(n)'
    BY <2>1, <2>2 DEF Outgrown
  <2>4. \A n \in DOMAIN said : n # 0 /\ said[n].kind \in Kinds
    BY <2>1, SaidIs
  <2>5. ASSUME NEW n \in DOMAIN said \ overruled, OnRow(n) \/ Outgrown(n),
               OnRow(n) => OnRow(n)' \/ Outgrown(n)
        PROVE  (OnRow(n) \/ Outgrown(n))'
    BY <2>3, <2>5
  <2>6. CASE Carried
    <3>1. ASSUME NEW n \in DOMAIN said, OnRow(n) PROVE OnRow(n)'
      BY <2>4, <2>6, <3>1 DEF Carried, Keeps, OnRow
    <3>. QED BY <2>3, <2>6, <3>1 DEF AnswerKept, Carried
  <2>7. CASE drop_stale
    <3>1. /\ UNCHANGED <<said, overruled>>
          /\ \A k \in Kinds, i \in Ids :
               ans'[k][i] = IF k = "split" /\ i \in StillStale THEN 0 ELSE ans[k][i]
      BY <2>1, <2>7, DropIs
    <3>2. ASSUME NEW n \in DOMAIN said, OnRow(n) PROVE OnRow(n)' \/ Outgrown(n)
      <4>1. PICK i \in Ids : ans[said[n].kind][i] = n
        BY <3>2 DEF OnRow
      <4>2. CASE said[n].kind = "split" /\ i \in StillStale
        BY <2>4, <4>1, <4>2, MisfitOutgrown DEF StillStale, stale
      <4>3. CASE ~(said[n].kind = "split" /\ i \in StillStale)
        BY <2>4, <3>1, <4>1, <4>3 DEF OnRow
      <4>. QED BY <4>2, <4>3
    <3>. QED BY <2>3, <3>1, <3>2 DEF AnswerKept
  <2>8. CASE \E k \in Kinds, i \in Ids : Answer(k, i)
    <3>1. PICK k \in Kinds, i \in Ids : Answer(k, i)
      BY <2>8
    <3>2. PICK j \in Ids :
            /\ said' = Append(said, [about |-> j[1], kind |-> k, over |-> OtherPrice(j)])
            /\ overruled' = overruled \cup ({ans[k][j]} \ {0})
            /\ \A h \in Kinds, x \in Ids :
                 ans'[h][x] = IF h = k /\ x = j THEN Len(said) + 1 ELSE ans[h][x]
      BY <2>1, <3>1, AnswerIs
    <3>3. /\ DOMAIN said' = 1..(Len(said) + 1)
          /\ said'[Len(said) + 1]
               = [about |-> j[1], kind |-> k, over |-> OtherPrice(j)]
      BY <2>1, <3>2, AppendIs
    <3>. SUFFICES ASSUME NEW n \in DOMAIN said' \ overruled'
                  PROVE  OnRow(n)' \/ Outgrown(n)'
      BY DEF AnswerKept
    <3>4. CASE n = Len(said) + 1
      <4>1. said'[n].kind = k
        BY <3>3, <3>4
      <4>. QED BY <3>2, <3>4, <4>1 DEF OnRow
    <3>5. CASE n # Len(said) + 1
      <4>1. n \in 1..Len(said)
        BY <2>1, <3>3, <3>5
      <4>2. n \in DOMAIN said \ overruled /\ said'[n] = said[n] /\ n # ans[k][j]
        BY <2>1, <2>4, <3>2, <4>1
      <4>3. CASE Outgrown(n)
        BY <2>3, <4>2, <4>3
      <4>4. CASE OnRow(n)
        <5>1. PICK x \in Ids : ans[said[n].kind][x] = n
          BY <4>4 DEF OnRow
        <5>2. ~(said[n].kind = k /\ x = j) /\ said[n].kind \in Kinds
          BY <2>4, <4>2, <5>1
        <5>. QED BY <3>2, <4>2, <5>1, <5>2 DEF OnRow
      <4>. QED BY <4>2, <4>3, <4>4 DEF AnswerKept
    <3>. QED BY <3>4, <3>5
  <2>. QED BY <2>1, <2>6, <2>7, <2>8, StepCarries
<1>. QED BY <1>1, <1>2, PTL DEF Spec

(* No settlement, replay, retirement or sweep takes an answer off a row    *)
(* that stays live, nor writes over it: _move and _settle_pendings copy    *)
(* only onto a row that has none, and drop_stale takes only a split that   *)
(* does not add up to its row.                                             *)
THEOREM ShownStands == Spec => ShownAnswerStands
<1>. DEFINE Shown ==
       \A k \in Kinds, i \in Ids :
         rows[i] = "live" /\ rows'[i] = "live" /\ ans[k][i] # 0 /\ said' = said
         => \/ ans'[k][i] = ans[k][i]
            \/ k = "split" /\ ~Fits(ans[k][i], i) /\ ans'[k][i] = 0
<1>1. LedgerInv /\ [Next]_ledgervars => Shown
  <2>. SUFFICES ASSUME LedgerInv, [Next]_ledgervars, said' = said,
                       NEW k \in Kinds, NEW i \in Ids,
                       rows[i] = "live", rows'[i] = "live", ans[k][i] # 0
                PROVE  \/ ans'[k][i] = ans[k][i]
                       \/ k = "split" /\ ~Fits(ans[k][i], i) /\ ans'[k][i] = 0
    OBVIOUS
  <2>1. CASE Carried
    BY <2>1 DEF Carried, Stands, Live
  <2>2. CASE \E h \in Kinds, x \in Ids : Answer(h, x)
    <3>1. PICK h \in Kinds, x \in Ids : Answer(h, x)
      BY <2>2
    <3>2. PICK j : said' = Append(said, [about |-> j[1], kind |-> h,
                                         over |-> OtherPrice(j)])
      BY <3>1, AnswerIs
    <3>3. said \in Seq(Sayings)
      BY DEF LedgerInv, AnswerType
    <3>. QED BY <3>2, <3>3, AppendIs
  <2>3. CASE drop_stale
    BY <2>3, DropIs DEF StillStale, stale
  <2>. QED BY <2>1, <2>2, <2>3, StepCarries
<1>2. LedgerInv /\ [Next]_ledgervars => [Shown]_ledgervars
  BY <1>1
<1>. QED BY <1>2, InitLedgerInv, NextLedgerInv, PTL DEF Spec, ShownAnswerStands

----------------------------------------------------------------------------
(* The type of the rest of the state. *)

Retired == {i \in Ids : rows[i] = "retired"}

RestType ==
  /\ tipped \subseteq Charges
  /\ Retired \subseteq Holds
  /\ sweep \in {<<>>} \cup (Ids \X Ids)
  /\ listed \subseteq Ids
  /\ faults \in 0..MaxFaults

LEMMA FaultsBounded ==
  ASSUME RestType, NEW b, Fails(b) PROVE faults' \in 0..MaxFaults
BY LedgerBounds DEF RestType, Fails

LEMMA NextFaults ==
  ASSUME RestType, [Next]_ledgervars PROVE faults' \in 0..MaxFaults
<1>1. CASE BankStep
  BY <1>1 DEF BankStep, Authorize, Posts, Post, Renumbers, Renumber, Withdraw,
              ReportAgain, Others, RestType
<1>2. CASE PullStep
  BY <1>2, FaultsBounded DEF PullStep, WritePage, MarkRemoved, RetireRows, SaveCursor,
                             WriteWindow, ReconcileVanished, RestType
<1>3. CASE PersonStep
  BY <1>3 DEF PersonStep, Answer, RetirePending, RestType
<1>4. CASE SweepStep
  BY <1>4, FaultsBounded DEF SweepStep, SweepFinds, SweepCarries, RestType
<1>5. CASE Trouble
  BY <1>5, FaultsBounded DEF Trouble, PullDies, TornPage, TornWindow
<1>6. CASE SplitStep
  BY <1>6 DEF SplitStep, ListStale, drop_stale, RestType
<1>7. CASE UNCHANGED ledgervars
  BY <1>7 DEF ledgervars, RestType
<1>. QED BY <1>1, <1>2, <1>3, <1>4, <1>5, <1>6, <1>7 DEF Next

LEMMA NextSweep ==
  ASSUME RestType, [Next]_ledgervars PROVE sweep' \in {<<>>} \cup (Ids \X Ids)
<1>1. CASE SweepStep
  <2>1. CASE \E i \in Stranded(rows, ans) : \E j \in Twins(rows, i) : SweepFinds(i, j)
    <3>1. PICK i \in Stranded(rows, ans) : \E j \in Twins(rows, i) : SweepFinds(i, j)
      BY <2>1
    <3>2. PICK j \in Twins(rows, i) : SweepFinds(i, j)
      BY <3>1
    <3>3. i \in Ids /\ j \in Ids
      BY TwinsLive DEF Stranded
    <3>. QED BY <3>2, <3>3 DEF SweepFinds
  <2>2. CASE \E i, j \in Ids, carried \in BOOLEAN : SweepCarries(i, j, carried)
    BY <2>2 DEF SweepCarries
  <2>. QED BY <1>1, <2>1, <2>2 DEF SweepStep
<1>2. CASE ~SweepStep
  <2>1. UNCHANGED sweep
    BY <1>2 DEF Next, BankStep, Authorize, Posts, Post, Renumbers, Renumber, Withdraw,
                ReportAgain, Others, PullStep, WritePage, MarkRemoved, SaveCursor,
                WriteWindow, ReconcileVanished, PersonStep, Answer, RetirePending,
                SplitStep, ListStale, drop_stale, Trouble, PullDies, TornPage,
                TornWindow, ledgervars
  <2>. QED BY <2>1 DEF RestType
<1>. QED BY <1>1, <1>2

LEMMA NextTipped ==
  ASSUME RestType, [Next]_ledgervars PROVE tipped' \subseteq Charges
<1>1. CASE \E c \in Charges : Posts(c)
  BY <1>1 DEF Posts, Post, RestType
<1>2. CASE ~(\E c \in Charges : Posts(c))
  <2>1. UNCHANGED tipped
    BY <1>2 DEF Next, BankStep, Authorize, Renumbers, Renumber, Withdraw, ReportAgain,
                PullStep, WritePage, MarkRemoved, SaveCursor, WriteWindow,
                ReconcileVanished, PersonStep, Answer, RetirePending, SweepStep,
                SweepFinds, SweepCarries, SplitStep, ListStale, drop_stale, Trouble,
                PullDies, TornPage, TornWindow, bankvars, ledgervars
  <2>. QED BY <2>1 DEF RestType
<1>. QED BY <1>1, <1>2

LEMMA NextRetired ==
  ASSUME LedgerInv, RestType, [Next]_ledgervars PROVE Retired' \subseteq Holds
<1>1. RowsStay
  <2>1. CASE Carried
    BY <2>1 DEF Carried
  <2>2. CASE \E k \in Kinds, i \in Ids : Answer(k, i)
    BY <2>2 DEF Answer, RowsStay
  <2>3. CASE drop_stale
    BY <2>3 DEF drop_stale, RowsStay
  <2>. QED BY <2>1, <2>2, <2>3, StepCarries
<1>. QED BY <1>1 DEF RowsStay, RestType, Retired

LEMMA NextListed ==
  ASSUME RestType, [Next]_ledgervars PROVE listed' \subseteq Ids
<1>1. CASE SplitStep
  BY <1>1 DEF SplitStep, ListStale, drop_stale, stale
<1>2. CASE ~SplitStep
  <2>1. UNCHANGED listed
    BY <1>2 DEF Next, BankStep, Authorize, Posts, Post, Renumbers, Renumber, Withdraw,
                ReportAgain, Others, PullStep, WritePage, MarkRemoved, SaveCursor,
                WriteWindow, ReconcileVanished, PersonStep, Answer, RetirePending,
                SweepStep, SweepFinds, SweepCarries, Trouble, PullDies, TornPage,
                TornWindow, ledgervars
  <2>. QED BY <2>1 DEF RestType
<1>. QED BY <1>1, <1>2

(* Every variable stays within its type; an answer is only ever on a row   *)
(* that was written, and only a hold is retired by hand.                   *)
THEOREM LedgerTypeCorrect == Spec => []TypeOK
<1>1. Init => LedgerInv /\ RestType
  <2>. SUFFICES ASSUME Init PROVE LedgerInv /\ RestType
    OBVIOUS
  <2>1. /\ tipped = {} /\ sweep = <<>> /\ listed = {} /\ faults = 0
        /\ rows = [i \in Ids |-> "absent"]
    BY DEF Init
  <2>2. RestType
    BY <2>1, LedgerBounds DEF RestType, Retired
  <2>. QED BY <2>2, InitLedgerInv
<1>2. LedgerInv /\ RestType /\ [Next]_ledgervars => LedgerInv' /\ RestType'
  BY NextLedgerInv, NextFaults, NextSweep, NextTipped, NextRetired, NextListed
     DEF RestType
<1>3. LedgerInv /\ RestType => TypeOK
  <2>. SUFFICES ASSUME LedgerInv, RestType PROVE TypeOK
    OBVIOUS
  <2>1. /\ feed \in {"cursor", "window"} /\ named \subseteq Charges
        /\ log \in Seq([id : Ids, op : {"add", "remove"}])
        /\ stage \in [Charges -> Forms \cup {"none", "gone"}]
    BY DEF LedgerInv, LInv, LogType, LogOK, Entries, Stages
  <2>2. /\ rows \in [Ids -> {"absent", "live"} \cup Gone] /\ torn \in BOOLEAN
        /\ (pull.step = "idle" => pull.at = cursor)
    BY DEF LedgerInv, LInv, PullType
  <2>3. cursor \in 0..Len(log) /\ pull.at \in 0..Len(log)
    BY <2>1 DEF LedgerInv, LInv, PullType
  <2>4. pull \in [step : {"idle", "next", "wrote", "end"}, at : 0..Len(log),
                  more : BOOLEAN, saw : SUBSET Ids]
    BY <2>3 DEF LedgerInv, LInv, PullType
  <2>5. /\ ans \in [Kinds -> [Ids -> 0..Len(said)]]
        /\ \A k \in Kinds, i \in Ids : ans[k][i] # 0 => rows[i] # "absent"
        /\ said \in Seq(Sayings)
        /\ overruled \subseteq DOMAIN said
    BY DEF LedgerInv, AnswerType, Answers, OnRows
  <2>. QED BY <2>1, <2>2, <2>3, <2>4, <2>5 DEF TypeOK, RestType, Retired, Sayings
<1>. QED BY <1>1, <1>2, <1>3, PTL DEF Spec
==============================================================================
