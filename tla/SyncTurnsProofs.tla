-------------------------- MODULE SyncTurnsProofs --------------------------
(***************************************************************************)
(* TurnsAccounted, NudgeStands and TypeOK, for any Items, syncs and doors  *)
(* and any number of turns and pulls.  A turn is given back by its pull's  *)
(* thread or by the job that a cancel ends, so the proof needs what the    *)
(* two know of each other (PullsOK): a pull that has not started keeps its *)
(* turn as long as its job awaits it, and one that a job awaits at work    *)
(* has its turn; and a job awaits one pull at most (OneCall).  Pulls that  *)
(* work without a turn are counted with those whose job is being cancelled *)
(* (Loose), each of which has cost a mishap.  That the line is never       *)
(* longer than the Items takes that it holds each job that is not out, and *)
(* once (LineOK).                                                          *)
(***************************************************************************)
EXTENDS SyncTurns, FiniteSetTheorems, TLAPS

Places == {"out", "asks", "run", "cancel", "busy", "done"}
Calling == {"run", "cancel"}

TurnType ==
  /\ job \in [Items -> Places]
  /\ pull \in [Pulls -> PullType]
  /\ busy \in Nat /\ waiting \subseteq Items
  /\ mishaps \in Nat

PullsOK ==
  \A p \in Pulls :
    /\ pull[p].at = "unused" => ~pull[p].turn /\ ~pull[p].awaited
    /\ pull[p].at # "unused" => pull[p].item \in Items
    /\ pull[p].at = "queued" /\ pull[p].turn => pull[p].awaited
    /\ pull[p].at \in Running /\ pull[p].awaited => pull[p].turn
    /\ pull[p].awaited => job[pull[p].item] \in Calling

OneCall ==
  \A p, q \in Pulls : pull[p].awaited /\ pull[q].awaited
                        /\ pull[p].item = pull[q].item => p = q

Counted == busy = Cardinality(Held) /\ busy <= Capacity

Doubtful == {p \in Pulls : pull[p].awaited /\ job[pull[p].item] = "cancel"}
Loose == Strays \cup Doubtful
FewLoose == Cardinality(Loose) <= mishaps

TInv == TurnType /\ PullsOK /\ OneCall /\ Counted /\ FewLoose

LEMMA InitTInv == Init => TInv
  <1> SUFFICES ASSUME Init PROVE TInv OBVIOUS
  <1>1. TurnType BY DEF Init, TurnType, Places, PullType, Unused
  <1>2. \A p \in Pulls : pull[p] = Unused BY DEF Init
  <1>3. PullsOK BY <1>2 DEF PullsOK, Unused, Running
  <1>4. OneCall BY <1>2 DEF OneCall, Unused
  <1>5. Held = {} /\ Loose = {}
    BY <1>2 DEF Held, Loose, Strays, Doubtful, Unused, Running
  <1>6. Cardinality({}) = 0 BY FS_EmptySet
  <1>7. Counted BY <1>5, <1>6, CapacityAssumption DEF Init, Counted
  <1>8. FewLoose BY <1>5, <1>6 DEF Init, FewLoose
  <1> QED BY <1>1, <1>3, <1>4, <1>7, <1>8 DEF TInv

(* How many pulls: no more in a part, one more and one less.               *)
LEMMA CountPart ==
  ASSUME NEW S \in SUBSET Pulls, NEW T \in SUBSET S
  PROVE Cardinality(S) \in Nat /\ Cardinality(T) \in Nat
        /\ Cardinality(T) <= Cardinality(S)
  <1>1. IsFiniteSet(S) BY SetsFinite, FS_Subset
  <1>2. IsFiniteSet(T) /\ Cardinality(T) <= Cardinality(S) BY <1>1, FS_Subset
  <1> QED BY <1>1, <1>2, FS_CardinalityType

LEMMA CountOneMore ==
  ASSUME NEW S \in SUBSET Pulls, NEW p \in Pulls, p \notin S
  PROVE Cardinality(S \cup {p}) = Cardinality(S) + 1
  <1>1. IsFiniteSet(S) BY SetsFinite, FS_Subset
  <1> QED BY <1>1, FS_AddElement

LEMMA CountOneLess ==
  ASSUME NEW S \in SUBSET Pulls, NEW p \in S
  PROVE Cardinality(S \ {p}) = Cardinality(S) - 1 /\ Cardinality(S) - 1 \in Nat
  <1>1. IsFiniteSet(S) BY SetsFinite, FS_Subset
  <1>2. IsFiniteSet(S \ {p}) /\ Cardinality(S \ {p}) = Cardinality(S) - 1
    BY <1>1, FS_RemoveElement
  <1>3. Cardinality(S \ {p}) \in Nat BY <1>2, FS_CardinalityType
  <1> QED BY <1>2, <1>3

LEMMA MoreMishaps ==
  ASSUME TurnType, Mishap \/ UNCHANGED mishaps
  PROVE mishaps' \in Nat /\ mishaps <= mishaps'
  BY DEF TurnType, Mishap

(* No step but a cancel that finds its pull not started loosens one more.  *)
LEMMA NoLooser ==
  ASSUME TInv, Loose' \subseteq Loose, Mishap \/ UNCHANGED mishaps
  PROVE FewLoose'
  <1>1. Loose \in SUBSET Pulls BY DEF Loose, Strays, Doubtful
  <1>2. Cardinality(Loose) \in Nat /\ Cardinality(Loose') \in Nat
        /\ Cardinality(Loose') <= Cardinality(Loose)
    BY <1>1, CountPart
  <1>3. mishaps' \in Nat /\ mishaps <= mishaps' /\ mishaps \in Nat
    BY MoreMishaps DEF TInv, TurnType
  <1> QED BY <1>2, <1>3 DEF TInv, FewLoose

(* What becomes of the count of turns.                                     *)
LEMMA SameHeld == ASSUME TInv, Held' = Held, busy' = busy PROVE Counted' /\ busy' \in Nat
  BY DEF TInv, Counted, TurnType

LEMMA OneReturned ==
  ASSUME TInv, NEW p \in Pulls, Held' = Held \ {p},
         busy' = IF pull[p].turn THEN busy - 1 ELSE busy
  PROVE Counted' /\ busy' \in Nat
  <1>1. CASE pull[p].turn
    <2>1. p \in Held /\ Held \in SUBSET Pulls BY <1>1 DEF Held
    <2>2. Cardinality(Held \ {p}) = Cardinality(Held) - 1 /\ Cardinality(Held) - 1 \in Nat
      BY <2>1, CountOneLess
    <2>3. busy = Cardinality(Held) /\ busy \in Nat /\ busy <= Capacity
      BY DEF TInv, Counted, TurnType
    <2>4. busy' = Cardinality(Held') /\ busy' \in Nat /\ busy' <= busy
      BY <1>1, <2>2, <2>3
    <2> QED BY <2>3, <2>4, CapacityAssumption DEF Counted
  <1>2. CASE ~pull[p].turn
    <2>1. Held' = Held BY <1>2 DEF Held
    <2> QED BY <1>2, <2>1, SameHeld
  <1> QED BY <1>1, <1>2

(* The steps that touch no pull: jobs that call none may change.           *)
LEMMA Frame ==
  ASSUME TInv, UNCHANGED <<pull, busy>>, waiting' \subseteq Items,
         Mishap \/ UNCHANGED mishaps,
         job' \in [Items -> Places],
         \A i \in Items : job'[i] # job[i] => job[i] \notin Calling
                                              /\ job'[i] \notin Calling
  PROVE TInv'
  <1>1. TurnType' BY MoreMishaps DEF TInv, TurnType
  <1>2. \A p \in Pulls : pull[p].awaited => pull[p].item \in Items
                                          /\ job'[pull[p].item] = job[pull[p].item]
    BY DEF TInv, TurnType, PullType, PullsOK, Calling, Running
  <1>3. PullsOK' BY <1>2 DEF TInv, PullsOK
  <1>4. OneCall' BY DEF TInv, OneCall
  <1>5. Held' = Held BY DEF Held
  <1>6. Loose' \subseteq Loose BY <1>2 DEF Loose, Strays, Doubtful
  <1> QED BY <1>1, <1>3, <1>4, <1>5, <1>6, SameHeld, NoLooser DEF TInv

(* A full sync or a door asks for first pulls.                             *)
LEMMA QueueFirstStep ==
  ASSUME TInv, UNCHANGED <<turnvars, mishaps>>, NEW S \in SUBSET Items, QueueFirst(S)
  PROVE TInv'
  <1>1. job' = [i \in Items |-> IF i \in Unasked(S) THEN "asks" ELSE job[i]]
    BY DEF QueueFirst
  <1>2. job' \in [Items -> Places] BY <1>1 DEF TInv, TurnType, Places
  <1>3. \A i \in Items : job'[i] # job[i] => job[i] \notin Calling
                                              /\ job'[i] \notin Calling
    BY <1>1 DEF Unasked, Calling
  <1>4. UNCHANGED <<pull, busy>> /\ waiting' \subseteq Items
    BY DEF turnvars, TInv, TurnType
  <1> QED BY <1>2, <1>3, <1>4, Frame

(* Nothing of the turns or the jobs changes.                               *)
LEMMA Aside ==
  ASSUME TInv, UNCHANGED <<turnvars, jobvars>>, Mishap \/ UNCHANGED mishaps
  PROVE TInv'
  BY Frame DEF TInv, TurnType, turnvars, jobvars

LEMMA AnswerMishap == ASSUME Answer PROVE Mishap \/ UNCHANGED mishaps
  BY DEF Answer

LEMMA NoteMishap == ASSUME Note PROVE Mishap \/ UNCHANGED mishaps
  BY DEF Note

LEMMA FullStepTurns ==
  ASSUME TInv, NEW f \in Fulls, StartFull(f) \/ FullStep(f)
  PROVE TInv'
  <1>1. CASE BeginPass(f)
    BY <1>1, QueueFirstStep DEF BeginPass
  <1>2. CASE StartFull(f) \/ ClearNudge(f) \/ EndPass(f) \/ PassRaises(f)
             \/ EndFull(f)
    BY <1>2, Aside DEF StartFull, ClearNudge, EndPass, PassRaises, EndFull
  <1>3. CASE NoteFull(f) BY <1>3, Aside, NoteMishap DEF NoteFull
  <1> QED BY <1>1, <1>2, <1>3 DEF FullStep

LEMMA DoorStepTurns ==
  ASSUME TInv, NEW d \in Doors, DoorTakes(d) \/ DoorStep(d)
  PROVE TInv'
  <1>1. CASE DoorLetsGo(d)
    <2>1. PICK S \in SUBSET (Items \ pulled) : QueueFirst(S) BY <1>1 DEF DoorLetsGo
    <2> QED BY <1>1, <2>1, QueueFirstStep DEF DoorLetsGo
  <1>2. CASE DoorTakes(d)
    BY <1>2, Aside DEF DoorTakes
  <1>3. CASE DoorAnswers(d)
    BY <1>3, Aside, AnswerMishap DEF DoorAnswers
  <1> QED BY <1>1, <1>2, <1>3 DEF DoorStep

(* Who takes a turn had none, and one was free.                            *)
LEMMA TakeStep == ASSUME TInv, NEW i \in Items, Take(i) PROVE TInv'
  <1> DEFINE p == NextCall
  <1>1. p \in Pulls /\ pull[p].at = "unused" BY DEF Take, NextCall
  <1>2. /\ job[i] = "asks" /\ busy + Cardinality(Ahead(i)) < Capacity
        /\ busy' = busy + 1 /\ waiting' = waiting \ {i}
        /\ job' = [job EXCEPT ![i] = "run"]
        /\ pull' = [pull EXCEPT ![p] = [item |-> i, at |-> "queued",
                                        turn |-> TRUE, awaited |-> TRUE]]
        /\ mishaps' = mishaps
    BY DEF Take, TurnFree
  <1> HIDE DEF p
  <1>3. /\ pull'[p].item = i /\ pull'[p].at = "queued"
        /\ pull'[p].turn /\ pull'[p].awaited
        /\ \A q \in Pulls \ {p} : pull'[q] = pull[q]
    BY <1>1, <1>2 DEF TInv, TurnType
  <1>4. ~pull[p].turn /\ ~pull[p].awaited BY <1>1 DEF TInv, PullsOK
  <1>5. \A q \in Pulls : pull[q].awaited => pull[q].item # i
                            /\ pull[q].item \in Items
                            /\ job'[pull[q].item] = job[pull[q].item]
    BY <1>2 DEF TInv, TurnType, PullsOK, Calling
  <1>6. TurnType' BY <1>1, <1>2 DEF TInv, TurnType, PullType, Places
  <1>7. job'[i] \in Calling BY <1>2 DEF TInv, TurnType, Calling
  <1>8. PullsOK'
    <2> SUFFICES ASSUME NEW q \in Pulls
                 PROVE /\ pull'[q].at = "unused" => ~pull'[q].turn /\ ~pull'[q].awaited
                       /\ pull'[q].at # "unused" => pull'[q].item \in Items
                       /\ pull'[q].at = "queued" /\ pull'[q].turn => pull'[q].awaited
                       /\ pull'[q].at \in Running /\ pull'[q].awaited => pull'[q].turn
                       /\ pull'[q].awaited => job'[pull'[q].item] \in Calling
      BY DEF PullsOK
    <2>1. CASE q = p BY <1>3, <1>7, <2>1 DEF Running
    <2>2. CASE q # p BY <1>3, <1>5, <2>2 DEF TInv, PullsOK
    <2> QED BY <2>1, <2>2
  <1>9. OneCall' BY <1>3, <1>5 DEF TInv, OneCall
  <1>10. Held' = Held \cup {p} /\ p \notin Held BY <1>1, <1>3, <1>4 DEF Held
  <1>11. Loose' \subseteq Loose
    <2>1. Strays' \subseteq Strays BY <1>3 DEF Strays, Running
    <2>2. Doubtful' \subseteq Doubtful
      BY <1>2, <1>3, <1>5 DEF Doubtful, TInv, TurnType
    <2> QED BY <2>1, <2>2 DEF Loose
  <1>12. Counted'
    <2>1. Cardinality(Ahead(i)) \in Nat
      <3>1. Ahead(i) \subseteq Items BY DEF Ahead, TInv, TurnType
      <3> QED BY <3>1, SetsFinite, FS_Subset, FS_CardinalityType
    <2>2. busy' = Cardinality(Held')
      BY <1>1, <1>2, <1>10, CountOneMore DEF TInv, Counted, Held
    <2> QED BY <1>2, <2>1, <2>2, CapacityAssumption DEF TInv, TurnType, Counted
  <1> QED BY <1>2, <1>6, <1>8, <1>9, <1>11, <1>12, NoLooser DEF TInv

(* Jobs that ask, wait, give up, try again or end hold no call.            *)
LEMMA JobMoves ==
  ASSUME TInv, NEW i \in Items,
         Wait(i) \/ Prune(i) \/ GiveUpWaiting(i) \/ Retry(i) \/ Done(i)
  PROVE TInv'
  <1>1. /\ pull' = pull /\ busy' = busy
        /\ waiting' \subseteq waiting \cup {i}
        /\ Mishap \/ UNCHANGED mishaps
        /\ \/ job' = job
           \/ job[i] \in {"asks", "busy", "done"}
              /\ \E s \in {"asks", "out"} : job' = [job EXCEPT ![i] = s]
    BY DEF Wait, Prune, GiveUpWaiting, Retry, Done, Ends, jobvars, turnvars
  <1>2. job' \in [Items -> Places] BY <1>1 DEF TInv, TurnType, Places
  <1>3. \A j \in Items : job'[j] # job[j] => job[j] \notin Calling
                                              /\ job'[j] \notin Calling
    BY <1>1 DEF Calling, TInv, TurnType
  <1>4. waiting' \subseteq Items BY <1>1 DEF TInv, TurnType
  <1> QED BY <1>1, <1>2, <1>3, <1>4, Frame

(* A cancel that finds its pull not started puts that one in doubt.        *)
LEMMA CancelEarlyStep == ASSUME TInv, NEW i \in Items, CancelEarly(i) PROVE TInv'
  <1>1. /\ job[i] = "run" /\ job' = [job EXCEPT ![i] = "cancel"]
        /\ pull' = pull /\ busy' = busy /\ waiting' = waiting
        /\ mishaps' = mishaps + 1
    BY DEF CancelEarly, turnvars, Mishap
  <1>2. PICK p \in Pulls : pull[p].item = i /\ pull[p].awaited
    BY DEF CancelEarly, NotStarted, Awaits
  <1>3. TurnType' BY <1>1 DEF TInv, TurnType, Places
  <1>4. PullsOK' BY <1>1 DEF TInv, TurnType, PullsOK, Calling
  <1>5. OneCall' BY <1>1 DEF TInv, OneCall
  <1>6. Held' = Held BY <1>1 DEF Held
  <1>7. Loose' \subseteq Loose \cup {p}
    <2>1. Strays' = Strays BY <1>1 DEF Strays
    <2>2. Doubtful' \subseteq Doubtful \cup {p}
      BY <1>1, <1>2 DEF Doubtful, TInv, TurnType, OneCall
    <2> QED BY <2>1, <2>2 DEF Loose
  <1>8. FewLoose'
    <2>1. Loose \in SUBSET Pulls BY DEF Loose, Strays, Doubtful
    <2>2. Cardinality(Loose \cup {p}) <= Cardinality(Loose) + 1
          /\ Cardinality(Loose) \in Nat
      <3>1. Cardinality(Loose) \in Nat BY <2>1, CountPart
      <3>2. CASE p \in Loose
        <4>1. Loose \cup {p} = Loose BY <3>2
        <4>2. Cardinality(Loose \cup {p}) = Cardinality(Loose) BY <4>1, Zenon
        <4> QED BY <3>1, <4>2
      <3>3. CASE p \notin Loose BY <2>1, <3>1, <3>3, CountOneMore
      <3> QED BY <3>2, <3>3, <3>1
    <2>3. Cardinality(Loose') <= Cardinality(Loose \cup {p})
          /\ Cardinality(Loose') \in Nat /\ Cardinality(Loose \cup {p}) \in Nat
      <3>1. Loose \cup {p} \in SUBSET Pulls BY <2>1
      <3> QED BY <1>7, <3>1, CountPart
    <2> QED BY <1>1, <2>2, <2>3 DEF TInv, TurnType, FewLoose
  <1> QED BY <1>1, <1>3, <1>4, <1>5, <1>6, <1>8, SameHeld DEF TInv

(* One that comes later leaves the pull its turn.                          *)
LEMMA CancelLateStep == ASSUME TInv, NEW i \in Items, CancelLate(i) PROVE TInv'
  <1>1. /\ job[i] # "cancel" /\ job' = [job EXCEPT ![i] = "out"]
        /\ pull' = [p \in Pulls |-> IF p \in Awaits(i)
                                    THEN [pull[p] EXCEPT !.awaited = FALSE]
                                    ELSE pull[p]]
        /\ busy' = busy /\ waiting' = waiting \ {i} /\ Mishap
    BY DEF CancelLate, Ends
  <1>2. \A p \in Awaits(i) : pull[p].at # "queued"
    BY DEF CancelLate, NotStarted
  <1>3. \A p \in Pulls :
          /\ pull'[p].item = pull[p].item /\ pull'[p].at = pull[p].at
          /\ pull'[p].turn = pull[p].turn
          /\ pull'[p].awaited = (pull[p].awaited /\ pull[p].item # i)
    BY <1>1 DEF TInv, TurnType, PullType, Awaits
  <1>4. TurnType'
    <2>1. pull' \in [Pulls -> PullType] BY <1>1 DEF TInv, TurnType, PullType
    <2> QED BY <1>1, <2>1, MoreMishaps DEF TInv, TurnType, Places
  <1>5. PullsOK'
    BY <1>1, <1>2, <1>3 DEF TInv, TurnType, PullsOK, Awaits
  <1>6. OneCall' BY <1>3 DEF TInv, OneCall
  <1>7. Held' = Held BY <1>3 DEF Held
  <1>8. Loose' \subseteq Loose
    <2>1. Strays' = Strays BY <1>3 DEF Strays
    <2>2. Doubtful' \subseteq Doubtful BY <1>1, <1>3 DEF Doubtful, TInv, TurnType
    <2> QED BY <2>1, <2>2 DEF Loose
  <1> QED BY <1>1, <1>4, <1>5, <1>6, <1>7, <1>8, SameHeld, NoLooser DEF TInv

(* The turn of a pull in doubt is given back once: by the job, unless its  *)
(* thread has been through in the meantime.                                *)
LEMMA GivesBackStep == ASSUME TInv, NEW i \in Items, CancelGivesBack(i) PROVE TInv'
  <1>1. /\ job[i] = "cancel" /\ job' = [job EXCEPT ![i] = "out"]
        /\ pull' = [p \in Pulls |->
                      IF p \in Awaits(i)
                      THEN [pull[p] EXCEPT !.turn = FALSE, !.awaited = FALSE]
                      ELSE pull[p]]
        /\ busy' = IF \E p \in Awaits(i) : pull[p].turn THEN busy - 1 ELSE busy
        /\ waiting' = waiting \ {i} /\ mishaps' = mishaps
    BY DEF CancelGivesBack, Ends
  <1>2. \A p \in Pulls :
          /\ pull'[p].item = pull[p].item /\ pull'[p].at = pull[p].at
          /\ pull'[p].turn = (pull[p].turn /\ p \notin Awaits(i))
          /\ pull'[p].awaited = (pull[p].awaited /\ pull[p].item # i)
    BY <1>1 DEF TInv, TurnType, PullType, Awaits
  <1>3. pull' \in [Pulls -> PullType] BY <1>1 DEF TInv, TurnType, PullType
  <1>4. job' \in [Items -> Places] BY <1>1 DEF TInv, TurnType, Places
  <1>5. PullsOK'
    BY <1>1, <1>2 DEF TInv, TurnType, PullsOK, Awaits
  <1>6. OneCall' BY <1>2 DEF TInv, OneCall
  <1>7. Loose' \subseteq Loose
    <2>1. Strays' \subseteq Strays \cup Doubtful
      BY <1>1, <1>2 DEF Strays, Doubtful, Awaits
    <2>2. \A p \in Pulls : pull'[p].awaited => job'[pull[p].item] = job[pull[p].item]
      BY <1>1, <1>2 DEF TInv, TurnType, PullsOK, Running
    <2>3. Doubtful' \subseteq Doubtful BY <1>2, <2>2 DEF Doubtful
    <2> QED BY <2>1, <2>3 DEF Loose
  <1>8. Counted' /\ busy' \in Nat
    <2>1. CASE \E p \in Awaits(i) : pull[p].turn
      <3>1. PICK p \in Pulls : pull[p].item = i /\ pull[p].awaited /\ pull[p].turn
        BY <2>1 DEF Awaits
      <3>2. Awaits(i) = {p} BY <3>1 DEF Awaits, TInv, OneCall
      <3>3. Held' = Held \ {p} BY <1>2, <3>2 DEF Held
      <3> QED BY <1>1, <2>1, <3>1, <3>3, OneReturned
    <2>2. CASE ~ \E p \in Awaits(i) : pull[p].turn
      <3>1. Held' = Held BY <1>2, <2>2 DEF Held
      <3> QED BY <1>1, <2>2, <3>1, SameHeld
    <2> QED BY <2>1, <2>2
  <1>9. TurnType' BY <1>1, <1>3, <1>4, <1>8 DEF TInv, TurnType
  <1> QED BY <1>1, <1>5, <1>6, <1>7, <1>8, <1>9, NoLooser DEF TInv

(* A thread goes on, with or without its turn; it starts with one.         *)
LEMMA ThreadGoesOn ==
  ASSUME TInv, NEW p \in Pulls, ThreadLocks(p) \/ ThreadBusy(p) \/ Pulled(p)
  PROVE TInv'
  <1>1. /\ pull[p].at \in Running \/ (pull[p].at = "queued" /\ pull[p].turn)
        /\ \E s \in Running : pull' = [pull EXCEPT ![p].at = s]
        /\ job' = job /\ busy' = busy /\ waiting' = waiting
        /\ Mishap \/ UNCHANGED mishaps
    BY DEF ThreadLocks, ThreadBusy, Pulled, Running, jobvars
  <1>2. /\ pull'[p].at \in Running
        /\ \A q \in Pulls : /\ pull'[q].item = pull[q].item
                            /\ pull'[q].turn = pull[q].turn
                            /\ pull'[q].awaited = pull[q].awaited
                            /\ q # p => pull'[q].at = pull[q].at
    BY <1>1 DEF TInv, TurnType, PullType
  <1>3. pull' \in [Pulls -> PullType] BY <1>1 DEF TInv, TurnType, PullType
  <1>4. TurnType' BY <1>1, <1>3, MoreMishaps DEF TInv, TurnType
  <1>5. PullsOK' BY <1>1, <1>2 DEF TInv, PullsOK, Running
  <1>6. OneCall' BY <1>2 DEF TInv, OneCall
  <1>7. Held' = Held BY <1>2 DEF Held
  <1>8. Loose' \subseteq Loose
    <2>1. Strays' \subseteq Strays BY <1>1, <1>2 DEF Strays
    <2>2. Doubtful' = Doubtful BY <1>1, <1>2 DEF Doubtful
    <2> QED BY <2>1, <2>2 DEF Loose
  <1> QED BY <1>1, <1>4, <1>5, <1>6, <1>7, <1>8, SameHeld, NoLooser DEF TInv

(* A pull that is over gives back the turn it still has.                   *)
LEMMA PullOver ==
  ASSUME TInv, NEW p \in Pulls, Mishap \/ UNCHANGED mishaps, waiting' = waiting,
         pull' = [pull EXCEPT ![p] = Unused],
         busy' = IF pull[p].turn THEN busy - 1 ELSE busy,
         job' \in [Items -> Places],
         \A i \in Items : job'[i] # job[i] =>
           p \in Awaits(i) /\ job'[i] # "cancel"
  PROVE TInv'
  <1>1. /\ pull'[p].at = "unused" /\ ~pull'[p].turn /\ ~pull'[p].awaited
        /\ \A q \in Pulls \ {p} : pull'[q] = pull[q]
    BY DEF TInv, TurnType, Unused
  <1>2. pull' \in [Pulls -> PullType] BY DEF TInv, TurnType, PullType, Unused
  <1>3. \A q \in Pulls \ {p} : pull[q].awaited =>
          pull[q].item \in Items /\ job'[pull[q].item] = job[pull[q].item]
    BY DEF TInv, OneCall, PullsOK, Awaits
  <1>4. PullsOK'
    <2> SUFFICES ASSUME NEW q \in Pulls
                 PROVE /\ pull'[q].at = "unused" => ~pull'[q].turn /\ ~pull'[q].awaited
                       /\ pull'[q].at # "unused" => pull'[q].item \in Items
                       /\ pull'[q].at = "queued" /\ pull'[q].turn => pull'[q].awaited
                       /\ pull'[q].at \in Running /\ pull'[q].awaited => pull'[q].turn
                       /\ pull'[q].awaited => job'[pull'[q].item] \in Calling
      BY DEF PullsOK
    <2>1. CASE q = p BY <1>1, <2>1
    <2>2. CASE q # p BY <1>1, <1>3, <2>2 DEF TInv, PullsOK
    <2> QED BY <2>1, <2>2
  <1>5. OneCall' BY <1>1 DEF TInv, OneCall
  <1>6. Held' = Held \ {p} BY <1>1 DEF Held
  <1>7. Loose' \subseteq Loose
    <2>1. Strays' \subseteq Strays BY <1>1 DEF Strays, Running
    <2>2. Doubtful' \subseteq Doubtful BY <1>1, <1>3 DEF Doubtful
    <2> QED BY <2>1, <2>2 DEF Loose
  <1>8. Counted' /\ busy' \in Nat BY <1>6, OneReturned
  <1>9. TurnType' BY <1>2, <1>8, MoreMishaps DEF TInv, TurnType
  <1> QED BY <1>4, <1>5, <1>7, <1>8, <1>9, NoLooser DEF TInv

LEMMA ThreadReturns ==
  ASSUME TInv, NEW p \in Pulls,
         ThreadAbandons(p) \/ ThreadNotes(p) \/ ThreadAnswers(p)
  PROVE TInv'
  <1>1. CASE ThreadAbandons(p)
    <2>1. /\ ~pull[p].turn /\ pull' = [pull EXCEPT ![p] = Unused]
          /\ UNCHANGED <<job, busy, waiting, mishaps>>
      BY <1>1 DEF ThreadAbandons, jobvars
    <2> QED BY <2>1, PullOver DEF TInv, TurnType
  <1>2. ASSUME NEW r \in {"busy", "done"}, Returns(p, r), waiting' = waiting,
               Mishap \/ UNCHANGED mishaps
        PROVE TInv'
    <2>1. job' = [i \in Items |-> IF p \in Awaits(i) /\ job[i] = "run"
                                  THEN r ELSE job[i]]
      BY <1>2 DEF Returns
    <2>2. job' \in [Items -> Places] BY <2>1 DEF TInv, TurnType, Places
    <2>3. \A i \in Items : job'[i] # job[i] => p \in Awaits(i) /\ job'[i] # "cancel"
      BY <2>1
    <2> QED BY <1>2, <2>2, <2>3, PullOver DEF Returns
  <1>3. CASE ThreadNotes(p) BY <1>2, <1>3, NoteMishap DEF ThreadNotes
  <1>4. CASE ThreadAnswers(p) BY <1>2, <1>4, AnswerMishap DEF ThreadAnswers
  <1> QED BY <1>1, <1>3, <1>4

(* A killed worker's turns go with its jobs and threads.                   *)
LEMMA WorkerDiesStep == ASSUME TInv, WorkerDies PROVE TInv'
  <1>1. /\ job' = [i \in Items |-> IF job[i] = "out" THEN "out" ELSE "asks"]
        /\ pull' = [p \in Pulls |-> Unused]
        /\ busy' = 0 /\ waiting' = {} /\ Mishap
    BY DEF WorkerDies
  <1>2. \A p \in Pulls : pull'[p] = Unused BY <1>1
  <1>3. TurnType' BY <1>1, MoreMishaps DEF TInv, TurnType, Places, PullType, Unused
  <1>4. PullsOK' BY <1>2 DEF PullsOK, Unused, Running
  <1>5. OneCall' BY <1>2 DEF OneCall, Unused
  <1>6. Held' = {} /\ Loose' = {}
    BY <1>2 DEF Held, Loose, Strays, Doubtful, Unused, Running
  <1>7. Cardinality({}) = 0 BY FS_EmptySet
  <1>8. Counted' BY <1>1, <1>6, <1>7, CapacityAssumption DEF Counted
  <1>9. FewLoose' BY <1>1, <1>6, NoLooser
  <1> QED BY <1>3, <1>4, <1>5, <1>8, <1>9 DEF TInv

LEMMA NextTInv == TInv /\ [Next]_syncvars => TInv'
  <1> SUFFICES ASSUME TInv, [Next]_syncvars PROVE TInv' OBVIOUS
  <1>1. CASE \E f \in Fulls : StartFull(f) \/ FullStep(f) BY <1>1, FullStepTurns
  <1>2. CASE \E d \in Doors : DoorTakes(d) \/ DoorStep(d) BY <1>2, DoorStepTurns
  <1>3. CASE \E i \in Items : JobStep(i) \/ JobFaults(i)
    BY <1>3, TakeStep, JobMoves, CancelEarlyStep, CancelLateStep, GivesBackStep
       DEF JobStep, JobFaults
  <1>4. CASE \E p \in Pulls : ThreadStep(p)
    BY <1>4, ThreadGoesOn, ThreadReturns DEF ThreadStep
  <1>5. CASE WorkerDies BY <1>5, WorkerDiesStep
  <1>6. CASE UNCHANGED syncvars BY <1>6, Aside DEF syncvars
  <1> QED BY <1>1, <1>2, <1>3, <1>4, <1>5, <1>6 DEF Next

LEMMA TurnsFollow == ASSUME TInv PROVE TurnsAccounted
  <1>1. ASSUME NEW p \in Held
        PROVE \/ pull[p].at \in Running
              \/ pull[p].at = "queued" /\ \E i \in Items : p \in Awaits(i)
                                                       /\ job[i] \in {"run", "cancel"}
    <2>1. p \in Pulls /\ pull[p].turn BY DEF Held
    <2>2. pull[p].at \in Running \/ pull[p].at = "queued"
      BY <2>1 DEF TInv, TurnType, PullType, PullsOK
    <2>3. CASE pull[p].at = "queued"
      <3>1. /\ pull[p].item \in Items /\ p \in Awaits(pull[p].item)
            /\ job[pull[p].item] \in {"run", "cancel"}
        BY <2>1, <2>3 DEF TInv, PullsOK, Awaits, Calling
      <3> QED BY <2>3, <3>1
    <2> QED BY <2>2, <2>3
  <1>2. \A p \in Strays : ~pull[p].awaited BY DEF TInv, PullsOK, Strays
  <1>3. Cardinality(Strays) <= mishaps
    <2>1. Loose \in SUBSET Pulls /\ Strays \in SUBSET Loose
      BY DEF Loose, Strays, Doubtful
    <2>2. Cardinality(Loose) \in Nat /\ Cardinality(Strays) \in Nat
          /\ Cardinality(Strays) <= Cardinality(Loose)
      BY <2>1, CountPart
    <2> QED BY <2>2 DEF TInv, TurnType, FewLoose
  <1> QED BY <1>1, <1>2, <1>3 DEF TurnsAccounted, TInv, Counted

(* Every turn of the worker's queue of first pulls will be given back,     *)
(* once, by a pull at work or the job that awaits it, and pulls work       *)
(* without a turn only for jobs cancelled as they started, no more than    *)
(* there were mishaps, however many Items wait and whoever is cancelled or *)
(* killed.                                                                 *)
THEOREM TurnsKept == Spec => []TurnsAccounted
  <1>1. TInv => TurnsAccounted BY TurnsFollow
  <1> QED BY <1>1, InitTInv, NextTInv, PTL DEF Spec

----------------------------------------------------------------------------
(* The nudge. *)

NudgeInv ==
  /\ nudge \in BOOLEAN /\ owed \in BOOLEAN /\ queued \in BOOLEAN
  /\ full \in [Fulls -> {"idle", "note", "clear", "begin", "pass", "begin2",
                         "pass2", "after"}]
  /\ door \in [Doors -> {"idle", "holds", "answer"}]
  /\ NudgeStands

LEMMA InitNudge == Init => NudgeInv
  <1> SUFFICES ASSUME Init PROVE NudgeInv OBVIOUS
  <1>1. /\ nudge = FALSE /\ owed = FALSE /\ queued = FALSE
        /\ full = [f \in Fulls |-> "idle"] /\ door = [d \in Doors |-> "idle"]
    BY DEF Init
  <1> QED BY <1>1 DEF NudgeInv, NudgeStands

(* Whoever was to answer still is.                                         *)
LEMMA StillCovered ==
  ASSUME NudgeStands, nudge' = nudge, owed' = owed,
         PassToCome => PassToCome', NoteToCome => NoteToCome',
         LookToCome => LookToCome'
  PROVE NudgeStands'
  BY DEF NudgeStands, Covered

LEMMA LeftStands == ASSUME LeftToSweep PROVE NudgeStands'
  BY DEF LeftToSweep, NudgeStands

(* A note consumed is a full sync queued; the other ways leave it to the   *)
(* sweep.                                                                  *)
LEMMA Answered ==
  ASSUME NudgeStands, nudge \in BOOLEAN, queued \in BOOLEAN, Answer, full' = full,
         NoteToCome => NoteToCome'
  PROVE NudgeStands' /\ nudge' \in BOOLEAN /\ queued' \in BOOLEAN
        /\ (owed' = owed \/ owed' \in BOOLEAN)
  <1>1. CASE nudge' = FALSE /\ queued' = (queued \/ nudge) /\ owed' = owed
    <2>1. PassToCome \/ nudge => PassToCome' BY <1>1 DEF PassToCome
    <2>2. NudgeStands' BY <1>1, <2>1 DEF NudgeStands, Covered
    <2> QED BY <1>1, <2>2
  <1>2. CASE nudge' \in BOOLEAN /\ queued' = queued /\ LeftToSweep
    BY <1>2, LeftStands DEF LeftToSweep
  <1> QED BY <1>1, <1>2 DEF Answer

LEMMA FullNudge ==
  ASSUME NudgeInv, NEW f \in Fulls, StartFull(f) \/ FullStep(f)
  PROVE NudgeInv'
  <1>1. CASE StartFull(f)
    <2>1. CASE full' = [full EXCEPT ![f] = "clear"]
      <3>1. PassToCome' BY <2>1 DEF NudgeInv, PassToCome
      <3> QED BY <1>1, <2>1, <3>1 DEF NudgeInv, NudgeStands, Covered, StartFull
    <2>2. CASE full' = [full EXCEPT ![f] = "note"]
      <3>1. NoteToCome' BY <2>2 DEF NudgeInv, NoteToCome
      <3> QED BY <1>1, <2>2, <3>1 DEF NudgeInv, NudgeStands, Covered, StartFull
    <2> QED BY <1>1, <2>1, <2>2 DEF StartFull
  <1>2. CASE NoteFull(f)
    BY <1>2, LeftStands DEF NudgeInv, NoteFull, Note, LeftToSweep
  <1>3. CASE ClearNudge(f)
    <2>1. PassToCome' BY <1>3 DEF NudgeInv, PassToCome, ClearNudge
    <2> QED BY <1>3, <2>1 DEF NudgeInv, NudgeStands, Covered, ClearNudge
  <1>4. CASE BeginPass(f) BY <1>4 DEF NudgeInv, NudgeStands, BeginPass
  <1>5. CASE EndPass(f)
    <2>1. CASE full[f] = "pass" /\ nudge
      <3>1. PassToCome' BY <1>5, <2>1 DEF NudgeInv, PassToCome, EndPass
      <3> QED BY <1>5, <3>1 DEF NudgeInv, NudgeStands, Covered, EndPass
    <2>2. CASE full[f] = "pass2" \/ ~nudge
      <3>1. /\ full' = [full EXCEPT ![f] = "after"] /\ nudge' = nudge
            /\ UNCHANGED <<owed, queued, door, pull>>
            /\ full[f] = "pass2" \/ ~nudge
            /\ full[f] \in {"pass", "pass2"}
        BY <1>5, <2>2 DEF NudgeInv, EndPass, turnvars
      <3>2. /\ (PassToCome => PassToCome') /\ (NoteToCome => NoteToCome')
            /\ (nudge /\ LookToCome => LookToCome')
        BY <3>1 DEF NudgeInv, PassToCome, NoteToCome, LookToCome
      <3> QED BY <3>1, <3>2 DEF NudgeInv, NudgeStands, Covered
    <2> QED BY <1>5, <2>1, <2>2 DEF EndPass
  <1>6. CASE PassRaises(f)
    BY <1>6, LeftStands DEF NudgeInv, PassRaises, LeftToSweep
  <1>7. CASE EndFull(f)
    <2>1. /\ full[f] = "after" /\ full' = [full EXCEPT ![f] = "idle"]
          /\ UNCHANGED <<nudge, owed, queued, door, pull>>
      BY <1>7 DEF EndFull, turnvars
    <2>2. /\ (PassToCome => PassToCome') /\ (NoteToCome => NoteToCome')
          /\ (LookToCome => LookToCome')
      BY <2>1 DEF NudgeInv, PassToCome, NoteToCome, LookToCome
    <2> QED BY <2>1, <2>2, StillCovered DEF NudgeInv
  <1> QED BY <1>1, <1>2, <1>3, <1>4, <1>5, <1>6, <1>7 DEF FullStep

LEMMA DoorNudge ==
  ASSUME NudgeInv, NEW d \in Doors, DoorTakes(d) \/ DoorStep(d)
  PROVE NudgeInv'
  <1>1. CASE DoorTakes(d) \/ DoorLetsGo(d)
    <2>1. /\ \E s \in {"holds", "answer"} : door' = [door EXCEPT ![d] = s]
          /\ UNCHANGED <<nudge, owed, queued, full, pull>>
      BY <1>1 DEF DoorTakes, DoorLetsGo, turnvars
    <2>2. /\ (PassToCome => PassToCome') /\ (NoteToCome => NoteToCome')
          /\ (LookToCome => LookToCome')
      BY <2>1 DEF NudgeInv, PassToCome, NoteToCome, LookToCome
    <2> QED BY <2>1, <2>2, StillCovered DEF NudgeInv
  <1>2. CASE DoorAnswers(d)
    <2>1. /\ Answer /\ door' = [door EXCEPT ![d] = "idle"]
          /\ UNCHANGED <<full, pull>>
      BY <1>2 DEF DoorAnswers, turnvars
    <2>2. NoteToCome => NoteToCome' BY <2>1 DEF NoteToCome
    <2> QED BY <2>1, <2>2, Answered DEF NudgeInv
  <1> QED BY <1>1, <1>2 DEF DoorStep

(* A thread's place moves on and with it what it is to do.                 *)
LEMMA ThreadNudge ==
  ASSUME NudgeInv, TInv, NEW p \in Pulls, ThreadStep(p)
  PROVE NudgeInv'
  <1> USE DEF TInv, TurnType, PullType, Running
  <1>1. CASE ThreadAbandons(p) \/ ThreadLocks(p) \/ Pulled(p)
    <2>1. /\ UNCHANGED <<nudge, owed, queued, full, door>>
          /\ \A q \in Pulls \ {p} : pull'[q] = pull[q]
          /\ pull[p].at \in {"queued", "pull"}
          /\ pull[p].at = "pull" => pull'[p].at = "answer"
      BY <1>1 DEF ThreadAbandons, ThreadLocks, Pulled, lockvars
    <2>2. /\ (PassToCome => PassToCome') /\ (NoteToCome => NoteToCome')
          /\ (LookToCome => LookToCome')
      BY <2>1 DEF PassToCome, NoteToCome, LookToCome
    <2> QED BY <2>1, <2>2, StillCovered DEF NudgeInv
  <1>2. CASE ThreadBusy(p)
    <2>1. NoteToCome' BY <1>2 DEF ThreadBusy, NoteToCome
    <2> QED BY <1>2, <2>1 DEF ThreadBusy, NudgeInv, NudgeStands, Covered
  <1>3. CASE ThreadNotes(p)
    BY <1>3, LeftStands DEF ThreadNotes, NudgeInv, Note, LeftToSweep
  <1>4. CASE ThreadAnswers(p)
    <2>1. /\ Answer /\ UNCHANGED <<full, door>> /\ pull[p].at = "answer"
          /\ \A q \in Pulls \ {p} : pull'[q] = pull[q]
      BY <1>4 DEF ThreadAnswers, Returns
    <2>2. NoteToCome => NoteToCome' BY <2>1 DEF NoteToCome
    <2> QED BY <2>1, <2>2, Answered DEF NudgeInv
  <1> QED BY <1>1, <1>2, <1>3, <1>4 DEF ThreadStep

(* A job's steps leave its pull where it is, or call it.                   *)
LEMMA JobNudge ==
  ASSUME NudgeInv, TInv, NEW i \in Items, JobStep(i) \/ JobFaults(i)
  PROVE NudgeInv'
  <1>1. UNCHANGED <<nudge, owed, queued, full, door>>
    BY DEF JobStep, JobFaults, Take, Wait, Retry, Done, CancelGivesBack, Prune,
           GiveUpWaiting, CancelEarly, CancelLate, lockvars
  <1>2. \A p \in Pulls : pull'[p].at = pull[p].at \/ pull[p].at = "unused"
    <2>1. CASE Take(i)
      <3>1. NextCall \in Pulls /\ pull[NextCall].at = "unused"
        BY <2>1 DEF Take, NextCall
      <3>2. \A p \in Pulls \ {NextCall} : pull'[p] = pull[p]
        BY <2>1 DEF Take, TInv, TurnType
      <3> QED BY <3>1, <3>2
    <2>2. CASE CancelLate(i) \/ CancelGivesBack(i)
      <3>1. \/ pull' = [p \in Pulls |-> IF p \in Awaits(i)
                                      THEN [pull[p] EXCEPT !.awaited = FALSE]
                                      ELSE pull[p]]
            \/ pull' = [p \in Pulls |->
                          IF p \in Awaits(i)
                          THEN [pull[p] EXCEPT !.turn = FALSE, !.awaited = FALSE]
                          ELSE pull[p]]
        BY <2>2 DEF CancelLate, CancelGivesBack
      <3>2. \A p \in Pulls : pull[p] \in PullType BY DEF TInv, TurnType
      <3> QED BY <3>1, <3>2 DEF PullType
    <2>3. CASE Wait(i) \/ Retry(i) \/ Done(i) \/ Prune(i) \/ GiveUpWaiting(i)
               \/ CancelEarly(i)
      BY <2>3 DEF Wait, Retry, Done, Prune, GiveUpWaiting, CancelEarly, turnvars
    <2> QED BY <2>1, <2>2, <2>3 DEF JobStep, JobFaults
  <1>3. /\ (PassToCome => PassToCome') /\ (NoteToCome => NoteToCome')
        /\ (LookToCome => LookToCome')
    BY <1>1, <1>2 DEF PassToCome, NoteToCome, LookToCome
  <1> QED BY <1>1, <1>3, StillCovered DEF NudgeInv

LEMMA NextNudge == NudgeInv /\ TInv /\ [Next]_syncvars => NudgeInv'
  <1> SUFFICES ASSUME NudgeInv, TInv, [Next]_syncvars PROVE NudgeInv' OBVIOUS
  <1>1. CASE \E f \in Fulls : StartFull(f) \/ FullStep(f) BY <1>1, FullNudge
  <1>2. CASE \E d \in Doors : DoorTakes(d) \/ DoorStep(d) BY <1>2, DoorNudge
  <1>3. CASE \E i \in Items : JobStep(i) \/ JobFaults(i) BY <1>3, JobNudge
  <1>4. CASE \E p \in Pulls : ThreadStep(p) BY <1>4, ThreadNudge
  <1>5. CASE WorkerDies
    BY <1>5, LeftStands DEF NudgeInv, WorkerDies, LeftToSweep
  <1>6. CASE UNCHANGED syncvars
    BY <1>6 DEF syncvars, lockvars, turnvars, NudgeInv, NudgeStands, Covered,
       PassToCome, NoteToCome, LookToCome
  <1> QED BY <1>1, <1>2, <1>3, <1>4, <1>5, <1>6 DEF Next

(* A sync that found the lock taken is covered: by a full sync that has    *)
(* yet to read the Items, a note on its way, or a note and somebody who    *)
(* will look for it, however the holders, the doors and the first pulls    *)
(* follow one another, until a fault or a late note leaves it to the       *)
(* hourly sweep.                                                           *)
THEOREM NudgeKept == Spec => []NudgeStands
  <1>1. TInv /\ NudgeInv => NudgeStands BY DEF NudgeInv
  <1>2. Init => TInv /\ NudgeInv BY InitTInv, InitNudge
  <1>3. TInv /\ NudgeInv /\ [Next]_syncvars => (TInv /\ NudgeInv)'
    BY NextTInv, NextNudge
  <1> QED BY <1>1, <1>2, <1>3, PTL DEF Spec

----------------------------------------------------------------------------
(* The line of the jobs. *)

(* Each job has one place, from when it is queued until it ends.           *)
InLine(l, i) == \E n \in 1..Len(l) : l[n] = i

LineOf(l, jobs) ==
  /\ l \in Seq(Items)
  /\ \A m, n \in 1..Len(l) : l[m] = l[n] => m = n
  /\ \A i \in Items : jobs[i] # "out" <=> InLine(l, i)

LineOK == LineOf(line, job)

(* What is asked for joins the line once.                                  *)
LEMMA SetToSeqIs ==
  ASSUME NEW S \in SUBSET Items
  PROVE  /\ SetToSeq(S) \in Seq(S)
         /\ \A m, n \in 1..Len(SetToSeq(S)) : SetToSeq(S)[m] = SetToSeq(S)[n] => m = n
         /\ \A i \in S : InLine(SetToSeq(S), i)
  <1> DEFINE N == Cardinality(S)
             q == SetToSeq(S)
  <1>1. IsFiniteSet(S) /\ N \in Nat /\ ExistsBijection(1..N, S)
    BY SetsFinite, FS_Subset, FS_CardinalityType
  <1>2. \E f \in [1..N -> S] : IsInjective(f)
    BY <1>1 DEF ExistsBijection, Bijection, Injection
  <1>3. q \in [1..N -> S] /\ IsInjective(q) BY <1>2 DEF SetToSeq
  <1> HIDE DEF q
  <1>4. Cardinality(1..N) = N
    <2>1. 1 \in Int /\ N \in Int BY <1>1
    <2>2. Cardinality(1..N) = IF 1 > N THEN 0 ELSE N - 1 + 1
      BY <2>1, FS_Interval
    <2> HIDE DEF N
    <2> QED BY <1>1, <2>2
  <1>5. q \in Surjection(1..N, S)
    <2>1. q \in Injection(1..N, S) BY <1>3 DEF Injection
    <2> QED BY <1>1, <1>4, <2>1, FS_Injection
  <1> HIDE DEF N
  <1>6. q \in Seq(S) /\ Len(q) = N BY <1>1, <1>3
  <1>7. \A m, n \in 1..Len(q) : q[m] = q[n] => m = n BY <1>3, <1>6 DEF IsInjective
  <1>8. \A i \in S : InLine(q, i) BY <1>5, <1>6 DEF Surjection, InLine
  <1> QED BY <1>6, <1>7, <1>8 DEF q

LEMMA JoinLine ==
  ASSUME LineOK, TInv, NEW S \in SUBSET Items, QueueFirst(S)
  PROVE LineOK'
  <1> DEFINE U == Unasked(S)
             q == SetToSeq(U)
  <1>1. line' = line \o q
        /\ job' = [i \in Items |-> IF i \in U THEN "asks" ELSE job[i]]
    BY DEF QueueFirst
  <1>2. U \subseteq Items /\ \A i \in U : job[i] = "out" BY DEF Unasked
  <1> HIDE DEF U
  <1>3. /\ q \in Seq(U)
        /\ \A m, n \in 1..Len(q) : q[m] = q[n] => m = n
        /\ \A i \in U : InLine(q, i)
    BY <1>2, SetToSeqIs
  <1> HIDE DEF q
  <1>4. /\ line \in Seq(Items) /\ Len(line) \in Nat
        /\ \A m, n \in 1..Len(line) : line[m] = line[n] => m = n
        /\ \A i \in Items : job[i] # "out" <=> InLine(line, i)
    BY DEF LineOK, LineOf
  <1>5. /\ line' \in Seq(Items) /\ Len(q) \in Nat
        /\ Len(line') = Len(line) + Len(q)
        /\ \A n \in 1..Len(line) : line'[n] = line[n] /\ line[n] \in Items
        /\ \A n \in 1..Len(q) : line'[Len(line) + n] = q[n] /\ q[n] \in U
    <2>1. q \in Seq(Items) BY <1>2, <1>3
    <2> QED BY <1>1, <1>3, <1>4, <2>1
  <1>6. \A n \in 1..Len(line') :
          \/ n \in 1..Len(line)
          \/ n - Len(line) \in 1..Len(q) /\ line'[n] = q[n - Len(line)]
    BY <1>4, <1>5
  <1>7. \A i \in Items : InLine(line', i) <=> InLine(line, i) \/ i \in U
    <2> SUFFICES ASSUME NEW i \in Items
                 PROVE InLine(line', i) <=> InLine(line, i) \/ i \in U
      OBVIOUS
    <2>1. InLine(line', i) => InLine(line, i) \/ i \in U
      BY <1>5, <1>6 DEF InLine
    <2>2. InLine(line, i) => InLine(line', i) BY <1>4, <1>5 DEF InLine
    <2>3. ASSUME i \in U PROVE InLine(line', i)
      <3>1. PICK n \in 1..Len(q) : q[n] = i BY <1>3, <2>3 DEF InLine
      <3>2. Len(line) + n \in 1..Len(line') BY <1>4, <1>5
      <3> QED BY <1>5, <3>1, <3>2 DEF InLine
    <2> QED BY <2>1, <2>2, <2>3
  <1>8. ASSUME NEW m \in 1..Len(line'), NEW n \in 1..Len(line'), line'[m] = line'[n]
        PROVE m = n
    <2>1. \A k \in 1..Len(line) : line[k] \notin U
      BY <1>2, <1>4, <1>5 DEF InLine
    <2>2. CASE m \in 1..Len(line)
      <3>1. n \in 1..Len(line) BY <1>5, <1>6, <1>8, <2>1, <2>2
      <3> QED BY <1>4, <1>5, <1>8, <2>2, <3>1
    <2>3. CASE m \notin 1..Len(line)
      <3>1. n \notin 1..Len(line) BY <1>5, <1>6, <1>8, <2>1, <2>3
      <3>2. m - Len(line) = n - Len(line) BY <1>3, <1>6, <1>8, <2>3, <3>1
      <3> QED BY <1>4, <1>5, <3>2
    <2> QED BY <2>2, <2>3
  <1>9. \A i \in Items : job'[i] # "out" <=> job[i] # "out" \/ i \in U BY <1>1
  <1> QED BY <1>4, <1>5, <1>7, <1>8, <1>9 DEF LineOK, LineOf

LEMMA RemoveAtIs ==
  ASSUME NEW l \in Seq(Items), NEW p \in 1..Len(l)
  PROVE  /\ RemoveAt(l, p) \in Seq(Items) /\ Len(RemoveAt(l, p)) = Len(l) - 1
         /\ \A n \in 1..(Len(l) - 1) :
              RemoveAt(l, p)[n] = IF n < p THEN l[n] ELSE l[n + 1]
  <1> DEFINE a == SubSeq(l, 1, p - 1)
             b == SubSeq(l, p + 1, Len(l))
  <1>1. /\ a \in Seq(Items) /\ Len(a) = p - 1
        /\ \A n \in 1..(p - 1) : a[n] = l[n]
    OBVIOUS
  <1>2. /\ b \in Seq(Items) /\ Len(b) = Len(l) - p
        /\ \A n \in 1..(Len(l) - p) : b[n] = l[p + n]
    OBVIOUS
  <1>3. RemoveAt(l, p) = a \o b BY DEF RemoveAt
  <1> HIDE DEF a, b
  <1>4. p \in Nat /\ Len(l) \in Nat /\ 1 <= p /\ p <= Len(l) OBVIOUS
  <1>5. a \o b \in Seq(Items) /\ Len(a \o b) = Len(l) - 1
    <2>1. a \in Seq(Items) /\ b \in Seq(Items) BY <1>1, <1>2
    <2>2. Len(a \o b) = Len(a) + Len(b) /\ a \o b \in Seq(Items) BY <2>1
    <2>3. Len(a) + Len(b) = Len(l) - 1 BY <1>1, <1>2, <1>4
    <2> QED BY <2>2, <2>3
  <1>6. ASSUME NEW n \in 1..(Len(l) - 1)
        PROVE (a \o b)[n] = IF n < p THEN l[n] ELSE l[n + 1]
    <2>1. CASE n < p
      <3>1. n \in 1..(p - 1) BY <1>4, <2>1
      <3>2. (a \o b)[n] = a[n] BY <1>1, <1>2, <3>1
      <3> QED BY <1>1, <2>1, <3>1, <3>2
    <2>2. CASE ~(n < p)
      <3>1. n - (p - 1) \in 1..(Len(l) - p) /\ p + (n - (p - 1)) = n + 1
        BY <1>4, <2>2
      <3>2. (a \o b)[n] = b[n - (p - 1)] BY <1>1, <1>2, <1>4, <2>2
      <3> QED BY <1>2, <2>2, <3>1, <3>2
    <2> QED BY <2>1, <2>2
  <1> QED BY <1>3, <1>5, <1>6

LEMMA LeaveLine ==
  ASSUME LineOK, TInv, NEW i \in Items, job[i] # "out", Ends(i)
  PROVE LineOK'
  <1> DEFINE p == Place(i)
  <1>1. /\ line \in Seq(Items) /\ Len(line) \in Nat
        /\ \A m, n \in 1..Len(line) : line[m] = line[n] => m = n
        /\ \A j \in Items : job[j] # "out" <=> InLine(line, j)
    BY DEF LineOK, LineOf
  <1>2. p \in 1..Len(line) /\ line[p] = i BY <1>1 DEF InLine, Place
  <1>3. line' = RemoveAt(line, p) /\ job' = [job EXCEPT ![i] = "out"] BY DEF Ends
  <1> HIDE DEF p
  <1>4. /\ line' \in Seq(Items) /\ Len(line') = Len(line) - 1
        /\ \A n \in 1..(Len(line) - 1) :
             line'[n] = IF n < p THEN line[n] ELSE line[n + 1]
    BY <1>1, <1>2, <1>3, RemoveAtIs
  <1>5. \A m, n \in 1..Len(line') : line'[m] = line'[n] => m = n
    BY <1>1, <1>2, <1>4
  <1>6. ASSUME NEW j \in Items
        PROVE InLine(line', j) <=> InLine(line, j) /\ j # i
    <2>1. ASSUME NEW n \in 1..Len(line'), line'[n] = j
          PROVE InLine(line, j) /\ j # i
      <3> DEFINE m == IF n < p THEN n ELSE n + 1
      <3>1. m \in 1..Len(line) /\ m # p /\ line[m] = j BY <1>1, <1>2, <1>4, <2>1
      <3> QED BY <1>1, <1>2, <3>1 DEF InLine
    <2>2. ASSUME NEW n \in 1..Len(line), line[n] = j, j # i PROVE InLine(line', j)
      <3>1. n # p BY <1>2, <2>2
      <3>2. CASE n < p
        <4>1. n \in 1..(Len(line) - 1) BY <1>1, <1>2, <3>2
        <4> QED BY <1>4, <2>2, <3>2, <4>1 DEF InLine
      <3>3. CASE p < n
        <4>1. n - 1 \in 1..(Len(line) - 1) /\ ~(n - 1 < p) /\ (n - 1) + 1 = n
          BY <1>1, <1>2, <3>3
        <4>2. line'[n - 1] = j BY <1>4, <2>2, <4>1
        <4> QED BY <1>4, <4>1, <4>2 DEF InLine
      <3> QED BY <1>1, <1>2, <3>1, <3>2, <3>3
    <2> QED BY <2>1, <2>2 DEF InLine
  <1>7. \A j \in Items : job'[j] # "out" <=> job[j] # "out" /\ j # i
    BY <1>3 DEF TInv, TurnType
  <1> QED BY <1>1, <1>4, <1>5, <1>6, <1>7 DEF LineOK, LineOf

(* The other steps end no job and start none.                              *)
LEMMA LineAside ==
  ASSUME LineOK, line' = line,
         \A i \in Items : job'[i] # "out" <=> job[i] # "out"
  PROVE LineOK'
  BY DEF LineOK, LineOf

LEMMA NextLine ==
  ASSUME LineOK, TInv, [Next]_syncvars
  PROVE LineOK'
  <1>1. CASE \E f \in Fulls : StartFull(f) \/ FullStep(f)
    <2>1. PICK f \in Fulls : StartFull(f) \/ FullStep(f) BY <1>1
    <2>2. CASE BeginPass(f) BY <2>2, JoinLine DEF BeginPass
    <2>3. CASE StartFull(f) \/ NoteFull(f) \/ ClearNudge(f) \/ EndPass(f)
               \/ PassRaises(f) \/ EndFull(f)
      BY <2>3, LineAside DEF StartFull, NoteFull, ClearNudge, EndPass, PassRaises,
         EndFull, jobvars
    <2> QED BY <2>1, <2>2, <2>3 DEF FullStep
  <1>2. CASE \E d \in Doors : DoorTakes(d) \/ DoorStep(d)
    <2>1. PICK d \in Doors : DoorTakes(d) \/ DoorStep(d) BY <1>2
    <2>2. CASE DoorLetsGo(d)
      <3>1. PICK S \in SUBSET (Items \ pulled) : QueueFirst(S) BY <2>2 DEF DoorLetsGo
      <3> QED BY <3>1, JoinLine
    <2>3. CASE DoorTakes(d) \/ DoorAnswers(d)
      BY <2>3, LineAside DEF DoorTakes, DoorAnswers, jobvars
    <2> QED BY <2>1, <2>2, <2>3 DEF DoorStep
  <1>3. CASE \E i \in Items : JobStep(i) \/ JobFaults(i)
    <2>1. PICK i \in Items : JobStep(i) \/ JobFaults(i) BY <1>3
    <2>2. CASE Done(i) \/ GiveUpWaiting(i) \/ CancelLate(i) \/ CancelGivesBack(i)
      BY <2>2, LeaveLine DEF Done, GiveUpWaiting, CancelLate, CancelGivesBack
    <2>3. CASE Take(i) \/ Retry(i) \/ CancelEarly(i)
      <3>1. /\ line' = line /\ job[i] # "out"
            /\ \E s \in {"run", "asks", "cancel"} : job' = [job EXCEPT ![i] = s]
        BY <2>3 DEF Take, Retry, CancelEarly
      <3> QED BY <3>1, LineAside DEF TInv, TurnType
    <2>4. CASE Wait(i) \/ Prune(i)
      BY <2>4, LineAside DEF Wait, Prune, jobvars
    <2> QED BY <2>1, <2>2, <2>3, <2>4 DEF JobStep, JobFaults
  <1>4. CASE \E p \in Pulls : ThreadStep(p)
    <2>1. PICK p \in Pulls : ThreadStep(p) BY <1>4
    <2>2. CASE ThreadAbandons(p) \/ ThreadLocks(p) \/ ThreadBusy(p) \/ Pulled(p)
      BY <2>2, LineAside DEF ThreadAbandons, ThreadLocks, ThreadBusy, Pulled, jobvars
    <2>3. ASSUME NEW r \in {"busy", "done"}, Returns(p, r), line' = line
          PROVE LineOK'
      BY <2>3, LineAside DEF Returns
    <2>4. CASE ThreadNotes(p) \/ ThreadAnswers(p)
      BY <2>3, <2>4 DEF ThreadNotes, ThreadAnswers
    <2> QED BY <2>1, <2>2, <2>4 DEF ThreadStep
  <1>5. CASE WorkerDies
    BY <1>5, LineAside DEF WorkerDies
  <1>6. CASE UNCHANGED syncvars BY <1>6, LineAside DEF syncvars, jobvars
  <1> QED BY <1>1, <1>2, <1>3, <1>4, <1>5, <1>6 DEF Next

----------------------------------------------------------------------------
(* The type of the whole state. *)

RestOK ==
  /\ synclock \in Pulls \cup Fulls \cup Doors \cup {Nobody}
  /\ pulled \subseteq Items
  /\ tries \in [Items -> 0..MaxTries]
  /\ mishaps \in 0..MaxFaults

LEMMA Mishaps == ASSUME RestOK, Mishap PROVE mishaps' \in 0..MaxFaults
  BY SyncBounds DEF RestOK, Mishap

LEMMA FullRest ==
  ASSUME RestOK, NEW f \in Fulls, StartFull(f) \/ FullStep(f)
  PROVE RestOK'
  <1>1. /\ synclock' \in {synclock, f, Nobody}
        /\ UNCHANGED <<pulled, tries>> /\ (Mishap \/ UNCHANGED mishaps)
    BY NoteMishap DEF StartFull, FullStep, NoteFull, ClearNudge, BeginPass, EndPass,
       PassRaises, EndFull, jobvars
  <1> QED BY <1>1, Mishaps DEF RestOK

LEMMA DoorRest ==
  ASSUME RestOK, NEW d \in Doors, DoorTakes(d) \/ DoorStep(d)
  PROVE RestOK'
  <1>1. /\ synclock' \in {synclock, d, Nobody}
        /\ UNCHANGED <<pulled, tries>> /\ (Mishap \/ UNCHANGED mishaps)
    BY AnswerMishap DEF DoorTakes, DoorStep, DoorLetsGo, DoorAnswers, jobvars
  <1> QED BY <1>1, Mishaps DEF RestOK

LEMMA ThreadRest ==
  ASSUME RestOK, TInv, NEW p \in Pulls, ThreadStep(p)
  PROVE RestOK'
  <1>1. /\ synclock' \in {synclock, p, Nobody}
        /\ tries' = tries /\ (Mishap \/ UNCHANGED mishaps)
    BY AnswerMishap, NoteMishap
       DEF ThreadStep, ThreadAbandons, ThreadLocks, ThreadBusy, ThreadNotes, Pulled,
           ThreadAnswers, lockvars, jobvars
  <1>2. pulled' \subseteq Items
    <2>1. CASE Pulled(p)
      <3>1. pull[p].item \in Items BY <2>1 DEF Pulled, TInv, PullsOK
      <3> QED BY <2>1, <3>1 DEF Pulled, RestOK
    <2>2. CASE ~Pulled(p)
      BY <2>2 DEF ThreadStep, ThreadAbandons, ThreadLocks, ThreadBusy, ThreadNotes,
         ThreadAnswers, RestOK
    <2> QED BY <2>1, <2>2
  <1> QED BY <1>1, <1>2, Mishaps DEF RestOK

LEMMA JobRest ==
  ASSUME RestOK, NEW i \in Items, JobStep(i) \/ JobFaults(i)
  PROVE RestOK'
  <1>1. UNCHANGED <<synclock, pulled>> /\ (Mishap \/ UNCHANGED mishaps)
    BY DEF JobStep, JobFaults, Take, Wait, Retry, Done, CancelGivesBack, Prune,
           GiveUpWaiting, CancelEarly, CancelLate, lockvars
  <1>2. \/ tries' = tries
        \/ tries' = [tries EXCEPT ![i] = 0]
        \/ tries' = [tries EXCEPT ![i] = tries[i] + 1] /\ tries[i] + 1 < MaxTries
    BY DEF JobStep, JobFaults, Take, Wait, Retry, Done, CancelGivesBack, Prune,
           GiveUpWaiting, CancelEarly, CancelLate, Ends, jobvars
  <1>3. tries' \in [Items -> 0..MaxTries]
    BY <1>2, SyncBounds DEF RestOK
  <1> QED BY <1>1, <1>3, Mishaps DEF RestOK

LEMMA NextRest == ASSUME RestOK, TInv, [Next]_syncvars PROVE RestOK'
  <1>1. CASE \E f \in Fulls : StartFull(f) \/ FullStep(f) BY <1>1, FullRest
  <1>2. CASE \E d \in Doors : DoorTakes(d) \/ DoorStep(d) BY <1>2, DoorRest
  <1>3. CASE \E i \in Items : JobStep(i) \/ JobFaults(i) BY <1>3, JobRest
  <1>4. CASE \E p \in Pulls : ThreadStep(p) BY <1>4, ThreadRest
  <1>5. CASE WorkerDies
    <2>1. synclock' \in {synclock, Nobody} /\ UNCHANGED <<pulled, tries>> /\ Mishap
      BY <1>5 DEF WorkerDies
    <2> QED BY <2>1, Mishaps DEF RestOK
  <1>6. CASE UNCHANGED syncvars BY <1>6 DEF syncvars, lockvars, jobvars, RestOK
  <1> QED BY <1>1, <1>2, <1>3, <1>4, <1>5, <1>6 DEF Next

(* No more jobs stand in the line than there are Items.                    *)
LEMMA LineBound == ASSUME LineOK PROVE Len(line) <= Cardinality(Items)
  <1>1. line \in [1..Len(line) -> Items] /\ Len(line) \in Nat BY DEF LineOK, LineOf
  <1>2. line \in Injection(1..Len(line), Items)
    BY <1>1 DEF LineOK, LineOf, Injection, IsInjective
  <1>3. Cardinality(1..Len(line)) <= Cardinality(Items)
    BY <1>2, SetsFinite, FS_Injection
  <1>4. Cardinality(1..Len(line)) = Len(line)
    <2>1. 1 \in Int /\ Len(line) \in Int BY <1>1
    <2>2. Cardinality(1..Len(line)) = IF 1 > Len(line) THEN 0 ELSE Len(line) - 1 + 1
      BY <2>1, FS_Interval
    <2> QED BY <1>1, <2>2
  <1> QED BY <1>3, <1>4

SyncInv == TInv /\ NudgeInv /\ LineOK /\ RestOK

(* Every variable of the worker's syncs keeps its type; above all an Item  *)
(* has one job at most, so the line is never longer than the Items, and no *)
(* job counts more tries than it has.                                      *)
THEOREM SyncTypeCorrect == Spec => []TypeOK
  <1>1. Init => SyncInv
    <2> SUFFICES ASSUME Init PROVE SyncInv OBVIOUS
    <2>1. /\ synclock = Nobody /\ pulled = {} /\ line = <<>> /\ mishaps = 0
          /\ tries = [i \in Items |-> 0] /\ job = [i \in Items |-> "out"]
      BY DEF Init
    <2>2. RestOK BY <2>1, SyncBounds DEF RestOK
    <2>3. LineOK BY <2>1 DEF LineOK, LineOf, InLine
    <2> QED BY <2>2, <2>3, InitTInv, InitNudge DEF SyncInv
  <1>2. SyncInv /\ [Next]_syncvars => SyncInv'
    BY NextTInv, NextNudge, NextLine, NextRest DEF SyncInv
  <1>3. SyncInv => TypeOK
    BY LineBound DEF SyncInv, TInv, TurnType, Places, NudgeInv, LineOK, LineOf,
       RestOK, TypeOK
  <1> QED BY <1>1, <1>2, <1>3, PTL DEF Spec
==============================================================================
