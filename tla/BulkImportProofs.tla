-------------------------- MODULE BulkImportProofs --------------------------
(***************************************************************************)
(* What is proved of BulkImport, for any number of jobs, workers and files *)
(* and any number of faults: no file lands twice, a job that ended has no  *)
(* file left, a settled job keeps its outcome, no file starts on a         *)
(* standing from before its turn, and the locks are with those who work    *)
(* under them.                                                             *)
(*                                                                         *)
(* The first three need no lock.  A file once claimed is never pending     *)
(* again, and only a pending file is claimed: so a file has one import at  *)
(* most, whoever takes the job over.                                       *)
(***************************************************************************)
EXTENDS BulkTurn, TLAPS

JobStates == {"none", "gone"} \cup Live \cup Settled

(* Places with a file in hand.                                             *)
WithFile == Turn \cup {"skipFull", "wait", "lock", "busy", "settle"}

BulkType ==
  /\ job \in [Jobs -> JobType]
  /\ file \in [Jobs -> [Files -> FileType]]
  /\ landed \in [Jobs -> [Files -> Nat]]
  /\ pc \in [Workers -> {"idle"} \cup Running]
  /\ run \in [Workers -> RunType]

Importing == {"write", "commit"}

Begun(j, f) == job[j].st # "none" /\ file[j][f].st # "pending"

NonePending(j) == \A f \in Files : file[j][f].st # "pending"

(* What a worker has in hand.                                              *)
InHand(w) ==
  /\ pc[w] # "idle" => run[w].job \in Jobs /\ job[run[w].job].st # "none"
  /\ pc[w] \in WithFile => run[w].file \in Files
  /\ pc[w] \in Importing => /\ Begun(run[w].job, run[w].file)
                            /\ landed[run[w].job][run[w].file] = 0
  /\ pc[w] = "stopJob" => NonePending(run[w].job)
  /\ pc[w] = "finish" /\ run[w].fin \in {"done", "stopped"}
       => NonePending(run[w].job)
  /\ pc[w] \in {"skipRest", "finish"} => run[w].fin # "none"

(* One worker at most imports a file.                                      *)
Alone == \A v, w \in Workers :
  /\ pc[v] \in Importing /\ pc[w] \in Importing
  /\ run[v].job = run[w].job /\ run[v].file = run[w].file
  => v = w

Landed(j, f) == landed[j][f] = 0 \/ (landed[j][f] = 1 /\ Begun(j, f))

BulkInv ==
  /\ BulkType /\ Alone
  /\ \A w \in Workers : InHand(w)
  /\ \A j \in Jobs, f \in Files : Landed(j, f)
  /\ \A j \in Jobs : job[j].st \in {"done", "stopped"} => NonePending(j)

----------------------------------------------------------------------------
(* What a step does to the tables that concerns the invariant.             *)

JobMoves(j) ==
  /\ job[j].st # "none" => job'[j].st # "none"
  /\ job[j].st \in Settled => job'[j].st \in {job[j].st, "gone"}

FileMoves(j) ==
  job[j].st # "none" =>
    \A f \in Files : file[j][f].st # "pending" => file'[j][f].st # "pending"

EndsClean(j) == job'[j].st \in {"done", "stopped"} =>
                  \A f \in Files : file'[j][f].st # "pending"

TableStep ==
  /\ job' \in [Jobs -> JobType] /\ file' \in [Jobs -> [Files -> FileType]]
  /\ \A j \in Jobs : JobMoves(j) /\ FileMoves(j) /\ EndsClean(j)

(* One worker moves.                                                       *)
Moves(w) ==
  /\ pc' \in [Workers -> {"idle"} \cup Running]
  /\ run' \in [Workers -> RunType]
  /\ \A v \in Workers : v # w => pc'[v] = pc[v] /\ run'[v] = run[v]

(* The initial states.                                                     *)
LEMMA InitBulk == Init => BulkInv
  <1> SUFFICES ASSUME Init PROVE BulkInv OBVIOUS
  <1> USE BulkAssumption
  <1>1. job \in [Jobs -> JobType]
    BY DEF Init, Job, JobType
  <1>2. file \in [Jobs -> [Files -> FileType]]
    BY DEF Init, NoFile, FileType
  <1>3. run \in [Workers -> RunType]
    BY DEF Init, Idle, NotRead, RunType
  <1>4. BulkType BY <1>1, <1>2, <1>3 DEF Init, BulkType
  <1>5. \A w \in Workers : pc[w] = "idle" BY DEF Init
  <1>6. Alone BY <1>5 DEF Alone, Importing
  <1>7. \A w \in Workers : InHand(w)
    BY <1>5 DEF InHand, WithFile, Turn, Importing
  <1>8. \A j \in Jobs, f \in Files : Landed(j, f) BY DEF Init, Landed
  <1>9. \A j \in Jobs : job[j].st = "none" BY DEF Init, Job
  <1> QED BY <1>4, <1>6, <1>7, <1>8, <1>9 DEF BulkInv

(* A step of the tables alone keeps the invariant.                         *)
LEMMA DoorKeeps ==
  ASSUME BulkInv, TableStep, landed' = landed, pc' = pc, run' = run
  PROVE BulkInv'
  <1>1. BulkType' BY DEF BulkInv, BulkType, TableStep
  <1>2. Alone' BY DEF BulkInv, Alone
  <1>3. \A w \in Workers : InHand(w)'
    <2> SUFFICES ASSUME NEW w \in Workers PROVE InHand(w)' OBVIOUS
    <2>1. InHand(w) BY DEF BulkInv
    <2>2. CASE pc[w] = "idle"
      BY <2>2 DEF InHand, WithFile, Turn, Importing
    <2>3. CASE pc[w] # "idle"
      <3>1. run[w].job \in Jobs /\ job[run[w].job].st # "none"
        BY <2>1, <2>3 DEF InHand
      <3>2. JobMoves(run[w].job) /\ FileMoves(run[w].job)
        BY <3>1 DEF TableStep
      <3>3. Importing \subseteq WithFile
        BY DEF Importing, WithFile, Turn
      <3> QED BY <2>1, <2>3, <3>1, <3>2, <3>3
          DEF InHand, JobMoves, FileMoves, Begun, NonePending
    <2> QED BY <2>2, <2>3
  <1>4. \A j \in Jobs, f \in Files : Landed(j, f)'
    BY DEF BulkInv, TableStep, Landed, Begun, JobMoves, FileMoves
  <1>5. \A j \in Jobs : job'[j].st \in {"done", "stopped"} => NonePending(j)'
    BY DEF TableStep, EndsClean, NonePending
  <1> QED BY <1>1, <1>2, <1>3, <1>4, <1>5 DEF BulkInv

(* A step of one worker.  If it enters or stays in an import, the file has *)
(* begun, has not landed, and is in nobody else's hands; if it lands one,  *)
(* that was in nobody else's hands either.                                 *)
LEMMA StepKeeps ==
  ASSUME BulkInv, TableStep, NEW w \in Workers, Moves(w),
         landed' \in [Jobs -> [Files -> Nat]],
         \A j \in Jobs, f \in Files : Landed(j, f)',
         \A v \in Workers : v # w /\ pc[v] \in Importing
           => landed'[run[v].job][run[v].file] = 0,
         pc'[w] # "idle" => /\ run'[w].job \in Jobs
                            /\ job[run'[w].job].st # "none",
         pc'[w] \in WithFile => run'[w].file \in Files,
         pc'[w] \in Importing =>
           /\ file'[run'[w].job][run'[w].file].st # "pending"
           /\ landed'[run'[w].job][run'[w].file] = 0
           /\ \A v \in Workers : pc[v] \in Importing
                /\ run[v].job = run'[w].job /\ run[v].file = run'[w].file => v = w,
         pc'[w] = "stopJob" => NonePending(run[w].job)',
         pc'[w] = "finish" /\ run'[w].fin \in {"done", "stopped"}
           => NonePending(run[w].job)',
         pc'[w] \in {"skipRest", "finish"} => run'[w].fin # "none"
  PROVE BulkInv'
  <1>b. \A v \in Workers : v # w => pc'[v] = pc[v] /\ run'[v] = run[v]
    BY DEF Moves
  <1>c. /\ pc' \in [Workers -> {"idle"} \cup Running]
        /\ run' \in [Workers -> RunType]
    BY DEF Moves
  <1>1. BulkType' BY <1>c DEF BulkType, TableStep
  <1>d. Importing \subseteq WithFile /\ "idle" \notin WithFile
    BY DEF Importing, WithFile, Turn
  <1>2. Alone'
    <2> SUFFICES ASSUME NEW u \in Workers, NEW v \in Workers,
                        pc'[u] \in Importing, pc'[v] \in Importing,
                        run'[u].job = run'[v].job, run'[u].file = run'[v].file
                 PROVE u = v
      BY DEF Alone
    <2>1. CASE u # w /\ v # w BY <1>b, <2>1 DEF BulkInv, Alone
    <2>2. CASE u = w /\ v # w BY <1>b, <2>2
    <2>3. CASE u # w /\ v = w BY <1>b, <2>3
    <2> QED BY <2>1, <2>2, <2>3
  <1>3. \A v \in Workers : InHand(v)'
    <2> SUFFICES ASSUME NEW v \in Workers PROVE InHand(v)' OBVIOUS
    <2>1. InHand(v) BY DEF BulkInv
    <2>2. CASE pc'[v] = "idle"
      BY <2>2, <1>d DEF InHand
    <2>3. CASE pc'[v] # "idle"
      <3>1. run'[v].job \in Jobs /\ job[run'[v].job].st # "none"
        BY <2>1, <2>3, <1>b DEF InHand
      <3>2. JobMoves(run'[v].job) /\ FileMoves(run'[v].job)
        BY <3>1 DEF TableStep
      <3>3. job'[run'[v].job].st # "none" BY <3>1, <3>2 DEF JobMoves
      <3>4. CASE v # w
        BY <2>1, <3>1, <3>2, <3>3, <3>4, <1>b, <1>d
        DEF InHand, FileMoves, Begun, NonePending
      <3>5. CASE v = w
        <4>1. pc'[v] \in WithFile => run'[v].file \in Files BY <3>5
        <4>2. ASSUME pc'[v] \in Importing
              PROVE /\ Begun(run[v].job, run[v].file)'
                    /\ landed'[run'[v].job][run'[v].file] = 0
          BY <4>2, <3>3, <3>5 DEF Begun
        <4>3. pc'[v] = "stopJob" => NonePending(run[v].job)'
          BY <3>5
        <4>4. pc'[v] = "finish" /\ run'[v].fin \in {"done", "stopped"}
                => NonePending(run[v].job)'
          BY <3>5
        <4>5. pc'[v] \in {"skipRest", "finish"} => run'[v].fin # "none"
          BY <3>5
        <4> QED BY <3>1, <3>3, <4>1, <4>2, <4>3, <4>4, <4>5 DEF InHand
      <3> QED BY <3>4, <3>5
    <2> QED BY <2>2, <2>3
  <1>5. \A j \in Jobs : job'[j].st \in {"done", "stopped"} => NonePending(j)'
    BY DEF TableStep, EndsClean, NonePending
  <1> QED BY <1>1, <1>2, <1>3, <1>5 DEF BulkInv

(* What has landed stays so when nothing lands.                            *)
LEMMA NothingLands ==
  ASSUME BulkInv, TableStep, landed' = landed
  PROVE /\ landed' \in [Jobs -> [Files -> Nat]]
        /\ \A j \in Jobs, f \in Files : Landed(j, f)'
        /\ \A v \in Workers : pc[v] \in Importing
             => landed'[run[v].job][run[v].file] = 0
  <1>1. \A j \in Jobs, f \in Files : Landed(j, f)'
    BY DEF BulkInv, TableStep, Landed, Begun, JobMoves, FileMoves
  <1> QED BY <1>1 DEF BulkInv, BulkType, InHand

(* A step of one worker that neither begins, goes on with nor ends an      *)
(* import that lands.                                                      *)
LEMMA WorkerKeeps ==
  ASSUME BulkInv, TableStep, landed' = landed, NEW w \in Workers, Moves(w),
         pc'[w] # "idle" => /\ run'[w].job \in Jobs
                            /\ job[run'[w].job].st # "none",
         pc'[w] \in WithFile => run'[w].file \in Files,
         pc'[w] \notin Importing,
         pc'[w] = "stopJob" => NonePending(run[w].job)',
         pc'[w] = "finish" /\ run'[w].fin \in {"done", "stopped"}
           => NonePending(run[w].job)',
         pc'[w] \in {"skipRest", "finish"} => run'[w].fin # "none"
  PROVE BulkInv'
  BY NothingLands, StepKeeps

----------------------------------------------------------------------------
(* How statements change the tables.                                       *)

(* Nothing of them changes.                                                *)
LEMMA SameTable ==
  ASSUME BulkInv, job' = job, file' = file
  PROVE TableStep
  BY DEF BulkInv, BulkType, TableStep, JobMoves, FileMoves, EndsClean, NonePending

(* One job and its files change.                                           *)
LEMMA TableEdit ==
  ASSUME BulkInv, NEW j \in Jobs,
         job' \in [Jobs -> JobType], file' \in [Jobs -> [Files -> FileType]],
         \A k \in Jobs : k # j => job'[k] = job[k] /\ file'[k] = file[k],
         JobMoves(j), FileMoves(j), EndsClean(j)
  PROVE TableStep
  <1>1. \A k \in Jobs : k # j => JobMoves(k) /\ FileMoves(k) /\ EndsClean(k)
    BY DEF BulkInv, JobMoves, FileMoves, EndsClean, NonePending
  <1> QED BY <1>1 DEF TableStep

(* A new state of one job, which keeps an outcome and ends it with no file *)
(* left to run.                                                            *)
LEMMA JobEdit ==
  ASSUME BulkInv, NEW j \in Jobs, job' \in [Jobs -> JobType], file' = file,
         \A k \in Jobs : k # j => job'[k] = job[k],
         JobMoves(j),
         job'[j].st # job[j].st => \/ job'[j].st \notin {"done", "stopped"}
                                  \/ NonePending(j)
  PROVE TableStep
  <1>1. file' \in [Jobs -> [Files -> FileType]] BY DEF BulkInv, BulkType
  <1>2. FileMoves(j) BY DEF FileMoves
  <1>3. EndsClean(j) BY DEF BulkInv, EndsClean, NonePending
  <1> QED BY <1>1, <1>2, <1>3, TableEdit

(* Beaten touches the heartbeat alone.                                     *)
LEMMA BeatenJob ==
  ASSUME BulkType, NEW j \in Jobs
  PROVE /\ Beaten(j) \in [Jobs -> JobType]
        /\ \A k \in Jobs : Beaten(j)[k].st = job[k].st
        /\ \A k \in Jobs : k # j => Beaten(j)[k] = job[k]
  BY DEF BulkType, Beaten, JobType

(* Files are settled, all that were in one of some states.                 *)
LEMMA SettledTypes ==
  ASSUME BulkType, NEW j \in Jobs, NEW from, NEW to \in {"skipped", "failed"}
  PROVE /\ SettledFiles(j, from, to) \in [Jobs -> [Files -> FileType]]
        /\ \A k \in Jobs : k # j => SettledFiles(j, from, to)[k] = file[k]
        /\ \A f \in Files : SettledFiles(j, from, to)[j][f].st \in {to, file[j][f].st}
        /\ "pending" \in from => \A f \in Files :
              SettledFiles(j, from, to)[j][f].st # "pending"
  <1> DEFINE g == [f \in Files |->
                     IF file[j][f].st \in from THEN [st |-> to, data |-> FALSE]
                     ELSE file[j][f]]
  <1>0. /\ file \in [Jobs -> [Files -> FileType]] BY DEF BulkType
  <1>1. SettledFiles(j, from, to) = [file EXCEPT ![j] = g] BY DEF SettledFiles
  <1>2. [st |-> to, data |-> FALSE] \in FileType BY DEF FileType
  <1>3. g \in [Files -> FileType] BY <1>0, <1>2
  <1>4. \A f \in Files : g[f].st \in {to, file[j][f].st} OBVIOUS
  <1>5. "pending" \in from => \A f \in Files : g[f].st # "pending" OBVIOUS
  <1> HIDE DEF g
  <1>6. /\ SettledFiles(j, from, to) \in [Jobs -> [Files -> FileType]]
        /\ SettledFiles(j, from, to)[j] = g
        /\ \A k \in Jobs : k # j => SettledFiles(j, from, to)[k] = file[k]
    BY <1>0, <1>1, <1>3
  <1> QED BY <1>4, <1>5, <1>6

(* One file is written, if the job is still there.                         *)
LEMMA FileEdit ==
  ASSUME BulkType, NEW j \in Jobs, NEW f \in Files, NEW x \in FileType,
         \/ file' = file
         \/ file' = [file EXCEPT ![j][f] = x]
  PROVE /\ file' \in [Jobs -> [Files -> FileType]]
        /\ \A k \in Jobs : k # j => file'[k] = file[k]
        /\ \A g \in Files : file'[j][g].st \in {x.st, file[j][g].st}
  <1> DEFINE h == [file[j] EXCEPT ![f] = x]
  <1>1. file \in [Jobs -> [Files -> FileType]] BY DEF BulkType
  <1>2. h \in [Files -> FileType] /\ \A g \in Files : h[g] \in {x, file[j][g]}
    BY <1>1
  <1>3. CASE file' = file BY <1>1, <1>3
  <1>4. CASE file' = [file EXCEPT ![j][f] = x]
    <2>1. file' = [file EXCEPT ![j] = h] BY <1>4
    <2> HIDE DEF h
    <2>2. file' \in [Jobs -> [Files -> FileType]] /\ file'[j] = h
      BY <1>1, <1>2, <2>1
    <2>3. \A k \in Jobs : k # j => file'[k] = file[k] BY <1>1, <2>1
    <2>4. \A g \in Files : h[g].st \in {x.st, file[j][g].st} BY <1>2
    <2> QED BY <2>2, <2>3, <2>4
  <1> QED BY <1>3, <1>4

(* One file is settled.                                                    *)
LEMMA SettleOne ==
  ASSUME BulkInv, NEW j \in Jobs, NEW f \in Files, NEW x \in FileType,
         x.st # "pending",
         job' \in [Jobs -> JobType],
         \A k \in Jobs : job'[k].st = job[k].st,
         \A k \in Jobs : k # j => job'[k] = job[k],
         \/ file' = file
         \/ file' = [file EXCEPT ![j][f] = x]
  PROVE TableStep
  <1>1. /\ file' \in [Jobs -> [Files -> FileType]]
        /\ \A k \in Jobs : k # j => file'[k] = file[k]
        /\ \A g \in Files : file'[j][g].st \in {x.st, file[j][g].st}
    BY FileEdit DEF BulkInv
  <1>2. JobMoves(j) BY DEF JobMoves
  <1>3. FileMoves(j) BY <1>1 DEF FileMoves
  <1>4. EndsClean(j) BY <1>1 DEF BulkInv, EndsClean, NonePending
  <1> QED BY <1>1, <1>2, <1>3, <1>4, TableEdit

(* SettleFiles: many files of one job are settled.                         *)
LEMMA SettleTable ==
  ASSUME BulkInv, NEW j \in Jobs, NEW from, NEW to \in {"skipped", "failed"},
         SettleFiles(j, from, to)
  PROVE /\ TableStep
        /\ "pending" \in from => NonePending(j)'
  <1>0. BulkType BY DEF BulkInv
  <1>1. file' = SettledFiles(j, from, to) /\ job' = Beaten(j) BY DEF SettleFiles
  <1>2. /\ job' \in [Jobs -> JobType]
        /\ \A k \in Jobs : job'[k].st = job[k].st
        /\ \A k \in Jobs : k # j => job'[k] = job[k]
    BY <1>0, <1>1, BeatenJob
  <1>3. /\ file' \in [Jobs -> [Files -> FileType]]
        /\ \A k \in Jobs : k # j => file'[k] = file[k]
        /\ \A f \in Files : file'[j][f].st \in {to, file[j][f].st}
        /\ "pending" \in from => \A f \in Files : file'[j][f].st # "pending"
    BY <1>0, <1>1, SettledTypes
  <1>4. JobMoves(j) BY <1>2 DEF JobMoves
  <1>5. FileMoves(j) BY <1>3 DEF FileMoves
  <1>6. EndsClean(j) BY <1>2, <1>3 DEF BulkInv, EndsClean, NonePending
  <1>7. TableStep BY <1>2, <1>3, <1>4, <1>5, <1>6, TableEdit
  <1> QED BY <1>3, <1>7 DEF NonePending

----------------------------------------------------------------------------
(* Where a worker goes.                                                    *)

(* Leave forgets the job.                                                  *)
LEMMA LeaveMoves ==
  ASSUME BulkType, NEW w \in Workers, Leave(w)
  PROVE Moves(w) /\ pc'[w] = "idle"
  <1>1. Idle \in RunType BY BulkAssumption DEF Idle, NotRead, RunType
  <1> QED BY <1>1 DEF BulkType, Leave, Goto, Moves

(* Goto keeps all the worker has in hand.                                  *)
LEMMA GotoMoves ==
  ASSUME BulkType, NEW w \in Workers, NEW to \in Running, Goto(w, to), run' = run
  PROVE Moves(w) /\ pc'[w] = to /\ run'[w] = run[w]
  BY DEF BulkType, Goto, Moves

(* Outcome keeps its job and its file.                                     *)
LEMMA OutcomeMoves ==
  ASSUME BulkType, NEW w \in Workers, NEW stop \in BOOLEAN,
         NEW result \in {"done", "failed", "skipped"}, Outcome(w, result, stop)
  PROVE /\ Moves(w) /\ pc'[w] = "settle"
        /\ run'[w].job = run[w].job /\ run'[w].file = run[w].file
  <1> DEFINE r == [run[w] EXCEPT !.now = NotRead, !.result = result, !.stop = stop]
  <1>1. run[w] \in RunType BY DEF BulkType
  <1>2. NotRead \in [cancel : BOOLEAN, old : BOOLEAN, full : BOOLEAN] BY DEF NotRead
  <1>3. r \in RunType /\ r.job = run[w].job /\ r.file = run[w].file
    BY <1>1, <1>2 DEF RunType
  <1>4. run' = [run EXCEPT ![w] = r] BY DEF Outcome
  <1> HIDE DEF r
  <1>5. /\ run' \in [Workers -> RunType] /\ run'[w] = r
        /\ \A v \in Workers : v # w => run'[v] = run[v]
    BY <1>3, <1>4 DEF BulkType
  <1>6. "settle" \in Running BY DEF Running
  <1>7. /\ pc' \in [Workers -> {"idle"} \cup Running] /\ pc'[w] = "settle"
        /\ \A v \in Workers : v # w => pc'[v] = pc[v]
    BY <1>6 DEF BulkType, Outcome, Goto
  <1> QED BY <1>3, <1>5, <1>7 DEF Moves

(* Ending keeps its job alone.                                             *)
LEMMA EndingMoves ==
  ASSUME BulkType, NEW w \in Workers, NEW to \in Running,
         NEW st \in {"done", "stopped", "error"}, Ending(w, st, to)
  PROVE /\ Moves(w) /\ pc'[w] = to
        /\ run'[w].job = run[w].job /\ run'[w].fin = st
  <1> DEFINE r == [Idle EXCEPT !.job = run[w].job, !.fin = st]
  <1>1. run[w].job \in Jobs \cup {"none"} BY DEF BulkType, RunType
  <1>2. Idle \in RunType BY BulkAssumption DEF Idle, NotRead, RunType
  <1>3. r \in RunType /\ r.job = run[w].job /\ r.fin = st
    BY <1>1, <1>2 DEF RunType
  <1>4. run' = [run EXCEPT ![w] = r] BY DEF Ending
  <1> HIDE DEF r
  <1>5. /\ run' \in [Workers -> RunType] /\ run'[w] = r
        /\ \A v \in Workers : v # w => run'[v] = run[v]
    BY <1>3, <1>4 DEF BulkType
  <1>7. /\ pc' \in [Workers -> {"idle"} \cup Running] /\ pc'[w] = to
        /\ \A v \in Workers : v # w => pc'[v] = pc[v]
    BY DEF BulkType, Ending, Goto
  <1> QED BY <1>3, <1>5, <1>7 DEF Moves

----------------------------------------------------------------------------
(* The request side, the sweep and the household.                          *)

(* A submit makes a job that was not there, with all its files.            *)
LEMMA SubmitStep ==
  ASSUME BulkInv, NEW j \in Jobs, Submit(j) PROVE TableStep
  <1>0. BulkType BY DEF BulkInv
  <1>1. Job("queued") \in JobType /\ Job("queued").st = "queued"
    BY BulkAssumption DEF Job, JobType, Live
  <1>2. [st |-> "pending", data |-> TRUE] \in FileType BY DEF FileType
  <1>3. job' = [job EXCEPT ![j] = Job("queued")] /\ job[j].st = "none"
    BY DEF Submit
  <1>4. /\ job' \in [Jobs -> JobType] /\ job'[j].st = "queued"
        /\ \A k \in Jobs : k # j => job'[k] = job[k]
    BY <1>0, <1>1, <1>3 DEF BulkType
  <1>5. [f \in Files |-> [st |-> "pending", data |-> TRUE]] \in [Files -> FileType]
    BY <1>2
  <1>6. file' = [file EXCEPT ![j] = [f \in Files |-> [st |-> "pending", data |-> TRUE]]]
    BY DEF Submit
  <1>7. /\ file' \in [Jobs -> [Files -> FileType]]
        /\ \A k \in Jobs : k # j => file'[k] = file[k]
    BY <1>0, <1>5, <1>6 DEF BulkType
  <1>8. JobMoves(j) /\ FileMoves(j) /\ EndsClean(j)
    BY <1>3, <1>4 DEF JobMoves, FileMoves, EndsClean, Settled
  <1> QED BY <1>4, <1>7, <1>8, TableEdit

(* A cancel settles a queued job and asks a running one.                   *)
LEMMA CancelStep ==
  ASSUME BulkInv, NEW j \in Jobs, Cancel(j) PROVE TableStep
  <1> DEFINE r(s) == [job[j] EXCEPT !.st = s, !.cancel = TRUE]
  <1>0. BulkType BY DEF BulkInv
  <1>1. job[j] \in JobType BY <1>0 DEF BulkType
  <1>2. \A s \in {"cancelled", "cancelling"} : r(s) \in JobType /\ r(s).st = s
    BY <1>1 DEF JobType, Live, Settled
  <1>3. /\ job[j].st \in {"queued", "running"} /\ file' = file
        /\ \E s \in {"cancelled", "cancelling"} : job' = [job EXCEPT ![j] = r(s)]
    BY <1>0 DEF BulkType, Cancel
  <1> HIDE DEF r
  <1>4. /\ job' \in [Jobs -> JobType]
        /\ job'[j].st \in {"cancelled", "cancelling"}
        /\ \A k \in Jobs : k # j => job'[k] = job[k]
    BY <1>0, <1>2, <1>3 DEF BulkType
  <1>5. JobMoves(j) BY <1>3, <1>4 DEF JobMoves, Settled
  <1> QED BY <1>3, <1>4, <1>5, JobEdit

(* Time, as the job's row records it.                                      *)
LEMMA TimeStep ==
  ASSUME BulkInv, NEW j \in Jobs, PastBudget(j) \/ PastExpiry(j) \/ GoesQuiet(j)
  PROVE TableStep
  <1>0. BulkType BY DEF BulkInv
  <1>1. /\ job' \in [Jobs -> JobType] /\ job'[j].st = job[j].st
        /\ \A k \in Jobs : k # j => job'[k] = job[k]
    <2>1. CASE PastBudget(j)
      BY <1>0, <2>1 DEF BulkType, PastBudget, JobType
    <2>2. CASE PastExpiry(j)
      BY <1>0, <2>2 DEF BulkType, PastExpiry, JobType
    <2>3. CASE GoesQuiet(j)
      BY <1>0, <2>3 DEF BulkType, GoesQuiet, JobType
    <2> QED BY <2>1, <2>2, <2>3
  <1>2. file' = file BY DEF PastBudget, PastExpiry, GoesQuiet
  <1>3. JobMoves(j) BY <1>1 DEF JobMoves
  <1> QED BY <1>1, <1>2, <1>3, JobEdit

(* The wipe forgets the job and its files.                                 *)
LEMMA EraseStep ==
  ASSUME BulkInv, NEW j \in Jobs, Erase(j) PROVE TableStep
  <1>0. BulkType BY DEF BulkInv
  <1>1. Job("gone") \in JobType /\ Job("gone").st = "gone"
    BY BulkAssumption DEF Job, JobType
  <1>2. NoFile \in FileType /\ NoFile.st = "none" BY DEF NoFile, FileType
  <1>3. /\ job' = [job EXCEPT ![j] = Job("gone")]
        /\ file' = [file EXCEPT ![j] = [f \in Files |-> NoFile]]
    BY DEF Erase
  <1>4. /\ job' \in [Jobs -> JobType] /\ job'[j].st = "gone"
        /\ \A k \in Jobs : k # j => job'[k] = job[k]
    BY <1>0, <1>1, <1>3 DEF BulkType
  <1>5. [f \in Files |-> NoFile] \in [Files -> FileType] BY <1>2
  <1>6. /\ file' \in [Jobs -> [Files -> FileType]]
        /\ \A f \in Files : file'[j][f] = NoFile
        /\ \A k \in Jobs : k # j => file'[k] = file[k]
    BY <1>0, <1>3, <1>5 DEF BulkType
  <1>7. JobMoves(j) /\ FileMoves(j) /\ EndsClean(j)
    BY <1>2, <1>4, <1>6 DEF JobMoves, FileMoves, EndsClean
  <1> QED BY <1>4, <1>6, <1>7, TableEdit

(* Bytes gone, states as they were.                                        *)
LEMMA NoBytesTypes ==
  ASSUME BulkType, NEW j \in Jobs
  PROVE /\ NoBytes(j) \in [Files -> FileType]
        /\ \A f \in Files : NoBytes(j)[f].st = file[j][f].st
  <1>1. \A r \in FileType : /\ [r EXCEPT !.data = FALSE] \in FileType
                            /\ [r EXCEPT !.data = FALSE].st = r.st
    BY DEF FileType
  <1>2. \A f \in Files : file[j][f] \in FileType BY DEF BulkType
  <1> QED BY <1>1, <1>2 DEF NoBytes

(* The expiry forgets settled jobs, stops old ones, takes bytes.           *)
LEMMA ExpireStep ==
  ASSUME BulkInv, NEW forget \in SUBSET Forgettable, ExpireAnd(forget)
  PROVE TableStep
  <1>0. BulkType BY DEF BulkInv
  <1>1. NoFile \in FileType /\ NoFile.st = "none" BY DEF NoFile, FileType
  <1>2. [f \in Files |-> NoFile] \in [Files -> FileType] BY <1>1
  <1>3. \A j \in Jobs :
          file'[j] = IF j \in forget THEN [f \in Files |-> NoFile]
                     ELSE IF Expired(j)
                     THEN SettledFiles(j, {"pending", "running"}, "skipped")[j]
                     ELSE IF job[j].st \in Settled THEN NoBytes(j) ELSE file[j]
    BY DEF ExpireAnd
  <1>4. \A j \in Jobs :
          job'[j] = IF j \in forget THEN Job("gone")
                    ELSE IF Expired(j) THEN [job[j] EXCEPT !.st = "stopped"]
                    ELSE job[j]
    BY DEF ExpireAnd
  <1>5. \A j \in Jobs : /\ SettledFiles(j, {"pending", "running"}, "skipped")[j]
                              \in [Files -> FileType]
                        /\ \A f \in Files :
                             SettledFiles(j, {"pending", "running"}, "skipped")[j][f].st
                               # "pending"
    BY <1>0, SettledTypes
  <1>6. \A j \in Jobs : file'[j] \in [Files -> FileType]
    BY <1>0, <1>2, <1>3, <1>5, NoBytesTypes DEF BulkType
  <1>7. file' \in [Jobs -> [Files -> FileType]]
    <2>1. /\ DOMAIN file' = Jobs /\ file' = [j \in Jobs |-> file'[j]]
      BY DEF ExpireAnd
    <2> QED BY <2>1, <1>6
  <1>8. \A j \in Jobs :
          /\ [job[j] EXCEPT !.st = "stopped"] \in JobType
          /\ [job[j] EXCEPT !.st = "stopped"].st = "stopped"
    BY <1>0 DEF BulkType, JobType, Settled
  <1>9. Job("gone") \in JobType /\ Job("gone").st = "gone"
    BY BulkAssumption DEF Job, JobType
  <1>10. \A j \in Jobs : job'[j] \in JobType
    BY <1>0, <1>4, <1>8, <1>9 DEF BulkType
  <1>11. job' \in [Jobs -> JobType]
    <2>1. /\ DOMAIN job' = Jobs /\ job' = [j \in Jobs |-> job'[j]]
      BY DEF ExpireAnd
    <2> QED BY <2>1, <1>10
  <1>12. ASSUME NEW j \in Jobs PROVE JobMoves(j) /\ FileMoves(j) /\ EndsClean(j)
    <2>1. CASE j \in forget
      <3>1. job'[j].st = "gone" BY <1>4, <1>9, <2>1
      <3>2. \A f \in Files : file'[j][f] = NoFile BY <1>3, <2>1
      <3> QED BY <1>1, <3>1, <3>2 DEF JobMoves, FileMoves, EndsClean
    <2>2. CASE j \notin forget /\ Expired(j)
      <3>1. job'[j].st = "stopped" BY <1>4, <1>8, <2>2
      <3>2. \A f \in Files : file'[j][f].st # "pending" BY <1>3, <1>5, <2>2
      <3>3. job[j].st \in Live BY <2>2 DEF Expired, IsLive
      <3> QED BY <3>1, <3>2, <3>3
          DEF JobMoves, FileMoves, EndsClean, NonePending, Live, Settled
    <2>3. CASE j \notin forget /\ ~Expired(j)
      <3>1. job'[j] = job[j] BY <1>4, <2>3
      <3>2. \A f \in Files : file'[j][f].st = file[j][f].st
        BY <1>0, <1>3, <2>3, NoBytesTypes
      <3> QED BY <3>1, <3>2
          DEF BulkInv, JobMoves, FileMoves, EndsClean, NonePending
    <2> QED BY <2>1, <2>2, <2>3
  <1> QED BY <1>7, <1>11, <1>12 DEF TableStep

(* Every step that is not a worker's.                                      *)
LEMMA DoorStep ==
  ASSUME BulkInv,
         \/ \E j \in Jobs :
              \/ Submit(j) \/ Cancel(j) \/ CancelRest(j) \/ CancelLost(j)
              \/ PastBudget(j) \/ PastExpiry(j) \/ GoesQuiet(j) \/ SignOut(j)
              \/ ChangeStanding(j) \/ Erase(j)
              \/ OtherTakes(j) \/ OtherLetsGo(j)
         \/ Expire
  PROVE BulkInv' /\ TableStep
  <1>1. UNCHANGED <<landed, pc, run>>
    BY DEF Submit, Cancel, CancelRest, CancelLost, PastBudget, PastExpiry,
           GoesQuiet, SignOut, ChangeStanding, Erase, OtherTakes, OtherLetsGo,
           Expire, ExpireAnd, dbVars
  <1>2. TableStep
    <2>1. CASE Expire BY <2>1, ExpireStep DEF Expire
    <2>2. ASSUME NEW j \in Jobs, Submit(j) \/ Cancel(j) \/ Erase(j)
          PROVE TableStep
      BY <2>2, SubmitStep, CancelStep, EraseStep
    <2>3. ASSUME NEW j \in Jobs, PastBudget(j) \/ PastExpiry(j) \/ GoesQuiet(j)
          PROVE TableStep
      BY <2>3, TimeStep
    <2>4. ASSUME NEW j \in Jobs, CancelRest(j) PROVE TableStep
      <3>1. SettleFiles(j, {"pending"}, "skipped") BY <2>4 DEF CancelRest
      <3> QED BY <3>1, SettleTable
    <2>5. ASSUME NEW j \in Jobs,
                 \/ CancelLost(j) \/ SignOut(j) \/ ChangeStanding(j)
                 \/ OtherTakes(j) \/ OtherLetsGo(j)
          PROVE TableStep
      <3>1. job' = job /\ file' = file
        BY <2>5 DEF CancelLost, SignOut, ChangeStanding, OtherTakes, OtherLetsGo,
                    dbVars
      <3> QED BY <3>1, SameTable
    <2> QED BY <2>1, <2>2, <2>3, <2>4, <2>5
  <1> QED BY <1>1, <1>2, DoorKeeps

----------------------------------------------------------------------------
(* A worker's steps.  Each lemma says what the step does to the tables and *)
(* where it leads; WorkerKeeps does the rest.                              *)

(* The job of a worker that has one.                                       *)
LEMMA HasJob ==
  ASSUME BulkInv, NEW w \in Workers, pc[w] # "idle"
  PROVE BulkType /\ run[w].job \in Jobs /\ job[run[w].job].st # "none"
  BY DEF BulkInv, InHand

(* The file of a worker that has one.                                      *)
LEMMA HasFile ==
  ASSUME BulkInv, NEW w \in Workers, pc[w] \in WithFile
  PROVE run[w].file \in Files
  BY DEF BulkInv, InHand

(* It leaves its run.                                                      *)
LEMMA LeaveKeeps ==
  ASSUME BulkInv, NEW w \in Workers, Leave(w), TableStep, landed' = landed
  PROVE BulkInv'
  <1>1. Moves(w) /\ pc'[w] = "idle" BY LeaveMoves DEF BulkInv
  <1>2. "idle" \notin WithFile \cup Importing BY DEF WithFile, Turn, Importing
  <1> QED BY <1>1, <1>2, WorkerKeeps

(* It goes on with what it has; begins no import, and stops or finishes    *)
(* nothing.                                                                *)
LEMMA GotoKeeps ==
  ASSUME BulkInv, NEW w \in Workers, NEW to \in Running, pc[w] # "idle",
         Moves(w), pc'[w] = to, run'[w].job = run[w].job,
         to \in WithFile => run'[w].file \in Files,
         to \notin Importing \cup {"skipRest", "stopJob", "finish"},
         TableStep, landed' = landed
  PROVE BulkInv'
  <1>1. run'[w].job \in Jobs /\ job[run'[w].job].st # "none" BY HasJob
  <1> QED BY <1>1, WorkerKeeps

(* The file's outcome is known.                                            *)
LEMMA OutcomeKeeps ==
  ASSUME BulkInv, NEW w \in Workers, pc[w] \in WithFile,
         NEW stop \in BOOLEAN, NEW result \in {"done", "failed", "skipped"},
         Outcome(w, result, stop), TableStep, landed' = landed
  PROVE BulkInv'
  <1>0. pc[w] # "idle" BY DEF WithFile, Turn
  <1>1. BulkType /\ run[w].file \in Files BY HasFile DEF BulkInv
  <1>2. /\ Moves(w) /\ pc'[w] = "settle"
        /\ run'[w].job = run[w].job /\ run'[w].file = run[w].file
    BY <1>1, OutcomeMoves
  <1>3. "settle" \in Running /\ "settle" \notin Importing \cup {"skipRest", "stopJob", "finish"}
    BY DEF Running, Importing
  <1> QED BY <1>0, <1>1, <1>2, <1>3, GotoKeeps

(* From a place with a file to the next of its wait or its turn.           *)
Waiting == {"wait", "lock", "busy", "slot", "turn", "starter", "standing",
            "claimFile"}

(* Such a step keeps the invariant.                                        *)
LEMMA OnKeeps ==
  ASSUME BulkInv, NEW w \in Workers, pc[w] \in WithFile, NEW to \in Waiting,
         Moves(w), pc'[w] = to,
         run'[w].job = run[w].job, run'[w].file = run[w].file,
         TableStep, landed' = landed
  PROVE BulkInv'
  <1>0. pc[w] # "idle" BY DEF WithFile, Turn
  <1>1. run[w].file \in Files BY HasFile
  <1>2. to \in Running /\ to \notin Importing \cup {"skipRest", "stopJob", "finish"}
    BY DEF Waiting, Running, Turn, Importing
  <1> QED BY <1>0, <1>1, <1>2, GotoKeeps

(* What the job looked like when it was read changes, or nothing does.     *)
LEMMA NowMoves ==
  ASSUME BulkType, NEW w \in Workers, NEW to \in Running, Goto(w, to),
         NEW now \in [cancel : BOOLEAN, old : BOOLEAN, full : BOOLEAN],
         run' = [run EXCEPT ![w].now = now]
  PROVE /\ Moves(w) /\ pc'[w] = to
        /\ run'[w].job = run[w].job /\ run'[w].file = run[w].file
  <1> DEFINE r == [run[w] EXCEPT !.now = now]
  <1>0. run[w] \in RunType BY DEF BulkType
  <1>3. r \in RunType /\ r.job = run[w].job /\ r.file = run[w].file
    BY <1>0 DEF RunType
  <1>4. run' = [run EXCEPT ![w] = r] OBVIOUS
  <1> HIDE DEF r
  <1>1. /\ run' \in [Workers -> RunType]
        /\ run'[w].job = run[w].job /\ run'[w].file = run[w].file
        /\ \A v \in Workers : v # w => run'[v] = run[v]
    BY <1>3, <1>4 DEF BulkType
  <1>2. /\ pc' \in [Workers -> {"idle"} \cup Running] /\ pc'[w] = to
        /\ \A v \in Workers : v # w => pc'[v] = pc[v]
    BY DEF BulkType, Goto
  <1> QED BY <1>1, <1>2 DEF Moves

(* A claim, or a takeover: the job changes hands, no file does.            *)
LEMMA ClaimStep ==
  ASSUME BulkInv, NEW w \in Workers, NEW j \in Jobs, Claim(w, j)
  PROVE BulkInv' /\ TableStep
  <1> DEFINE c == [job[j] EXCEPT !.st = IF @ = "queued" THEN "running" ELSE @,
                                !.age = IF job[j].st = "queued" THEN "young" ELSE @,
                                !.quiet = FALSE]
             r == [run[w] EXCEPT !.job = j]
  <1>0. BulkType BY DEF BulkInv
  <1>1. /\ job[j].st \in {"queued", "running", "cancelling"}
        /\ pc[w] = "idle" /\ file' = file /\ landed' = landed
        /\ pc' = [pc EXCEPT ![w] = "interrupted"]
    BY DEF Claim, Claimable, Goto
  <1>2. job[j] \in JobType BY <1>0 DEF BulkType
  <1>3. c \in JobType /\ c.st \in {"running", "cancelling"}
    BY <1>1, <1>2 DEF JobType, Live
  <1>4. job' = [job EXCEPT ![j] = c] BY DEF Claim, ClaimedJob
  <1>5. run[w] \in RunType BY <1>0 DEF BulkType
  <1>6. r \in RunType /\ r.job = j BY <1>5 DEF RunType
  <1>7. run' = [run EXCEPT ![w] = r] BY DEF Claim
  <1> HIDE DEF c, r
  <1>8. /\ job' \in [Jobs -> JobType] /\ job'[j] = c
        /\ \A k \in Jobs : k # j => job'[k] = job[k]
    BY <1>0, <1>3, <1>4 DEF BulkType
  <1>9. JobMoves(j) BY <1>1, <1>3, <1>8 DEF JobMoves, Settled
  <1>10. TableStep BY <1>1, <1>3, <1>8, <1>9, JobEdit
  <1>11. /\ run' \in [Workers -> RunType] /\ run'[w] = r
         /\ \A v \in Workers : v # w => run'[v] = run[v]
    BY <1>0, <1>6, <1>7 DEF BulkType
  <1>12. "interrupted" \in Running BY DEF Running
  <1>13. /\ pc' \in [Workers -> {"idle"} \cup Running] /\ pc'[w] = "interrupted"
         /\ \A v \in Workers : v # w => pc'[v] = pc[v]
    BY <1>0, <1>1, <1>12 DEF BulkType
  <1>14. Moves(w) BY <1>11, <1>13 DEF Moves
  <1>15. "interrupted" \notin WithFile \cup Importing BY DEF WithFile, Turn, Importing
  <1>16. run'[w].job = j /\ job[j].st # "none" BY <1>1, <1>6, <1>11
  <1> QED BY <1>1, <1>10, <1>13, <1>14, <1>15, <1>16, WorkerKeeps

(* Files of the job settled, and on to a place without a file.             *)
LEMMA InterruptedStep ==
  ASSUME BulkInv, NEW w \in Workers, Interrupted(w)
  PROVE BulkInv' /\ TableStep
  <1>1. /\ pc[w] # "idle" /\ Goto(w, "loop") /\ run' = run /\ landed' = landed
        /\ SettleFiles(run[w].job, {"running"}, "failed")
    BY DEF Interrupted
  <1>2. BulkType /\ run[w].job \in Jobs BY <1>1, HasJob
  <1>3. TableStep BY <1>1, <1>2, SettleTable
  <1>4. /\ "loop" \in Running
        /\ "loop" \notin WithFile \cup Importing \cup {"skipRest", "stopJob", "finish"}
    BY DEF Running, WithFile, Turn, Importing
  <1>5. Moves(w) /\ pc'[w] = "loop" /\ run'[w] = run[w]
    BY <1>1, <1>2, <1>4, GotoMoves
  <1> QED BY <1>1, <1>3, <1>4, <1>5, GotoKeeps

(* The files not reached are skipped: none is left pending.                *)
LEMMA SkipRestStep ==
  ASSUME BulkInv, NEW w \in Workers, SkipRest(w)
  PROVE BulkInv' /\ TableStep
  <1>1. /\ pc[w] # "idle" /\ Goto(w, "finish") /\ run' = run /\ landed' = landed
        /\ SettleFiles(run[w].job, {"pending"}, "skipped")
    BY DEF SkipRest
  <1>2. BulkType /\ run[w].job \in Jobs /\ job[run[w].job].st # "none"
    BY <1>1, HasJob
  <1>3. TableStep /\ \A j \in Jobs : j = run[w].job => NonePending(j)'
    BY <1>1, <1>2, SettleTable
  <1>4. "finish" \in Running /\ "finish" \notin WithFile \cup Importing
    BY DEF Running, WithFile, Turn, Importing
  <1>5. Moves(w) /\ pc'[w] = "finish" /\ run'[w] = run[w]
    BY <1>1, <1>2, <1>4, GotoMoves
  <1>6. NonePending(run[w].job)' BY <1>2, <1>3, <1>5 DEF NonePending
  <1>7. run[w].fin # "none" BY DEF BulkInv, InHand, SkipRest
  <1> QED BY <1>1, <1>2, <1>3, <1>4, <1>5, <1>6, <1>7, WorkerKeeps

(* The same on the way to a stop.                                          *)
LEMMA StopRestStep ==
  ASSUME BulkInv, NEW w \in Workers, StopRest(w)
  PROVE BulkInv' /\ TableStep
  <1>1. /\ pc[w] # "idle" /\ Goto(w, "stopJob") /\ run' = run /\ landed' = landed
        /\ SettleFiles(run[w].job, {"pending"}, "skipped")
    BY DEF StopRest, Rest
  <1>2. BulkType /\ run[w].job \in Jobs /\ job[run[w].job].st # "none"
    BY <1>1, HasJob
  <1>3. TableStep /\ \A j \in Jobs : j = run[w].job => NonePending(j)'
    BY <1>1, <1>2, SettleTable
  <1>4. "stopJob" \in Running /\ "stopJob" \notin WithFile \cup Importing
    BY DEF Running, WithFile, Turn, Importing
  <1>5. Moves(w) /\ pc'[w] = "stopJob" /\ run'[w] = run[w]
    BY <1>1, <1>2, <1>4, GotoMoves
  <1>6. NonePending(run[w].job)' BY <1>2, <1>3, <1>5 DEF NonePending
  <1> QED BY <1>1, <1>2, <1>3, <1>4, <1>5, <1>6, WorkerKeeps

(* The job is read, or gone.                                               *)
LEMMA LoopStep ==
  ASSUME BulkInv, NEW w \in Workers, Loop(w)
  PROVE BulkInv' /\ TableStep
  <1>1. pc[w] = "loop" /\ UNCHANGED <<job, file, landed>> BY DEF Loop, dbVars
  <1>2. TableStep BY <1>1, SameTable
  <1>3. CASE Leave(w) BY <1>1, <1>2, <1>3, LeaveKeeps
  <1>4. CASE Goto(w, "pick") /\ run' = [run EXCEPT ![w].now = Read(run[w].job)]
    <2>1. BulkType /\ run[w].job \in Jobs BY <1>1, HasJob
    <2>2. job[run[w].job] \in JobType BY <2>1 DEF BulkType
    <2>3. Read(run[w].job) \in [cancel : BOOLEAN, old : BOOLEAN, full : BOOLEAN]
      BY <2>2 DEF Read, JobType
    <2>4. "pick" \in Running
          /\ "pick" \notin WithFile \cup Importing \cup {"skipRest", "stopJob", "finish"}
      BY DEF Running, WithFile, Turn, Importing
    <2>5. /\ Moves(w) /\ pc'[w] = "pick" /\ run'[w].job = run[w].job
      BY <1>4, <2>1, <2>3, <2>4, NowMoves
    <2> QED BY <1>1, <1>2, <2>4, <2>5, GotoKeeps
  <1> QED BY <1>2, <1>3, <1>4 DEF Loop

(* The next file, or the end: done only with no file left.                 *)
LEMMA PickStep ==
  ASSUME BulkInv, NEW w \in Workers, Pick(w)
  PROVE BulkInv' /\ TableStep
  <1>1. pc[w] = "pick" /\ UNCHANGED <<job, file, landed>> BY DEF Pick, dbVars
  <1>2. TableStep BY <1>1, SameTable
  <1>3. BulkType /\ run[w].job \in Jobs /\ job[run[w].job].st # "none"
    BY <1>1, HasJob
  <1>4. CASE Pending(run[w].job) = {} /\ Ending(w, "done", "finish")
    <2>1. "finish" \in Running /\ "finish" \notin WithFile \cup Importing
      BY DEF Running, WithFile, Turn, Importing
    <2>2. /\ Moves(w) /\ pc'[w] = "finish" /\ run'[w].job = run[w].job
          /\ run'[w].fin = "done"
      BY <1>3, <1>4, <2>1, EndingMoves
    <2>3. NonePending(run[w].job)' BY <1>1, <1>4, <2>2 DEF NonePending, Pending
    <2> QED BY <1>1, <1>2, <1>3, <2>1, <2>2, <2>3, WorkerKeeps
  <1>5. CASE Ending(w, "done", "skipRest")
    <2>1. "skipRest" \in Running
          /\ "skipRest" \notin WithFile \cup Importing \cup {"stopJob", "finish"}
      BY DEF Running, WithFile, Turn, Importing
    <2>2. /\ Moves(w) /\ pc'[w] = "skipRest" /\ run'[w].job = run[w].job
          /\ run'[w].fin = "done"
      BY <1>3, <1>5, <2>1, EndingMoves
    <2> QED BY <1>1, <1>2, <1>3, <2>1, <2>2, WorkerKeeps
  <1>6. ASSUME NEW f \in Files, NEW to \in {"skipFull", "wait"}, Goto(w, to),
               run' = [run EXCEPT ![w] = [@ EXCEPT !.now = NotRead, !.file = f]]
        PROVE BulkInv'
    <2> DEFINE r == [run[w] EXCEPT !.now = NotRead, !.file = f]
    <2>1. run[w] \in RunType BY <1>3 DEF BulkType
    <2>2. NotRead \in [cancel : BOOLEAN, old : BOOLEAN, full : BOOLEAN]
      BY DEF NotRead
    <2>3. r \in RunType /\ r.job = run[w].job /\ r.file = f
      BY <2>1, <2>2 DEF RunType
    <2>4. run' = [run EXCEPT ![w] = r] BY <1>6
    <2> HIDE DEF r
    <2>5. /\ run' \in [Workers -> RunType] /\ run'[w] = r
          /\ \A v \in Workers : v # w => run'[v] = run[v]
      BY <1>3, <2>3, <2>4 DEF BulkType
    <2>6. to \in Running /\ to \notin Importing \cup {"skipRest", "stopJob", "finish"}
      BY DEF Running, Importing
    <2>7. /\ pc' \in [Workers -> {"idle"} \cup Running] /\ pc'[w] = to
          /\ \A v \in Workers : v # w => pc'[v] = pc[v]
      BY <1>3, <1>6, <2>6 DEF BulkType, Goto
    <2>8. Moves(w) BY <2>5, <2>7 DEF Moves
    <2> QED BY <1>1, <1>2, <2>3, <2>5, <2>6, <2>7, <2>8, GotoKeeps
  <1> QED BY <1>2, <1>4, <1>5, <1>6 DEF Pick

(* A file skipped on the row budget.                                       *)
LEMMA SkipFullStep ==
  ASSUME BulkInv, NEW w \in Workers, SkipFull(w)
  PROVE BulkInv' /\ TableStep
  <1> DEFINE j == run[w].job  f == run[w].file
  <1>1. /\ pc[w] = "skipFull" /\ landed' = landed /\ job' = Beaten(j)
        /\ file' = IF Gone(j) THEN file
                   ELSE [file EXCEPT ![j][f] = [st |-> "skipped", data |-> FALSE]]
        /\ Goto(w, "loop") /\ run' = [run EXCEPT ![w].file = 0]
    BY DEF SkipFull
  <1>2. BulkType /\ j \in Jobs /\ job[j].st # "none" BY <1>1, HasJob
  <1>3. f \in Files BY <1>1, HasFile DEF WithFile
  <1>4. /\ job' \in [Jobs -> JobType]
        /\ \A k \in Jobs : job'[k].st = job[k].st
        /\ \A k \in Jobs : k # j => job'[k] = job[k]
    BY <1>1, <1>2, BeatenJob
  <1>5. /\ [st |-> "skipped", data |-> FALSE] \in FileType
        /\ [st |-> "skipped", data |-> FALSE].st # "pending"
    BY DEF FileType
  <1>8. TableStep BY <1>1, <1>2, <1>3, <1>4, <1>5, SettleOne
  <1>9. /\ run' \in [Workers -> RunType] /\ run'[w].job = run[w].job
        /\ \A v \in Workers : v # w => run'[v] = run[v]
    <2> DEFINE r == [run[w] EXCEPT !.file = 0]
    <2>1. run[w] \in RunType BY <1>2 DEF BulkType
    <2>2. r \in RunType /\ r.job = run[w].job BY <2>1 DEF RunType
    <2>3. run' = [run EXCEPT ![w] = r] BY <1>1
    <2> HIDE DEF r
    <2> QED BY <1>2, <2>2, <2>3 DEF BulkType
  <1>10. "loop" \in Running
         /\ "loop" \notin WithFile \cup Importing \cup {"skipRest", "stopJob", "finish"}
    BY DEF Running, WithFile, Turn, Importing
  <1>11. /\ pc' \in [Workers -> {"idle"} \cup Running] /\ pc'[w] = "loop"
         /\ \A v \in Workers : v # w => pc'[v] = pc[v]
    BY <1>1, <1>2, <1>10 DEF BulkType, Goto
  <1>12. Moves(w) BY <1>9, <1>11 DEF Moves
  <1> QED BY <1>1, <1>8, <1>9, <1>10, <1>11, <1>12, GotoKeeps

(* The steps of a wait and of a turn up to the file's claim: the tables    *)
(* stay, and the worker leaves, has an outcome, or goes on.                *)
LEMMA TurnKeeps ==
  ASSUME BulkInv, NEW w \in Workers, pc[w] \in WithFile,
         UNCHANGED <<job, file, landed>>,
         \/ Leave(w)
         \/ \E stop \in BOOLEAN : Outcome(w, "skipped", stop)
         \/ \E stop \in BOOLEAN : Outcome(w, "failed", stop)
         \/ \E to \in Waiting : Goto(w, to) /\ run' = run
  PROVE BulkInv' /\ TableStep
  <1>1. TableStep BY SameTable
  <1>2. BulkType BY DEF BulkInv
  <1>3. CASE Leave(w) BY <1>1, <1>3, LeaveKeeps
  <1>4. CASE \E stop \in BOOLEAN : Outcome(w, "skipped", stop)
    BY <1>1, <1>4, OutcomeKeeps
  <1>5. CASE \E stop \in BOOLEAN : Outcome(w, "failed", stop)
    BY <1>1, <1>5, OutcomeKeeps
  <1>6. ASSUME NEW to \in Waiting, Goto(w, to), run' = run PROVE BulkInv'
    <2>1. to \in Running BY DEF Waiting, Running, Turn
    <2>2. Moves(w) /\ pc'[w] = to /\ run'[w] = run[w] BY <1>2, <1>6, <2>1, GotoMoves
    <2> QED BY <1>1, <2>2, OnKeeps
  <1> QED BY <1>1, <1>3, <1>4, <1>5, <1>6

(* The same, with what the job looked like read anew.                      *)
LEMMA NowKeeps ==
  ASSUME BulkInv, NEW w \in Workers, pc[w] \in WithFile,
         UNCHANGED <<job, file, landed>>, NEW to \in Waiting, Goto(w, to),
         NEW now \in [cancel : BOOLEAN, old : BOOLEAN, full : BOOLEAN],
         run' = [run EXCEPT ![w].now = now]
  PROVE BulkInv' /\ TableStep
  <1>1. TableStep BY SameTable
  <1>2. BulkType BY DEF BulkInv
  <1>3. to \in Running BY DEF Waiting, Running, Turn
  <1>4. /\ Moves(w) /\ pc'[w] = to
        /\ run'[w].job = run[w].job /\ run'[w].file = run[w].file
    BY <1>2, <1>3, NowMoves
  <1> QED BY <1>1, <1>4, OnKeeps

(* A tick of the wait.                                                     *)
LEMMA WaitStep ==
  ASSUME BulkInv, NEW w \in Workers, Wait(w)
  PROVE BulkInv' /\ TableStep
  <1>1. pc[w] = "wait" /\ UNCHANGED <<job, file, landed>> BY DEF Wait, dbVars
  <1>2. pc[w] \in WithFile BY <1>1 DEF WithFile
  <1>3. CASE Leave(w) \/ Outcome(w, "skipped", FALSE)
    BY <1>1, <1>2, <1>3, TurnKeeps
  <1>4. CASE Goto(w, "lock") /\ run' = [run EXCEPT ![w].now.old = Read(run[w].job).old]
    <2> DEFINE now == [run[w].now EXCEPT !.old = Read(run[w].job).old]
    <2>1. BulkType /\ run[w].job \in Jobs BY <1>1, HasJob
    <2>2. run[w] \in RunType BY <2>1 DEF BulkType
    <2>3. run[w].now \in [cancel : BOOLEAN, old : BOOLEAN, full : BOOLEAN]
      BY <2>2 DEF RunType
    <2>4. Read(run[w].job).old \in BOOLEAN BY DEF Read
    <2>5. now \in [cancel : BOOLEAN, old : BOOLEAN, full : BOOLEAN]
      BY <2>3, <2>4
    <2>6. run' = [run EXCEPT ![w].now = now] BY <1>4
    <2> HIDE DEF now
    <2>7. "lock" \in Waiting BY DEF Waiting
    <2> QED BY <1>1, <1>2, <1>4, <2>5, <2>6, <2>7, NowKeeps
  <1> QED BY <1>3, <1>4 DEF Wait

(* Nothing read is of the type.                                            *)
LEMMA NotReadType == NotRead \in [cancel : BOOLEAN, old : BOOLEAN, full : BOOLEAN]
  BY DEF NotRead

(* The PDF slot, or the wait again.                                        *)
LEMMA TrySlotStep ==
  ASSUME BulkInv, NEW w \in Workers, TrySlot(w)
  PROVE BulkInv' /\ TableStep
  <1>1. pc[w] = "slot" /\ UNCHANGED <<job, file, landed>> BY DEF TrySlot, dbVars
  <1>2. pc[w] \in WithFile BY <1>1 DEF WithFile, Turn
  <1>3. "wait" \in Waiting /\ "turn" \in Waiting BY DEF Waiting
  <1>4. CASE Goto(w, "turn") /\ run' = [run EXCEPT ![w].now = NotRead]
    BY <1>1, <1>2, <1>3, <1>4, NowKeeps, NotReadType
  <1>5. CASE SlotBusy(w)
    <2>1. Outcome(w, "skipped", FALSE) \/ (Goto(w, "wait") /\ run' = run)
      BY <1>5 DEF SlotBusy
    <2> QED BY <1>1, <1>2, <1>3, <2>1, TurnKeeps
  <1> QED BY <1>4, <1>5 DEF TrySlot

(* The lock, the wait for it, and giving it up.                            *)
LEMMA LockStep ==
  ASSUME BulkInv, NEW w \in Workers, TryLock(w) \/ WaitOn(w) \/ GiveUp(w)
  PROVE BulkInv' /\ TableStep
  <1>1. /\ pc[w] \in {"lock", "busy"} /\ UNCHANGED <<job, file, landed>>
    BY DEF TryLock, WaitOn, GiveUp, dbVars
  <1>2. pc[w] \in WithFile BY <1>1 DEF WithFile, Turn
  <1>3. {"slot", "busy", "wait"} \subseteq Waiting BY DEF Waiting
  <1>4. CASE TryLock(w)
    <2>1. (Goto(w, "slot") \/ Goto(w, "busy")) /\ run' = run BY <1>4 DEF TryLock
    <2> QED BY <1>1, <1>2, <1>3, <2>1, TurnKeeps
  <1>5. CASE WaitOn(w)
    <2>1. Goto(w, "wait") /\ run' = [run EXCEPT ![w].now = NotRead]
      BY <1>5 DEF WaitOn
    <2> QED BY <1>1, <1>2, <1>3, <2>1, NowKeeps, NotReadType
  <1>6. CASE GiveUp(w)
    <2>1. Outcome(w, "skipped", FALSE) BY <1>6 DEF GiveUp
    <2> QED BY <1>1, <1>2, <2>1, TurnKeeps
  <1> QED BY <1>4, <1>5, <1>6

(* What is read again once the turn has come.                              *)
LEMMA TurnStep ==
  ASSUME BulkInv, NEW w \in Workers,
         TurnCome(w) \/ StarterOk(w) \/ Standing(w) \/ ReadFails(w)
  PROVE BulkInv' /\ TableStep
  <1>1. /\ pc[w] \in {"turn", "starter", "standing"}
        /\ UNCHANGED <<job, file, landed>>
    BY DEF TurnCome, StarterOk, Standing, ReadFails, dbVars
  <1>2. pc[w] \in WithFile BY <1>1 DEF WithFile, Turn
  <1>3. {"starter", "standing", "claimFile"} \subseteq Waiting BY DEF Waiting
  <1>4. \/ Leave(w)
        \/ \E stop \in BOOLEAN : Outcome(w, "skipped", stop)
        \/ \E to \in {"starter", "standing", "claimFile"} : Goto(w, to) /\ run' = run
    BY DEF TurnCome, StarterOk, Standing, ReadFails
  <1> QED BY <1>1, <1>2, <1>3, <1>4, TurnKeeps

(* The file's claim: only a pending file, which is in nobody's hands and   *)
(* has not landed.                                                         *)
LEMMA ClaimFileStep ==
  ASSUME BulkInv, NEW w \in Workers, ClaimFile(w)
  PROVE BulkInv' /\ TableStep
  <1>1. pc[w] = "claimFile" /\ job' = job /\ landed' = landed BY DEF ClaimFile
  <1>2. pc[w] \in WithFile /\ pc[w] # "idle" BY <1>1 DEF WithFile, Turn
  <1>3. BulkType /\ run[w].job \in Jobs /\ job[run[w].job].st # "none"
    BY <1>2, HasJob
  <1>4. run[w].file \in Files BY <1>2, HasFile
  <1>5. CASE Leave(w) /\ file' = file
    BY <1>1, <1>5, SameTable, LeaveKeeps
  <1>6. CASE /\ file[run[w].job][run[w].file].st = "pending"
             /\ file' = [file EXCEPT ![run[w].job][run[w].file].st = "running"]
             /\ \/ Goto(w, "write") /\ run' = run
                \/ Outcome(w, "failed", FALSE)
    <2> DEFINE x == [file[run[w].job][run[w].file] EXCEPT !.st = "running"]
    <2>1. file[run[w].job][run[w].file] \in FileType
      BY <1>3, <1>4 DEF BulkType
    <2>2. x \in FileType /\ x.st = "running" BY <2>1 DEF FileType
    <2>3. file' = [file EXCEPT ![run[w].job][run[w].file] = x] BY <1>6
    <2> HIDE DEF x
    <2>4. job \in [Jobs -> JobType] BY <1>3 DEF BulkType
    <2>5. TableStep BY <1>1, <1>3, <1>4, <2>2, <2>3, <2>4, SettleOne
    <2>6. CASE Outcome(w, "failed", FALSE)
      BY <1>1, <1>2, <2>5, <2>6, OutcomeKeeps
    <2>7. CASE Goto(w, "write") /\ run' = run
      <3>1. "write" \in Running \cap Importing
            /\ "write" \notin {"idle", "skipRest", "stopJob", "finish"}
        BY DEF Running, Turn, Importing
      <3>2. Moves(w) /\ pc'[w] = "write" /\ run'[w] = run[w]
        BY <1>3, <2>7, <3>1, GotoMoves
      <3>3. file'[run[w].job][run[w].file] = x
        BY <1>3, <1>4, <2>3 DEF BulkType
      <3>4. landed[run[w].job][run[w].file] = 0
        <4>1. Landed(run[w].job, run[w].file) BY <1>3, <1>4 DEF BulkInv
        <4> QED BY <1>6, <4>1 DEF Landed, Begun
      <3>5. \A v \in Workers : pc[v] \in Importing =>
              ~(run[v].job = run[w].job /\ run[v].file = run[w].file)
        BY <1>6 DEF BulkInv, InHand, Begun
      <3> QED BY <1>1, <1>3, <1>4, <2>2, <2>5, <3>1, <3>2, <3>3, <3>4, <3>5,
                 NothingLands, StepKeeps
    <2> QED BY <1>6, <2>5, <2>6, <2>7
  <1> QED BY <1>5, <1>6 DEF ClaimFile, Unstarted

(* push_may_write: on with the import, or out.                             *)
LEMMA BeginWriteStep ==
  ASSUME BulkInv, NEW w \in Workers, BeginWrite(w)
  PROVE BulkInv' /\ TableStep
  <1>1. pc[w] = "write" /\ UNCHANGED <<job, file, landed>>
    BY DEF BeginWrite, dbVars
  <1>2. pc[w] \in WithFile \cap Importing BY <1>1 DEF WithFile, Turn, Importing
  <1>3. CASE Outcome(w, "failed", TRUE) BY <1>1, <1>2, <1>3, TurnKeeps
  <1>4. CASE Goto(w, "commit") /\ run' = run
    <2>1. BulkType /\ run[w].job \in Jobs /\ job[run[w].job].st # "none"
      BY <1>1, HasJob
    <2>2. run[w].file \in Files BY <1>2, HasFile
    <2>3. "commit" \in Running \cap Importing
          /\ "commit" \notin {"idle", "skipRest", "stopJob", "finish"}
      BY DEF Running, Turn, Importing
    <2>4. Moves(w) /\ pc'[w] = "commit" /\ run'[w] = run[w]
      BY <1>4, <2>1, <2>3, GotoMoves
    <2>5. TableStep BY <1>1, SameTable
    <2>6. /\ file[run[w].job][run[w].file].st # "pending"
          /\ landed[run[w].job][run[w].file] = 0
      BY <1>2 DEF BulkInv, InHand, Begun
    <2>7. \A v \in Workers : pc[v] \in Importing
            /\ run[v].job = run[w].job /\ run[v].file = run[w].file => v = w
      BY <1>2 DEF BulkInv, Alone
    <2> QED BY <1>1, <2>1, <2>2, <2>3, <2>4, <2>5, <2>6, <2>7,
               NothingLands, StepKeeps
  <1>5. TableStep BY <1>1, SameTable
  <1> QED BY <1>3, <1>4, <1>5 DEF BeginWrite

(* The import commits, once, or is rolled back.                            *)
LEMMA CommitStep ==
  ASSUME BulkInv, NEW w \in Workers, Commit(w)
  PROVE BulkInv' /\ TableStep
  <1>1. pc[w] = "commit" /\ UNCHANGED <<job, file>> BY DEF Commit
  <1>2. pc[w] \in WithFile \cap Importing BY <1>1 DEF WithFile, Turn, Importing
  <1>3. TableStep BY <1>1, SameTable
  <1>4. CASE Outcome(w, "failed", FALSE) /\ landed' = landed
    BY <1>1, <1>2, <1>4, TurnKeeps
  <1>5. CASE /\ landed' = [landed EXCEPT ![run[w].job][run[w].file] = @ + 1]
             /\ Outcome(w, "done", FALSE)
    <2>1. BulkType /\ run[w].job \in Jobs /\ job[run[w].job].st # "none"
      BY <1>1, HasJob
    <2>2. run[w].file \in Files BY <1>2, HasFile
    <2>3. /\ Moves(w) /\ pc'[w] = "settle"
          /\ run'[w].job = run[w].job /\ run'[w].file = run[w].file
      BY <1>5, <2>1, OutcomeMoves
    <2>4. /\ Begun(run[w].job, run[w].file)
          /\ landed[run[w].job][run[w].file] = 0
      BY <1>2 DEF BulkInv, InHand
    <2>5. landed \in [Jobs -> [Files -> Nat]] BY <2>1 DEF BulkType
    <2>6. /\ landed' \in [Jobs -> [Files -> Nat]]
          /\ landed'[run[w].job][run[w].file] = 1
          /\ \A j \in Jobs, f \in Files :
               j # run[w].job \/ f # run[w].file => landed'[j][f] = landed[j][f]
      BY <1>5, <2>1, <2>2, <2>4, <2>5
    <2>7. ASSUME NEW j \in Jobs, NEW f \in Files PROVE Landed(j, f)'
      <3>1. Landed(j, f) BY DEF BulkInv
      <3>2. CASE j = run[w].job /\ f = run[w].file
        BY <1>1, <2>4, <2>6, <3>2 DEF Landed, Begun
      <3>3. CASE j # run[w].job \/ f # run[w].file
        BY <1>1, <2>6, <3>1, <3>3 DEF Landed, Begun
      <3> QED BY <3>2, <3>3
    <2>8. ASSUME NEW v \in Workers, v # w, pc[v] \in Importing
          PROVE landed'[run[v].job][run[v].file] = 0
      <3>1. pc[v] # "idle" /\ pc[v] \in WithFile
        BY <2>8 DEF Importing, WithFile, Turn
      <3>2. run[v].job \in Jobs /\ run[v].file \in Files
        BY <3>1, HasJob, HasFile
      <3>3. landed[run[v].job][run[v].file] = 0 BY <2>8 DEF BulkInv, InHand
      <3>4. run[v].job # run[w].job \/ run[v].file # run[w].file
        BY <1>2, <2>8 DEF BulkInv, Alone
      <3> QED BY <2>6, <3>2, <3>3, <3>4
    <2>9. "settle" \notin Importing /\ "settle" \notin {"idle", "skipRest", "stopJob", "finish"}
      BY DEF Importing
    <2> QED BY <1>3, <2>1, <2>2, <2>3, <2>6, <2>7, <2>8, <2>9, StepKeeps
  <1> QED BY <1>3, <1>4, <1>5 DEF Commit

(* _settle_file, and on to the stop or the loop.                           *)
LEMMA SettleStep ==
  ASSUME BulkInv, NEW w \in Workers, Settle(w)
  PROVE BulkInv' /\ TableStep
  <1> DEFINE rows == job[run[w].job].rows + (IF run[w].result = "done" THEN 1 ELSE 0)
             b == [job[run[w].job] EXCEPT !.quiet = FALSE,
                     !.rows = IF rows > MaxRows THEN MaxRows ELSE rows]
             x == [st |-> run[w].result, data |-> FALSE]
             r == [run[w] EXCEPT !.ran = TRUE, !.file = 0, !.result = "none",
                                !.stop = FALSE]
  <1>1. /\ pc[w] = "settle" /\ landed' = landed
        /\ run' = [run EXCEPT ![w] = r]
        /\ \E to \in {"stopRest", "loop"} : Goto(w, to)
        /\ \/ job' = job /\ file' = file
           \/ /\ file' = [file EXCEPT ![run[w].job][run[w].file] = x]
              /\ job' = [job EXCEPT ![run[w].job] = b]
    BY DEF Settle
  <1>2. pc[w] \in WithFile /\ pc[w] # "idle" BY <1>1 DEF WithFile
  <1>3. BulkType /\ run[w].job \in Jobs /\ job[run[w].job].st # "none"
    BY <1>2, HasJob
  <1>4. run[w].file \in Files BY <1>2, HasFile
  <1>5. run[w] \in RunType /\ job[run[w].job] \in JobType BY <1>3 DEF BulkType
  <1>6. x \in FileType /\ x.st # "pending" BY <1>5 DEF FileType, RunType
  <1>7. b \in JobType /\ b.st = job[run[w].job].st
    <2>1. job[run[w].job].rows \in 0 .. MaxRows BY <1>5 DEF JobType
    <2>2. (IF rows > MaxRows THEN MaxRows ELSE rows) \in 0 .. MaxRows
      BY <2>1, BulkAssumption
    <2> HIDE DEF rows
    <2> QED BY <1>5, <2>2 DEF JobType
  <1>8. r \in RunType /\ r.job = run[w].job BY <1>5 DEF RunType
  <1> HIDE DEF r, b, x
  <1>9. /\ job' \in [Jobs -> JobType]
        /\ \A k \in Jobs : job'[k].st = job[k].st
        /\ \A k \in Jobs : k # run[w].job => job'[k] = job[k]
    BY <1>1, <1>3, <1>7 DEF BulkType
  <1>10. TableStep BY <1>1, <1>3, <1>4, <1>6, <1>9, SettleOne
  <1>11. /\ run' \in [Workers -> RunType] /\ run'[w] = r
         /\ \A v \in Workers : v # w => run'[v] = run[v]
    BY <1>1, <1>3, <1>8 DEF BulkType
  <1>12. PICK to \in {"stopRest", "loop"} : Goto(w, to) BY <1>1
  <1>13. to \in Running /\ to \notin WithFile \cup Importing \cup {"skipRest", "stopJob", "finish"}
    BY DEF Running, WithFile, Turn, Importing
  <1>14. /\ pc' \in [Workers -> {"idle"} \cup Running] /\ pc'[w] = to
         /\ \A v \in Workers : v # w => pc'[v] = pc[v]
    BY <1>3, <1>12, <1>13 DEF BulkType, Goto
  <1>15. Moves(w) BY <1>11, <1>14 DEF Moves
  <1> QED BY <1>1, <1>2, <1>8, <1>10, <1>11, <1>13, <1>14, <1>15, GotoKeeps

(* The job is stopped, with no file left.                                  *)
LEMMA StopJobStep ==
  ASSUME BulkInv, NEW w \in Workers, StopJob(w)
  PROVE BulkInv' /\ TableStep
  <1>1. /\ pc[w] = "stopJob" /\ file' = file /\ landed' = landed
        /\ Ending(w, "stopped", "finish")
        /\ \/ job' = job
           \/ /\ job[run[w].job].st \in Live
              /\ job' = [job EXCEPT ![run[w].job].st = "stopped"]
    BY DEF StopJob, IsLive
  <1>2. BulkType /\ run[w].job \in Jobs /\ job[run[w].job].st # "none"
    BY <1>1, HasJob
  <1>3. NonePending(run[w].job) BY <1>1 DEF BulkInv, InHand
  <1>4. TableStep
    <2>1. CASE job' = job BY <1>1, <2>1, SameTable
    <2>2. CASE /\ job[run[w].job].st \in Live
               /\ job' = [job EXCEPT ![run[w].job].st = "stopped"]
      <3> DEFINE s == [job[run[w].job] EXCEPT !.st = "stopped"]
      <3>3. job[run[w].job] \in JobType BY <1>2 DEF BulkType
      <3>4. s \in JobType /\ s.st = "stopped" BY <3>3 DEF JobType, Settled
      <3>5. job' = [job EXCEPT ![run[w].job] = s] BY <2>2
      <3> HIDE DEF s
      <3>1. /\ job' \in [Jobs -> JobType] /\ job'[run[w].job].st = "stopped"
            /\ \A k \in Jobs : k # run[w].job => job'[k] = job[k]
        BY <1>2, <3>4, <3>5 DEF BulkType
      <3>2. JobMoves(run[w].job)
        BY <2>2, <3>1 DEF JobMoves, Live, Settled
      <3> QED BY <1>1, <1>2, <1>3, <3>1, <3>2, JobEdit
    <2> QED BY <1>1, <2>1, <2>2
  <1>5. "finish" \in Running /\ "finish" \notin WithFile \cup Importing
    BY DEF Running, WithFile, Turn, Importing
  <1>6. /\ Moves(w) /\ pc'[w] = "finish" /\ run'[w].job = run[w].job
        /\ run'[w].fin = "stopped"
    BY <1>1, <1>2, <1>5, EndingMoves
  <1>7. NonePending(run[w].job)' BY <1>1, <1>3, <1>6 DEF NonePending
  <1> QED BY <1>1, <1>2, <1>4, <1>5, <1>6, <1>7, WorkerKeeps

(* The job's state at its end: its own outcome first.                      *)
LEMMA FinishStep ==
  ASSUME BulkInv, NEW w \in Workers, Finish(w)
  PROVE BulkInv' /\ TableStep
  <1> DEFINE e == [job[run[w].job] EXCEPT !.st = FinishAs(w, run[w].job),
                                        !.quiet = @ /\ ~IsLive(run[w].job)]
  <1>1. /\ pc[w] = "finish" /\ file' = file /\ landed' = landed
        /\ Goto(w, "clear") /\ run' = run
        /\ job' = [job EXCEPT ![run[w].job] = e]
    BY DEF Finish
  <1>2. BulkType /\ run[w].job \in Jobs /\ job[run[w].job].st # "none"
    BY <1>1, HasJob
  <1>3. job[run[w].job] \in JobType /\ run[w] \in RunType BY <1>2 DEF BulkType
  <1>4. run[w].fin \in {"none", "done", "stopped", "error"} BY <1>3 DEF RunType
  <1>5. run[w].fin # "none" BY <1>1 DEF BulkInv, InHand
  <1>6. job[run[w].job].st \in JobStates BY <1>3 DEF JobType, JobStates
  <1>7. /\ FinishAs(w, run[w].job) \in JobStates \ {"none"}
        /\ job[run[w].job].st \in Settled
             => FinishAs(w, run[w].job) = job[run[w].job].st
        /\ FinishAs(w, run[w].job) \in {"done", "stopped"}
             => \/ FinishAs(w, run[w].job) = job[run[w].job].st
                \/ FinishAs(w, run[w].job) = run[w].fin
    BY <1>2, <1>4, <1>5, <1>6 DEF FinishAs, JobStates, Live, Settled
  <1>8. e \in JobType /\ e.st = FinishAs(w, run[w].job)
    <2>1. \A s \in JobStates, q \in BOOLEAN :
            /\ [job[run[w].job] EXCEPT !.st = s, !.quiet = q] \in JobType
            /\ [job[run[w].job] EXCEPT !.st = s, !.quiet = q].st = s
      BY <1>3 DEF JobType, JobStates
    <2>2. (job[run[w].job].quiet /\ ~IsLive(run[w].job)) \in BOOLEAN
      OBVIOUS
    <2> QED BY <1>7, <2>1, <2>2
  <1> HIDE DEF e
  <1>9. /\ job' \in [Jobs -> JobType] /\ job'[run[w].job] = e
        /\ \A k \in Jobs : k # run[w].job => job'[k] = job[k]
    BY <1>1, <1>2, <1>8 DEF BulkType
  <1>10. JobMoves(run[w].job) BY <1>7, <1>8, <1>9 DEF JobMoves
  <1>11. \/ job'[run[w].job].st = job[run[w].job].st
         \/ job'[run[w].job].st \notin {"done", "stopped"}
         \/ NonePending(run[w].job)
    BY <1>1, <1>7, <1>8, <1>9 DEF BulkInv, InHand
  <1>12. TableStep BY <1>1, <1>2, <1>9, <1>10, <1>11, JobEdit
  <1>13. "clear" \in Running
         /\ "clear" \notin WithFile \cup Importing \cup {"skipRest", "stopJob", "finish"}
    BY DEF Running, WithFile, Turn, Importing
  <1>14. Moves(w) /\ pc'[w] = "clear" /\ run'[w] = run[w]
    BY <1>1, <1>2, <1>13, GotoMoves
  <1> QED BY <1>1, <1>12, <1>13, <1>14, GotoKeeps

(* The end of a run, and what goes wrong.                                  *)
LEMMA ClearStep ==
  ASSUME BulkInv, NEW w \in Workers, Clear(w)
  PROVE BulkInv' /\ TableStep
  <1>1. /\ pc[w] = "clear" /\ job' = job /\ landed' = landed /\ Leave(w)
        /\ file' = [file EXCEPT ![run[w].job] = NoBytes(run[w].job)]
    BY DEF Clear
  <1>2. BulkType /\ run[w].job \in Jobs /\ job[run[w].job].st # "none"
    BY <1>1, HasJob
  <1>3. /\ NoBytes(run[w].job) \in [Files -> FileType]
        /\ \A f \in Files : NoBytes(run[w].job)[f].st = file[run[w].job][f].st
    BY <1>2, NoBytesTypes
  <1>4. /\ file' \in [Jobs -> [Files -> FileType]]
        /\ file'[run[w].job] = NoBytes(run[w].job)
        /\ \A k \in Jobs : k # run[w].job => file'[k] = file[k]
    BY <1>1, <1>2, <1>3 DEF BulkType
  <1>5. job' \in [Jobs -> JobType] BY <1>1, <1>2 DEF BulkType
  <1>6. JobMoves(run[w].job) BY <1>1 DEF JobMoves
  <1>7. FileMoves(run[w].job) BY <1>3, <1>4 DEF FileMoves
  <1>8. EndsClean(run[w].job)
    BY <1>1, <1>2, <1>3, <1>4 DEF BulkInv, EndsClean, NonePending
  <1>9. TableStep BY <1>1, <1>2, <1>4, <1>5, <1>6, <1>7, <1>8, TableEdit
  <1> QED BY <1>1, <1>9, LeaveKeeps

(* The process dies.                                                       *)
LEMMA CrashStep ==
  ASSUME BulkInv, NEW w \in Workers, Crash(w)
  PROVE BulkInv' /\ TableStep
  <1>1. Leave(w) /\ UNCHANGED <<job, file, landed>> BY DEF Crash, dbVars
  <1> QED BY <1>1, SameTable, LeaveKeeps

(* The run ends in an error.                                               *)
LEMMA RaiseStep ==
  ASSUME BulkInv, NEW w \in Workers, Raise(w)
  PROVE BulkInv' /\ TableStep
  <1>1. /\ pc[w] \in Running /\ Ending(w, "error", "finish")
        /\ UNCHANGED <<job, file, landed>>
    BY DEF Raise, dbVars
  <1>2. pc[w] # "idle" BY <1>1 DEF Running, Turn
  <1>3. BulkType /\ run[w].job \in Jobs /\ job[run[w].job].st # "none"
    BY <1>2, HasJob
  <1>4. "finish" \in Running /\ "finish" \notin WithFile \cup Importing
    BY DEF Running, WithFile, Turn, Importing
  <1>5. /\ Moves(w) /\ pc'[w] = "finish" /\ run'[w].job = run[w].job
        /\ run'[w].fin = "error"
    BY <1>1, <1>3, <1>4, EndingMoves
  <1>6. TableStep BY <1>1, SameTable
  <1> QED BY <1>1, <1>3, <1>4, <1>5, <1>6, WorkerKeeps

(* The heartbeat is lost.                                                  *)
LEMMA TickerLostStep ==
  ASSUME BulkInv, NEW w \in Workers, TickerLost(w)
  PROVE BulkInv' /\ TableStep
  <1>1. UNCHANGED <<job, file, landed, pc, run>> BY DEF TickerLost, dbVars
  <1> QED BY <1>1, SameTable, DoorKeeps

(* Every step of Next.                                                     *)
LEMMA NextBulk == BulkInv /\ [Next]_vars => BulkInv' /\ TableStep
  <1> SUFFICES ASSUME BulkInv, [Next]_vars PROVE BulkInv' /\ TableStep OBVIOUS
  <1>1. CASE UNCHANGED vars
    <2>1. UNCHANGED <<job, file, landed, pc, run>> BY <1>1 DEF vars
    <2> QED BY <2>1, SameTable, DoorKeeps
  <1>2. CASE \/ \E j \in Jobs :
                 \/ Submit(j) \/ Cancel(j) \/ CancelRest(j) \/ CancelLost(j)
                 \/ PastBudget(j) \/ PastExpiry(j) \/ GoesQuiet(j) \/ SignOut(j)
                 \/ ChangeStanding(j) \/ Erase(j)
                 \/ OtherTakes(j) \/ OtherLetsGo(j)
            \/ Expire
    BY <1>2, DoorStep
  <1>3. ASSUME NEW w \in Workers, Step(w) PROVE BulkInv' /\ TableStep
    <2>1. CASE Interrupted(w) \/ Loop(w) \/ Pick(w) \/ SkipRest(w) \/ SkipFull(w)
      BY <2>1, InterruptedStep, LoopStep, PickStep, SkipRestStep, SkipFullStep
    <2>2. CASE Wait(w) \/ TryLock(w) \/ WaitOn(w) \/ TrySlot(w)
      BY <2>2, WaitStep, LockStep, TrySlotStep
    <2>3. CASE TurnCome(w) \/ StarterOk(w) \/ Standing(w)
      BY <2>3, TurnStep
    <2>4. CASE ClaimFile(w) \/ BeginWrite(w) \/ Commit(w) \/ Settle(w)
      BY <2>4, ClaimFileStep, BeginWriteStep, CommitStep, SettleStep
    <2>5. CASE StopRest(w) \/ StopJob(w) \/ Finish(w) \/ Clear(w)
      BY <2>5, StopRestStep, StopJobStep, FinishStep, ClearStep
    <2> QED BY <1>3, <2>1, <2>2, <2>3, <2>4, <2>5 DEF Step
  <1>4. ASSUME NEW w \in Workers,
               \/ GiveUp(w) \/ Crash(w) \/ Raise(w) \/ ReadFails(w) \/ TickerLost(w)
               \/ \E j \in Jobs : Claim(w, j)
        PROVE BulkInv' /\ TableStep
    BY <1>4, LockStep, CrashStep, RaiseStep, TurnStep, TickerLostStep, ClaimStep
  <1> QED BY <1>1, <1>2, <1>3, <1>4 DEF Next

(* The invariant holds for ever.                                           *)
LEMMA AlwaysBulk == Spec => []BulkInv
  <1>1. BulkInv /\ [Next]_vars => BulkInv' BY NextBulk
  <1> QED BY InitBulk, <1>1, PTL DEF Spec

----------------------------------------------------------------------------
(* No file's import commits twice, however many workers take a job over    *)
(* from one another, dead or alive (_run_one, under _claim's takeover).    *)
THEOREM Once == Spec => []LandsOnce
  <1>1. BulkInv => LandsOnce
    <2> SUFFICES ASSUME BulkInv, NEW j \in Jobs, NEW f \in Files
                 PROVE landed[j][f] <= 1
      BY DEF LandsOnce
    <2>1. Landed(j, f) BY DEF BulkInv
    <2> QED BY <2>1 DEF Landed
  <1> QED BY <1>1, AlwaysBulk, PTL

(* A job that reads done or stopped has no file left pending (_finish,     *)
(* _stop, expire); one of a taken-over worker may still read running.      *)
THEOREM Complete == Spec => []EndedIsComplete
  <1>1. BulkInv => EndedIsComplete
    BY DEF BulkInv, EndedIsComplete, NonePending, Pending
  <1> QED BY <1>1, AlwaysBulk, PTL

(* A settled job keeps its outcome until it is forgotten, whoever settles  *)
(* it again (_finish, cancel, expire).                                     *)
THEOREM Stands == Spec => OutcomeStands
  <1>1. BulkInv /\ [Next]_vars =>
          [\A j \in Jobs : job[j].st \in Settled => job'[j].st \in {job[j].st, "gone"}]_vars
    <2> SUFFICES ASSUME BulkInv, [Next]_vars
                 PROVE \A j \in Jobs : job[j].st \in Settled
                         => job'[j].st \in {job[j].st, "gone"}
      OBVIOUS
    <2>1. TableStep BY NextBulk
    <2> QED BY <2>1 DEF TableStep, JobMoves
  <1> QED BY <1>1, AlwaysBulk, PTL DEF Spec, OutcomeStands

----------------------------------------------------------------------------
(* A file's turn re-checks what may have changed.                          *)

(* The two kinds of step: a worker's, and one at the tables' doors.        *)
WorkerStep(w) ==
  \/ Step(w) \/ GiveUp(w) \/ Crash(w) \/ Raise(w) \/ ReadFails(w) \/ TickerLost(w)
  \/ \E j \in Jobs : Claim(w, j)

DoorOpened ==
  \/ \E j \in Jobs :
       \/ Submit(j) \/ Cancel(j) \/ CancelRest(j) \/ CancelLost(j)
       \/ PastBudget(j) \/ PastExpiry(j) \/ GoesQuiet(j) \/ SignOut(j)
       \/ ChangeStanding(j) \/ Erase(j)
       \/ OtherTakes(j) \/ OtherLetsGo(j)
  \/ Expire

(* A worker's step is its own.                                             *)
LEMMA OthersStand ==
  ASSUME BulkType, NEW w \in Workers, WorkerStep(w)
  PROVE  \A v \in Workers : v # w => pc'[v] = pc[v] /\ run'[v] = run[v]
  BY DEF BulkType, WorkerStep, Step, Interrupted, Loop, Pick, SkipRest, SkipFull, Wait,
         TryLock, WaitOn, TrySlot, SlotBusy, TurnCome, StarterOk, Standing, ClaimFile,
         BeginWrite, Commit, Settle, StopRest, StopJob, Finish, Clear, GiveUp, Crash,
         Raise, ReadFails, TickerLost, Claim, Outcome, Leave, Ending, Goto

(* Where a step leaves a worker that is being checked.                     *)
LEMMA CheckingStep ==
  ASSUME BulkType, [Next]_vars, NEW w \in Workers, pc'[w] \in Checking \cup {"write"}
  PROVE  \/ pc'[w] = pc[w] /\ (pc[w] # "write" => run'[w].job = run[w].job)
         \/ pc'[w] = "turn"
         \/ /\ pc[w] = "turn" /\ pc'[w] = "starter" /\ run'[w].job = run[w].job
            /\ ~job[run[w].job].cancel
         \/ /\ pc[w] = "starter" /\ pc'[w] = "standing" /\ run'[w].job = run[w].job
            /\ signedIn[run[w].job]
         \/ /\ pc[w] = "standing" /\ pc'[w] = "claimFile" /\ run'[w].job = run[w].job
            /\ household[run[w].job] = "open"
         \/ pc[w] = "claimFile" /\ pc'[w] = "write"
  <1> USE DEF BulkType, Checking
  <1>1. CASE UNCHANGED <<pc, run>>
    BY <1>1
  <1>2. ASSUME NEW v \in Workers, v # w, WorkerStep(v)
        PROVE  pc'[w] = pc[w] /\ run'[w] = run[w]
    BY <1>2, OthersStand
  <1>3. ASSUME \/ Crash(w) \/ Raise(w) \/ ReadFails(w) \/ GiveUp(w)
               \/ \E j \in Jobs : Claim(w, j)
        PROVE  FALSE
    BY <1>3 DEF Crash, Raise, ReadFails, GiveUp, Claim, Outcome, Leave, Ending, Goto
  <1>4. ASSUME \/ Interrupted(w) \/ Loop(w) \/ Pick(w) \/ SkipRest(w) \/ SkipFull(w)
               \/ Wait(w) \/ TryLock(w) \/ WaitOn(w) \/ BeginWrite(w) \/ Commit(w)
               \/ Settle(w) \/ StopRest(w) \/ StopJob(w) \/ Finish(w) \/ Clear(w)
        PROVE  FALSE
    BY <1>4
       DEF Interrupted, Loop, Pick, SkipRest, SkipFull, Wait, TryLock, WaitOn,
           BeginWrite, Commit, Settle, StopRest, StopJob, Finish, Clear, Outcome,
           Leave, Ending, Goto
  <1>5. CASE TrySlot(w)
    BY <1>5 DEF TrySlot, SlotBusy, Outcome, Goto
  <1>6. CASE TurnCome(w) \/ StarterOk(w) \/ Standing(w) \/ ClaimFile(w)
    BY <1>6 DEF TurnCome, StarterOk, Standing, ClaimFile, MayWrite, Outcome, Leave, Goto
  <1>7. CASE TickerLost(w)
    BY <1>1, <1>7 DEF TickerLost
  <1>8. CASE DoorOpened
    BY <1>1, <1>8
       DEF DoorOpened, Submit, Cancel, CancelRest, CancelLost, PastBudget, PastExpiry, GoesQuiet,
           SignOut, ChangeStanding, Erase, OtherTakes, OtherLetsGo, Expire, ExpireAnd
  <1> QED
    BY <1>1, <1>2, <1>3, <1>4, <1>5, <1>6, <1>7, <1>8
       DEF Next, WorkerStep, DoorOpened, Step, vars

(* What has held since the turn came: what holds now, and each condition   *)
(* already re-checked.                                                     *)
Rechecked(w) ==
  /\ held[w] \subseteq Conditions
  /\ pc[w] \in Checking => HeldNow(w) \subseteq held[w]
  /\ pc[w] \in Checking \ {"turn"} => "wanted" \in held[w]
  /\ pc[w] \in {"standing", "claimFile"} => "starter" \in held[w]
  /\ pc[w] = "claimFile" => "household" \in held[w]

TurnInv ==
  /\ BulkInv
  /\ held \in [Workers -> SUBSET Conditions]
  /\ \A w \in Workers : Rechecked(w)

LEMMA TurnStepKeeps == TurnInv /\ [TurnNext]_<<vars, held>> => TurnInv'
  <1> SUFFICES ASSUME TurnInv, [TurnNext]_<<vars, held>> PROVE TurnInv' OBVIOUS
  <1>1. BulkInv' BY NextBulk DEF TurnInv, TurnNext
  <1>2. CASE UNCHANGED <<vars, held>>
    BY <1>1, <1>2 DEF TurnInv, Rechecked, HeldNow, vars
  <1>3. CASE TurnNext
    <2>1. \A w \in Workers : HeldNow(w)' \subseteq Conditions BY DEF HeldNow
    <2>2. held' \in [Workers -> SUBSET Conditions]
      BY <1>3, <2>1 DEF TurnNext, TurnInv
    <2>3. ASSUME NEW w \in Workers PROVE Rechecked(w)'
      <3>1. CASE pc'[w] \notin Checking
        BY <1>3, <2>2, <3>1 DEF Rechecked, Checking, TurnNext
      <3>2. CASE pc'[w] \in Checking
        <4>1. held'[w] = HeldNow(w)' \cup held[w] BY <1>3, <3>2 DEF TurnNext
        <4>2. pc[w] \in Checking => HeldNow(w) \subseteq held[w]
          BY DEF TurnInv, Rechecked
        <4>3. /\ ~job[run[w].job].cancel => "wanted" \in HeldNow(w)
              /\ signedIn[run[w].job] => "starter" \in HeldNow(w)
              /\ household[run[w].job] = "open" => "household" \in HeldNow(w)
          BY DEF HeldNow, Conditions
        <4> HIDE DEF HeldNow
        <4>4. BulkType /\ [Next]_vars BY <1>3 DEF TurnInv, BulkInv, TurnNext
        <4>5. \/ pc'[w] = pc[w] \/ pc'[w] = "turn"
              \/ pc[w] = "turn" /\ pc'[w] = "starter" /\ ~job[run[w].job].cancel
              \/ pc[w] = "starter" /\ pc'[w] = "standing" /\ signedIn[run[w].job]
              \/ /\ pc[w] = "standing" /\ pc'[w] = "claimFile"
                 /\ household[run[w].job] = "open"
          BY <3>2, <4>4, CheckingStep DEF Checking
        <4> QED
          BY <2>2, <3>2, <4>1, <4>2, <4>3, <4>5 DEF TurnInv, Rechecked, Checking
      <3> QED BY <3>1, <3>2
    <2> QED BY <1>1, <2>2, <2>3 DEF TurnInv
  <1> QED BY <1>2, <1>3

(* No file is started on a standing from before its wait (_run_turn): at   *)
(* some moment since its turn came it was still wanted, at some moment its *)
(* starter was signed in, and at some moment the household was open.       *)
THEOREM FreshTurn == TurnSpec => NoStaleTurn
  <1>1. TurnInit => TurnInv
    <2> SUFFICES ASSUME TurnInit PROVE TurnInv OBVIOUS
    <2>1. \A w \in Workers : Rechecked(w)
      BY DEF TurnInit, Init, Rechecked, Checking
    <2>2. held \in [Workers -> SUBSET Conditions] BY DEF TurnInit
    <2> QED BY <2>1, <2>2, InitBulk DEF TurnInit, TurnInv
  <1>2. TurnInv /\ [TurnNext]_<<vars, held>>
          => [\A w \in Workers : pc[w] = "claimFile" /\ pc'[w] = "write"
                                   => held[w] = Conditions]_<<vars, held>>
    <2> SUFFICES ASSUME TurnInv, NEW w \in Workers, pc[w] = "claimFile"
                 PROVE held[w] = Conditions
      OBVIOUS
    <2> QED BY DEF TurnInv, Rechecked, Checking, Conditions
  <1> QED BY <1>1, <1>2, TurnStepKeeps, PTL DEF TurnSpec, NoStaleTurn

----------------------------------------------------------------------------
(* Type correctness, and locks and slots held only in a turn.              *)

(* What BulkInv says nothing of: who is signed in, the households'         *)
(* standing, the heartbeats and the counts; and the locks.                 *)
PlainType ==
  /\ cancelling \subseteq Jobs
  /\ signedIn \in [Jobs -> BOOLEAN]
  /\ household \in [Jobs -> {"open", "locked", "deleting", "erased"}]
  /\ ticker \in [Workers -> BOOLEAN]
  /\ faults \in 0 .. MaxFaults /\ restores \in 0 .. MaxRestores

LockType ==
  /\ lock \in [Jobs -> {"free", "sync", "restore"} \cup Workers]
  /\ slot \in [Hosts -> {"free"} \cup Workers]

HoldInv == BulkInv /\ PlainType /\ LockType /\ \A w \in Workers : HoldsOK(w)

SameFile(w) == run'[w].job = run[w].job /\ run'[w].file = run[w].file

(* What a worker's step does to the lock and the slot.                     *)
LockMoves(w) ==
  \/ LetGo(w) /\ pc'[w] \notin Turn
  \/ UNCHANGED <<lock, slot>> /\ pc[w] \notin Turn /\ pc'[w] \notin Turn
  \/ /\ UNCHANGED <<lock, slot>> /\ SameFile(w)
     /\ pc'[w] = pc[w] \/ {pc[w], pc'[w]} \subseteq Turn \ {"slot"}
  \/ /\ pc[w] = "lock" /\ pc'[w] = "slot" /\ SameFile(w)
     /\ lock[run[w].job] = "free" /\ lock' = [lock EXCEPT ![run[w].job] = w]
     /\ UNCHANGED slot
  \/ /\ pc[w] = "slot" /\ pc'[w] = "turn" /\ SameFile(w)
     /\ UNCHANGED lock
     /\ IF IsPdf(w)
        THEN slot[Host[w]] = "free" /\ slot' = [slot EXCEPT ![Host[w]] = w]
        ELSE UNCHANGED slot

LEMMA StepHolds ==
  ASSUME BulkType, NEW w \in Workers, WorkerStep(w)
  PROVE  LockMoves(w)
  <1> USE DEF BulkType
  <1>t. run[w] \in RunType /\ pc[w] \in {"idle"} \cup Running
    OBVIOUS
  <1>1. CASE Crash(w) \/ Raise(w) \/ ReadFails(w) \/ GiveUp(w)
    BY <1>1 DEF Crash, Raise, ReadFails, GiveUp, Outcome, Leave, Ending, Goto, Turn,
                LockMoves
  <1>2. CASE \/ Loop(w) \/ Pick(w) \/ StopJob(w) \/ Clear(w) \/ Finish(w)
             \/ \E j \in Jobs : Claim(w, j)
    BY <1>2 DEF Loop, Pick, StopJob, Clear, Finish, Claim, Outcome, Leave, Ending, Goto,
                Turn, LockMoves, lockVars
  <1>3. CASE \/ Interrupted(w) \/ SkipRest(w) \/ SkipFull(w) \/ StopRest(w)
             \/ Settle(w) \/ WaitOn(w)
    BY <1>3 DEF Interrupted, SkipRest, SkipFull, StopRest, Settle, WaitOn, Goto, Turn,
                LockMoves, lockVars
  <1>4. CASE Wait(w)
    BY <1>4 DEF Wait, Outcome, Leave, Goto, Turn, LockMoves, lockVars
  <1>5. CASE TryLock(w)
    BY <1>5 DEF TryLock, Goto, Turn, LockMoves, SameFile
  <1>6. CASE TrySlot(w)
    <2>1. CASE IsPdf(w) /\ SlotBusy(w)
      BY <2>1, <1>6 DEF SlotBusy, Outcome, Goto, Turn, LockMoves
    <2>2. CASE ~(IsPdf(w) /\ SlotBusy(w))
      <3>1. run' = [run EXCEPT ![w].now = NotRead]
        BY <1>6, <2>2 DEF TrySlot
      <3>2. SameFile(w)
        BY <3>1, <1>t DEF SameFile, RunType
      <3> QED BY <1>6, <2>2, <3>2 DEF TrySlot, Goto, LockMoves
    <2> QED BY <2>1, <2>2
  <1>7. CASE TurnCome(w) \/ StarterOk(w) \/ Standing(w) \/ ClaimFile(w)
    BY <1>7 DEF TurnCome, StarterOk, Standing, ClaimFile, Outcome, Leave, Goto, Turn,
                LockMoves, SameFile, lockVars
  <1>8. CASE BeginWrite(w) \/ Commit(w)
    BY <1>8 DEF BeginWrite, Commit, Outcome, Goto, Turn, LockMoves, SameFile, lockVars
  <1>9. CASE TickerLost(w)
    BY <1>9 DEF TickerLost, LockMoves, SameFile, lockVars
  <1> QED
    BY <1>1, <1>2, <1>3, <1>4, <1>5, <1>6, <1>7, <1>8, <1>9 DEF WorkerStep, Step

LEMMA WorkerHolds ==
  ASSUME HoldInv, BulkInv', NEW w \in Workers, WorkerStep(w)
  PROVE  LockType' /\ \A v \in Workers : HoldsOK(v)'
  <1> USE DEF HoldInv, LockType
  <1>0. /\ \A v \in Workers : v # w => pc'[v] = pc[v] /\ run'[v] = run[v]
        /\ \A v \in Workers : HoldsOK(v)
        /\ Host[w] \in Hosts /\ \A v \in Workers : v # "free"
        /\ pc[w] # "idle" => run[w].job \in Jobs
    BY OthersStand, BulkAssumption DEF BulkInv, InHand, Hosts
  <1>1. CASE LetGo(w) /\ pc'[w] \notin Turn
    <2>1. /\ \A j \in Jobs : lock'[j] = IF lock[j] = w THEN "free" ELSE lock[j]
          /\ \A h \in Hosts : slot'[h] = IF slot[h] = w THEN "free" ELSE slot[h]
      BY <1>1 DEF LetGo, FreeOf
    <2>2. /\ lock' \in [Jobs -> {"free", "sync", "restore"} \cup Workers]
          /\ slot' \in [Hosts -> {"free"} \cup Workers]
      BY <1>1 DEF LetGo, FreeOf
    <2>3. \A v \in Workers : HoldsOK(v)'
      BY <1>0, <1>1, <2>1, BulkAssumption DEF HoldsOK
    <2> QED BY <2>2, <2>3
  <1>2. CASE UNCHANGED <<lock, slot>> /\ pc[w] \notin Turn /\ pc'[w] \notin Turn
    BY <1>0, <1>2 DEF HoldsOK
  <1>3. CASE /\ UNCHANGED <<lock, slot>> /\ SameFile(w)
             /\ pc'[w] = pc[w] \/ {pc[w], pc'[w]} \subseteq Turn \ {"slot"}
    BY <1>0, <1>3 DEF HoldsOK, SameFile
  <1>4. CASE /\ pc[w] = "lock" /\ pc'[w] = "slot" /\ SameFile(w)
             /\ lock[run[w].job] = "free" /\ lock' = [lock EXCEPT ![run[w].job] = w]
             /\ UNCHANGED slot
    BY <1>0, <1>4, BulkAssumption DEF HoldsOK, SameFile, Turn
  <1>5. CASE /\ pc[w] = "slot" /\ pc'[w] = "turn" /\ SameFile(w)
             /\ UNCHANGED lock
             /\ IF IsPdf(w)
                THEN slot[Host[w]] = "free" /\ slot' = [slot EXCEPT ![Host[w]] = w]
                ELSE UNCHANGED slot
    <2>1. slot' \in [Hosts -> {"free"} \cup Workers]
      BY <1>0, <1>5
    <2>2. \A v \in Workers : HoldsOK(v)'
      <3> SUFFICES ASSUME NEW v \in Workers PROVE HoldsOK(v)' OBVIOUS
      <3>1. CASE v = w
        BY <1>0, <1>5, <3>1 DEF HoldsOK, SameFile, Turn, IsPdf
      <3>2. CASE v # w
        BY <1>0, <1>5, <3>2 DEF HoldsOK
      <3> QED BY <3>1, <3>2
    <2> QED BY <1>5, <2>1, <2>2
  <1>6. LockMoves(w) BY StepHolds DEF BulkInv
  <1> QED BY <1>1, <1>2, <1>3, <1>4, <1>5, <1>6 DEF LockMoves

LEMMA DoorHolds ==
  ASSUME HoldInv, DoorOpened
  PROVE  LockType' /\ \A w \in Workers : HoldsOK(w)'
  <1> USE DEF HoldInv, LockType
  <1>1. UNCHANGED <<pc, run, slot>>
    BY DEF DoorOpened, Submit, Cancel, CancelRest, CancelLost, PastBudget, PastExpiry,
           GoesQuiet, SignOut, ChangeStanding, Erase, OtherTakes, OtherLetsGo, Expire,
           ExpireAnd, lockVars
  <1>2. \/ UNCHANGED lock
        \/ \E j \in Jobs, o \in {"free", "sync", "restore"} :
             /\ lock[j] \in {"free", "sync", "restore"} /\ lock' = [lock EXCEPT ![j] = o]
    BY DEF DoorOpened, Submit, Cancel, CancelRest, CancelLost, PastBudget, PastExpiry,
           GoesQuiet, SignOut, ChangeStanding, Erase, OtherTakes, OtherLetsGo, Expire,
           ExpireAnd, lockVars
  <1>3. CASE UNCHANGED lock
    BY <1>1, <1>3 DEF HoldsOK
  <1>4. ASSUME NEW j \in Jobs, NEW o \in {"free", "sync", "restore"},
               lock[j] \in {"free", "sync", "restore"}, lock' = [lock EXCEPT ![j] = o]
        PROVE  /\ lock' \in [Jobs -> {"free", "sync", "restore"} \cup Workers]
               /\ \A w \in Workers : HoldsOK(w)'
    <2>1. \A w \in Workers, i \in Jobs : lock'[i] = w <=> lock[i] = w
      BY <1>4, BulkAssumption
    <2> QED BY <1>1, <1>4, <2>1 DEF HoldsOK
  <1> QED BY <1>1, <1>2, <1>3, <1>4

LEMMA FaultCounts ==
  ASSUME PlainType, Fault PROVE faults' \in 0 .. MaxFaults /\ restores' = restores
  BY BulkAssumption DEF PlainType, Fault

LEMMA PlainWorker ==
  ASSUME PlainType, NEW w \in Workers, WorkerStep(w)
  PROVE  PlainType'
  <1>1. UNCHANGED <<cancelling, signedIn, household>>
    BY DEF WorkerStep, Step, Interrupted, Loop, Pick, SkipRest, SkipFull, Wait,
           TryLock, WaitOn, TrySlot, TurnCome, StarterOk, Standing, ClaimFile,
           BeginWrite, Commit, Settle, StopRest, StopJob, Finish, Clear, GiveUp, Crash,
           Raise, ReadFails, TickerLost, Claim, dbVars
  <1>2. \/ UNCHANGED ticker
        \/ ticker' = [ticker EXCEPT ![w] = FALSE] \/ ticker' = [ticker EXCEPT ![w] = TRUE]
    BY DEF WorkerStep, Step, Interrupted, Loop, Pick, SkipRest, SkipFull, Wait,
           TryLock, WaitOn, TrySlot, SlotBusy, TurnCome, StarterOk, Standing, ClaimFile,
           BeginWrite, Commit, Settle, StopRest, StopJob, Finish, Clear, GiveUp, Crash,
           Raise, ReadFails, TickerLost, Claim, Outcome, Leave
  <1>3. ticker' \in [Workers -> BOOLEAN]
    BY <1>2 DEF PlainType
  <1>4. Fault \/ UNCHANGED <<faults, restores>>
    BY DEF WorkerStep, Step, Interrupted, Loop, Pick, SkipRest, SkipFull, Wait,
           TryLock, WaitOn, TrySlot, TurnCome, StarterOk, Standing, ClaimFile,
           BeginWrite, Commit, Settle, StopRest, StopJob, Finish, Clear, GiveUp, Crash,
           Raise, ReadFails, TickerLost, Claim
  <1> QED BY <1>1, <1>3, <1>4, FaultCounts DEF PlainType

LEMMA PlainDoor ==
  ASSUME PlainType, DoorOpened PROVE PlainType'
  <1> USE DEF PlainType
  <1>1. UNCHANGED ticker
    BY DEF DoorOpened, Submit, Cancel, CancelRest, CancelLost, PastBudget, PastExpiry,
           GoesQuiet, SignOut, ChangeStanding, Erase, OtherTakes, OtherLetsGo, Expire,
           ExpireAnd
  <1>2. ASSUME NEW j \in Jobs,
               \/ Submit(j) \/ Cancel(j) \/ CancelRest(j) \/ PastBudget(j)
               \/ PastExpiry(j) \/ GoesQuiet(j) \/ OtherLetsGo(j)
        PROVE  PlainType'
    BY <1>1, <1>2 DEF Submit, Cancel, CancelRest, PastBudget, PastExpiry, GoesQuiet,
                      OtherLetsGo, dbVars
  <1>3. ASSUME NEW j \in Jobs, CancelLost(j) PROVE PlainType'
    BY <1>1, <1>3, FaultCounts DEF CancelLost
  <1>4. ASSUME NEW j \in Jobs, SignOut(j) \/ ChangeStanding(j) \/ Erase(j)
        PROVE  PlainType'
    BY <1>1, <1>4 DEF SignOut, ChangeStanding, Erase
  <1>5. ASSUME NEW j \in Jobs, OtherTakes(j) PROVE PlainType'
    BY <1>1, <1>5, BulkAssumption DEF OtherTakes, dbVars
  <1>6. CASE Expire
    BY <1>1, <1>6 DEF Expire, ExpireAnd
  <1> QED BY <1>2, <1>3, <1>4, <1>5, <1>6 DEF DoorOpened

(* Every variable stays in its type, and a household's lock and a process' *)
(* PDF slot are held by just the worker whose turn it is (_run_file's      *)
(* locks, released on every way out of it).                                *)
THEOREM TypeCorrect == Spec => []TypeOK
  <1>1. Init => HoldInv
    <2> SUFFICES ASSUME Init PROVE HoldInv OBVIOUS
    <2>1. PlainType /\ LockType
      BY BulkAssumption DEF Init, PlainType, LockType
    <2>2. \A w \in Workers : HoldsOK(w)
      BY BulkAssumption DEF Init, HoldsOK, Turn
    <2> QED BY <2>1, <2>2, InitBulk DEF HoldInv
  <1>2. HoldInv /\ [Next]_vars => HoldInv'
    <2> SUFFICES ASSUME HoldInv, [Next]_vars PROVE HoldInv' OBVIOUS
    <2>1. BulkInv' BY NextBulk DEF HoldInv
    <2>2. PlainType BY DEF HoldInv
    <2>3. DoorOpened \/ (\E w \in Workers : WorkerStep(w)) \/ UNCHANGED vars
      BY DEF Next, DoorOpened, WorkerStep
    <2>4. CASE DoorOpened
      BY <2>1, <2>2, <2>4, DoorHolds, PlainDoor DEF HoldInv
    <2>5. ASSUME NEW w \in Workers, WorkerStep(w) PROVE HoldInv'
      BY <2>1, <2>2, <2>5, WorkerHolds, PlainWorker DEF HoldInv
    <2>6. CASE UNCHANGED vars
      BY <2>1, <2>6 DEF HoldInv, PlainType, LockType, HoldsOK, vars
    <2> QED BY <2>3, <2>4, <2>5, <2>6
  <1>3. HoldInv => TypeOK
    BY DEF HoldInv, BulkInv, BulkType, PlainType, LockType, TypeOK
  <1> QED BY <1>1, <1>2, <1>3, PTL DEF Spec
==============================================================================
