--------------------------- MODULE ResearchProofs ---------------------------
(***************************************************************************)
(* Proofs about the research pipeline, and about what is told of a run     *)
(* once it is over.                                                        *)
(*                                                                         *)
(* TRAINING RUNS, for any models, suite, folds and number of faults: each  *)
(* file that tells of another is written after it, and what a command has  *)
(* in hand between two writes is what the next one needs.                  *)
(*                                                                         *)
(* EXPERIENCES, for any specialists and any number of bars: the records of *)
(* a replay fit together while it grows, so that each of its decisions has *)
(* one fill, one trade and one exit to be told with, or none.              *)
(*                                                                         *)
(* SPLITS, for any rows, candles that rise and lengths of the segments: a  *)
(* purge of at least the horizon keeps labels apart wherever rows were     *)
(* dropped, since a dropped row only moves the others further away.        *)
(*                                                                         *)
(* FUSION, for any specialists, evidence and policy: every sum the         *)
(* decision rests on is the same with bulls and bears exchanged, or        *)
(* changes places with the other side's.                                   *)
(*                                                                         *)
(* MARKET DATA, for any candles, pauses and parameters: a candle once      *)
(* closed never changes, and all that is computed for a row looks at       *)
(* candles of one stretch that two exports have in common.                 *)
(***************************************************************************)
EXTENDS QuantRuns, Attribution, ResearchInputs, MarketData, Folds, FiniteSetTheorems,
        WellFoundedInduction, TLAPS

-----------------------------------------------------------------------------
(* TRAINING RUNS                                                           *)

Training == {"TRAIN", "TRACK", "ARTIFACTS", "REGISTER", "FINISH"}
Working  == Training \cup {"REPORT", "CLOSE"}
Rows     == {"NONE", "FAILED", "COMPLETE", "SKIPPED_COMPLETE"}
States   == {"NONE", "CANDIDATE", "CHALLENGER", "CHAMPION", "RETIRED"}

RunRecords ==
  [at : {"IDLE", "NEXT"} \cup Working, left : Seq(Tasks), rows : [Experiments -> Rows]]

Commands ==
  [name : {"SUITE"}, resume : BOOLEAN, goesOn : BOOLEAN]
    \cup {[name |-> "WALK_FORWARD", resume |-> TRUE, goesOn |-> FALSE], NoCommand}

RunsTyped ==
  /\ command \in Commands
  /\ run \in RunRecords
  /\ dir \in [Models -> {"ABSENT", "PARTIAL", "COMPLETE"}]
  /\ registry \in [Models -> States] /\ garbled \in BOOLEAN
  /\ tracker \in [Models -> {"NONE", "RUNNING", "FAILED", "COMPLETE"}]
  /\ status \in [Tasks -> {"NONE", "RUNNING", "FAILED", "COMPLETE"}]
  /\ report \in [Tasks -> BOOLEAN]
  /\ summary \in [Experiments -> Rows]
  /\ judged \in BOOLEAN

FoldDone(k) == status[k] = "COMPLETE" /\ report[k]

(* What the command at hand knows of the files: of the task it is at, of   *)
(* the experiments it has a row for, and of the folds it is through with.  *)
InHand ==
  /\ run.at = "IDLE" => run.left = << >>
  /\ run.at # "IDLE" => \/ command.name = "SUITE" /\ run.left \in Seq(Experiments)
                        \/ command.name = "WALK_FORWARD" /\ run.left \in Seq(Folds)
  /\ run.at \in Working => run.left # << >>
  /\ run.at \in Training => Task \in Experiments
  /\ run.at \in {"REGISTER", "FINISH"} => dir[Model] = "COMPLETE"
  /\ run.at = "FINISH" => registry[Model] # "NONE"
  /\ run.at = "REPORT" /\ Task \in Experiments => dir[Model] = "COMPLETE"
  /\ run.at = "CLOSE" => report[Task]
  /\ \A e \in Experiments : run.rows[e] \in Done => report[e]
  /\ run.at # "IDLE" /\ command.name = "WALK_FORWARD" =>
       \A k \in Folds : FoldDone(k) \/ \E i \in DOMAIN run.left : run.left[i] = k
  /\ judged /\ run.at \in Working => Task \in Experiments

RunsInv == RunsTyped /\ InHand /\ ReportsRestOnArtifacts

LEMMA IdleRecord == Idle \in RunRecords /\ Idle.at = "IDLE" /\ Idle.left = << >>
                    /\ \A e \in Experiments : Idle.rows[e] = "NONE"
<1>1. [e \in Experiments |-> "NONE"] \in [Experiments -> Rows]
  BY DEF Rows
<1> QED
  BY <1>1 DEF Idle, RunRecords

LEMMA RunsInitInv == RunsInit => RunsInv
<1> SUFFICES ASSUME RunsInit PROVE RunsInv
  OBVIOUS
<1> USE DEF RunsInit
<1>1. RunsTyped
  BY IdleRecord DEF RunsTyped, Commands, States, Rows
<1>2. InHand
  BY IdleRecord DEF InHand, Working, Training, Done
<1>3. ReportsRestOnArtifacts
  BY RunsAssumption DEF ReportsRestOnArtifacts, Done, Tasks
<1> QED
  BY <1>1, <1>2, <1>3 DEF RunsInv

(* The task and the model at hand.                                         *)
LEMMA TaskAtHand ==
  ASSUME RunsInv, run.left # << >>
  PROVE  /\ Task \in Tasks
         /\ Task \in Experiments => Model \in Models
         /\ run.left \in Seq(Tasks) /\ Tail(run.left) \in Seq(Tasks)
         /\ run.at # "IDLE" => \/ command.name = "SUITE" /\ Task \in Experiments /\ Tail(run.left) \in Seq(Experiments)
                               \/ command.name = "WALK_FORWARD" /\ Task \in Folds /\ Tail(run.left) \in Seq(Folds)
         /\ \A i \in DOMAIN run.left : run.left[i] = Task \/ \E j \in DOMAIN Tail(run.left) : Tail(run.left)[j] = run.left[i]
<1>1. run.left \in Seq(Tasks)
  BY DEF RunsInv, RunsTyped, RunRecords
<1>2. PICK l \in Seq(Tasks) : l = run.left
  BY <1>1
<1>3. /\ Head(l) \in Tasks /\ Tail(l) \in Seq(Tasks) /\ Len(l) \in Nat /\ Len(l) # 0
      /\ Head(l) = l[1] /\ DOMAIN l = 1..Len(l) /\ DOMAIN Tail(l) = 1..(Len(l) - 1)
      /\ \A j \in 1..(Len(l) - 1) : Tail(l)[j] = l[j + 1]
  BY <1>2
<1>4. \A i \in DOMAIN l : l[i] = Head(l) \/ \E j \in DOMAIN Tail(l) : Tail(l)[j] = l[i]
  <2> SUFFICES ASSUME NEW i \in DOMAIN l, l[i] # Head(l) PROVE \E j \in DOMAIN Tail(l) : Tail(l)[j] = l[i]
    OBVIOUS
  <2>1. i # 1 /\ i - 1 \in 1..(Len(l) - 1) /\ (i - 1) + 1 = i
    BY <1>3
  <2> QED
    BY <1>3, <2>1
<1>5. l \in Seq(Experiments) => Head(l) \in Experiments /\ Tail(l) \in Seq(Experiments)
  BY <1>2
<1>6. l \in Seq(Folds) => Head(l) \in Folds /\ Tail(l) \in Seq(Folds)
  BY <1>2
<1>7. \A e \in Experiments : ModelOf[e] \in Models
  BY RunsAssumption
<1> QED
  BY <1>2, <1>3, <1>4, <1>5, <1>6, <1>7 DEF Task, Model, RunsInv, InHand

LEMMA GotoIs ==
  ASSUME RunsInv, NEW at \in {"NEXT"} \cup Working, Goto(at)
  PROVE  /\ run' \in RunRecords /\ run'.at = at /\ run'.left = run.left /\ run'.rows = run.rows
         /\ Task' = Task /\ Model' = Model
<1>1. run \in RunRecords
  BY DEF RunsInv, RunsTyped
<1>2. run' = [at |-> at, left |-> run.left, rows |-> run.rows]
  BY <1>1 DEF RunRecords, Goto
<1>3. run' \in RunRecords /\ run'.at = at /\ run'.left = run.left /\ run'.rows = run.rows
  BY <1>1, <1>2 DEF RunRecords
<1> QED
  BY <1>3 DEF Task, Model

(* The task at hand has its row: what the next one may rely on.            *)
LEMMA AfterIs ==
  ASSUME RunsInv, run.at \in Working \cup {"NEXT"}, run.left # << >>, NEW row \in Rows, After(row),
         UNCHANGED <<command, report, judged>>,
         row \in Done => report[Task],
         Task \in Folds => row # "FAILED" /\ status'[Task] = "COMPLETE" /\ report[Task],
         \A k \in Folds : k # Task => status'[k] = status[k]
  PROVE  run' \in RunRecords /\ InHand'
<1>1. run \in RunRecords /\ run.rows \in [Experiments -> Rows] /\ Experiments \cap Folds = {}
  BY RunsAssumption DEF RunsInv, RunsTyped, RunRecords
<1>2. PICK rows : rows = IF Task \in Experiments THEN [run.rows EXCEPT ![Task] = row] ELSE run.rows
  OBVIOUS
<1>3. PICK left : left = IF row = "FAILED" /\ ~command.goesOn THEN << >> ELSE Tail(run.left)
  OBVIOUS
<1>4. run' = [at |-> "NEXT", left |-> left, rows |-> rows]
  BY <1>2, <1>3 DEF After
<1>5. run'.at = "NEXT" /\ run'.left = left /\ run'.rows = rows
  BY <1>4
<1>6. rows \in [Experiments -> Rows] /\ \A e \in Experiments : rows[e] = IF e = Task THEN row ELSE run.rows[e]
  BY <1>1, <1>2
<1>7. run.at # "IDLE"
  BY DEF Working, Training
<1>8. /\ \/ command.name = "SUITE" /\ Task \in Experiments /\ Tail(run.left) \in Seq(Experiments)
         \/ command.name = "WALK_FORWARD" /\ Task \in Folds /\ Tail(run.left) \in Seq(Folds)
      /\ Tail(run.left) \in Seq(Tasks)
      /\ \A i \in DOMAIN run.left :
           run.left[i] = Task \/ \E j \in DOMAIN Tail(run.left) : Tail(run.left)[j] = run.left[i]
  BY <1>7, TaskAtHand
<1>9. left \in Seq(Tasks)
  BY <1>3, <1>8
<1>10. run' \in RunRecords
  BY <1>4, <1>6, <1>9 DEF RunRecords
<1>11. \/ command'.name = "SUITE" /\ left \in Seq(Experiments)
       \/ command'.name = "WALK_FORWARD" /\ left \in Seq(Folds)
  BY <1>3, <1>8
<1>12. \A e \in Experiments : rows[e] \in Done => report'[e]
  BY <1>6 DEF RunsInv, InHand
<1>13. command'.name = "WALK_FORWARD" =>
         \A k \in Folds : FoldDone(k)' \/ \E i \in DOMAIN left : left[i] = k
  <2> SUFFICES ASSUME command.name = "WALK_FORWARD", NEW k \in Folds, ~FoldDone(k)'
               PROVE  \E i \in DOMAIN left : left[i] = k
    OBVIOUS
  <2>1. Task \in Folds /\ left = Tail(run.left)
    BY <1>3, <1>8
  <2>2. k # Task
    BY <2>1 DEF FoldDone
  <2>3. ~FoldDone(k)
    BY <2>2 DEF FoldDone
  <2>4. \E i \in DOMAIN run.left : run.left[i] = k
    BY <1>7, <2>3 DEF RunsInv, InHand
  <2> QED
    BY <1>8, <2>1, <2>2, <2>4
<1>14. InHand'
  BY <1>5, <1>11, <1>12, <1>13 DEF InHand, Working, Training
<1> QED
  BY <1>10, <1>14

(* No file changes but the status of a task that is neither done nor told. *)
LEMMA FilesStay ==
  ASSUME RunsInv, UNCHANGED <<dir, registryFile, tracker, status, report, summary, judged>>
  PROVE  ReportsRestOnArtifacts'
  BY DEF RunsInv, ReportsRestOnArtifacts, registryFile

(* A registry cut off while it was written names no model any more, and no *)
(* tracker's row can hold that against it.                                 *)
LEMMA RegistryLeft ==
  ASSUME RunsInv, UNCHANGED registryFile \/ CutOff
  PROVE  /\ registry' \in [Models -> States] /\ garbled' \in BOOLEAN
         /\ garbled => garbled'
         /\ \A m \in Models : registry'[m] = registry[m] \/ (registry'[m] = "NONE" /\ garbled')
<1>1. CASE UNCHANGED registryFile
  BY <1>1 DEF RunsInv, RunsTyped, registryFile
<1>2. CASE CutOff
  BY <1>2 DEF RunsInv, RunsTyped, CutOff, States
<1> QED
  BY <1>1, <1>2

LEMMA StartStep == ASSUME RunsInv, Start PROVE RunsInv'
<1> USE DEF Start, registryFile
<1>1. PICK left : left = IF command.name = "SUITE" THEN Suite ELSE [k \in Folds |-> k]
  OBVIOUS
<1>2. run' = [at |-> "NEXT", left |-> left, rows |-> Idle.rows]
  BY <1>1 DEF Idle
<1>3. FoldCount \in Nat /\ Suite \in Seq(Experiments)
  BY RunsAssumption
<1>4. [k \in Folds |-> k] \in Seq(Folds) /\ DOMAIN [k \in Folds |-> k] = Folds
  BY <1>3 DEF Folds
<1>5. command.name \in {"SUITE", "WALK_FORWARD"}
  BY DEF RunsInv, RunsTyped, Commands
<1>6. \/ command.name = "SUITE" /\ left \in Seq(Experiments)
      \/ command.name = "WALK_FORWARD" /\ left = [k \in Folds |-> k] /\ left \in Seq(Folds)
  BY <1>1, <1>3, <1>4, <1>5
<1>7. left \in Seq(Tasks)
  BY <1>6 DEF Tasks
<1>8. run' \in RunRecords /\ run'.at = "NEXT" /\ run'.left = left /\ run'.rows = Idle.rows
  <2>1. Idle.rows \in [Experiments -> Rows]
    BY IdleRecord DEF RunRecords
  <2>2. PICK rows \in [Experiments -> Rows] : rows = Idle.rows
    BY <2>1
  <2>3. run' = [at |-> "NEXT", left |-> left, rows |-> rows]
    BY <1>2, <2>2
  <2>4. "NEXT" \in {"IDLE", "NEXT"} \cup Working
    OBVIOUS
  <2>5. run' \in RunRecords
    BY ONLY <1>7, <2>2, <2>3, <2>4, Zenon DEF RunRecords
  <2> QED
    BY ONLY <2>2, <2>3, <2>5
<1>9. RunsTyped'
  BY <1>8 DEF RunsInv, RunsTyped
<1>10. \A e \in Experiments : run'.rows[e] \notin Done
  BY <1>8, IdleRecord DEF Done
<1>11. command.name = "WALK_FORWARD" => \A k \in Folds : \E i \in DOMAIN left : left[i] = k
  BY <1>4, <1>6
<1>12. InHand'
  BY <1>6, <1>8, <1>10, <1>11 DEF InHand, Working, Training
<1> QED
  BY <1>9, <1>12, FilesStay DEF RunsInv

LEMMA SkipStep == ASSUME RunsInv, Skip PROVE RunsInv'
<1> USE DEF Skip, registryFile
<1>1. PICK row : row = IF Task \in Experiments /\ command.resume /\ summary[Task] \in Done
                       THEN "SKIPPED_COMPLETE" ELSE "COMPLETE"
  OBVIOUS
<1>2. row \in Rows /\ row # "FAILED" /\ After(row)
  BY <1>1 DEF Rows
<1>3. Task \in Tasks
  BY TaskAtHand
<1>4. report[Task] /\ (Task \in Folds => status[Task] = "COMPLETE")
  <2>1. \A e \in Experiments : summary[e] \in Done => report[e]
    BY DEF RunsInv, ReportsRestOnArtifacts
  <2> QED
    BY <1>3, <2>1 DEF Tasks
<1>5. run' \in RunRecords /\ InHand'
  BY <1>2, <1>4, AfterIs
<1> QED
  BY <1>5, FilesStay DEF RunsInv, RunsTyped

LEMMA BeginStep == ASSUME RunsInv, Begin PROVE RunsInv'
<1> USE DEF Begin, registryFile
<1>1. PICK t : t = Task
  OBVIOUS
<1>2. t \in Tasks /\ (t \in Experiments => Model \in Models) /\ Experiments \cap Folds = {}
  BY <1>1, TaskAtHand, RunsAssumption
<1>3. PICK at : at = IF t \in Folds THEN "REPORT" ELSE "TRAIN"
  OBVIOUS
<1>4. at \in {"NEXT"} \cup Working /\ at \in Working /\ Goto(at)
  BY <1>1, <1>3 DEF Working, Training
<1>5. run' \in RunRecords /\ run'.at = at /\ run'.left = run.left /\ run'.rows = run.rows /\ Task' = t /\ Model' = Model
  BY <1>1, <1>4, GotoIs
<1>6. status' = [status EXCEPT ![t] = "RUNNING"] /\ status \in [Tasks -> {"NONE", "RUNNING", "FAILED", "COMPLETE"}]
  BY <1>1 DEF RunsInv, RunsTyped
<1>7. status' \in [Tasks -> {"NONE", "RUNNING", "FAILED", "COMPLETE"}]
      /\ \A u \in Tasks : status'[u] = IF u = t THEN "RUNNING" ELSE status[u]
  BY <1>2, <1>6
<1>8. RunsTyped'
  BY <1>5, <1>7 DEF RunsInv, RunsTyped
<1>9. t \in Folds => ~FoldDone(t)
  BY <1>1 DEF FoldDone
<1>10. judged => t \in Experiments
  BY <1>2, <1>9 DEF RunsInv, ReportsRestOnArtifacts, FoldDone, Tasks
<1>11. ReportsRestOnArtifacts'
  <2>1. \A e \in Experiments : status'[e] = "COMPLETE" => status[e] = "COMPLETE"
    BY <1>7 DEF Tasks
  <2>2. judged => \A k \in Folds : status'[k] = status[k]
    BY <1>2, <1>7, <1>10 DEF Tasks
  <2> QED
    BY <2>1, <2>2 DEF RunsInv, ReportsRestOnArtifacts
<1>12. run.at # "IDLE" /\ (t \in Experiments => at = "TRAIN") /\ (t \in Folds => at = "REPORT") /\ (t \in Experiments \/ t \in Folds)
  BY <1>2, <1>3 DEF Tasks
<1>13. command'.name = "WALK_FORWARD" =>
         \A k \in Folds : FoldDone(k)' \/ \E i \in DOMAIN run'.left : run'.left[i] = k
  <2> SUFFICES ASSUME command.name = "WALK_FORWARD", NEW k \in Folds, ~FoldDone(k)'
               PROVE  \E i \in DOMAIN run.left : run.left[i] = k
    BY <1>5
  <2>1. ~FoldDone(k)
    <3>1. CASE k = t
      BY <1>9, <3>1
    <3>2. CASE k # t
      BY <1>7, <3>2 DEF FoldDone, Tasks
    <3> QED
      BY <3>1, <3>2
  <2> QED
    BY <1>12, <2>1 DEF RunsInv, InHand
<1>14. InHand'
  BY <1>2, <1>4, <1>5, <1>10, <1>12, <1>13 DEF RunsInv, InHand, Working, Training
<1> QED
  BY <1>8, <1>11, <1>14 DEF RunsInv

LEMMA ReportTyped == RunsInv => \A t \in Tasks : report[t] \in BOOLEAN
  BY DEF RunsInv, RunsTyped

LEMMA FailKept ==
  ASSUME RunsInv, run.at \in Working, Fail, UNCHANGED registryFile \/ CutOff
  PROVE  RunsInv'
<1> USE DEF Fail
<1>1. PICK t : t = Task
  OBVIOUS
<1>2. run.left # << >>
  BY DEF RunsInv, InHand
<1>3. t \in Tasks /\ (t \in Experiments => Model \in Models) /\ Experiments \cap Folds = {}
  BY <1>1, <1>2, TaskAtHand, RunsAssumption
<1>4. status' = [status EXCEPT ![t] = "FAILED"] /\ status \in [Tasks -> {"NONE", "RUNNING", "FAILED", "COMPLETE"}]
  BY <1>1 DEF RunsInv, RunsTyped
<1>5. status' \in [Tasks -> {"NONE", "RUNNING", "FAILED", "COMPLETE"}]
      /\ \A u \in Tasks : status'[u] = IF u = t THEN "FAILED" ELSE status[u]
  BY <1>3, <1>4
<1>6. /\ tracker' \in [Models -> {"NONE", "RUNNING", "FAILED", "COMPLETE"}]
      /\ \A m \in Models : tracker'[m] = "COMPLETE" => tracker[m] = "COMPLETE"
  BY DEF RunsInv, RunsTyped
<1>7. judged => t \in Experiments
  BY <1>1 DEF RunsInv, InHand
<1>8. ReportsRestOnArtifacts'
  <2>1. \A e \in Experiments : status'[e] = "COMPLETE" => status[e] = "COMPLETE"
    BY <1>5 DEF Tasks
  <2>2. judged => \A k \in Folds : status'[k] = status[k]
    BY <1>3, <1>5, <1>7 DEF Tasks
  <2> QED
    BY <1>6, <2>1, <2>2, RegistryLeft DEF RunsInv, ReportsRestOnArtifacts
<1>9. run' \in RunRecords /\ InHand'
  <2>1. CASE t \in Folds
    <3>1. run' = Idle
      BY <1>1, <2>1
    <3> QED
      BY <3>1, IdleRecord DEF InHand, Working, Training, Done
  <2>2. CASE t \notin Folds
    <3>1. After("FAILED")
      BY <1>1, <2>2
    <3>2. \A k \in Folds : k # Task => status'[k] = status[k]
      BY <1>1, <1>5 DEF Tasks
    <3>3. "FAILED" \in Rows /\ "FAILED" \notin Done
      BY DEF Rows, Done
    <3> QED
      BY <1>1, <1>2, <2>2, <3>1, <3>2, <3>3, AfterIs
  <2> QED
    BY <2>1, <2>2
<1> QED
  BY <1>5, <1>6, <1>8, <1>9, RegistryLeft DEF RunsInv, RunsTyped

(* A stage that only moves on: what the next one relies on.                *)
LEMMA MovesOn ==
  ASSUME RunsInv, run.at \in Working, NEW at \in Working, Goto(at), UNCHANGED <<command, status, judged>>,
         \A t \in Tasks : report[t] => report'[t],
         \A m \in Models : dir[m] = "COMPLETE" => dir'[m] = "COMPLETE",
         \A m \in Models : registry[m] # "NONE" => registry'[m] # "NONE",
         at \in Training => run.at \in Training,
         at \in {"REGISTER", "FINISH"} \/ (at = "REPORT" /\ Task \in Experiments) => dir'[Model] = "COMPLETE",
         at = "FINISH" => registry'[Model] # "NONE",
         at = "CLOSE" => report'[Task]
  PROVE  run' \in RunRecords /\ InHand'
<1>1. run' \in RunRecords /\ run'.at = at /\ run'.left = run.left /\ run'.rows = run.rows /\ Task' = Task /\ Model' = Model
  BY GotoIs
<1>2. run.left # << >> /\ run.at # "IDLE"
  BY DEF RunsInv, InHand, Working, Training
<1>3. /\ \/ command'.name = "SUITE" /\ run'.left \in Seq(Experiments)
         \/ command'.name = "WALK_FORWARD" /\ run'.left \in Seq(Folds)
      /\ at # "IDLE" /\ run'.left # << >>
  BY <1>1, <1>2 DEF RunsInv, InHand, Working, Training
<1>4. /\ at \in Training => Task' \in Experiments
      /\ judged' => Task' \in Experiments
  BY <1>1 DEF RunsInv, InHand
<1>5. \A e \in Experiments : run'.rows[e] \in Done => report'[e]
  BY <1>1 DEF RunsInv, InHand, Tasks
<1>6. command'.name = "WALK_FORWARD" =>
         \A k \in Folds : FoldDone(k)' \/ \E i \in DOMAIN run'.left : run'.left[i] = k
  <2> SUFFICES ASSUME command.name = "WALK_FORWARD", NEW k \in Folds, ~FoldDone(k)'
               PROVE  \E i \in DOMAIN run.left : run.left[i] = k
    BY <1>1
  <2>1. ~FoldDone(k)
    BY DEF FoldDone, Tasks
  <2> QED
    BY <1>2, <2>1 DEF RunsInv, InHand
<1>7. InHand'
  BY <1>1, <1>3, <1>4, <1>5, <1>6 DEF InHand
<1> QED
  BY <1>1, <1>7

LEMMA TrainStep == ASSUME RunsInv, Train PROVE RunsInv'
<1> USE DEF Train, registryFile
<1>1. run.at \in Working /\ run.left # << >> /\ run.at \in Training
  BY DEF RunsInv, InHand, Working, Training
<1>2. CASE dir[Model] = "PARTIAL" /\ Fail /\ UNCHANGED registryFile
  BY <1>1, <1>2, FailKept
<1>3. CASE dir[Model] = "COMPLETE" /\ Goto("REPORT")
           /\ UNCHANGED <<command, dir, registryFile, tracker, status, report, summary, judged, faults>>
  <2>1. "REPORT" \in Working /\ "REPORT" \notin Training
    BY DEF Working, Training
  <2>2. run' \in RunRecords /\ InHand'
    BY <1>1, <1>3, <2>1, MovesOn
  <2> QED
    BY <1>3, <2>2, FilesStay DEF RunsInv, RunsTyped
<1>4. CASE dir[Model] = "ABSENT" /\ dir' = [dir EXCEPT ![Model] = "PARTIAL"] /\ Goto("TRACK")
           /\ UNCHANGED <<command, registryFile, tracker, status, report, summary, judged, faults>>
  <2>1. PICK m : m = Model
    OBVIOUS
  <2>2. dir' = [dir EXCEPT ![m] = "PARTIAL"] /\ dir[m] = "ABSENT"
        /\ dir \in [Models -> {"ABSENT", "PARTIAL", "COMPLETE"}]
    BY <1>4, <2>1 DEF RunsInv, RunsTyped
  <2>3. dir' \in [Models -> {"ABSENT", "PARTIAL", "COMPLETE"}]
        /\ \A n \in Models : dir[n] = "COMPLETE" => dir'[n] = "COMPLETE"
    BY <2>2
  <2>4. "TRACK" \in Working /\ "TRACK" \in Training
    BY DEF Working, Training
  <2>5. run' \in RunRecords /\ InHand'
    BY <1>1, <1>4, <2>3, <2>4, MovesOn
  <2>6. ReportsRestOnArtifacts'
    <3>1. \A e \in Experiments : ModelOf[e] \in Models
      BY RunsAssumption
    <3> QED
      BY <1>4, <2>3, <3>1 DEF RunsInv, ReportsRestOnArtifacts
  <2> QED
    BY <1>4, <2>3, <2>5, <2>6 DEF RunsInv, RunsTyped
<1> QED
  BY <1>2, <1>3, <1>4

LEMMA TrackStep == ASSUME RunsInv, Track PROVE RunsInv'
<1> USE DEF Track, registryFile
<1>1. run.at \in Training /\ run.at \in Working /\ "ARTIFACTS" \in Working
  BY DEF Working, Training
<1>2. /\ tracker' \in [Models -> {"NONE", "RUNNING", "FAILED", "COMPLETE"}]
      /\ \A m \in Models : tracker'[m] = "COMPLETE" => tracker[m] = "COMPLETE"
  BY DEF RunsInv, RunsTyped
<1>3. run' \in RunRecords /\ InHand'
  BY <1>1, MovesOn
<1>4. ReportsRestOnArtifacts'
  BY <1>2 DEF RunsInv, ReportsRestOnArtifacts
<1> QED
  BY <1>2, <1>3, <1>4 DEF RunsInv, RunsTyped

LEMMA ArtifactsStep == ASSUME RunsInv, Artifacts PROVE RunsInv'
<1> USE DEF Artifacts, registryFile
<1>1. run.at \in Training /\ run.at \in Working /\ "REGISTER" \in Working
  BY DEF Working, Training
<1>2. PICK m : m = Model
  OBVIOUS
<1>3. run.left # << >> /\ Task \in Experiments
  BY <1>1 DEF RunsInv, InHand
<1>4. m \in Models
  BY <1>2, <1>3, TaskAtHand
<1>5. dir' = [dir EXCEPT ![m] = "COMPLETE"] /\ dir \in [Models -> {"ABSENT", "PARTIAL", "COMPLETE"}]
  BY <1>2 DEF RunsInv, RunsTyped
<1>6. dir' \in [Models -> {"ABSENT", "PARTIAL", "COMPLETE"}] /\ dir'[m] = "COMPLETE"
      /\ \A n \in Models : dir[n] = "COMPLETE" => dir'[n] = "COMPLETE"
  BY <1>4, <1>5
<1>7. run' \in RunRecords /\ InHand'
  BY <1>1, <1>2, <1>6, MovesOn
<1>8. ReportsRestOnArtifacts'
  <2>1. \A e \in Experiments : ModelOf[e] \in Models
    BY RunsAssumption
  <2> QED
    BY <1>6, <2>1 DEF RunsInv, ReportsRestOnArtifacts
<1> QED
  BY <1>6, <1>7, <1>8 DEF RunsInv, RunsTyped

LEMMA RegisterStep == ASSUME RunsInv, Register PROVE RunsInv'
<1>1. CASE garbled /\ Fail /\ UNCHANGED registryFile
  BY <1>1, FailKept DEF Register, Working, Training
<1>2. CASE /\ ~garbled /\ run.at = "REGISTER"
           /\ registry' = [registry EXCEPT ![Model] = IF @ = "NONE" THEN "CANDIDATE" ELSE @]
           /\ Goto("FINISH")
           /\ UNCHANGED <<command, dir, garbled, tracker, status, report, summary, judged, faults>>
  <2> USE <1>2
  <2>1. run.at \in Training /\ run.at \in Working /\ "FINISH" \in Working
    BY DEF Working, Training
  <2>2. PICK m : m = Model
    OBVIOUS
  <2>3. run.left # << >> /\ Task \in Experiments
    BY <2>1 DEF RunsInv, InHand
  <2>4. m \in Models /\ dir[m] = "COMPLETE"
    BY <2>2, <2>3, TaskAtHand DEF RunsInv, InHand
  <2>5. registry' = [registry EXCEPT ![m] = IF registry[m] = "NONE" THEN "CANDIDATE" ELSE registry[m]]
        /\ registry \in [Models -> States]
    BY <2>2 DEF RunsInv, RunsTyped
  <2>6. /\ registry' \in [Models -> States] /\ registry'[m] # "NONE"
        /\ \A n \in Models \ {m} : registry'[n] = registry[n]
        /\ \A n \in Models : registry[n] # "NONE" => registry'[n] # "NONE"
    BY <2>4, <2>5 DEF States
  <2>7. run' \in RunRecords /\ InHand'
    BY <2>1, <2>2, <2>4, <2>6, MovesOn
  <2>8. ReportsRestOnArtifacts'
    BY <2>4, <2>6 DEF RunsInv, ReportsRestOnArtifacts
  <2> QED
    BY <2>6, <2>7, <2>8 DEF RunsInv, RunsTyped
<1> QED
  BY <1>1, <1>2 DEF Register

LEMMA FinishStep == ASSUME RunsInv, Finish PROVE RunsInv'
<1> USE DEF Finish, registryFile
<1>1. run.at \in Training /\ run.at \in Working /\ "REPORT" \in Working /\ "REPORT" \notin Training
  BY DEF Working, Training
<1>2. PICK m : m = Model
  OBVIOUS
<1>3. dir[m] = "COMPLETE" /\ registry[m] # "NONE"
  BY <1>2 DEF RunsInv, InHand
<1>4. /\ tracker' \in [Models -> {"NONE", "RUNNING", "FAILED", "COMPLETE"}]
      /\ \A n \in Models : n # m => tracker'[n] = tracker[n]
  BY <1>2 DEF RunsInv, RunsTyped
<1>5. run' \in RunRecords /\ InHand'
  BY <1>1, <1>2, <1>3, MovesOn
<1>6. ReportsRestOnArtifacts'
  BY <1>3, <1>4 DEF RunsInv, ReportsRestOnArtifacts
<1> QED
  BY <1>4, <1>5, <1>6 DEF RunsInv, RunsTyped

LEMMA ReportStep == ASSUME RunsInv, Report PROVE RunsInv'
<1> USE DEF Report, registryFile
<1>1. run.at \in Working /\ "CLOSE" \in Working /\ "CLOSE" \notin Training
  BY DEF Working, Training
<1>2. PICK t : t = Task
  OBVIOUS
<1>3. run.left # << >>
  BY <1>1 DEF RunsInv, InHand
<1>4. t \in Tasks /\ (t \in Experiments => dir[ModelOf[t]] = "COMPLETE")
  BY <1>2, <1>3, TaskAtHand DEF RunsInv, InHand, Model
<1>5. report' = [report EXCEPT ![t] = TRUE] /\ report \in [Tasks -> BOOLEAN]
  BY <1>2 DEF RunsInv, RunsTyped
<1>6. report' \in [Tasks -> BOOLEAN] /\ report'[t]
      /\ \A u \in Tasks : (report[u] => report'[u]) /\ (u # t => report'[u] = report[u])
  BY <1>4, <1>5
<1>7. run' \in RunRecords /\ InHand'
  BY <1>1, <1>2, <1>6, MovesOn
<1>8. ReportsRestOnArtifacts'
  <2>1. \A e \in Experiments : e \in Tasks
    BY DEF Tasks
  <2>2. \A k \in Folds : k \in Tasks
    BY DEF Tasks
  <2> QED
    BY <1>4, <1>6, <2>1, <2>2 DEF RunsInv, ReportsRestOnArtifacts
<1> QED
  BY <1>6, <1>7, <1>8 DEF RunsInv, RunsTyped

LEMMA CloseStep == ASSUME RunsInv, Close PROVE RunsInv'
<1> USE DEF Close, registryFile
<1>1. run.at \in Working
  BY DEF Working, Training
<1>2. PICK t : t = Task
  OBVIOUS
<1>3. run.left # << >>
  BY <1>1 DEF RunsInv, InHand
<1>4. t \in Tasks /\ report[t]
  BY <1>2, <1>3, TaskAtHand DEF RunsInv, InHand
<1>5. status' = [status EXCEPT ![t] = "COMPLETE"] /\ status \in [Tasks -> {"NONE", "RUNNING", "FAILED", "COMPLETE"}]
  BY <1>2 DEF RunsInv, RunsTyped
<1>6. status' \in [Tasks -> {"NONE", "RUNNING", "FAILED", "COMPLETE"}] /\ status'[t] = "COMPLETE"
      /\ \A u \in Tasks : u # t => status'[u] = status[u]
  BY <1>4, <1>5
<1>7. run' \in RunRecords /\ InHand'
  <2>1. "COMPLETE" \in Rows /\ "COMPLETE" # "FAILED"
    BY DEF Rows
  <2>2. \A k \in Folds : k # Task => status'[k] = status[k]
    BY <1>2, <1>6 DEF Tasks
  <2> QED
    BY <1>1, <1>2, <1>3, <1>4, <1>6, <2>1, <2>2, AfterIs
<1>8. ReportsRestOnArtifacts'
  <2>1. \A e \in Experiments : e \in Tasks
    BY DEF Tasks
  <2>2. \A k \in Folds : k \in Tasks
    BY DEF Tasks
  <2> QED
    BY <1>4, <1>6, <2>1, <2>2 DEF RunsInv, ReportsRestOnArtifacts
<1> QED
  BY <1>6, <1>7, <1>8 DEF RunsInv, RunsTyped

LEMMA EndStep == ASSUME RunsInv, End PROVE RunsInv'
<1> USE DEF End, registryFile
<1>1. run' = Idle
  OBVIOUS
<1>2. InHand'
  BY <1>1, IdleRecord DEF InHand, Working, Training, Done
<1>3. CASE command.name = "SUITE"
  <2>1. summary' = run.rows /\ UNCHANGED judged /\ run.rows \in [Experiments -> Rows]
    BY <1>3 DEF RunsInv, RunsTyped, RunRecords
  <2>2. \A e \in Experiments : run.rows[e] \in Done => report[e]
    BY DEF RunsInv, InHand
  <2>3. ReportsRestOnArtifacts'
    BY <2>1, <2>2 DEF RunsInv, ReportsRestOnArtifacts
  <2> QED
    BY <1>1, <1>2, <2>1, <2>3, IdleRecord DEF RunsInv, RunsTyped
<1>4. CASE command.name # "SUITE"
  <2>1. judged' = TRUE /\ UNCHANGED summary
    BY <1>4
  <2>2. command.name = "WALK_FORWARD"
    BY <1>4 DEF RunsInv, InHand
  <2>3. DOMAIN run.left = {}
    OBVIOUS
  <2>4. \A k \in Folds : status[k] = "COMPLETE" /\ report[k]
    BY <2>2, <2>3 DEF RunsInv, InHand, FoldDone
  <2>5. ReportsRestOnArtifacts'
    BY <2>1, <2>4 DEF RunsInv, ReportsRestOnArtifacts
  <2> QED
    BY <1>1, <1>2, <2>1, <2>5, IdleRecord DEF RunsInv, RunsTyped
<1> QED
  BY <1>3, <1>4

(* A fault leaves the registry as it is or cut off.                        *)
LEMMA FaultLeaves == ASSUME Fault PROVE UNCHANGED registryFile \/ CutOff
  BY DEF Fault

LEMMA CrashStep == ASSUME RunsInv, Crash PROVE RunsInv'
<1> USE DEF Crash
<1>1. InHand'
  BY IdleRecord DEF InHand, Working, Training, Done
<1>2. UNCHANGED registryFile \/ CutOff
  BY FaultLeaves
<1>3. ReportsRestOnArtifacts'
  BY <1>2, RegistryLeft DEF RunsInv, ReportsRestOnArtifacts
<1> QED
  BY <1>1, <1>2, <1>3, IdleRecord, RegistryLeft DEF RunsInv, RunsTyped

LEMMA TransitionStep == ASSUME RunsInv, Transition PROVE RunsInv'
<1>1. run.at = "IDLE" /\ UNCHANGED <<command, run, dir, tracker, status, report, summary, judged>>
  BY DEF Transition
<1>2. PICK m, to : /\ m \in Models /\ registry[m] # "NONE" /\ to \in NextStates[registry[m]]
                   /\ \/ registry' = [registry EXCEPT ![m] = to] /\ UNCHANGED garbled
                      \/ CutOff
  BY DEF Transition
<1>3. registry \in [Models -> States]
  BY DEF RunsInv, RunsTyped
<1>4. to \in States \ {"NONE"}
  BY <1>2, <1>3 DEF NextStates, States
<1>5. /\ registry' \in [Models -> States] /\ garbled' \in BOOLEAN /\ (garbled => garbled')
      /\ \A n \in Models :
           \/ registry'[n] # "NONE" <=> registry[n] # "NONE"
           \/ registry'[n] = "NONE" /\ garbled'
  <2>1. CASE CutOff
    BY <2>1, RegistryLeft
  <2>2. CASE registry' = [registry EXCEPT ![m] = to] /\ UNCHANGED garbled
    BY <1>2, <1>3, <1>4, <2>2 DEF RunsInv, RunsTyped
  <2> QED
    BY <1>2, <2>1, <2>2
<1>6. InHand'
  <2>1. \A k \in Folds : FoldDone(k)' <=> FoldDone(k)
    BY <1>1 DEF FoldDone
  <2> QED
    BY <1>1, <2>1 DEF RunsInv, InHand, Working, Training
<1>7. ReportsRestOnArtifacts'
  BY <1>1, <1>5 DEF RunsInv, ReportsRestOnArtifacts
<1> QED
  BY <1>1, <1>5, <1>6, <1>7 DEF RunsInv, RunsTyped

LEMMA RunsStep == ASSUME RunsInv, [RunsNext]_runVars PROVE RunsInv'
<1>1. CASE UNCHANGED runVars
  <2>1. InHand'
    BY <1>1 DEF runVars, registryFile, RunsInv, InHand, Task, Model, FoldDone
  <2> QED
    BY <1>1, <2>1, FilesStay DEF runVars, registryFile, RunsInv, RunsTyped
<1>2. CASE Raise
  BY <1>2, FaultLeaves, FailKept DEF Raise, Working, Training
<1> QED
  BY <1>1, <1>2, StartStep, SkipStep, BeginStep, TrainStep, TrackStep, ArtifactsStep, RegisterStep,
     FinishStep, ReportStep, CloseStep, EndStep, CrashStep, TransitionStep DEF RunsNext, Progress

LEMMA RunsStart == ASSUME RunsInit PROVE RunsInv
<1> USE DEF RunsInit
<1>1. \A t \in Tasks : status[t] = "NONE" /\ report[t] = FALSE
  OBVIOUS
<1>2. RunsTyped
  BY IdleRecord DEF RunsTyped, Commands, States, Rows
<1>3. InHand
  BY IdleRecord DEF InHand, Done, Working, Training
<1>4. ReportsRestOnArtifacts
  BY <1>1, RunsAssumption DEF ReportsRestOnArtifacts, Tasks, Done
<1> QED
  BY <1>2, <1>3, <1>4 DEF RunsInv

(* A command between two of its writes has what the next one needs: a model *)
(* directory that is complete before the registry hears of it, a report     *)
(* before its status is closed, and of a walk-forward's folds each is done  *)
(* or still to come.  quant.train_quant_model, run_experiment,              *)
(* run_walk_forward.                                                        *)
THEOREM RunsAreOrdered == RunsSpec => []RunsInv
<1>1. RunsInit => RunsInv
  BY RunsStart
<1>2. RunsInv /\ [RunsNext]_runVars => RunsInv'
  BY RunsStep
<1> QED
  BY <1>1, <1>2, PTL DEF RunsSpec

(* Wherever a command raised or died, what the registry, the tracker, an    *)
(* experiment's report and status, the suite's summary and the              *)
(* walk-forward's say is there is there.                                    *)
THEOREM ReportsStand == RunsSpec => []ReportsRestOnArtifacts
<1>1. RunsInv => ReportsRestOnArtifacts
  BY DEF RunsInv
<1> QED
  BY <1>1, RunsAreOrdered, PTL

-----------------------------------------------------------------------------
(* EXPERIENCES                                                             *)

(* What a bar adds to a story: a look at the position, a trade.            *)
Seen(n) ==
  [bar : 1..n, proposal : 1..n,
   result : {"HOLD_POSITION", "NO_ACTION", "PROTECT_POSITION", "EXIT_POSITION"},
   safety : {"NO_ACTION", "PASS", "REJECT", "EMERGENCY_BLOCK"}]

Trades(n) ==
  [proposal : 1..n, exit : {"POSITION_ACTION_CLOSE", "PROTECTIVE_STOP"}, action : 0..n]

StoryTyped ==
  /\ bars \in Nat
  /\ DOMAIN cycles = 1..bars /\ \A n \in 1..bars : cycles[n] \in Cycles
  /\ looks \in SUBSET Seen(bars)
  /\ book \in {Nobody} \cup [proposal : 1..bars, state : {"PENDING", "OPEN"}, queued : SUBSET looks]
  /\ outcomes \in [fills : SUBSET (1..bars), trades : SUBSET Trades(bars), applied : SUBSET (1..bars)]

(* The looks at a position that ended it.                                  *)
Exits(p) ==
  {l \in looks : l.proposal = p /\ l.result = "EXIT_POSITION" /\ l.bar \in outcomes.applied}

(* A position comes from an intent, and until it is closed nothing told of *)
(* it is a trade or an executed exit.                                      *)
BookTold ==
  /\ \A p \in outcomes.fills : cycles[p].intent
  /\ book.state # "FLAT" =>
       /\ cycles[book.proposal].intent /\ Exits(book.proposal) = {}
       /\ \A t \in outcomes.trades : t.proposal # book.proposal
  /\ book.state = "OPEN" => book.proposal \in outcomes.fills
  /\ book.state = "PENDING" => book.queued = {}
  /\ \A l, m \in book.queued : l = m
  /\ \A l \in book.queued :
       l.proposal = book.proposal /\ l.safety = "PASS" /\ l.bar \notin outcomes.applied

(* A bar has one look, and only what safety let pass is applied.           *)
LooksTold ==
  /\ \A l, m \in looks : l.bar = m.bar => l = m
  /\ \A l \in looks : l.bar \in outcomes.applied => l.safety = "PASS"

TradesTold ==
  /\ \A t, u \in outcomes.trades : t.proposal = u.proposal => t = u
  /\ \A t \in outcomes.trades :
       /\ t.proposal \in outcomes.fills
       /\ t.action = 0 <=> t.exit = "PROTECTIVE_STOP"
       /\ {l.bar : l \in Exits(t.proposal)} = {t.action} \ {0}

StoryInv == StoryTyped /\ BookTold /\ LooksTold /\ TradesTold

(* A bar that leaves no position: the cycle may queue an entry.            *)
Settled(cycle) ==
  /\ looks' = looks
  /\ \/ book' = Nobody
     \/ cycle.intent /\ book' = [proposal |-> bars + 1, state |-> "PENDING", queued |-> {}]

(* A bar that leaves one: it is looked at, and asked for what is safe.     *)
Watched ==
  \E look \in Seen(bars + 1) :
    /\ look.bar = bars + 1 /\ look.proposal = book.proposal
    /\ looks' = looks \cup {look}
    /\ book' = [proposal |-> book.proposal, state |-> "OPEN",
                queued |-> IF look.safety = "PASS" THEN {look} ELSE {}]

Told(filled, traded, applied) ==
  outcomes' = [fills |-> outcomes.fills \cup filled, trades |-> outcomes.trades \cup traded,
               applied |-> outcomes.applied \cup applied]

(* The ways a bar may go.                                                  *)
IdleBar(cycle) == book = Nobody /\ Told({}, {}, {}) /\ Settled(cycle)

FillBar == book.state = "PENDING" /\ Told({book.proposal}, {}, {}) /\ Watched

StopBar(cycle) ==
  /\ book.state = "OPEN" /\ book.queued = {}
  /\ Told({}, {[proposal |-> book.proposal, exit |-> "PROTECTIVE_STOP", action |-> 0]}, {})
  /\ Settled(cycle)

CloseBar(cycle) ==
  \E q \in book.queued :
    /\ book.state = "OPEN" /\ q.result = "EXIT_POSITION"
    /\ Told({}, {[proposal |-> book.proposal, exit |-> "POSITION_ACTION_CLOSE", action |-> q.bar]},
            {q.bar})
    /\ Settled(cycle)

HoldBar ==
  /\ book.state = "OPEN" /\ \A q \in book.queued : q.result # "EXIT_POSITION"
  /\ Told({}, {}, {q.bar : q \in book.queued})
  /\ Watched

LEMMA NobodyIs ==
  Nobody.proposal = 0 /\ Nobody.state = "FLAT" /\ Nobody.queued = {}
  BY DEF Nobody

LEMMA WatchedIs ==
  ASSUME StoryTyped, book.state # "FLAT", NEW kept,
         kept = [book EXCEPT !.state = "OPEN", !.queued = {}],
         NEW look \in Looks, NEW seen,
         seen = [bar |-> bars + 1, proposal |-> kept.proposal,
                 result |-> look.result, safety |-> look.safety],
         looks' = looks \cup {seen},
         book' = [kept EXCEPT !.queued = IF look.safety = "PASS" THEN {seen} ELSE {}]
  PROVE  Watched
<1>1. PICK p, state, queued :
        /\ p \in 1..bars /\ state \in {"PENDING", "OPEN"}
        /\ book = [proposal |-> p, state |-> state, queued |-> queued]
  <2>1. book # Nobody
    BY NobodyIs
  <2> QED
    BY <2>1 DEF StoryTyped
<1>2. kept = [proposal |-> p, state |-> "OPEN", queued |-> {}]
  BY <1>1
<1>3. /\ look.result \in {"HOLD_POSITION", "NO_ACTION", "PROTECT_POSITION", "EXIT_POSITION"}
      /\ look.safety \in {"NO_ACTION", "PASS", "REJECT", "EMERGENCY_BLOCK"}
  BY DEF Looks
<1>4. bars \in Nat /\ p \in 1..(bars + 1) /\ bars + 1 \in 1..(bars + 1)
  BY <1>1 DEF StoryTyped
<1>5. seen = [bar |-> bars + 1, proposal |-> p, result |-> look.result, safety |-> look.safety]
  <2>1. kept.proposal = p
    BY ONLY <1>2
  <2> QED
    BY ONLY <2>1, seen = [bar |-> bars + 1, proposal |-> kept.proposal,
                          result |-> look.result, safety |-> look.safety], Zenon
<1>6. seen \in Seen(bars + 1) /\ seen.bar = bars + 1 /\ seen.proposal = p /\ seen.safety = look.safety
  BY <1>3, <1>4, <1>5 DEF Seen
<1>7. PICK asked : asked = IF look.safety = "PASS" THEN {seen} ELSE {}
  OBVIOUS
<1>8. book' = [proposal |-> p, state |-> "OPEN", queued |-> asked]
  <2>1. book' = [kept EXCEPT !.queued = asked]
    BY ONLY <1>7, book' = [kept EXCEPT !.queued = IF look.safety = "PASS" THEN {seen} ELSE {}], Zenon
  <2> QED
    BY ONLY <1>2, <2>1
<1> QED
  BY <1>1, <1>6, <1>7, <1>8 DEF Watched

LEMMA RecordBarIs ==
  ASSUME StoryTyped, BookTold, RecordBar
  PROVE  \E cycle \in Cycles :
           /\ cycles' = [n \in 1..(bars + 1) |-> IF n <= bars THEN cycles[n] ELSE cycle]
           /\ \/ IdleBar(cycle) \/ FillBar \/ StopBar(cycle) \/ CloseBar(cycle) \/ HoldBar
<1> DEFINE closes == {look \in book.queued : look.result = "EXIT_POSITION"}
<1>1. PICK exit \in BOOLEAN, cycle \in Cycles :
        LET kept == CASE book.state = "FLAT" \/ exit \/ closes # {} -> Nobody
                      [] OTHER -> [book EXCEPT !.state = "OPEN", !.queued = {}]
        IN /\ exit => Stoppable
           /\ cycle.intent => kept = Nobody
           /\ cycles' = [n \in 1..(bars + 1) |-> IF n <= bars THEN cycles[n] ELSE cycle]
           /\ outcomes' = Executed(exit)
           /\ IF kept = Nobody
              THEN /\ book' = IF cycle.intent
                              THEN [Nobody EXCEPT !.proposal = bars + 1, !.state = "PENDING"]
                              ELSE Nobody
                   /\ UNCHANGED looks
              ELSE \E look \in Looks :
                     LET seen == [bar |-> bars + 1, proposal |-> kept.proposal,
                                  result |-> look.result, safety |-> look.safety]
                     IN /\ looks' = looks \cup {seen}
                        /\ book' = [kept EXCEPT !.queued = IF look.safety = "PASS" THEN {seen} ELSE {}]
  BY DEF RecordBar
<1>2. \/ book = Nobody
      \/ book.state = "PENDING" /\ book.queued = {}
      \/ book.state = "OPEN"
  BY DEF StoryTyped, BookTold
<1>3. PICK kept : kept = CASE book.state = "FLAT" \/ exit \/ closes # {} -> Nobody
                           [] OTHER -> [book EXCEPT !.state = "OPEN", !.queued = {}]
  OBVIOUS
<1>4. \/ kept = Nobody /\ (book.state = "FLAT" \/ exit \/ closes # {})
      \/ kept = [book EXCEPT !.state = "OPEN", !.queued = {}] /\ kept # Nobody
         /\ book.state # "FLAT" /\ ~exit /\ closes = {}
  <2>1. CASE book.state = "FLAT" \/ exit \/ closes # {}
    BY <1>3, <2>1
  <2>2. CASE ~(book.state = "FLAT" \/ exit \/ closes # {})
    <3>1. kept = [book EXCEPT !.state = "OPEN", !.queued = {}]
      BY <1>3, <2>2
    <3>2. kept.state = "OPEN"
      <4>1. PICK p, state, queued : book = [proposal |-> p, state |-> state, queued |-> queued]
        BY <2>2, <1>2, NobodyIs DEF StoryTyped
      <4> QED
        BY <3>1, <4>1
    <3> QED
      BY <2>2, <3>1, <3>2, NobodyIs
  <2> QED
    BY <2>1, <2>2
<1>5. kept = Nobody => Settled(cycle)
  <2>1. [Nobody EXCEPT !.proposal = bars + 1, !.state = "PENDING"]
          = [proposal |-> bars + 1, state |-> "PENDING", queued |-> {}]
    <3>1. PICK n : n = bars + 1
      OBVIOUS
    <3>2. [Nobody EXCEPT !.proposal = n] = [proposal |-> n, state |-> "FLAT", queued |-> {}]
      BY ONLY TRUE DEF Nobody
    <3>3. PICK one : one = [Nobody EXCEPT !.proposal = n]
      OBVIOUS
    <3>4. [one EXCEPT !.state = "PENDING"] = [proposal |-> n, state |-> "PENDING", queued |-> {}]
      <4>1. PICK none : none = {}
        OBVIOUS
      <4>2. one = [proposal |-> n, state |-> "FLAT", queued |-> none]
        BY ONLY <3>2, <3>3, <4>1, Zenon
      <4>3. [one EXCEPT !.state = "PENDING"] = [proposal |-> n, state |-> "PENDING", queued |-> none]
        BY ONLY <4>2
      <4> QED
        BY ONLY <4>1, <4>3, Zenon
    <3>5. [Nobody EXCEPT !.proposal = n, !.state = "PENDING"] = [one EXCEPT !.state = "PENDING"]
      BY ONLY <3>3, Zenon
    <3> QED
      BY ONLY <3>1, <3>4, <3>5, Zenon
  <2> QED
    BY <1>1, <1>3, <2>1 DEF Settled
<1>6. kept # Nobody => Watched
  <2> SUFFICES ASSUME kept # Nobody PROVE Watched
    OBVIOUS
  <2>1. PICK look \in Looks :
          LET seen == [bar |-> bars + 1, proposal |-> kept.proposal,
                       result |-> look.result, safety |-> look.safety]
          IN /\ looks' = looks \cup {seen}
             /\ book' = [kept EXCEPT !.queued = IF look.safety = "PASS" THEN {seen} ELSE {}]
    BY <1>1, <1>3
  <2>2. PICK seen : seen = [bar |-> bars + 1, proposal |-> kept.proposal,
                            result |-> look.result, safety |-> look.safety]
    OBVIOUS
  <2> QED
    BY <1>4, <2>1, <2>2, WatchedIs
<1>7. outcomes' = Executed(exit) /\ (exit => book.state = "OPEN" /\ book.queued = {})
  BY <1>1 DEF Stoppable
<1>8. \E F, T, A : outcomes = [fills |-> F, trades |-> T, applied |-> A]
  BY DEF StoryTyped
<1>9. CASE book = Nobody
  <2>1. Told({}, {}, {})
    BY <1>7, <1>9, NobodyIs DEF Executed, Told
  <2> QED
    BY <1>1, <1>4, <1>5, <1>9, <2>1, NobodyIs DEF IdleBar
<1>10. CASE book.state = "PENDING" /\ book.queued = {}
  <2>1. Told({book.proposal}, {}, {})
    BY <1>7, <1>10 DEF Executed, Told
  <2> QED
    BY <1>1, <1>4, <1>6, <1>7, <1>10, <2>1 DEF FillBar
<1>11. CASE book.state = "OPEN" /\ exit
  <2>1. Told({}, {[proposal |-> book.proposal, exit |-> "PROTECTIVE_STOP", action |-> 0]}, {})
    BY <1>7, <1>11 DEF Executed, Told
  <2> QED
    BY <1>1, <1>4, <1>5, <1>7, <1>11, <2>1 DEF StopBar
<1>12. CASE book.state = "OPEN" /\ closes # {}
  <2>1. PICK q : q = CHOOSE look \in closes : TRUE
    OBVIOUS
  <2>2. q \in closes
    BY <1>12, <2>1
  <2>3. book.queued = {q}
    BY <2>2 DEF BookTold
  <2>4. Told({}, {[proposal |-> book.proposal, exit |-> "POSITION_ACTION_CLOSE", action |-> q.bar]},
             {q.bar})
    <3>1. {look.bar : look \in book.queued} = {q.bar}
      BY <2>3
    <3> QED
      BY <1>7, <1>12, <2>1, <3>1 DEF Executed, Told
  <2> QED
    BY <1>1, <1>4, <1>5, <1>12, <2>2, <2>4 DEF CloseBar
<1>13. CASE book.state = "OPEN" /\ ~exit /\ closes = {}
  <2>1. Told({}, {}, {q.bar : q \in book.queued})
    BY <1>7, <1>13 DEF Executed, Told
  <2> QED
    BY <1>1, <1>4, <1>6, <1>13, <2>1 DEF HoldBar
<1> QED
  BY <1>2, <1>9, <1>10, <1>11, <1>12, <1>13

(* One bar later everything told before still stands.                      *)
Later(cycle) ==
  /\ bars' = bars + 1
  /\ cycles' = [n \in 1..(bars + 1) |-> IF n <= bars THEN cycles[n] ELSE cycle]

LEMMA LaterIs ==
  ASSUME StoryTyped, NEW cycle \in Cycles, Later(cycle)
  PROVE  /\ bars' \in Nat /\ bars' = bars + 1 /\ bars' \notin 1..bars /\ bars' \in 1..bars'
         /\ 1..bars \subseteq 1..bars'
         /\ Seen(bars) \subseteq Seen(bars') /\ Seen(bars + 1) = Seen(bars')
         /\ Trades(bars) \subseteq Trades(bars')
         /\ DOMAIN cycles' = 1..bars' /\ \A n \in 1..bars' : cycles'[n] \in Cycles
         /\ \A n \in 1..bars : cycles'[n] = cycles[n]
         /\ cycles'[bars'] = cycle
<1> USE DEF Later, StoryTyped
<1>1. bars' \in Nat /\ bars' = bars + 1 /\ bars' \notin 1..bars /\ bars' \in 1..bars'
      /\ 1..bars \subseteq 1..bars' /\ 0..bars \subseteq 0..bars'
  OBVIOUS
<1>2. Seen(bars) \subseteq Seen(bars') /\ Seen(bars + 1) = Seen(bars')
  BY <1>1 DEF Seen
<1>3. Trades(bars) \subseteq Trades(bars')
  BY <1>1 DEF Trades
<1>4. DOMAIN cycles' = 1..bars' /\ \A n \in 1..bars' : cycles'[n] = IF n <= bars THEN cycles[n] ELSE cycle
  BY <1>1
<1>5. \A n \in 1..bars : cycles'[n] = cycles[n]
  BY <1>1, <1>4
<1>6. cycles'[bars'] = cycle /\ \A n \in 1..bars' : cycles'[n] \in Cycles
  BY <1>1, <1>4
<1> QED
  BY <1>1, <1>2, <1>3, <1>4, <1>5, <1>6

LEMMA ToldIs ==
  ASSUME StoryTyped, NEW filled, NEW traded, NEW applied, Told(filled, traded, applied)
  PROVE  /\ outcomes'.fills = outcomes.fills \cup filled
         /\ outcomes'.trades = outcomes.trades \cup traded
         /\ outcomes'.applied = outcomes.applied \cup applied
         /\ \A n \in Nat :
              filled \subseteq 1..n /\ traded \subseteq Trades(n) /\ applied \subseteq 1..n
                /\ 1..bars \subseteq 1..n /\ Trades(bars) \subseteq Trades(n)
              => outcomes' \in [fills : SUBSET (1..n), trades : SUBSET Trades(n), applied : SUBSET (1..n)]
<1>1. PICK F, T, A :
        F = outcomes.fills \cup filled /\ T = outcomes.trades \cup traded /\ A = outcomes.applied \cup applied
  OBVIOUS
<1>2. outcomes' = [fills |-> F, trades |-> T, applied |-> A]
  BY <1>1 DEF Told
<1>3. outcomes.fills \subseteq 1..bars /\ outcomes.trades \subseteq Trades(bars) /\ outcomes.applied \subseteq 1..bars
  BY DEF StoryTyped
<1> QED
  BY <1>1, <1>2, <1>3

LEMMA ToldAre ==
  ASSUME NEW filled, NEW traded, NEW applied, Told(filled, traded, applied)
  PROVE  /\ outcomes'.fills = outcomes.fills \cup filled
         /\ outcomes'.trades = outcomes.trades \cup traded
         /\ outcomes'.applied = outcomes.applied \cup applied
<1>1. PICK F, T, A :
        F = outcomes.fills \cup filled /\ T = outcomes.trades \cup traded /\ A = outcomes.applied \cup applied
  OBVIOUS
<1>2. outcomes' = [fills |-> F, trades |-> T, applied |-> A]
  BY <1>1 DEF Told
<1> QED
  BY <1>1, <1>2

LEMMA SettledIs ==
  ASSUME StoryTyped, NEW cycle \in Cycles, Later(cycle), Settled(cycle)
  PROVE  /\ looks' \in SUBSET Seen(bars') /\ book'.queued = {}
         /\ book' \in {Nobody} \cup [proposal : 1..bars', state : {"PENDING", "OPEN"}, queued : SUBSET looks']
         /\ \/ book'.state = "FLAT"
            \/ book'.state = "PENDING" /\ book'.proposal = bars' /\ cycle.intent
<1>1. looks' \in SUBSET Seen(bars')
  BY LaterIs DEF Settled, StoryTyped
<1>2. CASE book' = Nobody
  BY <1>1, <1>2, NobodyIs
<1>3. CASE book' # Nobody
  <2>1. cycle.intent /\ book' = [proposal |-> bars', state |-> "PENDING", queued |-> {}]
    BY <1>3, LaterIs DEF Settled
  <2>2. bars' \in 1..bars'
    BY LaterIs
  <2>3. PICK n, none : n = bars' /\ none = {}
    OBVIOUS
  <2>4. book' = [proposal |-> n, state |-> "PENDING", queued |-> none]
    BY <2>1, <2>3
  <2> QED
    BY <1>1, <2>1, <2>2, <2>3, <2>4
<1> QED
  BY <1>2, <1>3

LEMMA WatchedAre ==
  ASSUME StoryTyped, NEW cycle \in Cycles, Later(cycle), Watched, book # Nobody
  PROVE  \E look \in Seen(bars') :
           /\ look.bar = bars' /\ look.proposal = book.proposal
           /\ looks' = looks \cup {look} /\ looks' \in SUBSET Seen(bars')
           /\ book' \in [proposal : 1..bars', state : {"PENDING", "OPEN"}, queued : SUBSET looks']
           /\ book'.proposal = book.proposal /\ book'.state = "OPEN"
           /\ book'.queued \subseteq {look}
           /\ book'.queued # {} => look.safety = "PASS"
<1>1. PICK look \in Seen(bars') :
        /\ look.bar = bars' /\ look.proposal = book.proposal
        /\ looks' = looks \cup {look}
        /\ book' = [proposal |-> book.proposal, state |-> "OPEN",
                    queued |-> IF look.safety = "PASS" THEN {look} ELSE {}]
  BY LaterIs DEF Watched
<1>2. PICK asked : asked = IF look.safety = "PASS" THEN {look} ELSE {}
  OBVIOUS
<1>3. PICK p : p = book.proposal
  OBVIOUS
<1>4. book' = [proposal |-> p, state |-> "OPEN", queued |-> asked]
  BY <1>1, <1>2, <1>3
<1>5. p \in 1..bars'
  BY <1>3, LaterIs DEF StoryTyped
<1>6. looks' \in SUBSET Seen(bars') /\ asked \subseteq looks' /\ asked \subseteq {look}
      /\ (asked # {} => look.safety = "PASS")
  BY <1>1, <1>2, LaterIs DEF StoryTyped
<1>7. book' \in [proposal : 1..bars', state : {"PENDING", "OPEN"}, queued : SUBSET looks']
      /\ book'.proposal = p /\ book'.state = "OPEN" /\ book'.queued = asked
  BY <1>4, <1>5, <1>6
<1> QED
  BY <1>1, <1>3, <1>6, <1>7

(* The looks stay, one may be added; only what is queued is newly applied. *)
Applies(asked) ==
  /\ \/ looks' = looks
     \/ \E look \in Seen(bars') : look.bar = bars' /\ looks' = looks \cup {look}
  /\ outcomes'.applied = outcomes.applied \cup {q.bar : q \in asked}
  /\ asked \subseteq book.queued

LEMMA QueuedAre ==
  ASSUME StoryTyped, BookTold
  PROVE  /\ book.queued \subseteq looks
         /\ \A q \in book.queued : q.bar \in 1..bars
         /\ book.state # "FLAT" => book.proposal \in 1..bars
<1>1. looks \subseteq Seen(bars)
  BY DEF StoryTyped
<1>2. book.queued \subseteq looks
  BY NobodyIs DEF StoryTyped
<1>3. \A l \in looks : l.bar \in 1..bars
  BY <1>1 DEF Seen
<1> QED
  BY <1>2, <1>3, NobodyIs DEF StoryTyped

LEMMA LooksKept ==
  ASSUME StoryInv, NEW cycle \in Cycles, Later(cycle), NEW asked, Applies(asked)
  PROVE  /\ LooksTold'
         /\ \A l \in looks' \ looks : l.bar = bars' /\ l.bar \notin outcomes'.applied
         /\ looks \subseteq looks' /\ outcomes.applied \subseteq outcomes'.applied
<1>1. \A l \in looks : l.bar \in 1..bars
  BY DEF StoryInv, StoryTyped, Seen
<1>2. \A b \in outcomes'.applied : b \in 1..bars
  <2>1. outcomes.applied \subseteq 1..bars
    BY DEF StoryInv, StoryTyped
  <2> QED
    BY <2>1, QueuedAre DEF Applies, StoryInv
<1>3. bars' \notin 1..bars
  BY LaterIs DEF StoryInv
<1>4. \A l \in looks' \ looks : l.bar = bars' /\ l.bar \notin outcomes'.applied
  BY <1>2, <1>3 DEF Applies
<1>5. \A l, m \in looks' : l.bar = m.bar => l = m
  BY <1>1, <1>3 DEF Applies, StoryInv, LooksTold
<1>6. \A l \in looks' : l.bar \in outcomes'.applied => l.safety = "PASS"
  <2> SUFFICES ASSUME NEW l \in looks', l.bar \in outcomes'.applied PROVE l.safety = "PASS"
    OBVIOUS
  <2>1. l \in looks
    BY <1>4
  <2>2. CASE l.bar \in outcomes.applied
    BY <2>1, <2>2 DEF StoryInv, LooksTold
  <2>3. CASE l.bar \notin outcomes.applied
    <3>1. PICK q \in asked : l.bar = q.bar
      BY <2>3 DEF Applies
    <3>2. q \in looks /\ q.safety = "PASS"
      BY <3>1, QueuedAre DEF Applies, StoryInv, BookTold
    <3> QED
      BY <2>1, <3>1, <3>2 DEF StoryInv, LooksTold
  <2> QED
    BY <2>2, <2>3
<1> QED
  BY <1>4, <1>5, <1>6 DEF LooksTold, Applies

(* Of another position than the one at hand the exits are told already.    *)
LEMMA ExitsStay ==
  ASSUME StoryInv, NEW cycle \in Cycles, Later(cycle), NEW asked, Applies(asked),
         NEW p, p # book.proposal \/ \A q \in asked : q.result # "EXIT_POSITION"
  PROVE  Exits(p)' = Exits(p)
<1>1. ASSUME NEW l \in looks', l.proposal = p, l.result = "EXIT_POSITION", l.bar \in outcomes'.applied
      PROVE  l \in Exits(p)
  <2>1. l \in looks
    BY <1>1, LooksKept
  <2>2. l.bar \in outcomes.applied
    <3> SUFFICES ASSUME l.bar \notin outcomes.applied PROVE FALSE
      OBVIOUS
    <3>1. PICK q \in asked : l.bar = q.bar
      BY <1>1 DEF Applies
    <3>2. q \in looks /\ q.proposal = book.proposal
      BY <3>1, QueuedAre DEF Applies, StoryInv, BookTold
    <3>3. q = l
      BY <2>1, <3>1, <3>2 DEF StoryInv, LooksTold
    <3> QED
      BY <1>1, <3>1, <3>2, <3>3
  <2> QED
    BY <1>1, <2>1, <2>2 DEF Exits
<1>2. Exits(p) \subseteq {l \in looks' : l.proposal = p /\ l.result = "EXIT_POSITION" /\ l.bar \in outcomes'.applied}
  BY LooksKept DEF Exits
<1>3. Exits(p)' = {l \in looks' : l.proposal = p /\ l.result = "EXIT_POSITION" /\ l.bar \in outcomes'.applied}
  BY DEF Exits
<1> QED
  BY <1>1, <1>2, <1>3

(* A trade told stays the one of its position, and its exits with it.      *)
LEMMA TradesKept ==
  ASSUME StoryInv, NEW cycle \in Cycles, Later(cycle), NEW asked, Applies(asked),
         outcomes.fills \subseteq outcomes'.fills,
         book # Nobody \/ asked = {},
         NEW t \in outcomes.trades
  PROVE  /\ t.proposal \in outcomes'.fills
         /\ t.action = 0 <=> t.exit = "PROTECTIVE_STOP"
         /\ {l.bar : l \in Exits(t.proposal)'} = {t.action} \ {0}
<1>1. t.proposal # book.proposal \/ asked = {}
  BY DEF StoryInv, StoryTyped, BookTold
<1>2. PICK p : p = t.proposal
  OBVIOUS
<1>3. Exits(p)' = Exits(p)
  BY <1>1, <1>2, ExitsStay
<1>4. Exits(p)' = Exits(t.proposal)'
  BY <1>2 DEF Exits
<1> QED
  BY <1>2, <1>3, <1>4 DEF StoryInv, TradesTold

LEMMA SettledKept ==
  ASSUME StoryInv, NEW cycle \in Cycles, Later(cycle), Settled(cycle),
         outcomes'.fills = outcomes.fills, \A t \in outcomes'.trades : t.proposal \in 1..bars
  PROVE  BookTold'
<1>1. \A p \in outcomes'.fills : cycles'[p].intent
  BY LaterIs DEF StoryInv, StoryTyped, BookTold
<1>2. book'.queued = {} /\ book'.state # "OPEN"
  BY SettledIs DEF StoryInv
<1>3. ASSUME book'.state # "FLAT"
      PROVE  /\ cycles'[book'.proposal].intent /\ Exits(book.proposal)' = {}
             /\ \A t \in outcomes'.trades : t.proposal # book'.proposal
  <2>1. book'.proposal = bars' /\ cycle.intent
    BY <1>3, SettledIs DEF StoryInv
  <2>2. bars' \notin 1..bars /\ cycles'[bars'] = cycle
    BY LaterIs DEF StoryInv
  <2>3. \A l \in looks' : l.proposal \in 1..bars
    BY DEF Settled, StoryInv, StoryTyped, Seen
  <2> QED
    BY <2>1, <2>2, <2>3 DEF Exits
<1> QED
  BY <1>1, <1>2, <1>3 DEF BookTold

LEMMA IdleKept ==
  ASSUME StoryInv, NEW cycle \in Cycles, Later(cycle), IdleBar(cycle)
  PROVE  StoryInv'
<1> USE DEF IdleBar
<1>1. /\ outcomes'.fills = outcomes.fills /\ outcomes'.trades = outcomes.trades
      /\ outcomes'.applied = outcomes.applied
  <2>1. /\ outcomes'.fills = outcomes.fills \cup {} /\ outcomes'.trades = outcomes.trades \cup {}
        /\ outcomes'.applied = outcomes.applied \cup {}
    BY ToldAre, Zenon
  <2> QED
    BY ONLY <2>1
<1>2. StoryTyped'
  <2>1. outcomes' \in [fills : SUBSET (1..bars'), trades : SUBSET Trades(bars'), applied : SUBSET (1..bars')]
    BY ToldIs, LaterIs DEF StoryInv
  <2> QED
    BY <2>1, LaterIs, SettledIs DEF StoryInv, StoryTyped
<1>3. BookTold'
  <2>1. \A t \in outcomes'.trades : t.proposal \in 1..bars
    BY <1>1 DEF StoryInv, StoryTyped, Trades
  <2> QED
    BY <1>1, <2>1, SettledKept
<1>4. Applies({})
  BY <1>1 DEF Applies, Settled
<1>5. LooksTold'
  BY <1>4, LooksKept
<1>6. TradesTold'
  BY <1>1, <1>4, TradesKept DEF StoryInv, TradesTold
<1> QED
  BY <1>2, <1>3, <1>5, <1>6 DEF StoryInv

(* A trade of the position at hand, which had none.                        *)
LEMMA NewTrade ==
  ASSUME StoryInv, NEW cycle \in Cycles, Later(cycle), Settled(cycle), book.state = "OPEN",
         NEW trade \in Trades(bars), trade.proposal = book.proposal,
         trade.action = 0 <=> trade.exit = "PROTECTIVE_STOP",
         NEW asked, Told({}, {trade}, {q.bar : q \in asked}), asked \subseteq book.queued,
         {l.bar : l \in Exits(trade.proposal)'} = {trade.action} \ {0}
  PROVE  StoryInv'
<1>1. /\ outcomes'.fills = outcomes.fills /\ outcomes'.trades = outcomes.trades \cup {trade}
      /\ outcomes'.applied = outcomes.applied \cup {q.bar : q \in asked}
  <2>1. /\ outcomes'.fills = outcomes.fills \cup {} /\ outcomes'.trades = outcomes.trades \cup {trade}
        /\ outcomes'.applied = outcomes.applied \cup {q.bar : q \in asked}
    BY ToldAre, Zenon
  <2> QED
    BY ONLY <2>1
<1>2. StoryTyped'
  <2>1. {q.bar : q \in asked} \subseteq 1..bars' /\ {trade} \subseteq Trades(bars')
    BY QueuedAre, LaterIs DEF StoryInv
  <2>2. outcomes' \in [fills : SUBSET (1..bars'), trades : SUBSET Trades(bars'), applied : SUBSET (1..bars')]
    BY <2>1, ToldIs, LaterIs DEF StoryInv
  <2> QED
    BY <2>2, LaterIs, SettledIs DEF StoryInv, StoryTyped
<1>3. BookTold'
  <2>1. \A t \in outcomes'.trades : t.proposal \in 1..bars
    BY <1>1 DEF StoryInv, StoryTyped, Trades
  <2> QED
    BY <1>1, <2>1, SettledKept
<1>4. Applies(asked) /\ book # Nobody
  BY <1>1, NobodyIs DEF Applies, Settled
<1>5. LooksTold'
  BY <1>4, LooksKept
<1>6. TradesTold'
  <2>1. book.proposal \in outcomes.fills /\ \A t \in outcomes.trades : t.proposal # trade.proposal
    BY DEF StoryInv, BookTold
  <2>2. \A t \in outcomes.trades :
          /\ t.proposal \in outcomes'.fills
          /\ t.action = 0 <=> t.exit = "PROTECTIVE_STOP"
          /\ {l.bar : l \in Exits(t.proposal)'} = {t.action} \ {0}
    BY <1>1, <1>4, TradesKept
  <2>3. \A t \in outcomes'.trades :
          /\ t.proposal \in outcomes'.fills
          /\ t.action = 0 <=> t.exit = "PROTECTIVE_STOP"
          /\ {l.bar : l \in Exits(t.proposal)'} = {t.action} \ {0}
    BY <1>1, <2>1, <2>2
  <2>4. \A t, u \in outcomes'.trades : t.proposal = u.proposal => t = u
    BY <1>1, <2>1 DEF StoryInv, TradesTold
  <2> QED
    BY <2>3, <2>4 DEF TradesTold
<1> QED
  BY <1>2, <1>3, <1>5, <1>6 DEF StoryInv

LEMMA StopKept ==
  ASSUME StoryInv, NEW cycle \in Cycles, Later(cycle), StopBar(cycle)
  PROVE  StoryInv'
<1> USE DEF StopBar
<1>1. PICK p : p = book.proposal
  OBVIOUS
<1>2. p \in 1..bars
  BY <1>1, QueuedAre DEF StoryInv
<1>3. PICK trade : trade = [proposal |-> p, exit |-> "PROTECTIVE_STOP", action |-> 0]
  OBVIOUS
<1>4. trade \in Trades(bars) /\ trade.proposal = p /\ trade.action = 0 /\ trade.exit = "PROTECTIVE_STOP"
  BY <1>2, <1>3 DEF Trades, StoryInv, StoryTyped
<1>5. {q.bar : q \in {}} = {}
  OBVIOUS
<1>6. Told({}, {trade}, {})
  BY <1>1, <1>3
<1>7. Applies({})
  BY <1>6, ToldIs DEF Applies, Settled, StoryInv
<1>8. Exits(p)' = {}
  BY <1>1, <1>7, ExitsStay DEF StoryInv, BookTold
<1>9. {l.bar : l \in Exits(trade.proposal)'} = {trade.action} \ {0}
  <2>1. Exits(trade.proposal)' = Exits(p)'
    BY <1>4
  <2> QED
    BY <1>4, <1>8, <2>1
<1> QED
  BY <1>1, <1>4, <1>5, <1>6, <1>9, NewTrade

LEMMA CloseKept ==
  ASSUME StoryInv, NEW cycle \in Cycles, Later(cycle), CloseBar(cycle)
  PROVE  StoryInv'
<1>1. PICK q \in book.queued :
        /\ book.state = "OPEN" /\ q.result = "EXIT_POSITION"
        /\ Told({}, {[proposal |-> book.proposal, exit |-> "POSITION_ACTION_CLOSE", action |-> q.bar]},
                {q.bar})
        /\ Settled(cycle)
  BY DEF CloseBar
<1>2. PICK p, bar : p = book.proposal /\ bar = q.bar
  OBVIOUS
<1>3. p \in 1..bars /\ bar \in 1..bars /\ q \in looks /\ q.proposal = p
  BY <1>1, <1>2, QueuedAre DEF StoryInv, BookTold
<1>4. PICK trade : trade = [proposal |-> p, exit |-> "POSITION_ACTION_CLOSE", action |-> bar]
  OBVIOUS
<1>5. trade \in Trades(bars) /\ trade.proposal = p /\ trade.action = bar
      /\ trade.exit = "POSITION_ACTION_CLOSE" /\ bar # 0
  BY <1>3, <1>4 DEF Trades, StoryInv, StoryTyped
<1>6. {r.bar : r \in {q}} = {q.bar}
  OBVIOUS
<1>7. Told({}, {trade}, {q.bar})
  BY <1>1, <1>2, <1>4
<1>8. outcomes'.applied = outcomes.applied \cup {bar} /\ looks' = looks
  BY <1>1, <1>2, <1>7, ToldIs DEF Settled, StoryInv
<1>9. Exits(p)' = {q}
  <2>1. Exits(p) = {}
    BY <1>1, <1>2 DEF StoryInv, BookTold
  <2>2. \A l \in looks : l.bar = bar => l = q
    BY <1>2, <1>3 DEF StoryInv, LooksTold
  <2>3. Exits(p)' = {l \in looks : l.proposal = p /\ l.result = "EXIT_POSITION"
                                  /\ l.bar \in outcomes.applied \cup {bar}}
    BY <1>8 DEF Exits
  <2> QED
    BY <1>1, <1>2, <1>3, <2>1, <2>2, <2>3 DEF Exits
<1>10. {l.bar : l \in Exits(trade.proposal)'} = {trade.action} \ {0}
  <2>1. Exits(trade.proposal)' = Exits(p)'
    BY <1>5
  <2> QED
    BY <1>2, <1>5, <1>9, <2>1
<1> QED
  <2>1. PICK asked : asked = {q}
    OBVIOUS
  <2>2. {r.bar : r \in asked} = {q.bar} /\ asked \subseteq book.queued
    BY <2>1
  <2>3. Told({}, {trade}, {r.bar : r \in asked})
    BY <1>7, <2>2
  <2>4. trade.action = 0 <=> trade.exit = "PROTECTIVE_STOP"
    BY <1>5
  <2> QED
    BY <1>1, <1>2, <1>5, <1>10, <2>2, <2>3, <2>4, NewTrade, Zenon

(* The position goes on.                                                   *)
LEMMA WatchedKept ==
  ASSUME StoryInv, NEW cycle \in Cycles, Later(cycle), Watched, book.state # "FLAT",
         NEW filled, filled \subseteq {book.proposal}, book.proposal \in outcomes.fills \cup filled,
         NEW asked, Told(filled, {}, {q.bar : q \in asked}), asked \subseteq book.queued,
         \A q \in asked : q.result # "EXIT_POSITION"
  PROVE  StoryInv'
<1>1. /\ outcomes'.fills = outcomes.fills \cup filled /\ outcomes'.trades = outcomes.trades
      /\ outcomes'.applied = outcomes.applied \cup {q.bar : q \in asked}
  <2>1. /\ outcomes'.fills = outcomes.fills \cup filled /\ outcomes'.trades = outcomes.trades \cup {}
        /\ outcomes'.applied = outcomes.applied \cup {q.bar : q \in asked}
    BY ToldAre, Zenon
  <2> QED
    BY ONLY <2>1
<1>2. book # Nobody /\ book.proposal \in 1..bars
  BY NobodyIs, QueuedAre DEF StoryInv
<1>3. PICK look \in Seen(bars') :
        /\ look.bar = bars' /\ look.proposal = book.proposal
        /\ looks' = looks \cup {look} /\ looks' \in SUBSET Seen(bars')
        /\ book' \in [proposal : 1..bars', state : {"PENDING", "OPEN"}, queued : SUBSET looks']
        /\ book'.proposal = book.proposal /\ book'.state = "OPEN"
        /\ book'.queued \subseteq {look}
        /\ book'.queued # {} => look.safety = "PASS"
  BY <1>2, WatchedAre DEF StoryInv
<1>4. StoryTyped'
  <2>1. filled \subseteq 1..bars' /\ {q.bar : q \in asked} \subseteq 1..bars' /\ {} \subseteq Trades(bars')
    BY <1>2, QueuedAre, LaterIs DEF StoryInv
  <2>2. outcomes' \in [fills : SUBSET (1..bars'), trades : SUBSET Trades(bars'), applied : SUBSET (1..bars')]
    BY <2>1, ToldIs, LaterIs DEF StoryInv
  <2> QED
    BY <1>3, <2>2, LaterIs DEF StoryInv, StoryTyped
<1>5. Applies(asked)
  BY <1>1, <1>3 DEF Applies
<1>6. LooksTold' /\ look.bar \notin outcomes'.applied
  <2>1. bars' \notin outcomes'.applied
    <3>1. outcomes.applied \subseteq 1..bars /\ bars' \notin 1..bars
      BY LaterIs DEF StoryInv, StoryTyped
    <3> QED
      BY <1>1, <3>1, QueuedAre DEF StoryInv
  <2> QED
    BY <1>3, <1>5, <2>1, LooksKept
<1>7. PICK p : p = book.proposal
  OBVIOUS
<1>8. Exits(p)' = {}
  <2>1. Exits(p) = {}
    BY <1>7 DEF StoryInv, BookTold
  <2>2. Exits(p)' = Exits(p)
    BY <1>5, ExitsStay
  <2> QED
    BY <2>1, <2>2
<1>9. BookTold'
  <2>1. cycles'[p].intent /\ \A r \in outcomes'.fills : cycles'[r].intent
    BY <1>1, <1>2, <1>7, LaterIs DEF StoryInv, StoryTyped, BookTold
  <2>2. Exits(book.proposal)' = {}
    BY <1>3, <1>7, <1>8 DEF Exits
  <2>3. \A t \in outcomes'.trades : t.proposal # p
    BY <1>1, <1>7 DEF StoryInv, BookTold
  <2> QED
    BY <1>1, <1>3, <1>6, <1>7, <2>1, <2>2, <2>3 DEF BookTold
<1>10. TradesTold'
  BY <1>1, <1>2, <1>5, TradesKept DEF StoryInv, TradesTold
<1> QED
  BY <1>4, <1>6, <1>9, <1>10 DEF StoryInv

LEMMA FillKept ==
  ASSUME StoryInv, NEW cycle \in Cycles, Later(cycle), FillBar
  PROVE  StoryInv'
<1>1. PICK filled, asked : filled = {book.proposal} /\ asked = {}
  OBVIOUS
<1>2. {q.bar : q \in asked} = {}
  BY <1>1
<1>3. Told(filled, {}, {q.bar : q \in asked}) /\ Watched /\ book.state = "PENDING"
  BY <1>1, <1>2 DEF FillBar
<1>4. asked \subseteq book.queued /\ \A q \in asked : q.result # "EXIT_POSITION"
  BY <1>1
<1>5. filled \subseteq {book.proposal} /\ book.proposal \in outcomes.fills \cup filled
      /\ book.state # "FLAT"
  BY <1>1, <1>3
<1> QED
  BY <1>3, <1>4, <1>5, WatchedKept, Zenon

LEMMA HoldKept ==
  ASSUME StoryInv, NEW cycle \in Cycles, Later(cycle), HoldBar
  PROVE  StoryInv'
<1>1. PICK filled, asked : filled = {} /\ asked = book.queued
  OBVIOUS
<1>2. Told(filled, {}, {q.bar : q \in asked}) /\ Watched /\ book.state = "OPEN"
      /\ \A q \in asked : q.result # "EXIT_POSITION"
  BY <1>1 DEF HoldBar
<1>3. asked \subseteq book.queued
  BY <1>1
<1>4. filled \subseteq {book.proposal} /\ book.proposal \in outcomes.fills \cup filled
      /\ book.state # "FLAT"
  BY <1>1, <1>2 DEF StoryInv, BookTold
<1> QED
  BY <1>2, <1>3, <1>4, WatchedKept, Zenon

LEMMA StoryStart == ASSUME StoryInit PROVE StoryInv
<1> USE DEF StoryInit
<1>1. StoryTyped
  <2>1. DOMAIN cycles = 1..bars /\ \A n \in 1..bars : cycles[n] \in Cycles
    OBVIOUS
  <2>2. outcomes \in [fills : SUBSET (1..bars), trades : SUBSET Trades(bars), applied : SUBSET (1..bars)]
    OBVIOUS
  <2> QED
    BY <2>1, <2>2 DEF StoryTyped
<1>2. BookTold
  BY NobodyIs DEF BookTold
<1>3. LooksTold /\ TradesTold
  BY DEF LooksTold, TradesTold
<1> QED
  BY <1>1, <1>2, <1>3 DEF StoryInv

LEMMA StoryStep == ASSUME StoryInv, [StoryNext]_storyVars PROVE StoryInv'
<1>1. CASE RecordBar
  <2>1. PICK cycle \in Cycles :
          /\ cycles' = [n \in 1..(bars + 1) |-> IF n <= bars THEN cycles[n] ELSE cycle]
          /\ \/ IdleBar(cycle) \/ FillBar \/ StopBar(cycle) \/ CloseBar(cycle) \/ HoldBar
    BY <1>1, RecordBarIs DEF StoryInv
  <2>2. Later(cycle)
    BY <1>1, <2>1 DEF RecordBar, Later
  <2> QED
    BY <2>1, <2>2, IdleKept, FillKept, StopKept, CloseKept, HoldKept
<1>2. CASE Write \/ UNCHANGED storyVars
  <2>1. UNCHANGED <<bars, cycles, looks, book, outcomes>>
    BY <1>2 DEF Write, storyVars
  <2>2. StoryTyped'
    BY <2>1 DEF StoryInv, StoryTyped
  <2>3. BookTold' /\ LooksTold' /\ TradesTold'
    BY <2>1 DEF StoryInv, BookTold, LooksTold, TradesTold, Exits
  <2> QED
    BY <2>2, <2>3 DEF StoryInv
<1> QED
  BY <1>1, <1>2 DEF StoryNext

(* What is told of a position that is still open, and of one that is gone:  *)
(* ReplayExecutionBook's fills, trades and applications against the         *)
(* journal's looks, for any replay.                                         *)
THEOREM StoryInvariant == StorySpec => []StoryInv
<1>1. StoryInit => StoryInv
  BY StoryStart
<1>2. StoryInv /\ [StoryNext]_storyVars => StoryInv'
  BY StoryStep
<1> QED
  BY <1>1, <1>2, PTL DEF StorySpec

-----------------------------------------------------------------------------
(* The joins over these records.                                           *)
DisciplineRefused(c) == c.discipline \in {"REJECT", "PAUSE"}
RiskRefused(c)       == c.risk \in {"REJECT", "EMERGENCY_STOP"}

LEMMA CycleIs ==
  ASSUME NEW c \in Cycles
  PROVE  /\ ProgressedTo(c) = "DISCIPLINE" <=> DisciplineRefused(c)
         /\ ProgressedTo(c) = "RISK" <=> RiskRefused(c)
         /\ ~(DisciplineRefused(c) /\ RiskRefused(c))
         /\ c.intent => /\ ProgressedTo(c) = "EXECUTION_INTENT" /\ Missing(c) = {}
                        /\ ~DisciplineRefused(c) /\ ~RiskRefused(c)
<1>1. \/ c = [decision |-> "HOLD", discipline |-> "NONE", risk |-> "NONE", intent |-> FALSE]
      \/ c = [decision |-> "BUY", discipline |-> "REJECT", risk |-> "NONE", intent |-> FALSE]
      \/ c = [decision |-> "BUY", discipline |-> "PAUSE", risk |-> "NONE", intent |-> FALSE]
      \/ c = [decision |-> "BUY", discipline |-> "PASS", risk |-> "REJECT", intent |-> FALSE]
      \/ c = [decision |-> "BUY", discipline |-> "PASS", risk |-> "EMERGENCY_STOP", intent |-> FALSE]
      \/ c = [decision |-> "BUY", discipline |-> "PASS", risk |-> "PASS", intent |-> TRUE]
  BY DEF Cycles, Cycle
<1>2. \/ c.decision = "HOLD" /\ c.discipline = "NONE" /\ c.risk = "NONE" /\ c.intent = FALSE
      \/ c.decision = "BUY" /\ c.discipline = "REJECT" /\ c.risk = "NONE" /\ c.intent = FALSE
      \/ c.decision = "BUY" /\ c.discipline = "PAUSE" /\ c.risk = "NONE" /\ c.intent = FALSE
      \/ c.decision = "BUY" /\ c.discipline = "PASS" /\ c.risk = "REJECT" /\ c.intent = FALSE
      \/ c.decision = "BUY" /\ c.discipline = "PASS" /\ c.risk = "EMERGENCY_STOP" /\ c.intent = FALSE
      \/ c.decision = "BUY" /\ c.discipline = "PASS" /\ c.risk = "PASS" /\ c.intent = TRUE
  BY <1>1
<1>3. ProgressedTo(c) = "DISCIPLINE" <=> DisciplineRefused(c)
  BY <1>2 DEF ProgressedTo, DisciplineRefused
<1>4. ProgressedTo(c) = "RISK" <=> RiskRefused(c)
  BY <1>2 DEF ProgressedTo, RiskRefused
<1>5. ~(DisciplineRefused(c) /\ RiskRefused(c))
  BY <1>2 DEF DisciplineRefused, RiskRefused
<1>6. ASSUME c.intent
      PROVE  /\ ProgressedTo(c) = "EXECUTION_INTENT" /\ Missing(c) = {}
             /\ ~DisciplineRefused(c) /\ ~RiskRefused(c)
  BY <1>2, <1>6 DEF ProgressedTo, Missing, DisciplineRefused, RiskRefused
<1> QED
  BY <1>3, <1>4, <1>5, <1>6

LEMMA AtMostOne == ASSUME NEW S, \A x, y \in S : x = y PROVE Cardinality(S) <= 1
<1>1. CASE S = {}
  BY <1>1, FS_EmptySet
<1>2. CASE S # {}
  <2>1. PICK x \in S : TRUE
    BY <1>2
  <2>2. S = {x}
    BY <2>1
  <2> QED
    BY <2>2, FS_Singleton
<1> QED
  BY <1>1, <1>2

Refusals(p) == {r \in OfProposal(Rejections, p) : r.layer # "POSITION_ACTION_SAFETY"}

LEMMA RefusalsAre ==
  ASSUME NEW p \in Proposals, cycles[p] \in Cycles
  PROVE  /\ \A r \in Refusals(p) :
              \/ DisciplineRefused(cycles[p]) /\ r = [proposal |-> p, layer |-> "DISCIPLINE", source |-> p]
              \/ RiskRefused(cycles[p]) /\ r = [proposal |-> p, layer |-> "RISK", source |-> p]
         /\ DisciplineRefused(cycles[p]) => [proposal |-> p, layer |-> "DISCIPLINE", source |-> p] \in Refusals(p)
         /\ RiskRefused(cycles[p]) => [proposal |-> p, layer |-> "RISK", source |-> p] \in Refusals(p)
<1> DEFINE D == {[proposal |-> q, layer |-> "DISCIPLINE", source |-> q] :
                    q \in {r \in Proposals : DisciplineRefused(cycles[r])}}
           R == {[proposal |-> q, layer |-> "RISK", source |-> q] :
                    q \in {r \in Proposals : RiskRefused(cycles[r])}}
           A == {[proposal |-> look.proposal, layer |-> "POSITION_ACTION_SAFETY", source |-> look.bar] :
                    look \in {l \in looks : /\ l.safety \in {"REJECT", "EMERGENCY_BLOCK"}
                                            /\ l.proposal \in Proposals /\ cycles[l.proposal].intent}}
<1>1. Rejections = D \cup R \cup A
  BY Zenon DEF Rejections, DisciplineRefused, RiskRefused
<1>2. \A r \in A : r.layer = "POSITION_ACTION_SAFETY"
  OBVIOUS
<1>3. \A r \in D : r.proposal = p => r = [proposal |-> p, layer |-> "DISCIPLINE", source |-> p]
                                     /\ DisciplineRefused(cycles[p])
  OBVIOUS
<1>4. \A r \in R : r.proposal = p => r = [proposal |-> p, layer |-> "RISK", source |-> p]
                                     /\ RiskRefused(cycles[p])
  OBVIOUS
<1>5. DisciplineRefused(cycles[p]) => [proposal |-> p, layer |-> "DISCIPLINE", source |-> p] \in D
  OBVIOUS
<1>6. RiskRefused(cycles[p]) => [proposal |-> p, layer |-> "RISK", source |-> p] \in R
  OBVIOUS
<1> HIDE DEF D, R, A
<1> QED
  BY <1>1, <1>2, <1>3, <1>4, <1>5, <1>6 DEF Refusals, OfProposal

(* What the tellings of one proposal say of each other.                    *)
DecisionSays(p, trades, says) ==
  /\ {r.layer : r \in Refusals(p)} = {ProgressedTo(cycles[p])} \cap {"DISCIPLINE", "RISK"}
  /\ Cardinality(Refusals(p)) <= 1 /\ Cardinality(trades) <= 1
  /\ trades # {} => ProgressedTo(cycles[p]) = "EXECUTION_INTENT" /\ Missing(cycles[p]) = {}
  /\ says = {IF trades # {} THEN "TRADE_COMPLETED"
             ELSE IF Refusals(p) # {} THEN "REJECTED" ELSE "NONE"}

LEMMA DecisionTold ==
  ASSUME StoryInv, NEW p \in Proposals,
         NEW trades, trades = OfProposal(TradeExperiences, p),
         NEW says, says = {x.downstream : x \in OfProposal(Contributions, p)}
  PROVE  DecisionSays(p, trades, says)
<1>1. PICK c \in Cycles : c = cycles[p]
  BY DEF StoryInv, StoryTyped, Proposals
<1>2. /\ \A r \in Refusals(p) :
           \/ DisciplineRefused(c) /\ r = [proposal |-> p, layer |-> "DISCIPLINE", source |-> p]
           \/ RiskRefused(c) /\ r = [proposal |-> p, layer |-> "RISK", source |-> p]
      /\ DisciplineRefused(c) => [proposal |-> p, layer |-> "DISCIPLINE", source |-> p] \in Refusals(p)
      /\ RiskRefused(c) => [proposal |-> p, layer |-> "RISK", source |-> p] \in Refusals(p)
  BY <1>1, RefusalsAre
<1>3. {r.layer : r \in Refusals(p)} = {ProgressedTo(c)} \cap {"DISCIPLINE", "RISK"}
  <2>1. \A r \in Refusals(p) : \/ DisciplineRefused(c) /\ r.layer = "DISCIPLINE"
                               \/ RiskRefused(c) /\ r.layer = "RISK"
    BY <1>2
  <2>2. /\ DisciplineRefused(c) => \E r \in Refusals(p) : r.layer = "DISCIPLINE"
        /\ RiskRefused(c) => \E r \in Refusals(p) : r.layer = "RISK"
    BY <1>2
  <2>3. /\ ProgressedTo(c) = "DISCIPLINE" <=> DisciplineRefused(c)
        /\ ProgressedTo(c) = "RISK" <=> RiskRefused(c)
    BY CycleIs
  <2>4. \A x \in {r.layer : r \in Refusals(p)} : x \in {ProgressedTo(c)} \cap {"DISCIPLINE", "RISK"}
    BY <2>1, <2>3
  <2>5. \A x \in {ProgressedTo(c)} \cap {"DISCIPLINE", "RISK"} : x \in {r.layer : r \in Refusals(p)}
    BY <2>2, <2>3
  <2> QED
    BY <2>4, <2>5
<1>4. Cardinality(Refusals(p)) <= 1
  <2>1. \A x, y \in Refusals(p) : x = y
    BY <1>2, CycleIs
  <2> QED
    BY <2>1, AtMostOne
<1>5. \A x \in trades : \E t \in outcomes.trades :
        t.proposal = p /\ x = [proposal |-> t.proposal, exit |-> t.exit, action |-> t.action,
                               complete |-> t.proposal \in outcomes.fills /\ t.proposal \in Proposals]
  BY DEF OfProposal, TradeExperiences
<1>6. Cardinality(trades) <= 1
  <2>1. \A t, u \in outcomes.trades : t.proposal = p /\ u.proposal = p => t = u
    BY DEF StoryInv, TradesTold
  <2>2. \A x, y \in trades : x = y
    BY <1>5, <2>1
  <2> QED
    BY <2>2, AtMostOne
<1>7. trades # {} <=> p \in {t.proposal : t \in outcomes.trades}
  <2>1. ASSUME NEW t \in outcomes.trades, t.proposal = p PROVE trades # {}
    <3>1. [proposal |-> t.proposal, exit |-> t.exit, action |-> t.action,
           complete |-> t.proposal \in outcomes.fills /\ t.proposal \in Proposals] \in trades
      BY <2>1 DEF OfProposal, TradeExperiences
    <3> QED
      BY <3>1
  <2> QED
    BY <1>5, <2>1
<1>8. trades # {} => ProgressedTo(c) = "EXECUTION_INTENT" /\ Missing(c) = {}
  <2>1. trades # {} => c.intent
    BY <1>1, <1>7 DEF StoryInv, BookTold, TradesTold
  <2> QED
    BY <2>1, CycleIs
<1>9. Refusals(p) # {} <=> p \in RejectedProposals
  BY <1>1, <1>2 DEF RejectedProposals, DisciplineRefused, RiskRefused
<1>10. Downstream(p) = IF trades # {} THEN "TRADE_COMPLETED"
                       ELSE IF Refusals(p) # {} THEN "REJECTED" ELSE "NONE"
  BY <1>7, <1>9 DEF Downstream
<1>11. says = {Downstream(p)}
  <2>1. PICK s \in Specialists : TRUE
    BY SpecialistsAssumption
  <2>2. \A q \in Proposals : [proposal |-> q, specialist |-> s, downstream |-> Downstream(q)] \in Contributions
    BY DEF Contributions
  <2>3. \A x \in Contributions : x.downstream = Downstream(x.proposal)
    BY DEF Contributions
  <2>4. Downstream(p) \in says
    <3>1. PICK x : x = [proposal |-> p, specialist |-> s, downstream |-> Downstream(p)]
      OBVIOUS
    <3>2. x \in Contributions /\ x.proposal = p /\ x.downstream = Downstream(p)
      BY <2>2, <3>1
    <3> QED
      BY <3>2 DEF OfProposal
  <2> QED
    BY <2>3, <2>4 DEF OfProposal
<1> QED
  <2>1. says = {IF trades # {} THEN "TRADE_COMPLETED"
                ELSE IF Refusals(p) # {} THEN "REJECTED" ELSE "NONE"}
    BY ONLY <1>10, <1>11
  <2>2. trades # {} => ProgressedTo(cycles[p]) = "EXECUTION_INTENT" /\ Missing(cycles[p]) = {}
    BY ONLY <1>1, <1>8
  <2>3. {r.layer : r \in Refusals(p)} = {ProgressedTo(cycles[p])} \cap {"DISCIPLINE", "RISK"}
    BY ONLY <1>1, <1>3
  <2> QED
    BY ONLY <1>4, <1>6, <2>1, <2>2, <2>3, Zenon DEF DecisionSays

LEMMA ManagementIs ==
  ASSUME NEW m \in Managements
  PROVE  \E l \in looks : /\ m.look = l.bar /\ m.proposal = l.proposal /\ m.result = l.result
                          /\ m.reached <=> l.bar \in outcomes.applied
<1>1. PICK l \in looks :
        m = [proposal |-> l.proposal, look |-> l.bar, result |-> l.result,
             action |-> l.safety = "PASS", reached |-> l.bar \in outcomes.applied]
  BY Zenon DEF Managements
<1>2. PICK p, k, e, a, b : /\ p = l.proposal /\ k = l.bar /\ e = l.result
                           /\ a = (l.safety = "PASS") /\ b = (l.bar \in outcomes.applied)
  BY Zenon
<1>3. m = [proposal |-> p, look |-> k, result |-> e, action |-> a, reached |-> b]
  BY <1>1, <1>2, Zenon
<1>4. m.look = k /\ m.proposal = p /\ m.result = e /\ m.reached = b
  BY ONLY <1>3
<1> QED
  BY <1>2, <1>4, Zenon

LEMMA TradeTold ==
  ASSUME StoryInv, NEW t \in TradeExperiences,
         NEW exits, exits = {m \in OfProposal(Managements, t.proposal) :
                               m.result = "EXIT_POSITION" /\ m.reached}
  PROVE  /\ t.complete
         /\ {m.look : m \in exits} = {t.action} \ {0}
         /\ (t.action = 0) = (t.exit = "PROTECTIVE_STOP")
<1>1. PICK trade \in outcomes.trades :
        t = [proposal |-> trade.proposal, exit |-> trade.exit, action |-> trade.action,
             complete |-> trade.proposal \in outcomes.fills /\ trade.proposal \in Proposals]
  BY DEF TradeExperiences
<1>2. PICK p : p = trade.proposal
  OBVIOUS
<1>3. /\ t.proposal = p /\ t.exit = trade.exit /\ t.action = trade.action
      /\ t.complete = (p \in outcomes.fills /\ p \in Proposals)
  BY <1>1, <1>2
<1>4. p \in outcomes.fills /\ p \in Proposals
  BY <1>2 DEF StoryInv, StoryTyped, TradesTold, Proposals, Trades
<1>5. trade.action = 0 <=> trade.exit = "PROTECTIVE_STOP"
  BY DEF StoryInv, TradesTold
<1>6. \A m \in exits : \E l \in Exits(p) : m.look = l.bar
  BY <1>3, ManagementIs DEF OfProposal, Exits
<1>7. \A l \in Exits(p) : \E m \in exits : m.look = l.bar
  <2> SUFFICES ASSUME NEW l \in Exits(p) PROVE \E m \in exits : m.look = l.bar
    OBVIOUS
  <2>1. PICK m : m = [proposal |-> l.proposal, look |-> l.bar, result |-> l.result,
                      action |-> l.safety = "PASS", reached |-> l.bar \in outcomes.applied]
    OBVIOUS
  <2>2. m \in Managements
    BY <2>1 DEF Managements, Exits
  <2>3. m.proposal = l.proposal /\ m.result = l.result /\ m.look = l.bar
        /\ m.reached = (l.bar \in outcomes.applied)
    BY <2>1
  <2> QED
    BY <1>3, <2>2, <2>3 DEF OfProposal, Exits
<1>8. {m.look : m \in exits} = {l.bar : l \in Exits(p)}
  BY <1>6, <1>7
<1>9. {l.bar : l \in Exits(p)} = {trade.action} \ {0}
  BY <1>2 DEF StoryInv, TradesTold
<1> QED
  BY <1>3, <1>4, <1>5, <1>8, <1>9

LEMMA RefusedIsNotReached ==
  ASSUME StoryInv, NEW m \in Managements, NEW r \in Rejections, m.reached,
         r.layer = "POSITION_ACTION_SAFETY"
  PROVE  r.source # m.look
<1>1. PICK l \in looks : r.source = l.bar /\ l.safety \in {"REJECT", "EMERGENCY_BLOCK"}
  BY DEF Rejections
<1>2. PICK k \in looks : m.look = k.bar /\ k.bar \in outcomes.applied
  BY ManagementIs
<1> QED
  BY <1>1, <1>2 DEF StoryInv, LooksTold

(* Six joins, one story, for any replay: what stopped a proposal, what      *)
(* became of it, which exit ended its position and which actions were       *)
(* executed agree wherever they are told (OutcomeAttributionBuilder).       *)
THEOREM ExperiencesAgree == StorySpec => []TellingsAgree
<1>1. ASSUME StoryInv PROVE TellingsAgree
  <2>1. ASSUME NEW d \in Decisions
        PROVE LET refusals == {r \in OfProposal(Rejections, d.proposal) : r.layer # "POSITION_ACTION_SAFETY"}
                  trades   == OfProposal(TradeExperiences, d.proposal)
                  says     == {x.downstream : x \in OfProposal(Contributions, d.proposal)}
              IN /\ {r.layer : r \in refusals} = {d.progressed} \cap {"DISCIPLINE", "RISK"}
                 /\ Cardinality(refusals) <= 1 /\ Cardinality(trades) <= 1
                 /\ trades # {} => d.progressed = "EXECUTION_INTENT" /\ d.missing = {}
                 /\ says = {IF trades # {} THEN "TRADE_COMPLETED"
                            ELSE IF refusals # {} THEN "REJECTED" ELSE "NONE"}
    <3>1. PICK p \in Proposals :
            d = [proposal |-> p, progressed |-> ProgressedTo(cycles[p]), missing |-> Missing(cycles[p])]
      BY DEF Decisions
    <3>2. d.proposal = p /\ d.progressed = ProgressedTo(cycles[p]) /\ d.missing = Missing(cycles[p])
      BY <3>1
    <3>3. PICK trades, says : trades = OfProposal(TradeExperiences, p)
                              /\ says = {x.downstream : x \in OfProposal(Contributions, p)}
      OBVIOUS
    <3>4. /\ {r.layer : r \in Refusals(p)} = {ProgressedTo(cycles[p])} \cap {"DISCIPLINE", "RISK"}
          /\ Cardinality(Refusals(p)) <= 1 /\ Cardinality(trades) <= 1
          /\ trades # {} => ProgressedTo(cycles[p]) = "EXECUTION_INTENT" /\ Missing(cycles[p]) = {}
          /\ says = {IF trades # {} THEN "TRADE_COMPLETED"
                     ELSE IF Refusals(p) # {} THEN "REJECTED" ELSE "NONE"}
      <4>1. DecisionSays(p, trades, says)
        BY ONLY <1>1, <3>3, DecisionTold
      <4> QED
        BY ONLY <4>1, Zenon DEF DecisionSays
    <3>5. Refusals(p) = {r \in OfProposal(Rejections, d.proposal) : r.layer # "POSITION_ACTION_SAFETY"}
      BY <3>2, Zenon DEF Refusals
    <3>6. trades = OfProposal(TradeExperiences, d.proposal)
          /\ says = {x.downstream : x \in OfProposal(Contributions, d.proposal)}
      BY <3>2, <3>3
    <3>7. /\ {r.layer : r \in Refusals(p)} = {d.progressed} \cap {"DISCIPLINE", "RISK"}
          /\ trades # {} => d.progressed = "EXECUTION_INTENT" /\ d.missing = {}
      BY <3>2, <3>4, Zenon
    <3> QED
      BY ONLY <3>4, <3>5, <3>6, <3>7, Zenon
  <2>2. ASSUME NEW t \in TradeExperiences
        PROVE LET exits == {m \in OfProposal(Managements, t.proposal) : m.result = "EXIT_POSITION" /\ m.reached}
              IN /\ t.complete
                 /\ {m.look : m \in exits} = {t.action} \ {0}
                 /\ (t.action = 0) = (t.exit = "PROTECTIVE_STOP")
    BY <1>1, TradeTold, Zenon
  <2>3. \A m \in Managements, r \in Rejections :
          m.reached => r.layer # "POSITION_ACTION_SAFETY" \/ r.source # m.look
    BY <1>1, RefusedIsNotReached
  <2> QED
    BY <2>1, <2>2, <2>3 DEF TellingsAgree
<1> QED
  BY <1>1, StoryInvariant, PTL

-----------------------------------------------------------------------------
(* SPLITS                                                                  *)

(* How far a policy keeps its splits from each other.                      *)
Distances(w) == w.horizon \in Nat /\ w.purge \in Nat /\ w.embargo \in Nat

LEMMA LeastOf ==
  ASSUME NEW T, T \subseteq Nat, T # {}
  PROVE  \E t \in T : \A y \in T : t <= y
<1>1. PICK t \in T : \A y \in T : ~(<<y, t>> \in OpToRel(<, Nat))
  BY NatLessThanWellFounded, WFMin
<1>2. ASSUME NEW y \in T PROVE t <= y
  <2>1. y \in Nat /\ t \in Nat
    BY <1>1, <1>2
  <2>2. y < t => <<y, t>> \in OpToRel(<, Nat)
    BY <2>1 DEF OpToRel
  <2>3. <<y, t>> \notin OpToRel(<, Nat)
    BY <1>1, <1>2, Zenon
  <2>4. ~(y < t)
    BY <2>2, <2>3
  <2> QED
    BY <2>1, <2>4
<1> QED
  BY <1>1, <1>2

(* Two rows are at least as many candles apart as rows.                    *)
LEMMA RowsApart ==
  ASSUME NEW rows \in Nat, NEW times, Rising(times, rows),
         NEW i \in 0..(rows - 1), NEW j \in 0..(rows - 1), i <= j
  PROVE  times[i] + (j - i) <= times[j]
<1> DEFINE Near == {k \in Nat : i <= k /\ k <= rows - 1 /\ ~(times[i] + (k - i) <= times[k])}
<1>1. Near = {}
  <2>1. SUFFICES ASSUME Near # {} PROVE FALSE
    OBVIOUS
  <2>2. Near \subseteq Nat
    OBVIOUS
  <2>3. PICK k \in Near : \A y \in Near : k <= y
    BY <2>1, <2>2, LeastOf
  <2>4. k \in Nat /\ i <= k /\ k <= rows - 1 /\ ~(times[i] + (k - i) <= times[k])
    BY <2>3
  <2>5. k # i
    BY <2>4 DEF Rising
  <2>6. k - 1 \in Nat /\ i <= k - 1 /\ k - 1 \in 0..(rows - 2)
    BY <2>4, <2>5
  <2>7. k - 1 \notin Near
    BY <2>3, <2>4
  <2>8. times[i] + ((k - 1) - i) <= times[k - 1]
    BY <2>4, <2>6, <2>7
  <2>9. times[k - 1] < times[(k - 1) + 1] /\ (k - 1) + 1 = k
    BY <2>6, <2>4 DEF Rising
  <2>10. times[i] \in Int /\ times[k] \in Int /\ times[k - 1] \in Int
    BY <2>4, <2>6 DEF Rising
  <2> QED
    BY <2>4, <2>8, <2>9, <2>10
<1>2. j \in Nat /\ i <= j /\ j <= rows - 1 /\ j \notin Near
  BY <1>1
<1> QED
  BY <1>2

(* A label that reads its horizon ahead reads nothing of a row that is     *)
(* further away than that.                                                 *)
LEMMA FarIsApart ==
  ASSUME NEW rows \in Nat, NEW times, Rising(times, rows), NEW horizon \in Nat,
         NEW earlier \in SUBSET (0..(rows - 1)), NEW later \in SUBSET (0..(rows - 1)),
         \A i \in earlier, j \in later : i + horizon < j
  PROVE  Apart(earlier, later, times, horizon)
<1>1. ASSUME NEW i \in earlier, NEW j \in later PROVE times[i] + horizon < times[j]
  <2>1. i \in 0..(rows - 1) /\ j \in 0..(rows - 1) /\ i + horizon < j
    BY <1>1
  <2>2. i <= j
    BY <2>1
  <2>3. times[i] + (j - i) <= times[j]
    BY <2>1, <2>2, RowsApart
  <2>4. times[i] \in Int /\ times[j] \in Int
    BY <2>1 DEF Rising
  <2> QED
    BY <2>1, <2>3, <2>4
<1> QED
  BY <1>1 DEF Apart

LEMMA RangeHolds ==
  ASSUME NEW low \in Int, NEW high \in Int, low..high # {}
  PROVE  low <= high
OBVIOUS

LEMMA FoldKeepsApart ==
  ASSUME NEW rows \in Nat, NEW times, Rising(times, rows), NEW w, Distances(w),
         NEW from \in Nat, NEW train \in Int, NEW validation \in Int, NEW stop \in Int,
         stop <= rows, NEW fold, fold = Fold(from, train, validation, stop, w),
         {} \notin {fold.train, fold.validation, fold.oos}
  PROVE  /\ Apart(fold.train, fold.validation, times, w.horizon)
         /\ Apart(fold.train, fold.oos, times, w.horizon)
         /\ Apart(fold.validation, fold.oos, times, w.horizon)
<1> DEFINE P == Purge(w)
<1>1. P \in Nat /\ P >= w.horizon /\ w.embargo \in Nat /\ w.horizon \in Nat
  BY DEF Purge, Distances
<1>2. /\ fold.train = from..(train - P - 1)
      /\ fold.validation = (train + w.embargo)..(validation - P - 1)
      /\ fold.oos = (validation + w.embargo)..(stop - 1)
  BY DEF Fold
<1>3. fold.train # {} /\ fold.validation # {} /\ fold.oos # {}
  OBVIOUS
<1> HIDE DEF P
<1>4. from <= train - P - 1
  <2>1. from \in Int /\ train - P - 1 \in Int
    BY <1>1
  <2>2. from..(train - P - 1) # {}
    BY ONLY <1>2, <1>3
  <2> QED
    BY ONLY <2>1, <2>2, RangeHolds
<1>5. train + w.embargo <= validation - P - 1
  <2>1. train + w.embargo \in Int /\ validation - P - 1 \in Int
    BY <1>1
  <2>2. (train + w.embargo)..(validation - P - 1) # {}
    BY ONLY <1>2, <1>3
  <2> QED
    BY ONLY <2>1, <2>2, RangeHolds
<1>6. validation + w.embargo <= stop - 1
  <2>1. validation + w.embargo \in Int /\ stop - 1 \in Int
    BY <1>1
  <2>2. (validation + w.embargo)..(stop - 1) # {}
    BY ONLY <1>2, <1>3
  <2> QED
    BY ONLY <2>1, <2>2, RangeHolds
<1>7. /\ fold.train \in SUBSET (0..(rows - 1))
      /\ fold.validation \in SUBSET (0..(rows - 1))
      /\ fold.oos \in SUBSET (0..(rows - 1))
  <2>1. ASSUME NEW low \in Nat, NEW high \in Int, high <= rows - 1
        PROVE  low..high \in SUBSET (0..(rows - 1))
    BY <2>1
  <2>2. train + w.embargo \in Nat /\ validation + w.embargo \in Nat
    BY <1>1, <1>4, <1>5
  <2>3. train - P - 1 <= rows - 1 /\ validation - P - 1 <= rows - 1 /\ stop - 1 <= rows - 1
    BY <1>1, <1>5, <1>6
  <2>4. train - P - 1 \in Int /\ validation - P - 1 \in Int /\ stop - 1 \in Int
    BY <1>1
  <2> QED
    BY <1>2, <2>1, <2>2, <2>3, <2>4
<1>8. ASSUME NEW i \in Int, NEW j \in Int
      PROVE  /\ i <= train - P - 1 /\ j >= train + w.embargo => i + w.horizon < j
             /\ i <= train - P - 1 /\ j >= validation + w.embargo => i + w.horizon < j
             /\ i <= validation - P - 1 /\ j >= validation + w.embargo => i + w.horizon < j
  BY <1>1, <1>5
<1>9. /\ \A i \in fold.train, j \in fold.validation : i + w.horizon < j
      /\ \A i \in fold.train, j \in fold.oos : i + w.horizon < j
      /\ \A i \in fold.validation, j \in fold.oos : i + w.horizon < j
  <2>1. /\ \A i \in fold.train : i \in Int /\ i <= train - P - 1
        /\ \A i \in fold.validation : i \in Int /\ i >= train + w.embargo /\ i <= validation - P - 1
        /\ \A i \in fold.oos : i \in Int /\ i >= validation + w.embargo
    BY <1>1, <1>2
  <2> QED
    BY <1>8, <2>1
<1> QED
  BY <1>1, <1>7, <1>9, FarIsApart

(* chronological_split: whatever fractions it is asked for, and whatever   *)
(* rows were dropped, no label of a split it accepts reads into a later    *)
(* one.                                                                    *)
THEOREM ChronologicalKeepsApart ==
  ASSUME NEW rows \in Nat, NEW times, Rising(times, rows),
         NEW w, Distances(w), w.train \in Nat, w.validation \in Nat
  PROVE  LabelsApart(ChronologicalFolds(rows, w), times, w.horizon)
<1> DEFINE train == (rows * w.train) \div 10
           validation == (rows * (w.train + w.validation)) \div 10
<1>1. train \in Int /\ validation \in Int
  OBVIOUS
<1>2. ASSUME NEW fold \in ChronologicalFolds(rows, w)
      PROVE  fold = Fold(0, train, validation, rows, w)
             /\ {} \notin {fold.train, fold.validation, fold.oos}
  BY <1>2 DEF ChronologicalFolds, Chronological, Accepted
<1> HIDE DEF train, validation
<1>3. ASSUME NEW fold \in ChronologicalFolds(rows, w)
      PROVE  /\ Apart(fold.train, fold.validation, times, w.horizon)
             /\ Apart(fold.train, fold.oos, times, w.horizon)
             /\ Apart(fold.validation, fold.oos, times, w.horizon)
  <2>1. 0 \in Nat /\ rows \in Int /\ rows <= rows
    OBVIOUS
  <2>2. fold = Fold(0, train, validation, rows, w)
        /\ {} \notin {fold.train, fold.validation, fold.oos}
    BY <1>2, <1>3
  <2> QED
    BY <1>1, <2>1, <2>2, FoldKeepsApart
<1> QED
  BY <1>3 DEF LabelsApart

(* walk_forward_splits in front of the rows kept for the end: the same of  *)
(* every fold, expanding or rolling.                                       *)
THEOREM DevelopmentKeepsApart ==
  ASSUME NEW rows \in Nat, NEW times, Rising(times, rows), NEW final \in 0..rows,
         NEW w, Distances(w), w.train \in Nat, w.validation \in Nat, w.oos \in Nat,
         w.step \in Nat
  PROVE  LabelsApart(DevelopmentFolds(final, w), times, w.horizon)
<1> DEFINE Stop(k) == w.train + k * w.step
           From(k) == IF w.mode = "EXPANDING" THEN 0 ELSE Stop(k) - w.train
<1>1. ASSUME NEW fold \in DevelopmentFolds(final, w)
      PROVE  \E k \in 0..final :
               /\ w.train + k * w.step + w.validation + w.oos <= final
               /\ fold = Fold(From(k), Stop(k), Stop(k) + w.validation,
                              Stop(k) + w.validation + w.oos, w)
               /\ {} \notin {fold.train, fold.validation, fold.oos}
  BY <1>1 DEF DevelopmentFolds, WalkForward, Accepted
<1>2. ASSUME NEW fold \in DevelopmentFolds(final, w)
      PROVE  /\ Apart(fold.train, fold.validation, times, w.horizon)
             /\ Apart(fold.train, fold.oos, times, w.horizon)
             /\ Apart(fold.validation, fold.oos, times, w.horizon)
  <2>1. PICK k \in 0..final :
               /\ w.train + k * w.step + w.validation + w.oos <= final
               /\ fold = Fold(From(k), Stop(k), Stop(k) + w.validation,
                              Stop(k) + w.validation + w.oos, w)
               /\ {} \notin {fold.train, fold.validation, fold.oos}
    BY <1>1, <1>2
  <2>2. k * w.step \in Nat
    OBVIOUS
  <2>3. PICK from, stop : from = From(k) /\ stop = Stop(k)
    OBVIOUS
  <2>4. from \in Nat /\ stop \in Int /\ stop + w.validation + w.oos <= rows
    BY <2>1, <2>2, <2>3
  <2>5. fold = Fold(from, stop, stop + w.validation, stop + w.validation + w.oos, w)
    BY <2>1, <2>3
  <2> QED
    BY <2>1, <2>4, <2>5, FoldKeepsApart
<1> QED
  BY <1>2 DEF LabelsApart

(* One input of the pipeline, whichever it is.                             *)
LEMMA SampleIsAnInput == SampleSpec => [](sample \in Inputs)
<1>1. SampleInit => sample \in Inputs
  BY DEF SampleInit
<1>2. sample \in Inputs /\ [UNCHANGED sample]_sample => (sample \in Inputs)'
  OBVIOUS
<1> QED
  BY <1>1, <1>2, PTL DEF SampleSpec

(* Whatever rows were dropped from a dataset and whatever its policies ask *)
(* for, no label of a split reads into a later one (chronological_split,   *)
(* development_split_manifest).                                            *)
THEOREM LabelsKeptApart == SampleSpec => []SplitsKeepLabelsApart
<1>1. ASSUME sample \in Inputs, sample.kind = "CHRONOLOGICAL"
      PROVE  LabelsApart(ChronologicalFolds(Len(sample.bars), sample.policy),
                         Times(sample.bars), sample.policy.horizon)
  <2>1. /\ sample.policy \in ChronologicalPolicies
        /\ Len(sample.bars) \in Nat /\ Rising(Times(sample.bars), Len(sample.bars))
    BY <1>1, InputsAssumption
  <2>2. Distances(sample.policy) /\ sample.policy.train \in Nat /\ sample.policy.validation \in Nat
    BY <2>1 DEF ChronologicalPolicies, Distances
  <2> QED
    BY <2>1, <2>2, ChronologicalKeepsApart
<1>2. ASSUME sample \in Inputs, sample.kind = "DEVELOPMENT"
      PROVE  LabelsApart(DevelopmentFolds(sample.final, sample.policy),
                         Times(sample.bars), sample.policy.horizon)
  <2>1. /\ sample.policy \in DevelopmentPolicies /\ sample.final \in 0..Len(sample.bars)
        /\ Len(sample.bars) \in Nat /\ Rising(Times(sample.bars), Len(sample.bars))
    BY <1>2, InputsAssumption
  <2>2. /\ Distances(sample.policy) /\ sample.policy.train \in Nat
        /\ sample.policy.validation \in Nat /\ sample.policy.oos \in Nat
        /\ sample.policy.step \in Nat
    BY <2>1 DEF DevelopmentPolicies, Distances
  <2> QED
    BY <2>1, <2>2, DevelopmentKeepsApart
<1>3. sample \in Inputs => SplitsKeepLabelsApart
  BY <1>1, <1>2 DEF SplitsKeepLabelsApart
<1> QED
  BY <1>3, SampleIsAnInput, PTL

-----------------------------------------------------------------------------
(* SUMS                                                                    *)

(* What the sum of f over s is, given the sums over smaller sets.          *)
OneMore(f, sums, s) ==
  IF s = {} THEN 0 ELSE LET x == CHOOSE x \in s : TRUE IN f[x] + sums[s \ {x}]

Sums(f, sums) == sums = [s \in SUBSET DOMAIN f |-> OneMore(f, sums, s)]

(* A table of the sums over the sets of at most n elements.                *)
SumsTo(f, sums, n) ==
  /\ sums = [s \in SUBSET DOMAIN f |-> sums[s]]
  /\ \A s \in SUBSET DOMAIN f : Cardinality(s) <= n => sums[s] = OneMore(f, sums, s)

LEMMA SumsGrow ==
  ASSUME NEW f, IsFiniteSet(DOMAIN f), NEW n \in Nat, NEW sums, SumsTo(f, sums, n)
  PROVE  \E more : SumsTo(f, more, n + 1)
<1> DEFINE more == [s \in SUBSET DOMAIN f |->
                      IF Cardinality(s) <= n THEN sums[s] ELSE OneMore(f, sums, s)]
<1>1. ASSUME NEW s \in SUBSET DOMAIN f, Cardinality(s) <= n + 1
      PROVE  more[s] = OneMore(f, more, s)
  <2>1. IsFiniteSet(s) /\ Cardinality(s) \in Nat
    BY FS_Subset, FS_CardinalityType
  <2>2. CASE s = {}
    <3>1. Cardinality(s) <= n
      BY <2>2, FS_EmptySet
    <3>2. more[s] = sums[s] /\ sums[s] = OneMore(f, sums, s)
      BY <3>1 DEF SumsTo
    <3>3. OneMore(f, sums, s) = 0 /\ OneMore(f, more, s) = 0
      BY <2>2 DEF OneMore
    <3>4. more[s] = IF Cardinality(s) <= n THEN sums[s] ELSE OneMore(f, sums, s)
      OBVIOUS
    <3> HIDE DEF more
    <3> QED
      BY <3>2, <3>3, <3>4
  <2>3. CASE s # {}
    <3>1. PICK x : x = (CHOOSE y \in s : TRUE)
      OBVIOUS
    <3>2. x \in s
      BY <2>3, <3>1
    <3>3. PICK rest : rest = s \ {x}
      OBVIOUS
    <3>4. Cardinality(rest) = Cardinality(s) - 1 /\ rest \in SUBSET DOMAIN f
      BY <2>1, <3>2, <3>3, FS_RemoveElement
    <3>5. Cardinality(rest) <= n
      BY <1>1, <2>1, <3>4
    <3>6. more[rest] = sums[rest]
      BY <3>4, <3>5
    <3>7. OneMore(f, sums, s) = f[x] + sums[rest] /\ OneMore(f, more, s) = f[x] + more[rest]
      BY <2>3, <3>1, <3>3 DEF OneMore
    <3>8. more[s] = OneMore(f, sums, s)
      BY DEF SumsTo
    <3> QED
      BY <3>6, <3>7, <3>8
  <2> QED
    BY <2>2, <2>3
<1>2. more = [s \in SUBSET DOMAIN f |-> more[s]]
  OBVIOUS
<1> QED
  BY <1>1, <1>2 DEF SumsTo

LEMMA SumsExist ==
  ASSUME NEW f, IsFiniteSet(DOMAIN f)
  PROVE  \E sums : Sums(f, sums)
<1> DEFINE Bad == {n \in Nat : ~\E sums : SumsTo(f, sums, n)}
<1>1. 0 \notin Bad
  <2> DEFINE none == [s \in SUBSET DOMAIN f |-> 0]
  <2>1. ASSUME NEW s \in SUBSET DOMAIN f, Cardinality(s) <= 0
        PROVE  none[s] = OneMore(f, none, s)
    <3>1. IsFiniteSet(s) /\ Cardinality(s) \in Nat
      BY FS_Subset, FS_CardinalityType
    <3>2. s = {}
      BY <2>1, <3>1, FS_EmptySet
    <3> QED
      BY <3>2 DEF OneMore
  <2>2. SumsTo(f, none, 0)
    BY <2>1 DEF SumsTo
  <2> QED
    BY <2>2
<1>2. Bad = {}
  <2>1. SUFFICES ASSUME Bad # {} PROVE FALSE
    OBVIOUS
  <2>2. Bad \subseteq Nat
    OBVIOUS
  <2>3. PICK n \in Bad : \A y \in Bad : n <= y
    BY <2>1, <2>2, LeastOf
  <2>4. n - 1 \in Nat /\ n - 1 \notin Bad /\ n \in Nat
    BY <1>1, <2>3
  <2>5. PICK sums : SumsTo(f, sums, n - 1)
    BY <2>4
  <2>6. \E more : SumsTo(f, more, (n - 1) + 1)
    BY <2>4, <2>5, SumsGrow
  <2>7. (n - 1) + 1 = n
    BY <2>4
  <2> QED
    BY <2>3, <2>6, <2>7
<1>3. Cardinality(DOMAIN f) \in Nat
  BY FS_CardinalityType
<1>4. PICK sums : SumsTo(f, sums, Cardinality(DOMAIN f))
  BY <1>2, <1>3
<1>5. ASSUME NEW s \in SUBSET DOMAIN f PROVE sums[s] = OneMore(f, sums, s)
  <2>1. Cardinality(s) <= Cardinality(DOMAIN f)
    BY FS_Subset
  <2> QED
    BY <1>4, <2>1 DEF SumsTo
<1>6. sums = [s \in SUBSET DOMAIN f |-> sums[s]]
  BY <1>4 DEF SumsTo
<1>7. Sums(f, sums)
  BY <1>5, <1>6 DEF Sums
<1> QED
  BY <1>7

(* The sum of a function is the last entry of such a table.                *)
LEMMA SumIsTabled ==
  ASSUME NEW f, IsFiniteSet(DOMAIN f)
  PROVE  \E sums : Sums(f, sums) /\ SumFunction(f) = sums[DOMAIN f]
<1>1. SumFunction(f) = (CHOOSE sums : Sums(f, sums))[DOMAIN f]
  BY DEF SumFunction, SumFunctionOnSet, FoldFunctionOnSet, MapThenFoldSet, Sums, OneMore
<1>2. Sums(f, CHOOSE sums : Sums(f, sums))
  BY SumsExist, Zenon
<1> QED
  BY <1>1, <1>2, Zenon

(* A sum of natural numbers is one, and none of them is larger.            *)
LEMMA SumOfNaturals ==
  ASSUME NEW D, IsFiniteSet(D), NEW f \in [D -> Nat]
  PROVE  SumFunction(f) \in Nat /\ \A d \in D : f[d] <= SumFunction(f)
<1> DEFINE Fine(sums, s) == sums[s] \in Nat /\ \A d \in s : f[d] <= sums[s]
<1>1. DOMAIN f = D
  OBVIOUS
<1>2. PICK sums : Sums(f, sums) /\ SumFunction(f) = sums[D]
  BY <1>1, SumIsTabled
<1> DEFINE Bad == {n \in Nat : \E s \in SUBSET D : Cardinality(s) = n /\ ~Fine(sums, s)}
<1>3. Bad = {}
  <2>1. SUFFICES ASSUME Bad # {} PROVE FALSE
    OBVIOUS
  <2>2. Bad \subseteq Nat
    OBVIOUS
  <2> HIDE DEF Bad
  <2>3. PICK n \in Bad : \A y \in Bad : n <= y
    BY <2>1, <2>2, LeastOf
  <2> USE DEF Bad
  <2>4. PICK s \in SUBSET D : Cardinality(s) = n /\ ~Fine(sums, s)
    BY <2>3
  <2>5. sums[s] = OneMore(f, sums, s)
    BY <1>1, <1>2, <2>4 DEF Sums
  <2>6. s # {}
    BY <2>4, <2>5 DEF OneMore
  <2>7. PICK x : x = (CHOOSE y \in s : TRUE)
    OBVIOUS
  <2>8. PICK rest : rest = s \ {x}
    OBVIOUS
  <2>9. x \in s /\ rest \in SUBSET D /\ f[x] \in Nat
    BY <2>4, <2>6, <2>7, <2>8
  <2>10. IsFiniteSet(s) /\ Cardinality(s) \in Nat
    BY <2>4, FS_Subset, FS_CardinalityType
  <2>11. Cardinality(rest) = Cardinality(s) - 1
    BY <2>8, <2>9, <2>10, FS_RemoveElement
  <2>12. IsFiniteSet(rest) /\ Cardinality(rest) \in Nat
    BY <2>9, FS_Subset, FS_CardinalityType
  <2>13. Cardinality(rest) \notin Bad
    BY <2>3, <2>4, <2>10, <2>11, <2>12
  <2>14. Fine(sums, rest)
    BY <2>9, <2>12, <2>13
  <2>15. sums[s] = f[x] + sums[rest]
    BY <2>5, <2>6, <2>7, <2>8 DEF OneMore
  <2>16. sums[s] \in Nat /\ sums[rest] <= sums[s] /\ f[x] <= sums[s]
    BY <2>9, <2>14, <2>15
  <2>17. ASSUME NEW d \in s PROVE f[d] <= sums[s]
    <3>1. f[d] \in Nat
      BY <2>4
    <3>2. d = x \/ d \in rest
      BY <2>8
    <3>3. d \in rest => f[d] <= sums[rest]
      BY <2>14
    <3> QED
      BY <2>14, <2>16, <3>1, <3>2, <3>3
  <2> QED
    BY <2>4, <2>16, <2>17
<1>4. Cardinality(D) \in Nat /\ D \in SUBSET D
  BY FS_CardinalityType
<1>5. Fine(sums, D)
  BY <1>3, <1>4
<1> QED
  BY <1>2, <1>5

-----------------------------------------------------------------------------
(* FUSION                                                                  *)

(* The same evidence for the other side.                                   *)
OtherSide(e, m) ==
  /\ m.status = e.status /\ m.ended = e.ended /\ m.confidence = e.confidence
  /\ m.doubt = e.doubt /\ m.against = e.against
  /\ m.bias = Opposing(e.bias)

LEMMA MirroredIs ==
  ASSUME NEW bundle \in [Agents -> Evidence], NEW a \in Agents
  PROVE  OtherSide(bundle[a], Mirrored(bundle)[a]) /\ Mirrored(bundle)[a] \in Evidence
<1>1. PICK e \in Evidence : e = bundle[a]
  OBVIOUS
<1>2. Mirrored(bundle)[a] = [e EXCEPT !.bias = Opposing(@)]
  BY <1>1 DEF Mirrored
<1>3. Opposing(e.bias) \in Biases
  BY DEF Opposing, Biases, Evidence
<1>4. PICK m : m = [e EXCEPT !.bias = Opposing(@)]
  OBVIOUS
<1>5. m \in Evidence /\ OtherSide(e, m)
  BY ONLY <1>3, <1>4, e \in Evidence DEF OtherSide, Evidence
<1> QED
  BY <1>1, <1>2, <1>4, <1>5

LEMMA TurnedWeighs ==
  ASSUME NEW e \in Evidence, NEW m, OtherSide(e, m), NEW w, NEW p
  PROVE  /\ Disposition(m) = Disposition(e)
         /\ Weight(m, w, p) = Weight(e, w, p) /\ Strength(m, w, p) = Strength(e, w, p)
<1>1. m.bias \in {"NEUTRAL", "NONE"} <=> e.bias \in {"NEUTRAL", "NONE"}
  BY DEF OtherSide, Opposing, Evidence, Biases
<1>2. Disposition(m) = Disposition(e)
  BY <1>1 DEF OtherSide, Disposition
<1>3. Weight(m, w, p) = Weight(e, w, p)
  BY <1>2 DEF Weight
<1> QED
  BY <1>2, <1>3 DEF Strength, OtherSide

LEMMA NaturalProduct ==
  ASSUME NEW x \in Nat, NEW y \in Nat
  PROVE  x * y \in Nat
OBVIOUS

LEMMA WeightIsNatural ==
  ASSUME NEW e \in Evidence, NEW w \in Nat \ {0}, NEW p \in FusionPolicies
  PROVE  /\ Weight(e, w, p) \in Nat /\ Strength(e, w, p) \in Nat
         /\ Disposition(e) = "CONTRIBUTED" => Weight(e, w, p) >= 1
<1>1. One \in Nat /\ One >= 1
  BY FusionAssumption
<1>2. p.degraded \in Nat
  BY <1>1 DEF FusionPolicies
<1>3. w * One \in Nat /\ w * p.degraded \in Nat
  BY <1>1, <1>2, NaturalProduct
<1>4. Weight(e, w, p) \in Nat
  BY <1>3 DEF Weight
<1>5. e.confidence \in Nat /\ One - e.doubt \in Nat
  BY <1>1 DEF Evidence
<1>6. PICK x, c, d : x = Weight(e, w, p) /\ c = e.confidence /\ d = One - e.doubt
  OBVIOUS
<1>7. x * c \in Nat
  BY <1>4, <1>5, <1>6, NaturalProduct
<1>8. x * c * d \in Nat
  BY <1>5, <1>6, <1>7, NaturalProduct
<1>9. Strength(e, w, p) = x * c * d
  BY <1>6 DEF Strength
<1>10. w * One >= 1
  BY <1>1
<1> QED
  BY <1>4, <1>8, <1>9, <1>10 DEF Weight

LEMMA FusionSums ==
  ASSUME NEW bundle \in [Agents -> Evidence], NEW p \in FusionPolicies, NEW bias
  PROVE  /\ Weighed(bundle, p) \in Nat /\ Side(bundle, p, bias) \in Nat
         /\ Ready(bundle) >= 1 => Weighed(bundle, p) >= 1
<1> DEFINE weight == [a \in Agents |-> Weight(bundle[a], p.weights[a], p)]
           side   == [a \in Agents |-> IF bundle[a].bias = bias
                                       THEN Strength(bundle[a], p.weights[a], p) ELSE 0]
<1>1. ASSUME NEW a \in Agents
      PROVE  /\ weight[a] \in Nat /\ side[a] \in Nat
             /\ Disposition(bundle[a]) = "CONTRIBUTED" => weight[a] >= 1
  <2>1. bundle[a] \in Evidence /\ p.weights[a] \in Nat \ {0}
    BY DEF FusionPolicies
  <2> QED
    BY <2>1, WeightIsNatural
<1>2. weight \in [Agents -> Nat] /\ side \in [Agents -> Nat]
  BY <1>1
<1>3. Weighed(bundle, p) = SumFunction(weight) /\ Side(bundle, p, bias) = SumFunction(side)
  BY DEF Weighed, Side
<1> HIDE DEF weight, side
<1>4. /\ SumFunction(weight) \in Nat /\ SumFunction(side) \in Nat
      /\ \A a \in Agents : weight[a] <= SumFunction(weight)
  BY <1>2, FusionAssumption, SumOfNaturals
<1>5. ASSUME Ready(bundle) >= 1 PROVE Weighed(bundle, p) >= 1
  <2>1. {a \in Agents : Disposition(bundle[a]) = "CONTRIBUTED"} # {}
    BY <1>5, FS_EmptySet DEF Ready
  <2>2. PICK a \in Agents : Disposition(bundle[a]) = "CONTRIBUTED"
    BY <2>1
  <2>3. weight[a] >= 1 /\ weight[a] \in Nat /\ weight[a] <= SumFunction(weight)
    BY <1>1, <1>4, <2>2
  <2> QED
    BY <1>3, <1>4, <2>3
<1> QED
  BY <1>3, <1>4, <1>5

(* What the fusion adds up when bulls and bears are exchanged.             *)
Exchanged(bundle, m, p) ==
  /\ Weighed(m, p) = Weighed(bundle, p) /\ Doubted(m, p) = Doubted(bundle, p)
  /\ Opposed(m, p) = Opposed(bundle, p) /\ Ready(m) = Ready(bundle)
  /\ ProposalValid(m, p) = ProposalValid(bundle, p)
  /\ Side(m, p, "BULLISH") = Side(bundle, p, "BEARISH")
  /\ Side(m, p, "BEARISH") = Side(bundle, p, "BULLISH")

LEMMA MirroredSums ==
  ASSUME NEW bundle \in [Agents -> Evidence], NEW p
  PROVE  Exchanged(bundle, Mirrored(bundle), p)
<1>1. PICK m : m = Mirrored(bundle)
  OBVIOUS
<1>2. ASSUME NEW a \in Agents
      PROVE  /\ Disposition(m[a]) = Disposition(bundle[a])
             /\ Weight(m[a], p.weights[a], p) = Weight(bundle[a], p.weights[a], p)
             /\ Strength(m[a], p.weights[a], p) = Strength(bundle[a], p.weights[a], p)
             /\ m[a].doubt = bundle[a].doubt /\ m[a].against = bundle[a].against
             /\ m[a].bias = "BULLISH" <=> bundle[a].bias = "BEARISH"
             /\ m[a].bias = "BEARISH" <=> bundle[a].bias = "BULLISH"
  <2>1. PICK e \in Evidence : e = bundle[a]
    OBVIOUS
  <2>2. OtherSide(e, m[a])
    BY <1>1, <2>1, MirroredIs
  <2>3. /\ Disposition(m[a]) = Disposition(e)
        /\ Weight(m[a], p.weights[a], p) = Weight(e, p.weights[a], p)
        /\ Strength(m[a], p.weights[a], p) = Strength(e, p.weights[a], p)
    BY <2>2, TurnedWeighs
  <2>4. m[a].doubt = e.doubt /\ m[a].against = e.against /\ m[a].bias = Opposing(e.bias)
    BY <2>2 DEF OtherSide
  <2>5. /\ Opposing(e.bias) = "BULLISH" <=> e.bias = "BEARISH"
        /\ Opposing(e.bias) = "BEARISH" <=> e.bias = "BULLISH"
    BY DEF Opposing, Evidence, Biases
  <2> QED
    BY <2>1, <2>3, <2>4, <2>5
<1>3. /\ Weighed(m, p) = Weighed(bundle, p) /\ Doubted(m, p) = Doubted(bundle, p)
      /\ Opposed(m, p) = Opposed(bundle, p)
  <2>1. [a \in Agents |-> Weight(m[a], p.weights[a], p)]
          = [a \in Agents |-> Weight(bundle[a], p.weights[a], p)]
    BY <1>2
  <2>2. [a \in Agents |-> Weight(m[a], p.weights[a], p) * m[a].doubt]
          = [a \in Agents |-> Weight(bundle[a], p.weights[a], p) * bundle[a].doubt]
    BY <1>2
  <2>3. [a \in Agents |-> Strength(m[a], p.weights[a], p) * m[a].against]
          = [a \in Agents |-> Strength(bundle[a], p.weights[a], p) * bundle[a].against]
    BY <1>2
  <2> QED
    BY <2>1, <2>2, <2>3 DEF Weighed, Doubted, Opposed
<1>4. /\ Side(m, p, "BULLISH") = Side(bundle, p, "BEARISH")
      /\ Side(m, p, "BEARISH") = Side(bundle, p, "BULLISH")
  <2>1. [a \in Agents |-> IF m[a].bias = "BULLISH" THEN Strength(m[a], p.weights[a], p) ELSE 0]
          = [a \in Agents |-> IF bundle[a].bias = "BEARISH" THEN Strength(bundle[a], p.weights[a], p)
                              ELSE 0]
    BY <1>2
  <2>2. [a \in Agents |-> IF m[a].bias = "BEARISH" THEN Strength(m[a], p.weights[a], p) ELSE 0]
          = [a \in Agents |-> IF bundle[a].bias = "BULLISH" THEN Strength(bundle[a], p.weights[a], p)
                              ELSE 0]
    BY <1>2
  <2> QED
    BY <2>1, <2>2 DEF Side
<1>5. Ready(m) = Ready(bundle)
  <2>1. {a \in Agents : Disposition(m[a]) = "CONTRIBUTED"}
          = {a \in Agents : Disposition(bundle[a]) = "CONTRIBUTED"}
    BY <1>2
  <2> QED
    BY <2>1 DEF Ready
<1>6. ProposalValid(m, p) = ProposalValid(bundle, p)
  <2>1. {a \in Agents : Weight(m[a], p.weights[a], p) > 0}
          = {a \in Agents : Weight(bundle[a], p.weights[a], p) > 0}
    BY <1>2
  <2>2. {a \in Agents : Disposition(m[a]) \in Voices}
          = {a \in Agents : Disposition(bundle[a]) \in Voices}
    BY <1>2
  <2> QED
    BY <2>1, <2>2 DEF ProposalValid
<1> QED
  BY <1>1, <1>3, <1>4, <1>5, <1>6 DEF Exchanged

LEMMA GreaterEitherWay ==
  ASSUME NEW x \in Int, NEW y \in Int
  PROVE  Greater(x, y) = Greater(y, x)
BY DEF Greater

LEMMA MirroredActs ==
  ASSUME NEW bundle \in [Agents -> Evidence], NEW p \in FusionPolicies
  PROVE  Actionable(Mirrored(bundle), p) = Actionable(bundle, p)
<1>1. PICK m : m = Mirrored(bundle)
  OBVIOUS
<1>2. PICK up, down : up = Side(bundle, p, "BULLISH") /\ down = Side(bundle, p, "BEARISH")
  OBVIOUS
<1>3. up \in Nat /\ down \in Nat
  BY <1>2, FusionSums
<1>4. Exchanged(bundle, m, p)
  BY <1>1, MirroredSums
<1>5. Side(m, p, "BULLISH") = down /\ Side(m, p, "BEARISH") = up
  BY <1>2, <1>4 DEF Exchanged
<1>6. /\ up + down = down + up
      /\ Greater(up, down) = Greater(down, up)
      /\ Greater(up - down, down - up) = Greater(down - up, up - down)
  <2>1. up - down \in Int /\ down - up \in Int /\ up \in Int /\ down \in Int
    BY <1>3
  <2> QED
    BY <1>3, <2>1, GreaterEitherWay
<1>7. /\ Weighed(m, p) = Weighed(bundle, p) /\ Doubted(m, p) = Doubted(bundle, p)
      /\ Opposed(m, p) = Opposed(bundle, p) /\ Ready(m) = Ready(bundle)
  BY <1>4 DEF Exchanged
<1>8. Actionable(m, p) = Actionable(bundle, p)
  BY <1>2, <1>5, <1>6, <1>7, Zenon DEF Actionable
<1> QED
  BY <1>1, <1>8

(* An exact tie passes no threshold of the score but zero.                 *)
LEMMA TieHolds ==
  ASSUME NEW bundle \in [Agents -> Evidence], NEW p \in FusionPolicies, p.minScore > 0,
         Side(bundle, p, "BULLISH") = Side(bundle, p, "BEARISH")
  PROVE  ~Actionable(bundle, p)
<1>1. PICK up, down : up = Side(bundle, p, "BULLISH") /\ down = Side(bundle, p, "BEARISH")
  OBVIOUS
<1>2. up \in Nat /\ down = up /\ Greater(up - down, down - up) = 0
  BY <1>1, FusionSums DEF Greater
<1>3. SUFFICES ASSUME Actionable(bundle, p) PROVE FALSE
  OBVIOUS
<1>4. Ready(bundle) >= p.minReady /\ 0 >= p.minScore * One * Weighed(bundle, p)
  BY <1>1, <1>2, <1>3 DEF Actionable
<1>5. PICK k, w : k = p.minScore * One /\ w = Weighed(bundle, p)
  OBVIOUS
<1>6. p.minReady \in Nat \ {0} /\ p.minScore \in Nat /\ One \in Nat /\ One >= 1
  BY FusionAssumption DEF FusionPolicies
<1>7. Ready(bundle) \in Nat
  <2>1. IsFiniteSet({a \in Agents : Disposition(bundle[a]) = "CONTRIBUTED"})
    BY FusionAssumption, FS_Subset
  <2> QED
    BY <2>1, FS_CardinalityType DEF Ready
<1>8. w \in Nat /\ w >= 1
  BY <1>4, <1>5, <1>6, <1>7, FusionSums
<1>9. k \in Nat /\ k >= 1
  BY <1>5, <1>6
<1>10. k * w >= 1
  BY <1>8, <1>9
<1> QED
  BY <1>4, <1>5, <1>8, <1>9, <1>10

LEMMA FusionIsFair ==
  ASSUME NEW bundle \in [Agents -> Evidence], NEW p \in FusionPolicies
  PROVE  Fair(bundle, p)
<1>1. PICK m : m = Mirrored(bundle)
  OBVIOUS
<1>2. PICK up, down : up = Side(bundle, p, "BULLISH") /\ down = Side(bundle, p, "BEARISH")
  OBVIOUS
<1>3. up \in Nat /\ down \in Nat
  BY <1>2, FusionSums
<1>4. Exchanged(bundle, m, p) /\ Actionable(m, p) = Actionable(bundle, p)
  BY <1>1, MirroredSums, MirroredActs
<1>5. /\ Decision(m, p) = IF ~ProposalValid(bundle, p) THEN "REFUSED"
                          ELSE IF ~Actionable(bundle, p) THEN "HOLD"
                          ELSE IF down > up THEN "BUY" ELSE "SELL"
      /\ Decision(bundle, p) = IF ~ProposalValid(bundle, p) THEN "REFUSED"
                               ELSE IF ~Actionable(bundle, p) THEN "HOLD"
                               ELSE IF up > down THEN "BUY" ELSE "SELL"
  BY <1>2, <1>4, Zenon DEF Decision, Exchanged
<1>6. up = down /\ p.minScore > 0 => ~Actionable(bundle, p)
  BY <1>2, TieHolds
<1>7. up # down => (up > down <=> ~(down > up))
  BY <1>3
<1>8. up = down => ~(up > down) /\ ~(down > up)
  BY <1>3
<1>9. CASE up = down
  <2>1. Decision(m, p) = Decision(bundle, p)
        /\ (p.minScore > 0 => Decision(bundle, p) \in {"HOLD", "REFUSED"})
    BY <1>5, <1>6, <1>8, <1>9
  <2> QED
    BY <1>1, <1>2, <1>9, <2>1 DEF Fair
<1>10. CASE up # down
  <2>1. <<Decision(bundle, p), Decision(m, p)>>
          \in {<<"BUY", "SELL">>, <<"SELL", "BUY">>, <<"HOLD", "HOLD">>, <<"REFUSED", "REFUSED">>}
    BY <1>5, <1>7, <1>10
  <2> QED
    BY <1>1, <1>2, <1>10, <2>1 DEF Fair
<1> QED
  BY <1>9, <1>10

(* fuse_evidence is even-handed, for any specialists, evidence and policy: *)
(* bulls and bears exchanged give the opposite decision, or the same       *)
(* refusal, or the tie's.                                                  *)
THEOREM NoSideFavoured == SampleSpec => []NoSideIsFavoured
<1>1. ASSUME sample \in Inputs PROVE NoSideIsFavoured
  <2>1. SUFFICES ASSUME sample.kind = "FUSION" PROVE Fair(sample.bundle, sample.policy)
    BY DEF NoSideIsFavoured
  <2>2. sample \in FusionInputs
    BY <1>1, <2>1, InputsAssumption
  <2>3. sample.bundle \in [Agents -> Evidence] /\ sample.policy \in FusionPolicies
    BY <2>2 DEF FusionInputs
  <2> QED
    BY <2>3, FusionIsFair
<1> QED
  BY <1>1, SampleIsAnInput, PTL

-----------------------------------------------------------------------------
(* MARKET DATA                                                             *)

(* The largest of some positions of a sequence is one of them.             *)
LEMMA MaxOf ==
  ASSUME NEW n \in Nat, NEW T, T \subseteq 0..n, T # {}
  PROVE  Max(T) \in T /\ \A t \in T : t <= Max(T)
<1> DEFINE Bounds == {k \in Nat : \A t \in T : t <= k}
<1>1. n \in Bounds
  OBVIOUS
<1>2. PICK k \in Bounds : \A y \in Bounds : k <= y
  <2>1. Bounds \subseteq Nat /\ Bounds # {}
    BY <1>1
  <2> HIDE DEF Bounds
  <2> QED
    BY <2>1, LeastOf
<1>3. k \in T
  <2>1. SUFFICES ASSUME k \notin T PROVE FALSE
    OBVIOUS
  <2>2. PICK t \in T : TRUE
    OBVIOUS
  <2>3. t \in Nat /\ t <= k /\ t # k
    BY <1>2, <2>1
  <2>4. k - 1 \in Nat
    BY <1>2, <2>3
  <2>5. \A y \in T : y <= k - 1
    BY <1>2, <2>1
  <2>6. k - 1 \in Bounds
    BY <2>4, <2>5
  <2> QED
    BY <1>2, <2>4, <2>6
<1>4. \E m \in T : \A t \in T : m >= t
  BY <1>2, <1>3
<1>5. Max(T) \in T /\ \A t \in T : Max(T) >= t
  BY <1>4, Zenon DEF Max
<1> QED
  BY <1>5

(* Two series that agree so far.                                           *)
Same(s, t, n) == \A k \in 1..n : s[k] = t[k]

LEMMA SwingSame ==
  ASSUME NEW n \in Nat, NEW s, NEW t, Same(s, t, n), NEW m \in 1..n
  PROVE  SwingAt(s, m) = SwingAt(t, m)
<1>1. Left \in Nat \ {0} /\ Right \in Nat \ {0}
  BY FeatureAssumption
<1>2. CASE ~(m > Left + Right)
  BY <1>2 DEF SwingAt
<1>3. CASE m > Left + Right
  <2>1. PICK pivot \in Int : pivot = m - Right
    BY <1>1
  <2>2. pivot \in 1..n /\ (pivot - Left)..(pivot + Right) \subseteq 1..n
    BY <1>1, <1>3, <2>1
  <2>3. s[pivot] = t[pivot] /\ \A k \in (pivot - Left)..(pivot + Right) : s[k] = t[k]
    BY <2>2 DEF Same
  <2>4. (\A k \in (pivot - Left)..(pivot + Right) : s[k] <= s[pivot])
          <=> \A k \in (pivot - Left)..(pivot + Right) : t[k] <= t[pivot]
    BY <2>3
  <2> QED
    BY <2>1, <2>3, <2>4 DEF SwingAt
<1> QED
  BY <1>2, <1>3

LEMMA LevelSame ==
  ASSUME NEW n \in Nat, NEW s, NEW t, Same(s, t, n), NEW m \in 0..n
  PROVE  Level(s, m) = Level(t, m)
<1>1. PICK told : told = {k \in 1..m : SwingAt(s, k) # Nan}
  OBVIOUS
<1>2. \A k \in 1..m : SwingAt(s, k) = SwingAt(t, k)
  BY SwingSame
<1>3. told = {k \in 1..m : SwingAt(t, k) # Nan}
  BY <1>1, <1>2
<1>4. told # {} => Max(told) \in 1..m
  BY <1>1, MaxOf
<1>5. told # {} => SwingAt(s, Max(told)) = SwingAt(t, Max(told))
  BY <1>2, <1>4
<1> QED
  BY <1>1, <1>3, <1>5 DEF Level

LEMMA BreaksSame ==
  ASSUME NEW n \in Nat, NEW s, NEW t, Same(s, t, n), NEW c, NEW d, Same(c, d, n),
         NEW m \in 1..n
  PROVE  Breaks(s, c, m) = Breaks(t, d, m)
<1>1. CASE m = 1
  BY <1>1 DEF Breaks
<1>2. CASE m # 1
  <2>1. m - 1 \in 0..n /\ m - 1 \in 1..n
    BY <1>2
  <2>2. Level(s, m - 1) = Level(t, m - 1)
    BY <2>1, LevelSame
  <2>3. c[m] = d[m] /\ c[m - 1] = d[m - 1]
    BY <2>1 DEF Same
  <2> QED
    BY <1>2, <2>2, <2>3 DEF Breaks
<1> QED
  BY <1>1, <1>2

LEMMA AboveSame ==
  ASSUME NEW n \in Nat, NEW s, NEW t, Same(s, t, n), NEW c, NEW d, Same(c, d, n),
         NEW m \in 1..n
  PROVE  Above(s, c, m) = Above(t, d, m) /\ FailedBreak(s, c, m) = FailedBreak(t, d, m)
<1>1. Channel \in Nat \ {0}
  BY FeatureAssumption
<1>2. ASSUME NEW l \in 1..n PROVE Above(s, c, l) = Above(t, d, l)
  <2>1. CASE l <= Channel
    BY <2>1 DEF Above
  <2>2. CASE ~(l <= Channel)
    <3>1. (l - Channel)..(l - 1) \subseteq 1..n
      BY <1>1, <2>2
    <3>2. {s[k] : k \in (l - Channel)..(l - 1)} = {t[k] : k \in (l - Channel)..(l - 1)}
      BY <3>1 DEF Same
    <3>3. c[l] = d[l]
      BY DEF Same
    <3> QED
      BY <2>2, <3>2, <3>3 DEF Above
  <2> QED
    BY <2>1, <2>2
<1>3. Above(s, c, m) = Above(t, d, m)
  BY <1>2
<1>4. ~(m <= Channel) => Above(s, c, m - 1) = Above(t, d, m - 1)
  <2>1. ~(m <= Channel) => m - 1 \in 1..n
    BY <1>1
  <2> QED
    BY <1>2, <2>1
<1> QED
  BY <1>3, <1>4 DEF FailedBreak

(* Two frames whose first n candles are the same.                          *)
SameCandles(f, g, n) == 1..n \subseteq DOMAIN f /\ 1..n \subseteq DOMAIN g /\ Same(f, g, n)

LEMMA SeriesSame ==
  ASSUME NEW n \in Nat, NEW f, NEW g, SameCandles(f, g, n)
  PROVE  /\ Same(Highs(f), Highs(g), n) /\ Same(Lows(f), Lows(g), n)
         /\ Same(Closes(f), Closes(g), n) /\ Same(Falls(f), Falls(g), n)
<1>1. ASSUME NEW k \in 1..n PROVE k \in DOMAIN f /\ k \in DOMAIN g /\ f[k] = g[k]
  BY DEF SameCandles, Same
<1> QED
  BY <1>1 DEF Same, Highs, Lows, Closes, Falls

LEMMA BiasSame ==
  ASSUME NEW n \in Nat, NEW f, NEW g, SameCandles(f, g, n), NEW m \in 0..n
  PROVE  Bias(f, m) = Bias(g, m)
<1>1. \A k \in 1..n : BreaksUp(f, k) = BreaksUp(g, k) /\ BreaksDown(f, k) = BreaksDown(g, k)
  BY SeriesSame, BreaksSame DEF BreaksUp, BreaksDown
<1>2. PICK broken : broken = {k \in 1..m : 1 \in {BreaksUp(f, k), BreaksDown(f, k)}}
  OBVIOUS
<1>3. broken = {k \in 1..m : 1 \in {BreaksUp(g, k), BreaksDown(g, k)}}
  BY <1>1, <1>2
<1>4. broken # {} => Max(broken) \in 1..n
  BY <1>2, MaxOf
<1> QED
  BY <1>1, <1>2, <1>3, <1>4 DEF Bias

(* Features look at the candles so far and at no other, whatever follows.  *)
LEMMA FeaturesSame ==
  ASSUME NEW n \in Nat \ {0}, NEW f, NEW g, SameCandles(f, g, n), NEW higher, NEW taller,
         Synchronized(higher, f[n].open) = Synchronized(taller, f[n].open)
  PROVE  Features(f, higher, n) = Features(g, taller, n)
<1>1. /\ Same(Highs(f), Highs(g), n) /\ Same(Lows(f), Lows(g), n)
      /\ Same(Closes(f), Closes(g), n) /\ Same(Falls(f), Falls(g), n)
  BY SeriesSame
<1>2. n \in 0..n /\ n \in 1..n /\ n - 1 \in 0..n
  OBVIOUS
<1>3. f[n] = g[n]
  BY <1>2 DEF SameCandles, Same
<1>4. Level(Highs(f), n) = Level(Highs(g), n) /\ Level(Lows(f), n) = Level(Lows(g), n)
  BY <1>1, <1>2, LevelSame
<1>5. BreaksUp(f, n) = BreaksUp(g, n) /\ BreaksDown(f, n) = BreaksDown(g, n)
  BY <1>1, <1>2, BreaksSame DEF BreaksUp, BreaksDown
<1>6. Bias(f, n) = Bias(g, n) /\ Bias(f, n - 1) = Bias(g, n - 1)
  BY <1>2, BiasSame
<1>7. /\ Above(Highs(f), Closes(f), n) = Above(Highs(g), Closes(g), n)
      /\ FailedBreak(Highs(f), Closes(f), n) = FailedBreak(Highs(g), Closes(g), n)
  BY <1>1, <1>2, AboveSame
<1>8. Synchronized(higher, f[n].open) = Synchronized(taller, g[n].open)
  BY <1>3
<1> QED
  BY <1>4, <1>5, <1>6, <1>7, <1>8, Zenon DEF Features

(* A frame: candles in the order of time, as validate_candles has it.      *)
Candles == {Candle(shape, opened) : shape \in Shapes, opened \in Nat}

FrameInOrder(frame) ==
  /\ frame \in Seq(Candles)
  /\ \A i, j \in 1..Len(frame) : i < j => frame[i].open < frame[j].open

Upto(frame, n) == SubSeq(frame, 1, n)

LEMMA CandleOpens ==
  ASSUME NEW frame \in Seq(Candles), NEW i \in 1..Len(frame)
  PROVE  frame[i].open \in Nat
<1>1. frame[i] \in Candles
  OBVIOUS
<1> QED
  BY <1>1 DEF Candles, Candle

LEMMA UptoIs ==
  ASSUME NEW frame \in Seq(Candles), NEW n \in 0..Len(frame)
  PROVE  /\ Upto(frame, n) \in Seq(Candles) /\ Len(Upto(frame, n)) = n
         /\ SameCandles(frame, Upto(frame, n), n)
<1>1. Upto(frame, n) = [i \in 1..n |-> frame[i]]
  BY DEF Upto
<1>2. \A i \in 1..n : frame[i] \in Candles
  OBVIOUS
<1>3. Upto(frame, n) \in Seq(Candles) /\ Len(Upto(frame, n)) = n
  BY <1>1, <1>2
<1>4. 1..n \subseteq DOMAIN frame /\ DOMAIN Upto(frame, n) = 1..n
  BY <1>1
<1> QED
  BY <1>1, <1>3, <1>4 DEF SameCandles, Same

LEMMA OpensRise ==
  ASSUME NEW frame, FrameInOrder(frame), NEW i \in 1..Len(frame), NEW j \in 1..Len(frame)
  PROVE  frame[i].open <= frame[j].open <=> i <= j
<1>1. frame[i].open \in Nat /\ frame[j].open \in Nat
  BY CandleOpens DEF FrameInOrder
<1>2. i < j => frame[i].open < frame[j].open
  BY DEF FrameInOrder
<1>3. j < i => frame[j].open < frame[i].open
  BY DEF FrameInOrder
<1> QED
  BY <1>1, <1>2, <1>3

(* The candles that had closed are the first ones.                         *)
Closed(frame, cutoff, k) ==
  /\ Completed(frame, cutoff) = Upto(frame, k)
  /\ k > 0 => frame[k].open + 1 <= cutoff
  /\ \A i \in 1..Len(frame) : frame[i].open + 1 <= cutoff => i <= k

LEMMA CompletedIs ==
  ASSUME NEW frame, FrameInOrder(frame), NEW cutoff
  PROVE  \E k \in 0..Len(frame) : Closed(frame, cutoff, k)
<1>1. PICK known : known = {0} \cup {n \in DOMAIN frame : frame[n].open + 1 <= cutoff}
  OBVIOUS
<1>2. Len(frame) \in Nat /\ DOMAIN frame = 1..Len(frame)
  BY DEF FrameInOrder
<1>3. known \subseteq 0..Len(frame) /\ known # {}
  BY <1>1, <1>2
<1>4. PICK k : k = Max(known)
  OBVIOUS
<1>5. k \in known /\ \A t \in known : t <= k
  BY <1>2, <1>3, <1>4, MaxOf
<1>6. Completed(frame, cutoff) = Upto(frame, k)
  BY <1>1, <1>4 DEF Completed, Upto
<1>7. k \in 0..Len(frame) /\ (k > 0 => frame[k].open + 1 <= cutoff)
  BY <1>1, <1>2, <1>3, <1>5
<1>8. \A i \in 1..Len(frame) : frame[i].open + 1 <= cutoff => i <= k
  BY <1>1, <1>2, <1>5
<1> QED
  BY <1>6, <1>7, <1>8 DEF Closed

(* Those that had closed when a candle did are the ones up to it.          *)
LEMMA KnownIs ==
  ASSUME NEW frame, FrameInOrder(frame), NEW n \in 1..Len(frame)
  PROVE  Completed(frame, frame[n].open + 1) = Upto(frame, n)
<1>1. PICK k \in 0..Len(frame) : Closed(frame, frame[n].open + 1, k)
  BY CompletedIs
<1>2. Len(frame) \in Nat /\ frame[n].open \in Nat
  BY CandleOpens DEF FrameInOrder
<1>3. n <= k
  BY <1>1, <1>2 DEF Closed
<1>4. k \in 1..Len(frame) /\ frame[k].open <= frame[n].open
  <2>1. k \in 1..Len(frame)
    BY <1>2, <1>3
  <2>2. frame[k].open \in Nat
    BY <2>1, CandleOpens DEF FrameInOrder
  <2>3. frame[k].open + 1 <= frame[n].open + 1
    BY <1>1, <2>1 DEF Closed
  <2> QED
    BY <1>2, <2>1, <2>2, <2>3
<1>5. k <= n
  BY <1>4, OpensRise
<1>6. k = n
  BY <1>2, <1>3, <1>4, <1>5
<1> QED
  BY <1>1, <1>6 DEF Closed

LEMMA Quotient ==
  ASSUME NEW x \in Nat, NEW h \in Nat \ {0}
  PROVE  x \div h \in Nat /\ (x \div h) * h <= x /\ x < (x \div h) * h + h
OBVIOUS

Within(frame, w) == {i \in DOMAIN frame : frame[i].open \div Higher = w}
HigherCandle(frame, w) == [open |-> w * Higher, close |-> frame[Max(Within(frame, w))].close]

LEMMA HigherFrameIs ==
  ASSUME NEW frame
  PROVE  HigherFrame(frame) = {HigherCandle(frame, w) : w \in Windows(frame)}
BY DEF HigherFrame, HigherCandle, Within

(* A candle of the higher timeframe that has closed when a candle opens is *)
(* made of candles in front of that one.                                   *)
LEMMA WindowBehind ==
  ASSUME NEW frame, FrameInOrder(frame), NEW n \in 1..Len(frame), NEW i \in 1..Len(frame),
         NEW w \in Nat, frame[i].open \div Higher = w, w * Higher + Higher <= frame[n].open
  PROVE  i < n
<1>1. Higher \in Nat \ {0} /\ frame[i].open \in Nat /\ frame[n].open \in Nat
  BY FeatureAssumption, CandleOpens DEF FrameInOrder
<1>2. frame[i].open < w * Higher + Higher
  BY <1>1, Quotient
<1>3. w * Higher \in Nat
  BY <1>1
<1>4. frame[i].open < frame[n].open
  BY <1>1, <1>2, <1>3
<1>5. ~(frame[n].open <= frame[i].open)
  BY <1>1, <1>4
<1> QED
  BY <1>5, OpensRise

(* So it is the same candle in every export that goes that far.            *)
SameWindow(frame, known, w) ==
  /\ w \in Windows(frame) <=> w \in Windows(known)
  /\ w \in Windows(frame) => HigherCandle(frame, w) = HigherCandle(known, w)

LEMMA ClosedWindowsSame ==
  ASSUME NEW frame, FrameInOrder(frame), NEW n \in 1..Len(frame), NEW m \in (n - 1)..Len(frame),
         NEW w \in Nat, w * Higher + Higher <= frame[n].open
  PROVE  SameWindow(frame, Upto(frame, m), w)
<1>1. PICK known : known = Upto(frame, m)
  OBVIOUS
<1>2. /\ DOMAIN known = 1..m /\ DOMAIN frame = 1..Len(frame) /\ Len(frame) \in Nat /\ m \in Nat
      /\ \A i \in 1..m : known[i] = frame[i]
  <2>1. frame \in Seq(Candles) /\ m \in 0..Len(frame)
    BY DEF FrameInOrder
  <2>2. known \in Seq(Candles) /\ Len(known) = m /\ SameCandles(frame, known, m)
    BY <1>1, <2>1, UptoIs
  <2> QED
    BY <2>1, <2>2 DEF SameCandles, Same
<1>3. PICK within : within = Within(frame, w)
  OBVIOUS
<1>4. within \subseteq 1..m
  <2>1. ASSUME NEW i \in within PROVE i \in 1..m
    <3>1. i \in 1..Len(frame) /\ frame[i].open \div Higher = w
      BY <1>2, <1>3 DEF Within
    <3>2. i < n
      BY <3>1, WindowBehind
    <3> QED
      BY <1>2, <3>1, <3>2
  <2> QED
    BY <2>1
<1>5. within = Within(known, w)
  <2>1. ASSUME NEW i \in within PROVE i \in Within(known, w)
    <3>1. i \in 1..m /\ frame[i].open \div Higher = w /\ known[i] = frame[i]
      BY <1>2, <1>3, <1>4 DEF Within
    <3> QED
      BY <1>2, <3>1 DEF Within
  <2>2. ASSUME NEW i \in Within(known, w) PROVE i \in within
    <3>1. i \in 1..m /\ known[i].open \div Higher = w /\ known[i] = frame[i] /\ i \in 1..Len(frame)
      BY <1>2 DEF Within
    <3> QED
      BY <1>2, <1>3, <3>1 DEF Within
  <2> QED
    BY <2>1, <2>2
<1>6. (w \in Windows(frame) <=> within # {}) /\ (w \in Windows(known) <=> within # {})
  <2>1. w \in Windows(frame) <=> \E i \in DOMAIN frame : frame[i].open \div Higher = w
    BY DEF Windows
  <2>2. w \in Windows(known) <=> \E i \in DOMAIN known : known[i].open \div Higher = w
    BY DEF Windows
  <2> QED
    BY <1>3, <1>5, <2>1, <2>2 DEF Within
<1>7. within # {} => Max(within) \in 1..m
  <2>1. within \subseteq 0..m
    BY <1>4
  <2>2. within # {} => Max(within) \in within
    BY <1>2, <2>1, MaxOf
  <2> QED
    BY <1>4, <2>2
<1>8. within # {} => HigherCandle(frame, w) = HigherCandle(known, w)
  <2>1. within # {} => frame[Max(within)] = known[Max(within)]
    BY <1>2, <1>7
  <2> QED
    BY <1>3, <1>5, <2>1, Zenon DEF HigherCandle
<1> QED
  BY <1>1, <1>6, <1>8 DEF SameWindow

LEMMA WindowsAreNatural ==
  ASSUME NEW frame \in Seq(Candles), NEW w \in Windows(frame)
  PROVE  w \in Nat /\ w * Higher \in Nat
<1>1. PICK i \in DOMAIN frame : w = frame[i].open \div Higher
  BY DEF Windows
<1>2. frame[i].open \in Nat /\ Higher \in Nat \ {0}
  BY FeatureAssumption, CandleOpens
<1>3. w \in Nat
  BY <1>1, <1>2, Quotient
<1> QED
  BY <1>2, <1>3

(* The candles of the higher timeframe that had closed by then.            *)
ClosedBy(frame, by) ==
  {HigherCandle(frame, w) : w \in {v \in Windows(frame) : v * Higher + Higher <= by}}

LEMMA CompletedHigherIs ==
  ASSUME NEW frame \in Seq(Candles), NEW by
  PROVE  CompletedHigher(HigherFrame(frame), by) = ClosedBy(frame, by)
<1>1. \A w \in Windows(frame) : HigherCandle(frame, w).open = w * Higher
  BY DEF HigherCandle
<1>2. CompletedHigher(HigherFrame(frame), by)
        = {h \in {HigherCandle(frame, w) : w \in Windows(frame)} : h.open + Higher <= by}
  BY HigherFrameIs DEF CompletedHigher
<1> QED
  BY <1>1, <1>2 DEF ClosedBy

LEMMA ClosedTwice ==
  ASSUME NEW frame \in Seq(Candles), NEW by \in Int, NEW cutoff \in Int, by <= cutoff
  PROVE  CompletedHigher(CompletedHigher(HigherFrame(frame), cutoff), by) = ClosedBy(frame, by)
<1>1. \A w \in Windows(frame) : HigherCandle(frame, w).open = w * Higher /\ w * Higher \in Nat
  BY WindowsAreNatural DEF HigherCandle
<1>2. CompletedHigher(CompletedHigher(HigherFrame(frame), cutoff), by)
        = {h \in {HigherCandle(frame, w) : w \in Windows(frame)} :
             h.open + Higher <= cutoff /\ h.open + Higher <= by}
  BY HigherFrameIs DEF CompletedHigher
<1>3. Higher \in Nat
  BY FeatureAssumption
<1>4. \A w \in Windows(frame) : (HigherCandle(frame, w).open + Higher <= cutoff
                                     /\ HigherCandle(frame, w).open + Higher <= by)
                                  <=> w * Higher + Higher <= by
  BY <1>1, <1>3
<1> QED
  BY <1>2, <1>4 DEF ClosedBy

LEMMA ClosedBySame ==
  ASSUME NEW frame, FrameInOrder(frame), NEW n \in 1..Len(frame), NEW m \in (n - 1)..Len(frame),
         NEW by \in Int, by <= frame[n].open
  PROVE  ClosedBy(frame, by) = ClosedBy(Upto(frame, m), by)
<1>1. PICK known : known = Upto(frame, m)
  OBVIOUS
<1>2. frame \in Seq(Candles) /\ known \in Seq(Candles)
  <2>1. frame \in Seq(Candles) /\ m \in 0..Len(frame)
    BY DEF FrameInOrder
  <2> QED
    BY <1>1, <2>1, UptoIs
<1>3. ASSUME NEW w \in Windows(frame) \cup Windows(known), w * Higher + Higher <= by
      PROVE  SameWindow(frame, known, w)
  <2>1. w \in Nat /\ w * Higher \in Nat
    BY <1>2, WindowsAreNatural
  <2>2. frame[n].open \in Nat /\ Higher \in Nat
    BY <1>2, CandleOpens, FeatureAssumption
  <2>3. w * Higher + Higher <= frame[n].open
    BY <1>3, <2>1, <2>2
  <2> QED
    BY <1>1, <2>1, <2>3, ClosedWindowsSame
<1>4. {v \in Windows(frame) : v * Higher + Higher <= by}
        = {v \in Windows(known) : v * Higher + Higher <= by}
  BY <1>3 DEF SameWindow
<1>5. \A w \in {v \in Windows(frame) : v * Higher + Higher <= by} :
        HigherCandle(frame, w) = HigherCandle(known, w)
  BY <1>3 DEF SameWindow
<1> QED
  BY <1>1, <1>4, <1>5 DEF ClosedBy

(* The context of a candle: the same whatever is exported with it.         *)
LEMMA ContextSame ==
  ASSUME NEW frame, FrameInOrder(frame), NEW n \in 1..Len(frame), NEW cutoff \in Int,
         frame[n].open + 1 <= cutoff
  PROVE  Synchronized(CompletedHigher(HigherFrame(frame), cutoff), frame[n].open)
           = Synchronized(CompletedHigher(HigherFrame(Upto(frame, n)), frame[n].open + 1),
                          frame[n].open)
<1>1. PICK known, opened : known = Upto(frame, n) /\ opened = frame[n].open
  OBVIOUS
<1>2. /\ frame \in Seq(Candles) /\ known \in Seq(Candles)
      /\ opened \in Int /\ opened + 1 \in Int /\ opened <= cutoff /\ opened <= opened + 1
  <2>1. frame \in Seq(Candles) /\ n \in 0..Len(frame)
    BY DEF FrameInOrder
  <2>2. opened \in Nat
    BY <1>1, <2>1, CandleOpens
  <2> QED
    BY <1>1, <2>1, <2>2, UptoIs
<1>3. CompletedHigher(CompletedHigher(HigherFrame(frame), cutoff), opened) = ClosedBy(frame, opened)
  BY <1>2, ClosedTwice
<1>4. CompletedHigher(CompletedHigher(HigherFrame(known), opened + 1), opened) = ClosedBy(known, opened)
  BY <1>2, ClosedTwice
<1>5. ClosedBy(frame, opened) = ClosedBy(known, opened)
  <2>1. n \in (n - 1)..Len(frame) /\ opened <= frame[n].open
    BY <1>1, <1>2
  <2> QED
    BY <1>1, <1>2, <2>1, ClosedBySame
<1> QED
  BY <1>1, <1>3, <1>4, <1>5 DEF Synchronized

(* What a row says of its market, by the candles up to its own.            *)
TellsOf(frame, row, n) ==
  /\ row.decided = frame[n].open + 1
  /\ row.features = Features(Upto(frame, n),
                             CompletedHigher(HigherFrame(Upto(frame, n)), frame[n].open + 1), n)

(* One candle more than a frame has.                                       *)
EarlierThan(frame, opened) == \A i \in 1..Len(frame) : frame[i].open < opened

Continues(longer, frame, opened) ==
  /\ FrameInOrder(longer) /\ Len(longer) = Len(frame) + 1
  /\ \A i \in 1..Len(frame) : longer[i] = frame[i]
  /\ longer[Len(frame) + 1].open = opened
  /\ \A n \in 0..Len(frame) : Upto(longer, n) = Upto(frame, n)

LEMMA NextCandle ==
  ASSUME NEW frame, FrameInOrder(frame), NEW shape \in Shapes, NEW opened \in Nat,
         EarlierThan(frame, opened)
  PROVE  Continues(Append(frame, Candle(shape, opened)), frame, opened)
<1>0. PICK longer : longer = Append(frame, Candle(shape, opened))
  OBVIOUS
<1>1. PICK candle \in Candles : candle = Candle(shape, opened) /\ candle.open = opened
  <2>1. Candle(shape, opened) \in Candles
    BY DEF Candles
  <2>2. Candle(shape, opened).open = opened
    BY DEF Candle
  <2> QED
    BY <2>1, <2>2
<1>2. frame \in Seq(Candles) /\ Len(frame) \in Nat
  BY DEF FrameInOrder
<1>3. longer = Append(frame, candle)
  BY <1>0, <1>1
<1>4. /\ longer \in Seq(Candles) /\ Len(longer) = Len(frame) + 1
      /\ \A i \in 1..Len(frame) : longer[i] = frame[i]
      /\ longer[Len(frame) + 1] = candle
  BY <1>2, <1>3
<1>5. ASSUME NEW i \in 1..Len(longer), NEW j \in 1..Len(longer), i < j
      PROVE  longer[i].open < longer[j].open
  <2>1. i \in 1..Len(frame) /\ (j \in 1..Len(frame) \/ j = Len(frame) + 1)
    BY <1>2, <1>4, <1>5
  <2>2. CASE j \in 1..Len(frame)
    BY <1>4, <1>5, <2>1, <2>2 DEF FrameInOrder
  <2>3. CASE j = Len(frame) + 1
    BY <1>1, <1>4, <2>1, <2>3 DEF EarlierThan
  <2> QED
    BY <2>1, <2>2, <2>3
<1>6. ASSUME NEW n \in 0..Len(frame) PROVE Upto(longer, n) = Upto(frame, n)
  <2>1. Upto(longer, n) = [i \in 1..n |-> longer[i]] /\ Upto(frame, n) = [i \in 1..n |-> frame[i]]
    BY <1>2, <1>4 DEF Upto
  <2>2. \A i \in 1..n : longer[i] = frame[i]
    BY <1>2, <1>4
  <2> QED
    BY <2>1, <2>2
<1> QED
  BY <1>0, <1>1, <1>4, <1>5, <1>6 DEF FrameInOrder, Continues

LEMMA NowIsLate ==
  ASSUME FrameInOrder(history)
  PROVE  Now \in Nat /\ EarlierThan(history, Now)
<1>1. history \in Seq(Candles) /\ Len(history) \in Nat
  BY DEF FrameInOrder
<1>2. CASE history = <<>>
  BY <1>1, <1>2 DEF Now, EarlierThan
<1>3. CASE history # <<>>
  <2>1. Len(history) \in 1..Len(history)
    BY <1>1, <1>3
  <2>2. Now = history[Len(history)].open + 1 /\ history[Len(history)].open \in Nat
    BY <1>1, <1>3, <2>1, CandleOpens DEF Now
  <2>3. ASSUME NEW i \in 1..Len(history) PROVE history[i].open < Now
    <3>1. history[i].open \in Nat /\ i <= Len(history)
      BY <1>1, CandleOpens
    <3>2. history[i].open <= history[Len(history)].open
      BY <2>1, <3>1, OpensRise
    <3> QED
      BY <2>2, <3>1, <3>2
  <2> QED
    BY <2>2, <2>3 DEF EarlierThan
<1> QED
  BY <1>2, <1>3

(* A row of a dataset tells of the candles up to its own, whatever was     *)
(* exported after it.                                                      *)
LEMMA RowTells ==
  ASSUME NEW exported, FrameInOrder(exported), NEW cutoff \in Int,
         NEW row \in Assemble(exported, cutoff)
  PROVE  \E n \in 1..Len(exported) :
           exported[n].open + 1 <= cutoff /\ TellsOf(exported, row, n)
<1>1. PICK k \in 0..Len(exported) : Closed(exported, cutoff, k)
  BY CompletedIs
<1>2. PICK frame, higher : frame = Completed(exported, cutoff)
                           /\ higher = CompletedHigher(HigherFrame(exported), cutoff)
  OBVIOUS
<1>3. exported \in Seq(Candles) /\ Len(exported) \in Nat /\ frame = Upto(exported, k)
  BY <1>1, <1>2 DEF FrameInOrder, Closed
<1>4. Len(frame) = k /\ SameCandles(exported, frame, k)
  BY <1>3, UptoIs
<1>5. PICK n \in (Warmup + 1)..Len(frame) :
        row = [decided |-> frame[n].open + 1,
               features |-> Features(frame, higher, n), label |-> LabelAt(frame, n, Barriers)]
  BY <1>2 DEF Assemble
<1>6. n \in 1..k /\ n \in 1..Len(exported) /\ k \in 1..Len(exported)
  BY <1>3, <1>4, <1>5, FeatureAssumption
<1>7. frame[n] = exported[n] /\ row.decided = exported[n].open + 1
      /\ row.features = Features(frame, higher, n)
  BY <1>4, <1>5, <1>6 DEF SameCandles, Same
<1>8. exported[n].open + 1 <= cutoff
  <2>1. exported[n].open <= exported[k].open /\ exported[k].open + 1 <= cutoff
    BY <1>1, <1>6, OpensRise DEF Closed
  <2>2. PICK a, b : a = exported[n].open /\ b = exported[k].open
    OBVIOUS
  <2>3. a \in Nat /\ b \in Nat
    BY <1>3, <1>6, <2>2, CandleOpens
  <2>4. a <= b /\ b + 1 <= cutoff
    BY ONLY <2>1, <2>2
  <2>5. a + 1 <= cutoff
    BY ONLY <2>3, <2>4, cutoff \in Int
  <2> QED
    BY ONLY <2>2, <2>5
<1>9. PICK known, taller :
        known = Upto(exported, n)
        /\ taller = CompletedHigher(HigherFrame(known), exported[n].open + 1)
  OBVIOUS
<1>10. SameCandles(frame, known, n)
  <2>1. SameCandles(exported, known, n)
    BY <1>3, <1>6, <1>9, UptoIs
  <2> QED
    BY <1>4, <1>6, <2>1 DEF SameCandles, Same
<1>11. Synchronized(higher, frame[n].open) = Synchronized(taller, frame[n].open)
  BY <1>2, <1>6, <1>7, <1>8, <1>9, ContextSame
<1>12. Features(frame, higher, n) = Features(known, taller, n)
  <2>1. n \in Nat \ {0}
    BY <1>6
  <2> QED
    BY <1>10, <1>11, <2>1, FeaturesSame
<1>13. TellsOf(exported, row, n)
  BY <1>7, <1>9, <1>12 DEF TellsOf
<1> QED
  BY <1>6, <1>8, <1>13

(* The rows are made of the completed candles and of nothing else.         *)
RowsOf(frame, higher) ==
  LET row(n)  == [decided |-> frame[n].open + 1,
                  features |-> Features(frame, higher, n), label |-> LabelAt(frame, n, Barriers)]
      kept(r) == r.features.resistance # Nan /\ r.label # NoLabel
  IN {r \in {row(n) : n \in (Warmup + 1)..Len(frame)} : kept(r)}

LEMMA AssembleIs ==
  ASSUME NEW exported, NEW cutoff
  PROVE  Assemble(exported, cutoff)
           = RowsOf(Completed(exported, cutoff), CompletedHigher(HigherFrame(exported), cutoff))
BY DEF Assemble, RowsOf

(* A candle that opens at the cutoff or later changes nothing.             *)
LEMMA AssembleSame ==
  ASSUME NEW frame, FrameInOrder(frame), NEW longer, NEW opened \in Nat,
         Continues(longer, frame, opened), NEW cutoff \in Int, cutoff <= opened
  PROVE  Assemble(longer, cutoff) = Assemble(frame, cutoff)
<1>1. /\ frame \in Seq(Candles) /\ longer \in Seq(Candles) /\ FrameInOrder(longer)
      /\ Len(frame) \in Nat /\ Len(longer) = Len(frame) + 1
  BY DEF Continues, FrameInOrder
<1>2. Completed(longer, cutoff) = Completed(frame, cutoff)
  <2>1. PICK closed : closed = {0} \cup {n \in DOMAIN frame : frame[n].open + 1 <= cutoff}
    OBVIOUS
  <2>2. DOMAIN frame = 1..Len(frame) /\ DOMAIN longer = 1..Len(longer)
    BY <1>1
  <2>3. ASSUME NEW n \in DOMAIN longer, longer[n].open + 1 <= cutoff
        PROVE  n \in DOMAIN frame /\ frame[n].open + 1 <= cutoff
    <3>1. n # Len(frame) + 1
      BY <2>3 DEF Continues
    <3>2. n \in DOMAIN frame
      BY <1>1, <2>2, <3>1
    <3> QED
      BY <2>2, <2>3, <3>2 DEF Continues
  <2>4. ASSUME NEW n \in DOMAIN frame, frame[n].open + 1 <= cutoff
        PROVE  n \in DOMAIN longer /\ longer[n].open + 1 <= cutoff
    BY <1>1, <2>2, <2>4 DEF Continues
  <2>5. closed = {0} \cup {n \in DOMAIN longer : longer[n].open + 1 <= cutoff}
    BY <2>1, <2>3, <2>4
  <2>6. closed \subseteq 0..Len(frame) /\ closed # {}
    BY <1>1, <2>1, <2>2
  <2>7. Max(closed) \in 0..Len(frame)
    BY <1>1, <2>6, MaxOf
  <2>8. Upto(longer, Max(closed)) = Upto(frame, Max(closed))
    BY <2>7 DEF Continues
  <2> QED
    BY <2>1, <2>5, <2>8 DEF Completed, Upto
<1>3. CompletedHigher(HigherFrame(longer), cutoff) = CompletedHigher(HigherFrame(frame), cutoff)
  <2>1. PICK n, m : n = Len(frame) + 1 /\ m = Len(frame)
    OBVIOUS
  <2>2. n \in 1..Len(longer) /\ m \in (n - 1)..Len(longer) /\ longer[n].open = opened /\ m \in 0..m
    BY <1>1, <2>1 DEF Continues
  <2>3. ClosedBy(longer, cutoff) = ClosedBy(Upto(longer, m), cutoff)
    BY <1>1, <2>2, ClosedBySame
  <2>4. Upto(longer, m) = Upto(frame, m)
    BY <2>1, <2>2 DEF Continues
  <2>5. Upto(frame, m) = frame
    BY <1>1, <2>1 DEF Upto
  <2>6. ClosedBy(longer, cutoff) = ClosedBy(frame, cutoff)
    BY <2>3, <2>4, <2>5
  <2> QED
    BY <1>1, <2>6, CompletedHigherIs
<1> QED
  BY <1>2, <1>3, AssembleIs

(* What was built is what would be built now.                              *)
MarketInv ==
  /\ FrameInOrder(history)
  /\ dataset # NoDataset =>
       dataset.cutoff \in 1..Now /\ dataset.rows = Assemble(history, dataset.cutoff)

LEMMA TradeKeeps ==
  ASSUME MarketInv, Trade
  PROVE  MarketInv'
<1>1. PICK shape \in Shapes, pause \in 0..(MaxPause + Len(history) - Now) :
        history' = Append(history, Candle(shape, Now + pause))
  BY DEF Trade
<1>2. PICK opened, longer : opened = Now + pause /\ longer = Append(history, Candle(shape, opened))
  OBVIOUS
<1>3. Now \in Nat /\ EarlierThan(history, Now)
  BY NowIsLate DEF MarketInv
<1>4. opened \in Nat /\ Now <= opened /\ EarlierThan(history, opened)
  <2>1. pause \in Nat
    OBVIOUS
  <2>2. \A i \in 1..Len(history) : history[i].open \in Nat
    BY CandleOpens DEF MarketInv, FrameInOrder
  <2> QED
    BY <1>2, <1>3, <2>1, <2>2 DEF EarlierThan
<1>5. Continues(longer, history, opened)
  BY <1>2, <1>4, NextCandle DEF MarketInv
<1>6. history' = longer /\ dataset' = dataset
  BY <1>1, <1>2 DEF Trade
<1>7. Now' = opened + 1
  <2>1. Len(history) \in Nat
    BY DEF MarketInv, FrameInOrder
  <2>2. Len(longer) = Len(history) + 1 /\ longer[Len(history) + 1].open = opened
    BY <1>5 DEF Continues
  <2>3. longer # <<>>
    BY <2>1, <2>2
  <2> QED
    BY <1>6, <2>2, <2>3 DEF Now
<1>8. ASSUME dataset # NoDataset
      PROVE  dataset.cutoff \in 1..(opened + 1) /\ dataset.rows = Assemble(longer, dataset.cutoff)
  <2>1. PICK cutoff \in 1..Now : cutoff = dataset.cutoff /\ dataset.rows = Assemble(history, cutoff)
    BY <1>8 DEF MarketInv
  <2>2. cutoff \in Int /\ cutoff <= opened /\ cutoff \in 1..(opened + 1)
    BY <1>3, <1>4
  <2>3. Assemble(longer, cutoff) = Assemble(history, cutoff)
    BY <1>4, <1>5, <2>2, AssembleSame DEF MarketInv
  <2> QED
    BY <2>1, <2>2, <2>3
<1>9. FrameInOrder(longer)
  BY <1>5 DEF Continues
<1> QED
  BY <1>6, <1>7, <1>8, <1>9 DEF MarketInv

LEMMA BuildKeeps ==
  ASSUME MarketInv, Build
  PROVE  MarketInv'
<1>1. PICK cutoff \in 1..Now, forming \in Shapes :
        dataset' = [cutoff |-> cutoff,
                    rows |-> Assemble(Append(history, Candle(forming, Now)), cutoff)]
  BY DEF Build
<1>2. PICK exported : exported = Append(history, Candle(forming, Now))
  OBVIOUS
<1>3. Now \in Nat /\ EarlierThan(history, Now)
  BY NowIsLate DEF MarketInv
<1>4. Continues(exported, history, Now)
  BY <1>2, <1>3, NextCandle DEF MarketInv
<1>5. Assemble(exported, cutoff) = Assemble(history, cutoff)
  <2>1. cutoff \in Int /\ cutoff <= Now
    BY <1>3
  <2> QED
    BY <1>3, <1>4, <2>1, AssembleSame DEF MarketInv
<1>6. dataset'.cutoff = cutoff /\ dataset'.rows = Assemble(history, cutoff)
  BY <1>1, <1>2, <1>5
<1>7. history' = history
  BY DEF Build
<1>8. Now' = Now
  BY <1>7 DEF Now
<1> QED
  BY <1>6, <1>7, <1>8 DEF MarketInv

(* Candles in the order of time, and of what was built that it would be    *)
(* built again.                                                            *)
THEOREM MarketInvariant == MarketSpec => []MarketInv
<1>1. ASSUME MarketInit PROVE MarketInv
  <2>1. history = <<>> /\ dataset = NoDataset
    BY <1>1 DEF MarketInit
  <2>2. FrameInOrder(history)
    BY <2>1 DEF FrameInOrder
  <2> QED
    BY <2>1, <2>2 DEF MarketInv
<1>2. ASSUME MarketInv, [MarketNext]_marketVars PROVE MarketInv'
  <2>1. CASE UNCHANGED marketVars
    <3>1. history' = history /\ dataset' = dataset
      BY <2>1 DEF marketVars
    <3>2. Now' = Now
      BY <3>1 DEF Now
    <3> QED
      BY <1>2, <3>1, <3>2 DEF MarketInv
  <2>2. CASE MarketNext
    BY <1>2, <2>2, TradeKeeps, BuildKeeps DEF MarketNext
  <2> QED
    BY <1>2, <2>1, <2>2
<1> QED
  BY <1>1, <1>2, PTL DEF MarketSpec

(* assemble_dataset: for any candles, pauses, timeframes and parameters,   *)
(* built again later with more candles exported a dataset is row for row   *)
(* what it was.                                                            *)
THEOREM DatasetsReproduce == MarketSpec => []Reproducible
<1>1. MarketInv => Reproducible
  BY DEF MarketInv, Reproducible
<1> QED
  BY <1>1, MarketInvariant, PTL

(* And no row of it tells anything that was not known when the row was     *)
(* decided on: swings told with their delay, breaks and their bias,        *)
(* channels and the candle of the higher timeframe are those of the        *)
(* candles that had closed by then.                                        *)
THEOREM RowsLookBack == MarketSpec => []NoLookAhead
<1>1. ASSUME MarketInv PROVE NoLookAhead
  <2>1. SUFFICES ASSUME dataset # NoDataset, NEW row \in dataset.rows
                 PROVE  row.features
                          = Features(Completed(history, row.decided),
                                     CompletedHigher(HigherFrame(Completed(history, row.decided)),
                                                     row.decided),
                                     Len(Completed(history, row.decided)))
    BY DEF NoLookAhead
  <2>2. PICK n \in 1..Len(history) : TellsOf(history, row, n)
    <3>1. FrameInOrder(history) /\ Now \in Nat
      BY <1>1, NowIsLate DEF MarketInv
    <3>2. PICK cutoff \in 1..Now : row \in Assemble(history, cutoff)
      BY <1>1, <2>1 DEF MarketInv
    <3> QED
      BY <3>1, <3>2, RowTells
  <2>3. row.decided = history[n].open + 1
    BY <2>2 DEF TellsOf
  <2>4. Completed(history, row.decided) = Upto(history, n)
    BY <1>1, <2>3, KnownIs DEF MarketInv
  <2>5. Len(Upto(history, n)) = n
    BY <1>1, UptoIs DEF MarketInv, FrameInOrder
  <2> QED
    BY <2>2, <2>3, <2>4, <2>5, Zenon DEF TellsOf
<1> QED
  BY <1>1, MarketInvariant, PTL

(* The largest of finitely many numbers, and the least.                    *)
LEMMA LargestOf ==
  ASSUME NEW b \in Nat \ {0}, NEW F \in [1..b -> Int]
  PROVE  \E k \in 1..b : \A j \in 1..b : F[j] <= F[k]
<1> DEFINE Bad == {c \in Nat : c >= 1 /\ c <= b /\ ~\E k \in 1..c : \A j \in 1..c : F[j] <= F[k]}
<1>1. Bad = {}
  <2>1. SUFFICES ASSUME Bad # {} PROVE FALSE
    OBVIOUS
  <2>2. Bad \subseteq Nat
    OBVIOUS
  <2> HIDE DEF Bad
  <2>3. PICK c \in Bad : \A y \in Bad : c <= y
    BY <2>1, <2>2, LeastOf
  <2>4. c \in Nat /\ c >= 1 /\ c <= b /\ ~\E k \in 1..c : \A j \in 1..c : F[j] <= F[k]
    BY <2>3 DEF Bad
  <2>5. c - 1 \notin Bad
    BY <2>3, <2>4
  <2> USE DEF Bad
  <2>6. c # 1
    <3>1. SUFFICES ASSUME c = 1 PROVE FALSE
      OBVIOUS
    <3>2. \A j \in 1..1 : j = 1 /\ F[j] \in Int
      OBVIOUS
    <3> QED
      BY <2>4, <3>1, <3>2
  <2>7. c - 1 \in Nat /\ c - 1 >= 1 /\ c - 1 <= b
    BY <2>4, <2>6
  <2>8. PICK k \in 1..(c - 1) : \A j \in 1..(c - 1) : F[j] <= F[k]
    BY <2>7, <2>5
  <2>9. F[k] \in Int /\ F[c] \in Int /\ k \in 1..c /\ c \in 1..c
    BY <2>4, <2>7
  <2>10. CASE F[c] <= F[k]
    <3>1. \A j \in 1..c : F[j] <= F[k]
      BY <2>4, <2>8, <2>10
    <3> QED
      BY <2>4, <2>9, <3>1
  <2>11. CASE ~(F[c] <= F[k])
    <3>1. ASSUME NEW j \in 1..c PROVE F[j] <= F[c]
      <4>1. F[j] \in Int
        BY <2>4
      <4>2. j \in 1..(c - 1) \/ j = c
        BY <2>4
      <4> QED
        BY <2>8, <2>9, <2>11, <4>1, <4>2
    <3> QED
      BY <2>4, <2>9, <3>1
  <2> QED
    BY <2>9, <2>10, <2>11
<1> HIDE DEF Bad
<1>2. b \notin Bad
  BY <1>1
<1>3. b \in Nat /\ b >= 1 /\ b <= b
  OBVIOUS
<1> QED
  BY <1>2, <1>3 DEF Bad

(* Prices turned round: the largest is the least.                          *)
Turns(F, G, b) == \A k \in 1..b : G[k] = -F[k]

LEMMA MaxTurned ==
  ASSUME NEW b \in Nat \ {0}, NEW F \in [1..b -> Int], NEW G, Turns(F, G, b)
  PROVE  /\ Max({F[k] : k \in 1..b}) \in Int
         /\ Min({G[k] : k \in 1..b}) = -Max({F[k] : k \in 1..b})
<1>1. PICK k \in 1..b : \A j \in 1..b : F[j] <= F[k]
  BY LargestOf
<1>2. PICK S, T : S = {F[j] : j \in 1..b} /\ T = {G[j] : j \in 1..b}
  OBVIOUS
<1>3. F[k] \in S /\ \A x \in S : x \in Int /\ x <= F[k]
  BY <1>1, <1>2
<1>4. -F[k] \in T /\ \A x \in T : x \in Int /\ -F[k] <= x
  <2>1. \A j \in 1..b : F[j] \in Int /\ G[j] = -F[j] /\ F[j] <= F[k]
    BY <1>1 DEF Turns
  <2> QED
    BY <1>2, <2>1
<1>5. Max(S) \in S /\ \A x \in S : Max(S) >= x
  <2>1. \E m \in S : \A x \in S : m >= x
    BY <1>3
  <2> QED
    BY <2>1, Zenon DEF Max
<1>6. Min(T) \in T /\ \A x \in T : Min(T) <= x
  <2>1. \E m \in T : \A x \in T : m <= x
    BY <1>4
  <2> QED
    BY <2>1, Zenon DEF Min
<1>7. Max(S) = F[k] /\ Min(T) = -F[k]
  BY <1>3, <1>4, <1>5, <1>6
<1> QED
  BY <1>2, <1>3, <1>7

LabelDefinitions ==
  [horizon : Nat \ {0}, upper : Nat \ {0}, lower : Nat \ {0},
   side : {"LONG", "SHORT"}, collision : Collisions]

(* The other side of a definition, and the other barrier.                  *)
OtherWay(d, o) ==
  /\ o.horizon = d.horizon /\ o.collision = d.collision
  /\ o.upper = d.lower /\ o.lower = d.upper
  /\ d.side = "LONG" => o.side = "SHORT"
  /\ d.side # "LONG" => o.side = "LONG"

Flip(outcome) ==
  CASE outcome = "UPPER_FIRST" -> "LOWER_FIRST" [] outcome = "LOWER_FIRST" -> "UPPER_FIRST"
    [] OTHER -> outcome

LEMMA OppositeIs ==
  ASSUME NEW d \in LabelDefinitions
  PROVE  OtherWay(d, Opposite(d))
BY DEF Opposite, OtherWay, LabelDefinitions

LEMMA OutcomeFlips ==
  ASSUME NEW d \in LabelDefinitions, NEW o, OtherWay(d, o), NEW t, NEW u,
         t.up \in BOOLEAN, t.down \in BOOLEAN, u.up = t.down, u.down = t.up, t.up \/ t.down
  PROVE  Outcome(u, o) = Flip(Outcome(t, d))
<1>1. Collision(o) = Flip(Collision(d))
  BY DEF Collision, Flip, OtherWay, LabelDefinitions
<1>2. CASE t.up /\ t.down
  BY <1>1, <1>2 DEF Outcome
<1>3. CASE t.up /\ ~t.down
  BY <1>3 DEF Outcome, Flip
<1>4. CASE ~t.up /\ t.down
  BY <1>4 DEF Outcome, Flip
<1> QED
  BY <1>2, <1>3, <1>4

LEMMA TradeFlips ==
  ASSUME NEW d, NEW o, OtherWay(d, o), NEW outcome
  PROVE  TradeOutcome(Flip(outcome), o) = TradeOutcome(outcome, d)
<1>1. CASE d.side = "LONG"
  <2>1. o.side = "SHORT"
    BY <1>1 DEF OtherWay
  <2> QED
    BY <1>1, <2>1 DEF TradeOutcome, Flip
<1>2. CASE d.side # "LONG"
  <2>1. o.side = "LONG"
    BY <1>2 DEF OtherWay
  <2> QED
    BY <1>2, <2>1 DEF TradeOutcome, Flip
<1> QED
  BY <1>1, <1>2

LEMMA TurnedIs ==
  ASSUME NEW f \in Seq(Candles)
  PROVE  /\ Len(Turned(f)) = Len(f)
         /\ \A i \in 1..Len(f) :
              /\ f[i].high \in Int /\ f[i].low \in Int /\ f[i].close \in Int
              /\ Turned(f)[i].high = -f[i].low /\ Turned(f)[i].low = -f[i].high
              /\ Turned(f)[i].close = -f[i].close
<1>1. DOMAIN f = 1..Len(f) /\ Len(f) \in Nat
  OBVIOUS
<1>2. Len(Turned(f)) = Len(f)
  BY <1>1 DEF Turned
<1>3. ASSUME NEW i \in 1..Len(f)
      PROVE  /\ Turned(f)[i].high = -f[i].low /\ Turned(f)[i].low = -f[i].high
             /\ Turned(f)[i].close = -f[i].close
  BY <1>1 DEF Turned
<1>4. ASSUME NEW c \in Candles PROVE c.high \in Int /\ c.low \in Int /\ c.close \in Int
  <2>1. PICK shape \in Shapes, opened \in Nat : c = Candle(shape, opened)
    BY DEF Candles
  <2>2. shape \in [high : Int, low : Int, close : Int]
    BY FeatureAssumption
  <2> QED
    BY <2>1, <2>2 DEF Candle
<1> QED
  BY <1>2, <1>3, <1>4

(* How far it went the trade's way: up for the one, down for the other.    *)
LEMMA FavorableMirrors ==
  ASSUME NEW f \in Seq(Candles), NEW n \in 1..Len(f), NEW d \in LabelDefinitions, NEW o, OtherWay(d, o),
         NEW b \in Nat \ {0}, n + b <= Len(f)
  PROVE  Favorable(Turned(f), n, o, b) = Favorable(f, n, d, b)
<1> DEFINE highs == [k \in 1..b |-> f[n + k].high]
           lows  == [k \in 1..b |-> f[n + k].low]
           turnedHighs == [k \in 1..b |-> Turned(f)[n + k].high]
           turnedLows  == [k \in 1..b |-> Turned(f)[n + k].low]
<1>1. ASSUME NEW k \in 1..b PROVE n + k \in 1..Len(f)
  OBVIOUS
<1>2. ASSUME NEW k \in 1..b
      PROVE  /\ highs[k] \in Int /\ lows[k] \in Int
             /\ turnedHighs[k] = -lows[k] /\ turnedLows[k] = -highs[k]
             /\ turnedHighs[k] \in Int /\ lows[k] = -turnedHighs[k]
  <2>1. n + k \in 1..Len(f)
    BY <1>1
  <2>2. /\ f[n + k].high \in Int /\ f[n + k].low \in Int
        /\ Turned(f)[n + k].high = -f[n + k].low /\ Turned(f)[n + k].low = -f[n + k].high
    BY <2>1, TurnedIs
  <2> QED
    BY <2>2
<1>3. /\ {f[n + k].high : k \in 1..b} = {highs[k] : k \in 1..b}
      /\ {f[n + k].low : k \in 1..b} = {lows[k] : k \in 1..b}
      /\ {Turned(f)[n + k].high : k \in 1..b} = {turnedHighs[k] : k \in 1..b}
      /\ {Turned(f)[n + k].low : k \in 1..b} = {turnedLows[k] : k \in 1..b}
  OBVIOUS
<1>4. /\ highs \in [1..b -> Int] /\ Turns(highs, turnedLows, b)
      /\ turnedHighs \in [1..b -> Int] /\ Turns(turnedHighs, lows, b)
  BY <1>2 DEF Turns
<1> HIDE DEF highs, lows, turnedHighs, turnedLows
<1>5. /\ Max({highs[k] : k \in 1..b}) \in Int
      /\ Min({turnedLows[k] : k \in 1..b}) = -Max({highs[k] : k \in 1..b})
  BY <1>4, MaxTurned
<1>6. /\ Max({turnedHighs[k] : k \in 1..b}) \in Int
      /\ Min({lows[k] : k \in 1..b}) = -Max({turnedHighs[k] : k \in 1..b})
  BY <1>4, MaxTurned
<1>7. f[n].close \in Int /\ Turned(f)[n].close = -f[n].close
  BY TurnedIs
<1>8. CASE d.side = "LONG"
  <2>1. o.side # "LONG"
    BY <1>8 DEF OtherWay
  <2>2. Favorable(f, n, d, b) = Max({highs[k] : k \in 1..b}) - f[n].close
    BY <1>3, <1>8 DEF Favorable
  <2>3. Favorable(Turned(f), n, o, b) = Turned(f)[n].close - Min({turnedLows[k] : k \in 1..b})
    BY <1>3, <2>1 DEF Favorable
  <2> QED
    BY <1>5, <1>7, <2>2, <2>3
<1>9. CASE d.side # "LONG"
  <2>1. o.side = "LONG"
    BY <1>9 DEF OtherWay
  <2>2. Favorable(f, n, d, b) = f[n].close - Min({lows[k] : k \in 1..b})
    BY <1>3, <1>9 DEF Favorable
  <2>3. Favorable(Turned(f), n, o, b) = Max({turnedHighs[k] : k \in 1..b}) - Turned(f)[n].close
    BY <1>3, <2>1 DEF Favorable
  <2> QED
    BY <1>6, <1>7, <2>2, <2>3
<1> QED
  BY <1>8, <1>9

LEMMA TouchesMirror ==
  ASSUME NEW f \in Seq(Candles), NEW n \in 1..Len(f), NEW d \in LabelDefinitions, NEW o, OtherWay(d, o),
         NEW k \in Nat \ {0}, n + k <= Len(f)
  PROVE  /\ Touches(f, n, d, k).up \in BOOLEAN /\ Touches(f, n, d, k).down \in BOOLEAN
         /\ Touches(Turned(f), n, o, k).up = Touches(f, n, d, k).down
         /\ Touches(Turned(f), n, o, k).down = Touches(f, n, d, k).up
<1>1. n + k \in 1..Len(f)
  OBVIOUS
<1>2. /\ f[n + k].high \in Int /\ f[n + k].low \in Int /\ f[n].close \in Int
      /\ Turned(f)[n + k].high = -f[n + k].low /\ Turned(f)[n + k].low = -f[n + k].high
      /\ Turned(f)[n].close = -f[n].close
  BY <1>1, TurnedIs
<1>3. o.upper = d.lower /\ o.lower = d.upper /\ d.upper \in Int /\ d.lower \in Int
  BY DEF OtherWay, LabelDefinitions
<1>4. /\ (Turned(f)[n + k].high >= Turned(f)[n].close + o.upper)
           = (f[n + k].low <= f[n].close - d.lower)
      /\ (Turned(f)[n + k].low <= Turned(f)[n].close - o.lower)
           = (f[n + k].high >= f[n].close + d.upper)
  <2>1. ASSUME NEW high \in Int, NEW low \in Int, NEW close \in Int, NEW up \in Int, NEW down \in Int
        PROVE  /\ -low >= -close + down <=> low <= close - down
               /\ -high <= -close - up <=> high >= close + up
    OBVIOUS
  <2>2. /\ -f[n + k].low >= -f[n].close + d.lower <=> f[n + k].low <= f[n].close - d.lower
        /\ -f[n + k].high <= -f[n].close - d.upper <=> f[n + k].high >= f[n].close + d.upper
    BY <1>2, <1>3, <2>1
  <2>3. /\ Turned(f)[n + k].high >= Turned(f)[n].close + o.upper
             <=> f[n + k].low <= f[n].close - d.lower
        /\ Turned(f)[n + k].low <= Turned(f)[n].close - o.lower
             <=> f[n + k].high >= f[n].close + d.upper
    BY <1>2, <1>3, <2>2
  <2> QED
    BY <2>3
<1> QED
  BY <1>4 DEF Touches

LEMMA LabelMirrors ==
  ASSUME NEW f \in Seq(Candles), NEW n \in 1..Len(f), NEW d \in LabelDefinitions, NEW o, OtherWay(d, o)
  PROVE  LabelAt(f, n, d) = LabelAt(Turned(f), n, o)
<1>1. Len(Turned(f)) = Len(f) /\ o.horizon = d.horizon /\ d.horizon \in Nat \ {0} /\ Len(f) \in Nat
  BY TurnedIs DEF OtherWay, LabelDefinitions
<1>2. CASE n + d.horizon > Len(f)
  BY <1>1, <1>2 DEF LabelAt
<1>3. CASE ~(n + d.horizon > Len(f))
  <2> DEFINE Hit(g, e, k) == Touches(g, n, e, k).up \/ Touches(g, n, e, k).down
  <2>1. ASSUME NEW k \in 1..d.horizon
        PROVE  /\ Touches(f, n, d, k).up \in BOOLEAN /\ Touches(f, n, d, k).down \in BOOLEAN
               /\ Touches(Turned(f), n, o, k).up = Touches(f, n, d, k).down
               /\ Touches(Turned(f), n, o, k).down = Touches(f, n, d, k).up
    <3>1. k \in Nat \ {0} /\ n + k <= Len(f)
      BY <1>1, <1>3
    <3> QED
      BY <3>1, TouchesMirror
  <2>2. PICK touched : touched = {k \in 1..d.horizon : Hit(f, d, k)}
    OBVIOUS
  <2>3. touched = {k \in 1..d.horizon : Hit(Turned(f), o, k)}
    BY <2>1, <2>2
  <2>4. PICK hit : hit = IF touched = {} THEN d.horizon ELSE Min(touched)
    OBVIOUS
  <2>5. touched # {} => hit \in touched
    <3>1. SUFFICES ASSUME touched # {} PROVE hit \in touched
      OBVIOUS
    <3>2. touched \subseteq Nat
      BY <1>1, <2>2
    <3>3. \E m \in touched : \A x \in touched : m <= x
      BY <3>1, <3>2, LeastOf
    <3>4. Min(touched) \in touched
      BY <3>3, Zenon DEF Min
    <3> QED
      BY <2>4, <3>1, <3>4
  <2>6. hit \in 1..d.horizon
    BY <1>1, <2>2, <2>4, <2>5
  <2>7. Favorable(Turned(f), n, o, hit) = Favorable(f, n, d, hit)
    <3>1. hit \in Nat \ {0} /\ n + hit <= Len(f)
      BY <1>1, <1>3, <2>6
    <3> QED
      BY <3>1, FavorableMirrors
  <2>8. PICK outcome, other :
          /\ outcome = IF touched = {} THEN "TIMEOUT" ELSE Outcome(Touches(f, n, d, hit), d)
          /\ other = IF touched = {} THEN "TIMEOUT" ELSE Outcome(Touches(Turned(f), n, o, hit), o)
    OBVIOUS
  <2>9. other = Flip(outcome)
    <3>1. CASE touched = {}
      BY <2>8, <3>1 DEF Flip
    <3>2. CASE touched # {}
      <4>1. Hit(f, d, hit)
        BY <2>2, <2>5, <3>2
      <4>2. PICK t, u : t = Touches(f, n, d, hit) /\ u = Touches(Turned(f), n, o, hit)
        OBVIOUS
      <4>3. /\ t.up \in BOOLEAN /\ t.down \in BOOLEAN /\ u.up = t.down /\ u.down = t.up
            /\ t.up \/ t.down
        BY <2>1, <2>6, <4>1, <4>2
      <4>4. Outcome(u, o) = Flip(Outcome(t, d))
        BY <4>3, OutcomeFlips
      <4> QED
        BY <2>8, <3>2, <4>2, <4>4
    <3> QED
      BY <3>1, <3>2
  <2>10. TradeOutcome(other, o) = TradeOutcome(outcome, d)
    BY <2>9, TradeFlips
  <2>11. LabelAt(f, n, d) = [target |-> TradeOutcome(outcome, d), bars |-> hit,
                             mfe |-> Favorable(f, n, d, hit)]
    BY <1>3, <2>2, <2>4, <2>8 DEF LabelAt
  <2>12. LabelAt(Turned(f), n, o) = [target |-> TradeOutcome(other, o), bars |-> hit,
                                     mfe |-> Favorable(Turned(f), n, o, hit)]
    BY <1>1, <1>3, <2>3, <2>4, <2>8 DEF LabelAt
  <2> QED
    BY <2>7, <2>10, <2>11, <2>12
<1> QED
  BY <1>2, <1>3

(* triple_barrier_labels takes no side, for any prices, barriers and       *)
(* collision policy: turn prices and trade round and the target, the       *)
(* candle that decides it and the excursion are the same.                  *)
THEOREM LabelsMirror == MarketSpec => []LongAndShortMirror
<1>1. ASSUME MarketInv PROVE LongAndShortMirror
  <2>1. history \in Seq(Candles) /\ DOMAIN history = 1..Len(history)
    BY <1>1 DEF MarketInv, FrameInOrder
  <2>2. ASSUME NEW n \in 1..Len(history), NEW collision \in Collisions, NEW d,
               d = [Barriers EXCEPT !.collision = collision]
        PROVE  LabelAt(history, n, d) = LabelAt(Turned(history), n, Opposite(d))
    <3>1. d \in LabelDefinitions
      BY <2>2, FeatureAssumption DEF LabelDefinitions
    <3>2. OtherWay(d, Opposite(d))
      BY <3>1, OppositeIs
    <3> QED
      BY <2>1, <3>1, <3>2, LabelMirrors
  <2> QED
    BY <2>1, <2>2 DEF LongAndShortMirror
<1> QED
  BY <1>1, MarketInvariant, PTL

=============================================================================
