----------------------------- MODULE QuantRuns ------------------------------
(***************************************************************************)
(* Training runs and the experiments, suites and walk-forward folds over   *)
(* them.  What they have done is told by files: the model's directory      *)
(* (complete once its manifest is written), the registry, the tracker's    *)
(* row, an experiment's status and its development manifest, the suite's   *)
(* summary.  One command runs at a time.  It may raise or die between any  *)
(* two of its writes, and the operator starts it again.  The registry is   *)
(* one file for all models, and the one that is not replaced as a whole but*)
(* truncated and written anew: what fails in it takes the others' entries  *)
(* along.  Two writers at once are outside what the registry is made for   *)
(* (docs/project_status.md:302).                                           *)
(*                                                                         *)
(* A model's identity is its training configuration: experiments that      *)
(* differ in their evaluation share the model.  A manifest torn half way   *)
(* is a directory without one: either way the next run raises.  The        *)
(* suite's own status.json is written and never read: left out.            *)
(***************************************************************************)
EXTENDS Integers, Sequences

CONSTANTS
  Models,
  Suite,        (* SuiteConfig.experiments                                  *)
  ModelOf,      (* experiment -> model                                      *)
  FoldCount,    (* the folds of the walk-forward manifest                   *)
  MaxFaults     (* bound: commands that raised for want of disk, or died    *)

Experiments == {Suite[i] : i \in DOMAIN Suite}
Folds == 1..FoldCount

ASSUME RunsAssumption ==
  /\ Suite \in Seq(Experiments)
  /\ ModelOf \in [Experiments -> Models]
  /\ FoldCount \in Nat /\ MaxFaults \in Nat
  /\ Experiments \cap Folds = {}

VARIABLES
  command,    (* what the operator runs: [name, resume, goesOn]             *)
  run,        (* the process: [at, left, rows]                              *)
  dir,        (* model -> its directory                                     *)
  registry,   (* model -> its state in registry.json                        *)
  garbled,    (* registry.json was cut off while it was written             *)
  tracker,    (* model -> its row in quant_runs                             *)
  status,     (* experiment, fold -> status.json                            *)
  report,     (* experiment, fold -> development.manifest, fold_summary?    *)
  summary,    (* experiment -> its row in the suite's summary               *)
  judged,     (* walk_forward_summary.json?                                 *)
  faults

registryFile == <<registry, garbled>>
runVars == <<command, run, dir, registryFile, tracker, status, report, summary, judged, faults>>

Tasks == Experiments \cup Folds

Idle == [at |-> "IDLE", left |-> <<>>, rows |-> [e \in Experiments |-> "NONE"]]

NoCommand == [name |-> "NONE"]

RunsInit ==
  /\ command \in [name : {"SUITE"}, resume : BOOLEAN, goesOn : BOOLEAN]
                   \cup {[name |-> "WALK_FORWARD", resume |-> TRUE, goesOn |-> FALSE], NoCommand}
  /\ run = Idle
  /\ dir = [m \in Models |-> "ABSENT"]
  /\ registry = [m \in Models |-> "NONE"] /\ garbled = FALSE
  /\ tracker = [m \in Models |-> "NONE"]
  /\ status = [t \in Tasks |-> "NONE"]
  /\ report = [t \in Tasks |-> FALSE]
  /\ summary = [e \in Experiments |-> "NONE"]
  /\ judged = FALSE
  /\ faults = 0

Task  == Head(run.left)
Model == ModelOf[Task]
Done  == {"COMPLETE", "SKIPPED_COMPLETE"}

Goto(at) == run' = [run EXCEPT !.at = at]

(* The task at hand has its row; a failed one may end the command.         *)
After(row) ==
  LET stop == row = "FAILED" /\ ~command.goesOn
  IN run' = [at   |-> "NEXT",
             left |-> IF stop THEN <<>> ELSE Tail(run.left),
             rows |-> IF Task \in Experiments THEN [run.rows EXCEPT ![Task] = row]
                      ELSE run.rows]

-----------------------------------------------------------------------------
(* run_suite, run_walk_forward.                                            *)
Start ==
  /\ command # NoCommand /\ run.at = "IDLE"
  /\ run' = [Idle EXCEPT !.at = "NEXT",
                         !.left = IF command.name = "SUITE" THEN Suite
                                  ELSE [k \in Folds |-> k]]
  /\ UNCHANGED <<command, dir, registryFile, tracker, status, report, summary, judged, faults>>

(* What the summary has as complete is not run again; an experiment that   *)
(* published its manifest returns it, whatever its status says; a fold is  *)
(* taken as it is when its status and its summary are complete.            *)
Skip ==
  /\ run.at = "NEXT" /\ run.left # <<>>
  /\ IF Task \in Folds THEN status[Task] = "COMPLETE" /\ report[Task]
     ELSE (command.resume /\ summary[Task] \in Done) \/ report[Task]
  /\ After(IF Task \in Experiments /\ command.resume /\ summary[Task] \in Done
           THEN "SKIPPED_COMPLETE" ELSE "COMPLETE")
  /\ UNCHANGED <<command, dir, registryFile, tracker, status, report, summary, judged, faults>>

Begin ==
  /\ run.at = "NEXT" /\ run.left # <<>>
  /\ IF Task \in Folds THEN ~(status[Task] = "COMPLETE" /\ report[Task])
     ELSE ~report[Task] /\ ~(command.resume /\ summary[Task] \in Done)
  /\ status' = [status EXCEPT ![Task] = "RUNNING"]
  /\ Goto(IF Task \in Folds THEN "REPORT" ELSE "TRAIN")
  /\ UNCHANGED <<command, dir, registryFile, tracker, report, summary, judged, faults>>

(* An exception reaches the tracker from inside train_quant_model's try,   *)
(* the experiment's or the fold's status, and the suite's row; a           *)
(* walk-forward passes it on.                                              *)
Fail ==
  /\ tracker' = IF run.at \in {"ARTIFACTS", "REGISTER", "FINISH"}
                THEN [tracker EXCEPT ![Model] = "FAILED"] ELSE tracker
  /\ status' = [status EXCEPT ![Task] = "FAILED"]
  /\ IF Task \in Folds THEN run' = Idle ELSE After("FAILED")
  /\ UNCHANGED <<command, dir, report, summary, judged>>

-----------------------------------------------------------------------------
(* train_quant_model: a directory with a manifest is the run, one without  *)
(* is somebody's half.                                                     *)
TrainMutant ==
  /\ run.at = "TRAIN"
  /\ \/ /\ dir[Model] # "ABSENT"
        /\ Fail
        /\ UNCHANGED <<registryFile, faults>>
     \/ /\ dir[Model] = "ABSENT"
        /\ dir' = [dir EXCEPT ![Model] = "PARTIAL"]
        /\ Goto("TRACK")
        /\ UNCHANGED <<command, registryFile, tracker, status, report, summary, judged, faults>>

TrainOverPartial ==
  /\ run.at = "TRAIN"
  /\ \/ /\ dir[Model] # "ABSENT"
        /\ Goto("REPORT")
        /\ UNCHANGED <<command, dir, registryFile, tracker, status, report, summary, judged, faults>>
     \/ /\ dir[Model] = "ABSENT"
        /\ dir' = [dir EXCEPT ![Model] = "PARTIAL"]
        /\ Goto("TRACK")
        /\ UNCHANGED <<command, registryFile, tracker, status, report, summary, judged, faults>>

Train ==
  /\ run.at = "TRAIN"
  /\ \/ /\ dir[Model] = "PARTIAL"
        /\ Fail
        /\ UNCHANGED <<registryFile, faults>>
     \/ /\ dir[Model] = "COMPLETE"
        /\ Goto("REPORT")
        /\ UNCHANGED <<command, dir, registryFile, tracker, status, report, summary, judged, faults>>
     \/ /\ dir[Model] = "ABSENT"
        /\ dir' = [dir EXCEPT ![Model] = "PARTIAL"]
        /\ Goto("TRACK")
        /\ UNCHANGED <<command, registryFile, tracker, status, report, summary, judged, faults>>

Track ==
  /\ run.at = "TRACK"
  /\ tracker' = [tracker EXCEPT ![Model] = "RUNNING"]
  /\ Goto("ARTIFACTS")
  /\ UNCHANGED <<command, dir, registryFile, status, report, summary, judged, faults>>

(* The artifacts, and at their end the manifest.                           *)
Artifacts ==
  /\ run.at = "ARTIFACTS"
  /\ dir' = [dir EXCEPT ![Model] = "COMPLETE"]
  /\ Goto("REGISTER")
  /\ UNCHANGED <<command, registryFile, tracker, status, report, summary, judged, faults>>

(* LocalModelRegistry.register reads all entries, which a garbled file does*)
(* not have, and writes them back with one more.                           *)
Register ==
  /\ run.at = "REGISTER"
  /\ \/ /\ garbled
        /\ Fail
        /\ UNCHANGED <<registryFile, faults>>
     \/ /\ ~garbled
        /\ registry' = [registry EXCEPT ![Model] = IF @ = "NONE" THEN "CANDIDATE" ELSE @]
        /\ Goto("FINISH")
        /\ UNCHANGED <<command, dir, garbled, tracker, status, report, summary, judged, faults>>

Finish ==
  /\ run.at = "FINISH"
  /\ tracker' = [tracker EXCEPT ![Model] = "COMPLETE"]
  /\ Goto("REPORT")
  /\ UNCHANGED <<command, dir, registryFile, status, report, summary, judged, faults>>

-----------------------------------------------------------------------------
(* run_experiment's reports, the manifest last; a fold's summary.          *)
Report ==
  /\ run.at = "REPORT"
  /\ report' = [report EXCEPT ![Task] = TRUE]
  /\ Goto("CLOSE")
  /\ UNCHANGED <<command, dir, registryFile, tracker, status, summary, judged, faults>>

Close ==
  /\ run.at = "CLOSE"
  /\ status' = [status EXCEPT ![Task] = "COMPLETE"]
  /\ After("COMPLETE")
  /\ UNCHANGED <<command, dir, registryFile, tracker, report, summary, judged, faults>>

End ==
  /\ run.at = "NEXT" /\ run.left = <<>>
  /\ run' = Idle
  /\ IF command.name = "SUITE" THEN summary' = run.rows /\ UNCHANGED judged
     ELSE judged' = TRUE /\ UNCHANGED summary
  /\ UNCHANGED <<command, dir, registryFile, tracker, status, report, faults>>

(* _write: write_text truncates the file before it writes.                 *)
CutOff ==
  /\ ~garbled /\ garbled' = TRUE
  /\ registry' = [m \in Models |-> "NONE"]

Fault ==
  /\ faults < MaxFaults
  /\ faults' = faults + 1
  /\ \/ UNCHANGED registryFile
     \/ run.at = "REGISTER" /\ registry[Model] = "NONE" /\ CutOff

Raise ==
  /\ run.at \in {"TRAIN", "TRACK", "ARTIFACTS", "REGISTER", "FINISH", "REPORT", "CLOSE"}
  /\ Fault
  /\ Fail

Crash ==
  /\ run.at # "IDLE"
  /\ Fault
  /\ run' = Idle
  /\ UNCHANGED <<command, dir, tracker, status, report, summary, judged>>

NextStates ==
  [CANDIDATE |-> {"CHALLENGER", "RETIRED"}, CHALLENGER |-> {"CHAMPION", "RETIRED"},
   CHAMPION |-> {"RETIRED"}, RETIRED |-> {}]

(* LocalModelRegistry.transition, by hand between two commands; the same   *)
(* read of all entries, and the same write.                                *)
Transition ==
  /\ run.at = "IDLE" /\ ~garbled
  /\ \E m \in {n \in Models : registry[n] # "NONE"} :
       \E to \in NextStates[registry[m]] :
         /\ to = "CHAMPION" => \A n \in Models \ {m} : registry[n] # "CHAMPION"
         /\ \/ registry' = [registry EXCEPT ![m] = to] /\ UNCHANGED <<garbled, faults>>
            \/ faults < MaxFaults /\ faults' = faults + 1 /\ CutOff
  /\ UNCHANGED <<command, run, dir, tracker, status, report, summary, judged>>

Progress ==
  \/ Skip \/ Begin \/ Train \/ Track \/ Artifacts \/ Register \/ Finish
  \/ Report \/ Close \/ End

RunsNext == Start \/ Progress \/ Raise \/ Crash \/ Transition

RunsSpec == RunsInit /\ [][RunsNext]_runVars

(* A command that runs goes on; the operator starts it again until all of  *)
(* it is done.                                                             *)
Finished ==
  CASE command = NoCommand -> TRUE
    [] command.name = "SUITE" -> \A e \in Experiments : summary[e] \in Done
    [] OTHER -> judged

RunsFairness == WF_runVars(Progress) /\ WF_runVars(Start /\ ~Finished)

-----------------------------------------------------------------------------
(* What is told to be there is there, whatever raised or died in between:  *)
(* the registry names complete models, a tracker that completed has a      *)
(* complete model that the registry names unless it lost all it named, an  *)
(* experiment's report rests on its model, its status and the suite's      *)
(* summary on its report, the walk-forward's on every fold.                *)
ReportsRestOnArtifacts ==
  /\ \A m \in Models :
       /\ (registry[m] # "NONE" \/ tracker[m] = "COMPLETE") => dir[m] = "COMPLETE"
       /\ tracker[m] = "COMPLETE" => registry[m] # "NONE" \/ garbled
  /\ \A e \in Experiments :
       /\ report[e] => dir[ModelOf[e]] = "COMPLETE"
       /\ (status[e] = "COMPLETE" \/ summary[e] \in Done) => report[e]
  /\ judged => \A k \in Folds : status[k] = "COMPLETE" /\ report[k]

(* docs/model_registry.md:3: "New runs register as CANDIDATE".  Then the    *)
(* model of a finished experiment is in the registry.  It is false: what   *)
(* fails in the registration leaves a complete directory, and the rerun    *)
(* takes that for the run and registers nothing (trainer.py:226-234).      *)
FinishedIsRegistered ==
  \A e \in Experiments : report[e] => registry[ModelOf[e]] # "NONE"

(* Commands are resumable: run again often enough, all of it is done.  The *)
(* exception is a model directory left without its manifest: it fails its  *)
(* experiments for good and, where a failure ends the suite, those after.  *)
Torn == {i \in DOMAIN Suite : dir[ModelOf[Suite[i]]] = "PARTIAL"}

Settles ==
  <>[](Finished \/ (/\ command.name = "SUITE"
                    /\ \A i \in DOMAIN Suite :
                         \/ summary[Suite[i]] \in Done
                         \/ i \in Torn
                         \/ ~command.goesOn /\ \E j \in Torn : j < i))

=============================================================================
