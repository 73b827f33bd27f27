----------------------------- MODULE MCResearch -----------------------------
(* The offline commands for TLC: the parts of the research pipeline, the    *)
(* fusion of its evidence, and the services that execute what reflection    *)
(* has proposed.  They share no state: a behaviour is about one of them, or *)
(* about one input of the two that only compute.                            *)
EXTENDS MarketData, ResearchInputs, QuantRuns, GovernedExecution, SequencesExt

CONSTANTS e1, e2, e3, m1, m2, p1, p2, p3, r1, r2, o1, o2, k1, k2

VARIABLE about

vars == <<history, dataset, runVars, sample, executionVars, about>>

(* Candles: up, down, and one wide enough to touch both barriers.           *)
MCShapes == {[high |-> 3, low |-> 1, close |-> 2], [high |-> 4, low |-> 2, close |-> 4],
             [high |-> 2, low |-> 0, close |-> 0]}
MCBarriers == [horizon |-> 2, upper |-> 1, lower |-> 1, side |-> "LONG", collision |-> "PESSIMISTIC"]

MCSuite == <<e1, e2, e3>>
MCModelOf == e1 :> m1 @@ e2 :> m2 @@ e3 :> m1

(* Ten rows left of twelve candles.                                         *)
RowBars ==
  {SelectSeq([i \in 1..12 |-> i], LAMBDA bar : bar \notin dropped) : dropped \in kSubset(2, 1..12)}

Gaps == [horizon : 1..2, purge : 0..3, embargo : 0..1]
SplitSamples ==
  {[kind |-> "CHRONOLOGICAL", bars |-> bars,
    policy |-> g @@ [train |-> t, validation |-> v]] :
     bars \in RowBars, g \in Gaps, t \in {4, 5}, v \in {3, 4}}
  \cup
  {[kind |-> "DEVELOPMENT", bars |-> bars, final |-> 9,
    policy |-> g @@ [mode |-> mode, train |-> 3, validation |-> v, oos |-> 2, step |-> 1,
                     folds |-> folds]] :
     bars \in RowBars, g \in Gaps, mode \in {"EXPANDING", "ROLLING"}, v \in {3, 4}, folds \in 0..1}

MCEvidence ==
  [status : {"READY", "DEGRADED"}, bias : {"BULLISH", "BEARISH", "NEUTRAL"}, ended : BOOLEAN,
   confidence : {0, 2, 4}, doubt : {0, 2}, against : {0, 2}]
MCPolicies ==
  {[weights |-> w, degraded |-> g, minReady |-> 1, minScore |-> s, minConfidence |-> c,
    maxDoubt |-> 2, maxOpposed |-> 2, maxDisagreement |-> d] :
     w \in {[a |-> 1, b |-> 1], [a |-> 2, b |-> 1]},
     s \in {0, 1}, c \in {0, 1}, d \in {2, 4}, g \in {0, 2}}
Plain == {e \in MCEvidence : e.status = "READY" /\ ~e.ended /\ e.confidence > 0 /\ e.doubt = 0}
FusionSamples ==
  [kind : {"FUSION"}, bundle : [a : MCEvidence, b : Plain], policy : MCPolicies]

None == [kind |-> "NONE"]

MCInputs == {None} \cup SplitSamples \cup FusionSamples

(* Two processes for one request and a third for another, with and without  *)
(* a run key in common, and engines that are deterministic or not.          *)
MCRequestOf == p1 :> r1 @@ p2 :> r1 @@ p3 :> r2
MCRunKeys == {r1 :> k1 @@ r2 :> k1, r1 :> k1 @@ r2 :> k2}
MCEngines == {r1 :> {o1} @@ r2 :> {o2}, r1 :> {o1, o2} @@ r2 :> {o1}}

(* Only an evaluation looks at the run key.                                 *)
Init ==
  /\ about \in {"MARKET", "INPUTS", "RUNS", "EXECUTIONS"}
  /\ MarketInit
  /\ IF about = "INPUTS" THEN SampleInit ELSE sample = None
  /\ RunsInit /\ (about = "RUNS" \/ command = NoCommand)
  /\ ExecutionInit
  /\ about # "EXECUTIONS" => service = "PAIRED" /\ setting.engine = CHOOSE e \in Engines : TRUE
  /\ service # "EVALUATION" => setting.runKey = CHOOSE k \in RunKeys : TRUE

Next ==
  \/ about = "MARKET" /\ MarketNext /\ UNCHANGED <<runVars, sample, executionVars, about>>
  \/ about = "RUNS" /\ RunsNext /\ UNCHANGED <<marketVars, sample, executionVars, about>>
  \/ about = "EXECUTIONS" /\ ExecutionNext /\ UNCHANGED <<marketVars, sample, runVars, about>>

(* ExecutionFairness, of the behaviours that execute anything.              *)
Fairness ==
  /\ RunsFairness
  /\ \A p \in Processes :
       WF_executionVars(about = "EXECUTIONS" /\ Ask(p)) /\ WF_executionVars(ServiceStep(p))

Spec == Init /\ [][Next]_vars /\ Fairness
=============================================================================
