--------------------------- MODULE ResearchInputs ---------------------------
(***************************************************************************)
(* The two parts of the research pipeline that only compute, fuse_evidence *)
(* and the splits of a dataset, each on any one input their own validation *)
(* lets through: a bundle of evidence and a policy, or rows and the        *)
(* policies of their splits.                                               *)
(***************************************************************************)
EXTENDS DatasetSplits, MasterFusion, Sequences

CONSTANT Inputs

VARIABLE sample

(* AgentEvidence and FusionPolicy: fractions, at least one specialist that *)
(* must be ready, no weight of zero.                                       *)
Evidence ==
  [status : Statuses, bias : Biases, ended : BOOLEAN,
   confidence : 0..One, doubt : 0..One, against : 0..One]

FusionPolicies ==
  [weights : [Agents -> Nat \ {0}], degraded : 0..One, minReady : Nat \ {0},
   minScore : 0..One, minConfidence : 0..One,
   maxDoubt : 0..One, maxOpposed : 0..One, maxDisagreement : 0..One]

FusionInputs ==
  [kind : {"FUSION"}, bundle : [Agents -> Evidence], policy : FusionPolicies]

(* SplitPolicy and the arguments of the walk-forward.                      *)
ChronologicalPolicies ==
  [horizon : Nat, purge : Nat, embargo : Nat, train : Nat, validation : Nat]

DevelopmentPolicies ==
  [horizon : Nat, purge : Nat, embargo : Nat, train : Nat, validation : Nat,
   mode : {"EXPANDING", "ROLLING"}, oos : Nat, step : Nat, folds : Nat]

(* The candles of a dataset's rows: one each, in the order of time.        *)
Rising(times, rows) ==
  /\ times \in [0..(rows - 1) -> Int]
  /\ \A i \in 0..(rows - 2) : times[i] < times[i + 1]

(* The rows are numbered from 0.                                           *)
Times(bars) == [i \in 0..(Len(bars) - 1) |-> bars[i + 1]]

ASSUME InputsAssumption ==
  \A input \in Inputs :
    /\ input.kind = "FUSION" => input \in FusionInputs
    /\ input.kind = "CHRONOLOGICAL" =>
         /\ input.policy \in ChronologicalPolicies
         /\ Len(input.bars) \in Nat /\ Rising(Times(input.bars), Len(input.bars))
    /\ input.kind = "DEVELOPMENT" =>
         /\ input.policy \in DevelopmentPolicies
         /\ Len(input.bars) \in Nat /\ Rising(Times(input.bars), Len(input.bars))
         /\ input.final \in 0..Len(input.bars)

SampleInit == sample \in Inputs

SampleSpec == SampleInit /\ [][UNCHANGED sample]_sample

-----------------------------------------------------------------------------
(* Splits: the label of an earlier split's row is decided before the first *)
(* candle of a later split's row, whatever rows were dropped.              *)
SplitsKeepLabelsApart ==
  /\ sample.kind = "CHRONOLOGICAL" =>
       LabelsApart(ChronologicalFolds(Len(sample.bars), sample.policy),
                   Times(sample.bars), sample.policy.horizon)
  /\ sample.kind = "DEVELOPMENT" =>
       LabelsApart(DevelopmentFolds(sample.final, sample.policy),
                   Times(sample.bars), sample.policy.horizon)

(* Fusion: bulls and bears exchanged, the decision is the opposite one (an *)
(* exact tie that every threshold lets through excepted: it is a SELL), and *)
(* a bundle the proposal's validation refuses is refused either way round. *)
Opposing(bias) ==
  CASE bias = "BULLISH" -> "BEARISH" [] bias = "BEARISH" -> "BULLISH" [] OTHER -> bias

Mirrored(bundle) == [a \in Agents |-> [bundle[a] EXCEPT !.bias = Opposing(@)]]

Fair(bundle, p) ==
  LET decision == Decision(bundle, p)
      mirrored == Decision(Mirrored(bundle), p)
      tie      == Side(bundle, p, "BULLISH") = Side(bundle, p, "BEARISH")
  IN IF tie THEN mirrored = decision /\ (p.minScore > 0 => decision \in {"HOLD", "REFUSED"})
     ELSE <<decision, mirrored>>
            \in {<<"BUY", "SELL">>, <<"SELL", "BUY">>, <<"HOLD", "HOLD">>, <<"REFUSED", "REFUSED">>}

NoSideIsFavoured ==
  sample.kind = "FUSION" => Fair(sample.bundle, sample.policy)

=============================================================================
