---------------------------- MODULE MasterFusion ----------------------------
(***************************************************************************)
(* fuse_evidence: one proposal from the evidence of the specialists.       *)
(* Fractions are whole numbers of 1/One; the quotients the code compares   *)
(* with its thresholds are compared multiplied out, so nothing is rounded. *)
(* Evidence is [status, bias, ended, confidence, doubt, against]: doubt is *)
(* its uncertainty, against the opposing share of its own facts.           *)
(***************************************************************************)
EXTENDS Integers, FiniteSets, Functions

CONSTANTS Agents,   (* AGENT_ORDER                                         *)
          One       (* the unit of every fraction                          *)

ASSUME FusionAssumption == One \in Nat \ {0} /\ IsFiniteSet(Agents)

Statuses == {"READY", "DEGRADED", "ABSTAINED", "ERROR"}
Biases == {"BULLISH", "BEARISH", "NEUTRAL", "NONE"}

(* _contribution: the first reason not to be heard.                        *)
Disposition(e) ==
  CASE e.status = "ERROR" -> "ERROR"
    [] e.status = "ABSTAINED" -> "ABSTAINED"
    [] e.status \notin {"ERROR", "ABSTAINED"} /\ e.ended -> "TERMINAL"
    [] e.status \notin {"ERROR", "ABSTAINED"} /\ ~e.ended ->
         CASE e.bias \in {"NEUTRAL", "NONE"} -> "CONTEXT_ONLY"
           [] e.bias \notin {"NEUTRAL", "NONE"} /\ e.confidence = 0 -> "ZERO_CONFIDENCE"
           [] OTHER -> IF e.status = "DEGRADED" THEN "DEGRADED_CONTRIBUTION" ELSE "CONTRIBUTED"

Voices == {"CONTRIBUTED", "DEGRADED_CONTRIBUTION"}

(* The applied weight, in 1/One, and the effective strength, in 1/One^3.   *)
Weight(e, w, p) ==
  CASE Disposition(e) = "CONTRIBUTED" -> w * One
    [] Disposition(e) = "DEGRADED_CONTRIBUTION" -> w * p.degraded
    [] OTHER -> 0

Strength(e, w, p) == Weight(e, w, p) * e.confidence * (One - e.doubt)

(* A sum over the specialists of what each contributes.                    *)
Weighed(bundle, p) ==
  SumFunction([a \in Agents |-> Weight(bundle[a], p.weights[a], p)])

Side(bundle, p, bias) ==
  SumFunction([a \in Agents |->
                 IF bundle[a].bias = bias THEN Strength(bundle[a], p.weights[a], p) ELSE 0])

Doubted(bundle, p) ==
  SumFunction([a \in Agents |-> Weight(bundle[a], p.weights[a], p) * bundle[a].doubt])

Opposed(bundle, p) ==
  SumFunction([a \in Agents |-> Strength(bundle[a], p.weights[a], p) * bundle[a].against])

Ready(bundle) == Cardinality({a \in Agents : Disposition(bundle[a]) = "CONTRIBUTED"})

Greater(x, y) == IF x > y THEN x ELSE y

ActionableMutant(bundle, p) ==
  LET weight == Weighed(bundle, p)
      up     == Side(bundle, p, "BULLISH")
      down   == Side(bundle, p, "BEARISH")
      both   == up + down
      net    == up - down
      clean  == both * One - Opposed(bundle, p)
  IN /\ Ready(bundle) >= p.minReady
     /\ net >= p.minScore * One * weight
     /\ Doubted(bundle, p) <= p.maxDoubt * weight
     /\ Opposed(bundle, p) <= p.maxOpposed * both
     /\ (both - net) * One <= p.maxDisagreement * both
     /\ IF both = 0 THEN p.minConfidence = 0
        ELSE Greater(up, down) * net * clean >= p.minConfidence * weight * One * One * both * both

(* Nobody heard: no score, no confidence and every doubt.                  *)
Actionable(bundle, p) ==
  LET weight == Weighed(bundle, p)
      up     == Side(bundle, p, "BULLISH")
      down   == Side(bundle, p, "BEARISH")
      both   == up + down
      net    == Greater(up - down, down - up)
      clean  == both * One - Opposed(bundle, p)
  IN /\ Ready(bundle) >= p.minReady
     /\ net >= p.minScore * One * weight
     /\ Doubted(bundle, p) <= p.maxDoubt * weight
     /\ Opposed(bundle, p) <= p.maxOpposed * both
     /\ (both - net) * One <= p.maxDisagreement * both
     /\ IF both = 0 THEN p.minConfidence = 0
        ELSE Greater(up, down) * net * clean >= p.minConfidence * weight * One * One * both * both

(* MasterProposal.validate_and_bind_identity: the contributions it audits  *)
(* against those that were given weight.  Refused, fuse_evidence raises.   *)
ProposalValid(bundle, p) ==
  {a \in Agents : Weight(bundle[a], p.weights[a], p) > 0}
    = {a \in Agents : Disposition(bundle[a]) \in Voices}

Decision(bundle, p) ==
  IF ~ProposalValid(bundle, p) THEN "REFUSED"
  ELSE IF ~Actionable(bundle, p) THEN "HOLD"
  ELSE IF Side(bundle, p, "BULLISH") > Side(bundle, p, "BEARISH") THEN "BUY" ELSE "SELL"

=============================================================================
