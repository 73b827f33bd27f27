---------------------------- MODULE MCGovernance ----------------------------
(* Instances for TLC of the stores of the reflections (those that read     *)
(* each other, and each of the others by itself) and of the commands that  *)
(* build the reflections.  These two look at the same pipeline apart, and  *)
(* a behaviour is about one of them.                                       *)
EXTENDS Governance, Reflections, TLC

CONSTANTS v1, v2

VARIABLE about

vars == <<governanceVars, reflectionVars, about>>

MCVersions == {v1, v2}
MCFamilies ==
  {{"PROPOSAL_TRANSITION", "PLAN"}, {"PROPOSAL_TRANSITION", "REVIEW", "AUTHORIZATION"},
   {"DAILY"}, {"WEEKLY"}, {"PATTERN_TRANSITION"}, {"PROPOSAL"}, {"RESULT"}, {"OPERATOR_DECISION"}}
MCMaxRecords ==
  [k \in Stores |-> CASE k \in Transitions -> 3 [] k = "PLAN" -> 1 [] OTHER -> 2]

(* Two weeks of two days with a winning trade on each; a loss on the first *)
(* day becomes known late, and turns its finding.                          *)
Trade(day, won) == [day |-> day, won |-> won]
MCEarly == {Trade(d, TRUE) : d \in 1..4}
MCFacts == MCEarly \cup {Trade(1, FALSE)}
MCRanges == [DAILY |-> {1..4, {1}}, WEEKLY |-> {1..2}, PROPOSAL |-> {1..2}]

(* One set of processes serves as writers and as builders.                 *)
MCSymmetry == Permutations(Writers)

Init ==
  /\ GovernanceInit /\ ReflectionInit
  /\ about \in {"STORES", "BUILDS"}
  /\ about # "STORES" => family = {"DAILY"}

Next ==
  \/ about = "STORES" /\ GovernanceNext /\ UNCHANGED <<reflectionVars, about>>
  \/ about = "BUILDS" /\ ReflectionNext /\ UNCHANGED <<governanceVars, about>>

Spec == Init /\ [][Next]_vars
=============================================================================
