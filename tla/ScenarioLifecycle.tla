------------------------- MODULE ScenarioLifecycle -------------------------
(***************************************************************************)
(* The chart specialist's hypothesis and the trading thesis built on it.   *)
(* EvidenceKernel keeps the specialist's memory; RuntimeStreamRunner keeps *)
(* the thesis, with a second copy of that memory inside it.  Every bar the *)
(* kernel observes first and commits, then update_scenario may still       *)
(* refuse: the two copies are written by different rules and only agree    *)
(* as long as nothing is refused, dropped or torn in between.              *)
(*                                                                         *)
(* A bar is its kind and its distance from the last one; confidence is     *)
(* whether it reaches 0.7 and which way it moved; the other specialists    *)
(* are left out, since the thesis is made from the chart's evidence only.  *)
(***************************************************************************)
EXTENDS Integers

CONSTANTS
  Kinds,          (* the market events fed: a subset of {"M5", "INTRABAR"} *)
  TTL, MaxBars,   (* ScenarioPolicy: ttl_seconds and max_m5_bars           *)
  TerminalFacts,  (* the closing facts tools report                        *)
  MaxGap, MaxTime, MaxCrashes              (* bounds of the search         *)

ASSUME PolicyAssumption == TTL \in Nat \ {0} /\ MaxBars \in Nat \ {0}

(* Tools close a hypothesis in one of the two terminal states.             *)
ASSUME FactsAssumption == TerminalFacts \subseteq {"INVALIDATED", "EXPIRED"} /\ MaxCrashes \in Nat

VARIABLES
  now,       (* available_at of the last bar                               *)
  memory,    (* kernel._memories["chart"]                                  *)
  thesis,    (* runner._thesis, and the last thesis record of the journal  *)
  recorded,  (* the chart's last memory record of the journal              *)
  outcome,   (* what the journal says of the last bar                      *)
  last,      (* the last bar and the evidence drawn from it                *)
  closed,    (* ghost: the theses seen invalidated or expired              *)
  causes,    (* ghost: why the two memories may differ since this thesis   *)
  crashes

lifecycleVars == <<now, memory, thesis, recorded, outcome, last, closed, causes, crashes>>

Directional == {"bullish_continuation", "bearish_continuation"}
Hypotheses == Directional \cup {"structure_unclear"}

(* _identity hashes hypothesis and direction: the hypothesis of an         *)
(* abstention without memory is told apart by its missing direction.       *)
HypothesisIds == Hypotheses \cup {"unavailable"}

Terminal == {"INVALIDATED", "EXPIRED"}
Continuing == {"DEVELOPING", "ACTIVE", "CONFIRMED", "WEAKENING"}
Statuses == Continuing \cup Terminal \cup {"ABSTAINED"}

NoMemory == [status |-> "NONE"]
NoThesis == [id |-> 0]

AllowedTransitions ==
  [s \in Statuses |->
    CASE s = "DEVELOPING" -> Statuses
      [] s = "ACTIVE"     -> {"ACTIVE", "CONFIRMED", "WEAKENING"} \cup Terminal
      [] s = "CONFIRMED"  -> {"CONFIRMED", "WEAKENING"} \cup Terminal
      [] s = "WEAKENING"  -> {"WEAKENING", "ACTIVE", "CONFIRMED"} \cup Terminal
      [] s \in Terminal   -> {s}
      [] s = "ABSTAINED"  -> {"ABSTAINED", "DEVELOPING"}]

(* transition_memory: what it accepts, and what it makes of the evidence.  *)
Accepts(old, ev) ==
  CASE old = NoMemory -> ev.rel = "NEW"
    [] old # NoMemory /\ ev.rel = "NEW" ->
         old.status \in Terminal \cup {"ABSTAINED"} /\ ev.hyp # old.hyp
    [] old # NoMemory /\ ev.rel = "REVERSED" -> ev.prev = old.hyp
    [] OTHER -> ev.prev = old.hyp /\ ev.status \in AllowedTransitions[old.status]

Remember(ev) == [hyp |-> ev.hyp, status |-> ev.status]

-----------------------------------------------------------------------------
(* ChartAgent.interpret: only facts pointing the hypothesis's way support  *)
(* it; "structure_unclear" counts the upward ones.                         *)
Supporting(hyp) ==
  {"m5_structure_bias",
   IF hyp = "bearish_continuation" THEN "structure_bos_down" ELSE "structure_bos_up"}

(* _relationship: the bar against the memory it finds.                     *)
Relationship(hyp, high, drift) ==
  CASE memory = NoMemory -> "NEW"
    [] memory # NoMemory /\ hyp # memory.hyp -> "REVERSED"
    [] OTHER -> CASE drift > 0 -> "STRENGTHENED"
                  [] drift < 0 \/ (drift = 0 /\ memory.status = "CONFIRMED" /\ ~high) -> "WEAKENED"
                  [] OTHER -> "UNCHANGED"

LifecycleOf(rel, high) ==
  CASE rel \in {"NEW", "REVERSED"} -> "DEVELOPING"
    [] rel = "WEAKENED" -> "WEAKENING"
    [] OTHER -> IF high THEN "CONFIRMED" ELSE "ACTIVE"

Previous(rel) == IF rel = "NEW" THEN "none" ELSE memory.hyp

(* Usable tools: a hypothesis with the facts for it.  A mixed structure is *)
(* degraded evidence, whose confidence is capped at one half; confidence   *)
(* that was high when the memory was confirmed cannot have risen to low.   *)
Readings ==
  {r \in [hyp : Hypotheses, high : BOOLEAN, drift : {-1, 0, 1}] :
     /\ r.high => r.hyp \in Directional
     /\ memory # NoMemory /\ memory.status = "CONFIRMED" /\ r.drift > 0 => r.high}

Interpret(r, facts) ==
  LET rel == Relationship(r.hyp, r.high, r.drift)
  IN [kind |-> "usable", hyp |-> r.hyp, rel |-> rel, status |-> LifecycleOf(rel, r.high),
      prev |-> Previous(rel), supports |-> facts]

Interpretations ==
  UNION {{Interpret(r, facts) : facts \in SUBSET Supporting(r.hyp)} : r \in Readings}

(* _abstain: no usable tool.                                               *)
Abstention ==
  [kind |-> "abstained",
   hyp |-> IF memory = NoMemory THEN "unavailable" ELSE memory.hyp,
   rel |-> IF memory = NoMemory THEN "NEW" ELSE "WEAKENED",
   status |-> "ABSTAINED",
   prev |-> IF memory = NoMemory THEN "none" ELSE memory.hyp,
   supports |-> {}]

(* _terminate: a tool reports the end of the remembered hypothesis.        *)
Terminations ==
  IF memory = NoMemory THEN {}
  ELSE {[kind |-> "terminal", hyp |-> memory.hyp, rel |-> s, status |-> s,
         prev |-> memory.hyp, supports |-> {}] : s \in TerminalFacts}

Evidence == Interpretations \cup Terminations \cup {Abstention}

(* What the kernel commits before the thesis is looked at: an abstention   *)
(* leaves an existing memory as it was.                                    *)
Observed(ev) ==
  IF ev.kind = "abstained" /\ memory # NoMemory THEN memory ELSE Remember(ev)

KernelRefuses(ev) == ev.kind # "abstained" /\ ~Accepts(memory, ev)

-----------------------------------------------------------------------------
(* _scenario_transition defines one scenario, for the direction of the     *)
(* evidence that creates the thesis.                                       *)
InvalidationFact(hyp) ==
  IF hyp = "bullish_continuation" THEN "structure_bos_down" ELSE "structure_bos_up"

(* _create_thesis                                                          *)
Create(ev, at) ==
  [id |-> (IF thesis = NoThesis THEN 0 ELSE thesis.id) + 1,
   hyp |-> ev.hyp, status |-> ev.status, memory |-> Remember(ev),
   bars |-> 1, updated |-> at, expires |-> at + TTL,
   eligible |-> "WATCHING", scenario |-> "WATCHING", matched |-> FALSE,
   against |-> InvalidationFact(ev.hyp)]

(* _terminal_state: the memory inside the thesis is not touched.           *)
Close(t, status, at) ==
  [t EXCEPT !.status = status, !.eligible = status, !.scenario = status,
            !.updated = IF at < t.expires THEN at ELSE t.expires]

(* _updated_scenarios                                                      *)
ScenarioAfter(t, ev, matched) ==
  CASE t.against \in ev.supports -> "INVALIDATED"
    [] t.against \notin ev.supports /\ matched /\ ev.status = "CONFIRMED" -> "CONFIRMED"
    [] OTHER -> IF ev.rel \in {"STRENGTHENED", "WEAKENED"} THEN ev.rel ELSE "WATCHING"

Matched(t, ev) == t.matched \/ "m5_structure_bias" \in ev.supports

ContinueMutant(t, ev, kind, at) ==
  LET scenario == ScenarioAfter(t, ev, Matched(t, ev))
      updated  == [t EXCEPT !.status = ev.status, !.memory = Remember(ev),
                     !.bars = @ + (IF kind = "M5" THEN 1 ELSE 0), !.updated = at,
                     !.matched = Matched(t, ev), !.scenario = scenario,
                     !.eligible = IF scenario = "CONFIRMED" THEN "ELIGIBLE" ELSE "WATCHING"]
  IN IF updated.bars = MaxBars + 1 THEN Close(updated, "EXPIRED", at) ELSE updated

ContinueForgets(t, ev, kind, at) ==
  LET scenario == ScenarioAfter(t, ev, Matched(t, ev))
      updated  == [t EXCEPT !.status = ev.status,
                     !.bars = @ + (IF kind = "M5" THEN 1 ELSE 0), !.updated = at,
                     !.matched = Matched(t, ev), !.scenario = scenario,
                     !.eligible = IF scenario = "CONFIRMED" THEN "ELIGIBLE" ELSE "WATCHING"]
  IN IF updated.bars > MaxBars THEN Close(updated, "EXPIRED", at) ELSE updated

Continue(t, ev, kind, at) ==
  LET scenario == ScenarioAfter(t, ev, Matched(t, ev))
      updated  == [t EXCEPT !.status = ev.status, !.memory = Remember(ev),
                     !.bars = @ + (IF kind = "M5" THEN 1 ELSE 0), !.updated = at,
                     !.matched = Matched(t, ev), !.scenario = scenario,
                     !.eligible = IF scenario = "CONFIRMED" THEN "ELIGIBLE" ELSE "WATCHING"]
  IN IF updated.bars > MaxBars THEN Close(updated, "EXPIRED", at) ELSE updated

Expired(at) == at >= thesis.expires

(* The M5 evidence that may replace the thesis in hand, and what of the    *)
(* thesis's memory the successor inherits.                                 *)
Reverses(kind, ev) == kind = "M5" /\ ev.rel = "REVERSED"

Renews(kind, ev, at) ==
  kind = "M5" /\ ev.rel = "NEW" /\ (thesis.status \in Terminal \/ Expired(at))

RollsOver(kind, ev) ==
  /\ kind = "M5" /\ thesis.status = "EXPIRED"
  /\ ev.kind = "usable" /\ ev.status \in Continuing
  /\ ev.rel \in {"UNCHANGED", "STRENGTHENED", "WEAKENED"}
  /\ ev.hyp = thesis.hyp

Inherited(kind, ev, at) ==
  IF Renews(kind, ev, at) /\ thesis.memory.status \notin Terminal
  THEN NoMemory ELSE thesis.memory

Succeeds(kind, ev, at) ==
  Reverses(kind, ev) \/ Renews(kind, ev, at) \/ RollsOver(kind, ev)

(* update_scenario, over an existing thesis: the thesis after the bar, or  *)
(* the refusal of it.                                                      *)
Refused == [id |-> -1]

WithThesis(kind, ev, at) ==
  CASE Succeeds(kind, ev, at) ->
         IF (Reverses(kind, ev) => ev.prev = thesis.hyp)
              /\ (Renews(kind, ev, at) => ev.hyp # thesis.hyp)
              /\ Accepts(Inherited(kind, ev, at), ev)
         THEN Create(ev, at) ELSE Refused
    [] ~Succeeds(kind, ev, at) /\ thesis.status \in Terminal /\ kind # "M5" -> thesis
    [] ~Succeeds(kind, ev, at) /\ ~(thesis.status \in Terminal /\ kind # "M5")
         /\ Expired(at) -> Close(thesis, "EXPIRED", at)
    [] OTHER ->
         IF ev.hyp # thesis.hyp \/ ev.prev # thesis.hyp \/ ~Accepts(thesis.memory, ev)
         THEN Refused
         ELSE IF ev.status \in Terminal
              THEN [Close(thesis, ev.status, at) EXCEPT !.memory = Remember(ev)]
              ELSE Continue(thesis, ev, kind, at)

UpdateScenario(kind, ev, at) ==
  CASE thesis # NoThesis -> WithThesis(kind, ev, at)
    [] thesis = NoThesis /\ kind # "M5" -> NoThesis
    [] OTHER -> IF ev.rel = "NEW" THEN Create(ev, at) ELSE Refused

-----------------------------------------------------------------------------
Init ==
  /\ now = 0
  /\ memory = NoMemory /\ thesis = NoThesis
  /\ recorded = NoMemory
  /\ outcome = "none" /\ last = "none"
  /\ closed = {} /\ causes = {} /\ crashes = 0

Created(t) == t # NoThesis /\ t.id > (IF thesis = NoThesis THEN 0 ELSE thesis.id)

CausesAfter(kind, ev, at, t) ==
  IF t # Refused /\ Created(t) THEN {}
  ELSE causes
         \cup (IF ev.kind = "usable" THEN {} ELSE {ev.kind})
         \cup (IF kind # "M5" /\ (thesis = NoThesis \/ ev.rel = "REVERSED")
               THEN {"intrabar"} ELSE {})
         \cup (IF thesis # NoThesis /\ (thesis.status \in Terminal \/ Expired(at))
               THEN {"lapsed"} ELSE {})

(* RuntimeStreamRunner.process: the kernel refuses, and keeps its memory.  *)
RejectInKernel(kind, at, ev) ==
  /\ KernelRefuses(ev)
  /\ outcome' = "REJECTED" /\ last' = ev.kind
  /\ causes' = CausesAfter(kind, ev, at, Refused)
  /\ UNCHANGED <<memory, thesis, recorded, closed>>

(* The kernel has committed, and the thesis refuses.                       *)
RejectInThesis(kind, at, ev) ==
  /\ ~KernelRefuses(ev) /\ UpdateScenario(kind, ev, at) = Refused
  /\ memory' = Observed(ev)
  /\ outcome' = "REJECTED" /\ last' = ev.kind
  /\ causes' = CausesAfter(kind, ev, at, Refused)
  /\ UNCHANGED <<thesis, recorded, closed>>

Apply(kind, at, ev) ==
  LET t == UpdateScenario(kind, ev, at)
  IN /\ ~KernelRefuses(ev) /\ t # Refused
     /\ memory' = Observed(ev) /\ thesis' = t
     /\ recorded' = memory'
     /\ outcome' = "APPLIED" /\ last' = ev.kind
     /\ closed' = closed \cup (IF t # NoThesis /\ t.status \in Terminal THEN {t.id} ELSE {})
     /\ causes' = CausesAfter(kind, ev, at, t)

(* The process dies between the memory record and the thesis record.       *)
Tear(kind, at, ev) ==
  /\ crashes < MaxCrashes /\ crashes' = crashes + 1
  /\ ~KernelRefuses(ev) /\ UpdateScenario(kind, ev, at) \notin {Refused, NoThesis}
  /\ memory' = Observed(ev) /\ recorded' = memory'
  /\ outcome' = "none" /\ last' = ev.kind
  /\ causes' = causes \cup {"torn"}
  /\ UNCHANGED <<thesis, closed>>

Observe(kind, at, ev) ==
  RejectInKernel(kind, at, ev) \/ RejectInThesis(kind, at, ev) \/ Apply(kind, at, ev)

Bar ==
  \E kind \in Kinds, gap \in 1..MaxGap, ev \in Evidence :
    /\ now + gap <= MaxTime /\ now' = now + gap
    /\ \/ Observe(kind, now + gap, ev) /\ UNCHANGED crashes
       \/ Tear(kind, now + gap, ev)

(* RuntimeOrchestrator._restore_thesis, in a new process.                  *)
Restart ==
  /\ crashes < MaxCrashes /\ crashes' = crashes + 1
  /\ memory' = recorded
  /\ outcome' = "none" /\ last' = "none"
  /\ UNCHANGED <<now, thesis, recorded, closed, causes>>

Next == Bar \/ Restart

Spec == Init /\ [][Next]_lifecycleVars

-----------------------------------------------------------------------------
Memories == {NoMemory} \cup [hyp : HypothesisIds, status : Statuses]

Theses ==
  {NoThesis} \cup
  [id : Nat \ {0}, hyp : HypothesisIds, status : Statuses, memory : Memories \ {NoMemory},
   bars : Nat \ {0}, updated : Nat, expires : Nat,
   eligible : {"WATCHING", "ELIGIBLE"} \cup Terminal,
   scenario : {"WATCHING", "STRENGTHENED", "WEAKENED", "CONFIRMED"} \cup Terminal,
   matched : BOOLEAN, against : {"structure_bos_up", "structure_bos_down"}]

ScenarioTypeOK ==
  /\ now \in Nat /\ memory \in Memories /\ thesis \in Theses
  /\ thesis # NoThesis => thesis.updated <= thesis.expires
  /\ recorded \in Memories
  /\ outcome \in {"none", "APPLIED", "REJECTED"}
  /\ last \in {"none", "usable", "abstained", "terminal"}
  /\ closed \subseteq Nat /\ crashes \in 0..MaxCrashes
  /\ causes \subseteq {"abstained", "terminal", "intrabar", "lapsed", "torn"}

(* An entry may be considered only while the thesis stands: confirmed by   *)
(* evidence newer than itself, its one condition met, inside its time and  *)
(* bar limits, and never closed before (scenarios.py: update_scenario).    *)
EligibleStands ==
  thesis # NoThesis /\ thesis.eligible = "ELIGIBLE" =>
    /\ thesis.status = "CONFIRMED" /\ thesis.memory.status = "CONFIRMED"
    /\ thesis.matched /\ thesis.scenario = "CONFIRMED"
    /\ thesis.updated < thesis.expires /\ thesis.bars <= MaxBars
    /\ thesis.id \notin closed

(* An invalidated or expired thesis is never revived, not even when later  *)
(* evidence or a restart reaches it: what follows it is a new thesis.      *)
NeverRevived ==
  [][thesis # NoThesis /\ thesis.id \in closed /\ thesis' # NoThesis
       => thesis'.id > thesis.id \/ thesis'.status \in Terminal]_lifecycleVars

(* The kernel's memory and the copy inside the thesis are the same, unless *)
(* an abstention, a closing fact, an intrabar bar, a lapsed thesis or a    *)
(* torn journal has come between them since the thesis began.              *)
MemoriesAgree ==
  causes = {} => (memory # NoMemory => thesis # NoThesis /\ thesis.memory = memory)

(* A bar is refused only for one of those reasons: two M5 bars of usable   *)
(* evidence on one unexpired thesis are always both taken.                 *)
RefusedForCause == outcome = "REJECTED" => causes # {}

(* The broken structure that is to invalidate a directional scenario can   *)
(* only ever be evidence against it, never the supporting evidence that    *)
(* _updated_scenarios looks at: the scenario ends only with its thesis.    *)
BreakNeverInvalidates ==
  thesis # NoThesis /\ thesis.hyp \in Directional /\ thesis.scenario = "INVALIDATED"
    => thesis.status = "INVALIDATED"

(* The thesis the runtime decides by: of one mind with the specialist's    *)
(* memory, taken further unless there is a cause, and offered for an entry *)
(* only while it stands, in a scenario that ends when the thesis does.     *)
ThesisSound == MemoriesAgree /\ RefusedForCause /\ EligibleStands /\ BreakNeverInvalidates

(* "test_same_hypothesis_m5_rolls_expired_thesis..." expects an expired    *)
(* thesis to be replaced by the next bar of the same hypothesis            *)
(* (tests/test_intrabar_scenarios.py:405): usable M5 bars are not refused  *)
(* because the thesis in hand has run out.                                 *)
ExpiredRollsOver ==
  outcome = "REJECTED" => causes \cap {"abstained", "terminal", "intrabar", "torn"} # {}
=============================================================================
