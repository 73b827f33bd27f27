---------------------------- MODULE ReplayProofs ----------------------------
(***************************************************************************)
(* Proofs about the thesis the system decides by, and about its decisions  *)
(* over recorded bars.                                                     *)
(*                                                                         *)
(* THE THESIS AND THE MEMORY, for every time to live, bar limit, market    *)
(* event, closing fact, gap and crash.  ThesisSound is not inductive.  It  *)
(* rests on what a thesis carries from its creation: the hypothesis of its *)
(* memory, the fact against it, an identity above every closed one; and on *)
(* why a closed thesis cannot be continued: its memory is terminal, its    *)
(* time is up, or its bars are.                                            *)
(*                                                                         *)
(* THE REPLAY, for every bar, price, signal and touched stop, and for any  *)
(* policies unless a theorem names some.  It rests on the queues: whatever *)
(* is in them was decided on the bar now, and so is due on the next one;   *)
(* and on what the checks of a decision leave of its proposal once they    *)
(* let it pass.                                                            *)
(***************************************************************************)
EXTENDS SystemReplay, DecisionPolicyProofs, FiniteSetTheorems

(* What a thesis has from its creation, these being closed.                *)
ThesisBase(t, shut) ==
  /\ t \in Theses \ {NoThesis} /\ t.updated <= t.expires
  /\ t.memory.hyp = t.hyp /\ t.against = InvalidationFact(t.hyp)
  /\ shut \subseteq 1..t.id

(* A thesis at a time.                                                     *)
ThesisGood(t, at, shut) ==
  /\ ThesisBase(t, shut)
  /\ t.id \in shut <=> t.status \in Terminal
  /\ t.status \in Terminal =>
       t.memory.status \in Terminal \/ at >= t.expires \/ t.bars > MaxBars
  /\ t.eligible = "ELIGIBLE" =>
       /\ t.status = "CONFIRMED" /\ t.memory.status = "CONFIRMED"
       /\ t.matched /\ t.scenario = "CONFIRMED"
       /\ t.updated < t.expires /\ t.bars <= MaxBars
  /\ t.hyp \in Directional /\ t.scenario = "INVALIDATED" => t.status = "INVALIDATED"

ThesisKept ==
  /\ thesis = NoThesis => closed = {}
  /\ thesis # NoThesis => memory # NoMemory /\ recorded # NoMemory /\ ThesisGood(thesis, now, closed)

(* As long as nothing came between the memories, a new process finds what  *)
(* the kernel had, and that is neither closed nor an abstention from a     *)
(* hypothesis.                                                             *)
MemoryKept ==
  causes = {} =>
    /\ recorded = memory
    /\ memory # NoMemory =>
         memory.status \notin Terminal /\ (memory.status = "ABSTAINED" => memory.hyp = "unavailable")

LifecycleInv == ScenarioTypeOK /\ MemoriesAgree /\ RefusedForCause /\ ThesisKept /\ MemoryKept

-----------------------------------------------------------------------------
(* EVIDENCE                                                                *)

(* Usable evidence continues or reverses the memory it was drawn from, in  *)
(* a step that memory allows unless it is closed or an abstention.         *)
UsableShape(ev) ==
  /\ ev.kind = "usable" /\ ev.hyp \in Hypotheses /\ ev.status \in Continuing
  /\ ev.supports \subseteq Supporting(ev.hyp)
  /\ ev.rel \in {"NEW", "REVERSED", "STRENGTHENED", "WEAKENED", "UNCHANGED"}
  /\ ev.rel = "NEW" <=> memory = NoMemory
  /\ memory # NoMemory => ev.prev = memory.hyp /\ (ev.rel = "REVERSED" <=> ev.hyp # memory.hyp)
  /\ memory # NoMemory /\ ev.hyp = memory.hyp /\ memory.status \in Continuing =>
       ev.status \in AllowedTransitions[memory.status]

AbstainedShape(ev) ==
  /\ ev.kind = "abstained" /\ ev.status = "ABSTAINED" /\ ev.supports = {}
  /\ memory = NoMemory => ev.hyp = "unavailable" /\ ev.rel = "NEW"
  /\ memory # NoMemory => ev.hyp = memory.hyp /\ ev.prev = memory.hyp /\ ev.rel = "WEAKENED"

TerminalShape(ev) ==
  /\ ev.kind = "terminal" /\ memory # NoMemory /\ ev.status \in Terminal /\ ev.rel = ev.status
  /\ ev.hyp = memory.hyp /\ ev.prev = memory.hyp /\ ev.supports = {}

Shape(ev) == UsableShape(ev) \/ AbstainedShape(ev) \/ TerminalShape(ev)

LEMMA MemoryFields ==
  ASSUME NEW m \in Memories, m # NoMemory
  PROVE  m.hyp \in HypothesisIds /\ m.status \in Statuses /\ m = [hyp |-> m.hyp, status |-> m.status]
  BY DEF Memories

LEMMA StatusKinds ==
  /\ Statuses = {"DEVELOPING", "ACTIVE", "CONFIRMED", "WEAKENING", "INVALIDATED", "EXPIRED", "ABSTAINED"}
  /\ Continuing \cap Terminal = {}
  BY DEF Statuses, Continuing, Terminal

LEMMA Transitions ==
  /\ AllowedTransitions["DEVELOPING"] = Statuses
  /\ {"ACTIVE", "CONFIRMED", "WEAKENING"} \subseteq AllowedTransitions["ACTIVE"]
  /\ {"CONFIRMED", "WEAKENING"} \subseteq AllowedTransitions["CONFIRMED"]
  /\ {"ACTIVE", "CONFIRMED", "WEAKENING"} \subseteq AllowedTransitions["WEAKENING"]
  /\ {"ACTIVE", "CONFIRMED", "WEAKENING"} \subseteq Statuses
  /\ \A s \in Terminal : AllowedTransitions[s] = {s}
<1>1. AllowedTransitions["DEVELOPING"] = Statuses
  BY StatusKinds DEF AllowedTransitions, Terminal
<1>2. {"ACTIVE", "CONFIRMED", "WEAKENING"} \subseteq AllowedTransitions["ACTIVE"]
  BY StatusKinds DEF AllowedTransitions, Terminal
<1>3. {"CONFIRMED", "WEAKENING"} \subseteq AllowedTransitions["CONFIRMED"]
  BY StatusKinds DEF AllowedTransitions, Terminal
<1>4. {"ACTIVE", "CONFIRMED", "WEAKENING"} \subseteq AllowedTransitions["WEAKENING"]
  BY StatusKinds DEF AllowedTransitions, Terminal
<1>5. AllowedTransitions["INVALIDATED"] = {"INVALIDATED"} /\ AllowedTransitions["EXPIRED"] = {"EXPIRED"}
  BY StatusKinds DEF AllowedTransitions, Terminal
<1>6. {"ACTIVE", "CONFIRMED", "WEAKENING"} \subseteq Statuses
  BY StatusKinds
<1> QED
  BY <1>1, <1>2, <1>3, <1>4, <1>5, <1>6 DEF Terminal

LEMMA EvidenceShape ==
  ASSUME memory \in Memories, NEW ev \in Evidence
  PROVE  Shape(ev)
<1>1. CASE ev \in Interpretations
  <2>1. PICK r \in Readings : \E facts \in SUBSET Supporting(r.hyp) : ev = Interpret(r, facts)
    BY <1>1 DEF Interpretations
  <2>2. PICK facts \in SUBSET Supporting(r.hyp) : ev = Interpret(r, facts)
    BY <2>1
  <2> DEFINE rel == Relationship(r.hyp, r.high, r.drift)
  <2>3. /\ ev.kind = "usable" /\ ev.hyp = r.hyp /\ ev.rel = rel /\ ev.status = LifecycleOf(rel, r.high)
        /\ ev.prev = Previous(rel) /\ ev.supports = facts
    BY <2>2 DEF Interpret
  <2>4. /\ r.hyp \in Hypotheses /\ r.high \in BOOLEAN /\ r.drift \in {-1, 0, 1}
        /\ memory # NoMemory /\ memory.status = "CONFIRMED" /\ r.drift > 0 => r.high
    BY DEF Readings
  <2>5. rel \in {"NEW", "REVERSED", "STRENGTHENED", "WEAKENED", "UNCHANGED"}
    BY DEF Relationship
  <2>6. rel = "NEW" <=> memory = NoMemory
    BY DEF Relationship
  <2>7. memory # NoMemory => (rel = "REVERSED" <=> r.hyp # memory.hyp)
    BY DEF Relationship
  <2>8. LifecycleOf(rel, r.high) \in Continuing
    BY <2>5 DEF LifecycleOf, Continuing
  <2>9. ASSUME memory # NoMemory, r.hyp = memory.hyp, memory.status \in Continuing
        PROVE  LifecycleOf(rel, r.high) \in AllowedTransitions[memory.status]
    <3>1. LifecycleOf(rel, r.high) \in {"WEAKENING", "ACTIVE", "CONFIRMED"}
      BY <2>5, <2>6, <2>7, <2>9 DEF LifecycleOf
    <3>2. memory.status = "CONFIRMED" => LifecycleOf(rel, r.high) # "ACTIVE"
      BY <2>4, <2>9 DEF LifecycleOf, Relationship
    <3> HIDE DEF rel
    <3> QED
      BY <3>1, <3>2, <2>9, Transitions DEF Continuing
  <2>10. memory # NoMemory => Previous(rel) = memory.hyp
    BY <2>6 DEF Previous
  <2> QED
    BY <2>3, <2>4, <2>5, <2>6, <2>7, <2>8, <2>9, <2>10 DEF Shape, UsableShape
<1>2. CASE ev \in Terminations
  <2>1. memory # NoMemory
    BY <1>2 DEF Terminations
  <2>2. PICK s \in TerminalFacts :
          ev = [kind |-> "terminal", hyp |-> memory.hyp, rel |-> s, status |-> s,
                prev |-> memory.hyp, supports |-> {}]
    BY <1>2, <2>1 DEF Terminations
  <2> QED
    BY <2>1, <2>2, FactsAssumption DEF Shape, TerminalShape, Terminal
<1>3. CASE ev = Abstention
  BY <1>3 DEF Abstention, Shape, AbstainedShape
<1> QED
  BY <1>1, <1>2, <1>3 DEF Evidence

LEMMA ShapeFields ==
  ASSUME memory \in Memories, NEW ev, Shape(ev)
  PROVE  /\ ev.hyp \in HypothesisIds /\ ev.status \in Statuses
         /\ Remember(ev) \in Memories \ {NoMemory}
         /\ Remember(ev).hyp = ev.hyp /\ Remember(ev).status = ev.status
<1>1. ev.hyp \in HypothesisIds /\ ev.status \in Statuses
  <2>1. CASE UsableShape(ev)
    BY <2>1 DEF UsableShape, HypothesisIds, Statuses
  <2>2. CASE AbstainedShape(ev)
    BY <2>2, MemoryFields DEF AbstainedShape, HypothesisIds, Statuses
  <2>3. CASE TerminalShape(ev)
    BY <2>3, MemoryFields DEF TerminalShape, HypothesisIds, Statuses
  <2> QED
    BY <2>1, <2>2, <2>3 DEF Shape
<1> QED
  BY <1>1, StatusKinds DEF Remember, Memories, NoMemory

-----------------------------------------------------------------------------
(* THE THESIS                                                              *)

LEMMA ThesisFields ==
  ASSUME NEW t \in Theses \ {NoThesis}
  PROVE  /\ t.id \in Nat \ {0} /\ t.hyp \in HypothesisIds /\ t.status \in Statuses
         /\ t.memory \in Memories \ {NoMemory} /\ t.bars \in Nat \ {0}
         /\ t.updated \in Nat /\ t.expires \in Nat
         /\ t.eligible \in {"WATCHING", "ELIGIBLE"} \cup Terminal
         /\ t.scenario \in {"WATCHING", "STRENGTHENED", "WEAKENED", "CONFIRMED"} \cup Terminal
         /\ t.matched \in BOOLEAN /\ t.against \in {"structure_bos_up", "structure_bos_down"}
  BY DEF Theses

(* A new thesis is open, watched, and later than every closed one.         *)
LEMMA CreateGood ==
  ASSUME LifecycleInv, NEW ev, Shape(ev), ev.status \notin Terminal, NEW at \in Nat
  PROVE  /\ ThesisGood(Create(ev, at), at, closed)
         /\ Create(ev, at).memory = Remember(ev) /\ Create(ev, at).status = ev.status
         /\ thesis # NoThesis => Create(ev, at).id > thesis.id
<1> DEFINE n == IF thesis = NoThesis THEN 0 ELSE thesis.id
           t == Create(ev, at)
<1>1. n \in Nat /\ closed \subseteq 1..n
  BY ThesisFields DEF LifecycleInv, ThesisKept, ThesisGood, ThesisBase, ScenarioTypeOK
<1>2. /\ t = [id |-> n + 1, hyp |-> ev.hyp, status |-> ev.status, memory |-> Remember(ev),
              bars |-> 1, updated |-> at, expires |-> at + TTL,
              eligible |-> "WATCHING", scenario |-> "WATCHING", matched |-> FALSE,
              against |-> InvalidationFact(ev.hyp)]
  BY DEF Create
<1> HIDE DEF n, t
<1>3. memory \in Memories
  BY DEF LifecycleInv, ScenarioTypeOK
<1>4. /\ ev.hyp \in HypothesisIds /\ ev.status \in Statuses
      /\ Remember(ev) \in Memories \ {NoMemory} /\ Remember(ev).hyp = ev.hyp
  BY <1>3, ShapeFields
<1>5. t \in Theses
  <2>1. at + TTL \in Nat /\ n + 1 \in Nat \ {0} /\ 1 \in Nat \ {0}
    BY <1>1, PolicyAssumption
  <2>2. InvalidationFact(ev.hyp) \in {"structure_bos_up", "structure_bos_down"}
    BY DEF InvalidationFact
  <2> QED
    BY <1>2, <1>4, <2>1, <2>2 DEF Theses
<1>6. t # NoThesis
  BY <1>1, <1>2 DEF NoThesis
<1>7. closed \subseteq 1..t.id /\ t.id \notin closed
  BY <1>1, <1>2
<1>8. ThesisGood(t, at, closed)
  BY <1>2, <1>4, <1>5, <1>6, <1>7, PolicyAssumption DEF ThesisGood, ThesisBase, Terminal
<1> QED
  BY <1>1, <1>2, <1>8 DEF n, t

(* A thesis that is closed for a reason stays closed.                      *)
LEMMA CloseGood ==
  ASSUME NEW t, NEW shut, ThesisBase(t, shut), NEW status \in Terminal, NEW at \in Nat,
         t.memory.status \in Terminal \/ at >= t.expires \/ t.bars > MaxBars
  PROVE  /\ ThesisGood(Close(t, status, at), at, shut \cup {t.id})
         /\ Close(t, status, at).id = t.id /\ Close(t, status, at).memory = t.memory
         /\ Close(t, status, at).status = status
<1> DEFINE c == Close(t, status, at)
           u == IF at < t.expires THEN at ELSE t.expires
<1>0. t \in Theses \ {NoThesis}
  BY DEF ThesisBase
<1>1. u \in Nat /\ u <= t.expires
  BY <1>0, ThesisFields
<1>2. c = [t EXCEPT !.status = status, !.eligible = status, !.scenario = status, !.updated = u]
  BY DEF Close
<1> HIDE DEF c, u
<1>3. c \in Theses \ {NoThesis}
  BY <1>0, <1>1, <1>2, StatusKinds DEF Theses, Terminal, NoThesis
<1>4. /\ c.id = t.id /\ c.memory = t.memory /\ c.hyp = t.hyp /\ c.bars = t.bars
      /\ c.expires = t.expires /\ c.against = t.against
      /\ c.status = status /\ c.eligible = status /\ c.scenario = status /\ c.updated = u
  BY <1>0, <1>2 DEF Theses
<1>5. ThesisBase(c, shut \cup {t.id})
  <2>1. shut \cup {t.id} \subseteq 1..c.id
    <3>1. t.id \in Nat \ {0} /\ shut \subseteq 1..t.id
      BY <1>0, ThesisFields DEF ThesisBase
    <3>2. t.id \in 1..t.id
      BY <3>1
    <3> QED
      BY <3>1, <3>2, <1>4
  <2> QED
    BY <1>1, <1>3, <1>4, <2>1 DEF ThesisBase
<1>6. status # "ELIGIBLE"
  BY DEF Terminal
<1>7. ThesisGood(c, at, shut \cup {t.id})
  BY <1>4, <1>5, <1>6 DEF ThesisGood
<1> QED
  BY <1>4, <1>7 DEF c

(* Taking a thesis further keeps its number and takes the evidence into    *)
(* its memory, also when the bar count closes it.                          *)
LEMMA ContinueKeeps ==
  ASSUME NEW t \in Theses \ {NoThesis}, NEW ev, NEW kind, NEW at
  PROVE  Continue(t, ev, kind, at).id = t.id /\ Continue(t, ev, kind, at).memory = Remember(ev)
<1> DEFINE m == Matched(t, ev)
           scenario == ScenarioAfter(t, ev, m)
           more == IF kind = "M5" THEN 1 ELSE 0
           mem == Remember(ev)
           eligible == IF scenario = "CONFIRMED" THEN "ELIGIBLE" ELSE "WATCHING"
           u == [t EXCEPT !.status = ev.status, !.memory = mem, !.bars = @ + more, !.updated = at,
                          !.matched = m, !.scenario = scenario, !.eligible = eligible]
           c == Continue(t, ev, kind, at)
           shut == Close(u, "EXPIRED", at)
<1>1. c = IF u.bars > MaxBars THEN shut ELSE u
  BY Zenon DEF Continue
<1> HIDE DEF m, scenario, more, mem, eligible
<1>2. u.id = t.id /\ u.memory = mem
  BY DEF Theses
<1>3. shut.id = u.id /\ shut.memory = u.memory
  BY DEF Theses, Close
<1> HIDE DEF u, c, shut
<1> QED
  BY <1>1, <1>2, <1>3 DEF c, mem

(* A thesis taken further by a bar before its time is up: one that was     *)
(* closed by its bars is closed by them again.                             *)
LEMMA ContinueGood ==
  ASSUME memory \in Memories, NEW t, NEW shut, ThesisBase(t, shut), t.id \in shut => t.bars > MaxBars,
         NEW ev, Shape(ev), ev.hyp = t.hyp, ev.status \notin Terminal,
         NEW kind, NEW at \in Nat, at < t.expires
  PROVE  LET c == Continue(t, ev, kind, at)
         IN /\ ThesisGood(c, at, shut \cup (IF c.status \in Terminal THEN {c.id} ELSE {}))
            /\ c.id = t.id /\ c.memory = Remember(ev)
            /\ t.id \in shut => c.status \in Terminal
<1> DEFINE m == Matched(t, ev)
           scenario == ScenarioAfter(t, ev, m)
           more == IF kind = "M5" THEN 1 ELSE 0
           mem == Remember(ev)
           eligible == IF scenario = "CONFIRMED" THEN "ELIGIBLE" ELSE "WATCHING"
           u == [t EXCEPT !.status = ev.status, !.memory = mem, !.bars = @ + more, !.updated = at,
                          !.matched = m, !.scenario = scenario, !.eligible = eligible]
           c == Continue(t, ev, kind, at)
<1>0. t \in Theses \ {NoThesis} /\ t.updated <= t.expires
  BY DEF ThesisBase
<1>1. /\ ev.status \in Statuses /\ mem \in Memories \ {NoMemory}
      /\ mem.hyp = ev.hyp /\ mem.status = ev.status
  BY ShapeFields
<1>2. more \in Nat /\ m \in BOOLEAN
  BY <1>0, ThesisFields DEF Matched
<1>3. t.against \notin ev.supports \/ t.hyp \notin Directional
  <2>1. CASE UsableShape(ev)
    BY <2>1 DEF UsableShape, ThesisBase, InvalidationFact, Supporting, Directional
  <2>2. CASE ~UsableShape(ev)
    BY <2>2 DEF Shape, AbstainedShape, TerminalShape
  <2> QED
    BY <2>1, <2>2
<1>4. /\ scenario \in {"WATCHING", "STRENGTHENED", "WEAKENED", "CONFIRMED", "INVALIDATED"}
      /\ scenario = "INVALIDATED" => t.against \in ev.supports
      /\ scenario = "CONFIRMED" => m /\ ev.status = "CONFIRMED"
  BY DEF ScenarioAfter
<1>5. c = IF u.bars > MaxBars THEN Close(u, "EXPIRED", at) ELSE u
  BY Zenon DEF Continue
<1> HIDE DEF m, scenario, more, mem, eligible, c
<1>6. /\ u.id = t.id /\ u.hyp = t.hyp /\ u.expires = t.expires /\ u.against = t.against
      /\ u.memory = mem /\ u.status = ev.status /\ u.updated = at /\ u.bars = t.bars + more
      /\ u.matched = m /\ u.scenario = scenario /\ u.eligible = eligible
  BY <1>0 DEF Theses
<1>7. u \in Theses \ {NoThesis}
  <2>1. t.bars + more \in Nat \ {0}
    BY <1>0, <1>2, ThesisFields
  <2>2. /\ eligible \in {"WATCHING", "ELIGIBLE"} \cup Terminal
        /\ scenario \in {"WATCHING", "STRENGTHENED", "WEAKENED", "CONFIRMED"} \cup Terminal
    BY <1>4 DEF eligible, Terminal
  <2>3. u \in Theses
    BY <1>0, <1>1, <1>2, <2>1, <2>2 DEF Theses, NoThesis
  <2> QED
    BY <2>3, <1>0, <1>6, ThesisFields DEF NoThesis
<1> HIDE DEF u
<1>8. ThesisBase(u, shut)
  BY <1>0, <1>1, <1>6, <1>7, ThesisFields DEF ThesisBase
<1>9. CASE u.bars > MaxBars
  <2>1. ThesisGood(Close(u, "EXPIRED", at), at, shut \cup {u.id})
        /\ Close(u, "EXPIRED", at).id = u.id /\ Close(u, "EXPIRED", at).memory = u.memory
        /\ Close(u, "EXPIRED", at).status = "EXPIRED"
    BY <1>8, <1>9, CloseGood DEF Terminal
  <2>2. c = Close(u, "EXPIRED", at)
    BY <1>5, <1>9
  <2>3. "EXPIRED" \in Terminal
    BY DEF Terminal
  <2> QED
    BY <2>1, <2>2, <2>3, <1>6 DEF c, mem
<1>10. CASE ~(u.bars > MaxBars)
  <2>1. t.bars \in Nat /\ t.bars <= MaxBars /\ u.bars <= MaxBars
    BY <1>0, <1>2, <1>6, <1>10, ThesisFields, PolicyAssumption
  <2>2. t.id \notin shut
    BY <2>1, PolicyAssumption
  <2>3. c = u
    BY <1>5, <1>10
  <2>4. eligible = "ELIGIBLE" => scenario = "CONFIRMED"
    BY DEF eligible
  <2>5. ThesisGood(u, at, shut)
    <3>1. u.id \in shut <=> u.status \in Terminal
      BY <2>2, <1>6
    <3>2. u.eligible = "ELIGIBLE" =>
            /\ u.status = "CONFIRMED" /\ u.memory.status = "CONFIRMED"
            /\ u.matched /\ u.scenario = "CONFIRMED"
            /\ u.updated < u.expires /\ u.bars <= MaxBars
      BY <1>1, <1>4, <1>6, <2>1, <2>4
    <3>3. u.hyp \in Directional /\ u.scenario = "INVALIDATED" => u.status = "INVALIDATED"
      BY <1>3, <1>4, <1>6
    <3>4. u.status \notin Terminal
      BY <1>6
    <3> QED
      BY <1>8, <3>1, <3>2, <3>3, <3>4 DEF ThesisGood
  <2>6. u.status \notin Terminal /\ shut \cup {} = shut
    BY <1>6
  <2>7. ThesisGood(c, at, shut \cup (IF c.status \in Terminal THEN {c.id} ELSE {}))
    BY <2>3, <2>5, <2>6
  <2> QED
    BY <2>2, <2>3, <2>7, <1>6 DEF c, mem
<1> QED
  BY <1>9, <1>10

-----------------------------------------------------------------------------
(* A BAR OVER A THESIS                                                     *)

(* What update_scenario may make of a thesis.                              *)
Replaced(t, ev, at) == UsableShape(ev) /\ t = Create(ev, at)
LeftClosed(t) == thesis.status \in Terminal /\ t = thesis
RunOut(t, at) == Expired(at) /\ t = Close(thesis, "EXPIRED", at)
ClosedByFact(t, ev, at) ==
  /\ ev.hyp = thesis.hyp /\ ev.status \in Terminal
  /\ t = [Close(thesis, ev.status, at) EXCEPT !.memory = Remember(ev)]
Continued(t, ev, kind, at) ==
  /\ ~Expired(at) /\ ev.hyp = thesis.hyp /\ ev.status \notin Terminal
  /\ thesis.status \in Terminal => thesis.bars > MaxBars
  /\ t = Continue(thesis, ev, kind, at)

LEMMA UpdateCases ==
  ASSUME LifecycleInv, thesis # NoThesis, NEW ev, Shape(ev), NEW kind, NEW at \in Nat, at >= now,
         WithThesis(kind, ev, at) # Refused
  PROVE  LET t == WithThesis(kind, ev, at)
         IN Replaced(t, ev, at) \/ LeftClosed(t) \/ RunOut(t, at)
              \/ ClosedByFact(t, ev, at) \/ Continued(t, ev, kind, at)
<1> DEFINE t == WithThesis(kind, ev, at)
<1>0. /\ memory \in Memories /\ thesis \in Theses \ {NoThesis} /\ now \in Nat
      /\ ThesisGood(thesis, now, closed)
  BY DEF LifecycleInv, ScenarioTypeOK, ThesisKept
<1>1. CASE Succeeds(kind, ev, at)
  <2>1. t = Create(ev, at)
    BY <1>1 DEF WithThesis
  <2>2. UsableShape(ev)
    <3>1. ev.rel \in {"REVERSED", "NEW"} \/ ev.kind = "usable"
      BY <1>1 DEF Succeeds, Reverses, Renews, RollsOver
    <3>2. memory # NoMemory
      BY DEF LifecycleInv, ThesisKept
    <3> QED
      BY <3>1, <3>2 DEF Shape, UsableShape, AbstainedShape, TerminalShape, Terminal
  <2> QED
    BY <2>1, <2>2 DEF Replaced
<1>2. CASE ~Succeeds(kind, ev, at) /\ thesis.status \in Terminal /\ kind # "M5"
  BY <1>2 DEF WithThesis, LeftClosed
<1>3. CASE ~Succeeds(kind, ev, at) /\ ~(thesis.status \in Terminal /\ kind # "M5") /\ Expired(at)
  BY <1>3 DEF WithThesis, RunOut
<1>4. CASE ~Succeeds(kind, ev, at) /\ ~(thesis.status \in Terminal /\ kind # "M5") /\ ~Expired(at)
  <2>1. /\ ev.hyp = thesis.hyp /\ ev.prev = thesis.hyp /\ Accepts(thesis.memory, ev)
        /\ t = IF ev.status \in Terminal
               THEN [Close(thesis, ev.status, at) EXCEPT !.memory = Remember(ev)]
               ELSE Continue(thesis, ev, kind, at)
    BY <1>4 DEF WithThesis
  <2>2. CASE ev.status \in Terminal
    BY <2>1, <2>2 DEF ClosedByFact
  <2>3. CASE ev.status \notin Terminal
    <3>1. ASSUME thesis.status \in Terminal PROVE thesis.bars > MaxBars
      <4>1. kind = "M5" /\ ev.rel \notin {"NEW", "REVERSED"}
        BY <1>4, <3>1 DEF Succeeds, Reverses, Renews
      <4>2. ev.status \in AllowedTransitions[thesis.memory.status]
        BY <2>1, <4>1, <1>0, ThesisFields DEF Accepts
      <4>3. thesis.memory.status \notin Terminal
        BY <4>2, <2>3, Transitions
      <4>4. ~(now >= thesis.expires)
        BY <1>0, <1>4, ThesisFields DEF Expired
      <4> QED
        BY <1>0, <3>1, <4>3, <4>4 DEF ThesisGood
    <3> QED
      BY <1>4, <2>1, <2>3, <3>1 DEF Continued
  <2> QED
    BY <2>2, <2>3
<1> QED
  BY <1>1, <1>2, <1>3, <1>4

(* The thesis that comes of a bar is sound, and not a closed one revived;  *)
(* the memory inside it is the bar's, or it had lapsed.                    *)
LEMMA ThesisStep ==
  ASSUME LifecycleInv, thesis # NoThesis, NEW ev, Shape(ev), NEW kind, NEW at \in Nat, at >= now,
         WithThesis(kind, ev, at) # Refused
  PROVE  LET t == WithThesis(kind, ev, at)
         IN /\ ThesisGood(t, at, closed \cup (IF t.status \in Terminal THEN {t.id} ELSE {}))
            /\ thesis.id \in closed => t.id > thesis.id \/ t.status \in Terminal
            /\ t.memory = Remember(ev) \/ thesis.status \in Terminal \/ Expired(at)
            /\ t.id > thesis.id => t.memory = Remember(ev) /\ UsableShape(ev)
<1> DEFINE t == WithThesis(kind, ev, at)
<1> HIDE DEF t
<1>0. /\ memory \in Memories /\ thesis \in Theses \ {NoThesis} /\ now \in Nat
      /\ ThesisGood(thesis, now, closed) /\ ThesisBase(thesis, closed)
      /\ thesis.id \in Nat /\ thesis.expires \in Nat
  BY ThesisFields DEF LifecycleInv, ScenarioTypeOK, ThesisKept, ThesisGood
<1>1. CASE Replaced(t, ev, at)
  <2>1. /\ ThesisGood(t, at, closed) /\ t.memory = Remember(ev) /\ t.status = ev.status
        /\ t.id > thesis.id /\ UsableShape(ev) /\ ev.status \notin Terminal
    <3>1. UsableShape(ev) /\ t = Create(ev, at)
      BY <1>1 DEF Replaced
    <3>2. ev.status \notin Terminal
      BY <3>1 DEF UsableShape, Continuing, Terminal
    <3> QED
      BY <3>1, <3>2, CreateGood
  <2>2. t.status \notin Terminal /\ closed \cup {} = closed
    BY <2>1
  <2> QED
    BY <2>1, <2>2 DEF t
<1>2. CASE LeftClosed(t)
  <2>1. t = thesis /\ thesis.status \in Terminal
    BY <1>2 DEF LeftClosed
  <2>2. closed \cup {thesis.id} = closed
    BY <1>0, <2>1 DEF ThesisGood
  <2>3. ThesisGood(thesis, at, closed)
    BY <1>0 DEF ThesisGood
  <2>4. ~(thesis.id > thesis.id)
    BY <1>0
  <2> QED
    BY <2>1, <2>2, <2>3, <2>4 DEF t
<1>3. CASE RunOut(t, at)
  <2>1. t = Close(thesis, "EXPIRED", at) /\ at >= thesis.expires
    BY <1>3 DEF RunOut, Expired
  <2>2. "EXPIRED" \in Terminal
    BY DEF Terminal
  <2>3. /\ ThesisGood(t, at, closed \cup {thesis.id}) /\ t.id = thesis.id /\ t.status = "EXPIRED"
    BY <1>0, <2>1, <2>2, CloseGood
  <2>4. ~(t.id > thesis.id) /\ Expired(at)
    BY <1>0, <1>3, <2>3 DEF RunOut
  <2> QED
    BY <2>2, <2>3, <2>4 DEF t
<1>4. CASE ClosedByFact(t, ev, at)
  <2> DEFINE b == [thesis EXCEPT !.memory = Remember(ev)]
             c == Close(b, ev.status, at)
  <2>1. Remember(ev) \in Memories \ {NoMemory} /\ Remember(ev).hyp = thesis.hyp /\ Remember(ev).status = ev.status
    BY <1>0, <1>4, ShapeFields DEF ClosedByFact
  <2>2. b \in Theses \ {NoThesis}
    BY <1>0, <2>1 DEF Theses, NoThesis
  <2>3. /\ b.memory = Remember(ev) /\ b.hyp = thesis.hyp /\ b.id = thesis.id /\ b.updated = thesis.updated
        /\ b.expires = thesis.expires /\ b.against = thesis.against
    BY <1>0 DEF Theses
  <2>4. t = c
    BY <1>0, <1>4, <2>1 DEF ClosedByFact, Close, Theses
  <2> HIDE DEF b
  <2>5. ThesisBase(b, closed)
    BY <1>0, <2>1, <2>2, <2>3 DEF ThesisBase
  <2>6. ev.status \in Terminal /\ b.memory.status \in Terminal
    BY <1>4, <2>1, <2>3 DEF ClosedByFact
  <2>7. /\ ThesisGood(c, at, closed \cup {b.id}) /\ c.id = b.id /\ c.memory = b.memory /\ c.status = ev.status
    BY <2>5, <2>6, CloseGood
  <2>8. ~(c.id > thesis.id)
    BY <1>0, <2>3, <2>7
  <2> HIDE DEF c
  <2> QED
    BY <2>3, <2>4, <2>6, <2>7, <2>8 DEF t
<1>5. CASE Continued(t, ev, kind, at)
  <2>1. /\ at < thesis.expires /\ ev.hyp = thesis.hyp /\ ev.status \notin Terminal
        /\ t = Continue(thesis, ev, kind, at)
    BY <1>0, <1>5 DEF Continued, Expired
  <2>2. thesis.id \in closed => thesis.bars > MaxBars
    BY <1>0, <1>5 DEF Continued, ThesisGood
  <2>3. /\ ThesisGood(t, at, closed \cup (IF t.status \in Terminal THEN {t.id} ELSE {}))
        /\ t.id = thesis.id /\ t.memory = Remember(ev)
        /\ thesis.id \in closed => t.status \in Terminal
    BY <1>0, <2>1, <2>2, ContinueGood
  <2>4. ~(t.id > thesis.id)
    BY <1>0, <2>3
  <2> QED
    BY <2>3, <2>4 DEF t
<1> QED
  BY <1>1, <1>2, <1>3, <1>4, <1>5, UpdateCases DEF t

-----------------------------------------------------------------------------
(* THE STEPS                                                               *)

LEMMA KernelKeeps ==
  ASSUME memory \in Memories, NEW ev, Shape(ev)
  PROVE  /\ Observed(ev) \in Memories \ {NoMemory}
         /\ ev.kind # "abstained" => Observed(ev) = Remember(ev)
         /\ memory = NoMemory => Observed(ev) = Remember(ev)
<1>1. Remember(ev) \in Memories \ {NoMemory}
  BY ShapeFields
<1> QED
  BY <1>1 DEF Observed

(* Without a cause, the kernel takes a bar of usable evidence ...          *)
LEMMA KernelTakes ==
  ASSUME LifecycleInv, NEW ev, UsableShape(ev), causes = {}
  PROVE  ~KernelRefuses(ev)
<1>1. memory \in Memories
  BY DEF LifecycleInv, ScenarioTypeOK
<1>2. CASE memory = NoMemory
  BY <1>2 DEF UsableShape, KernelRefuses, Accepts
<1>3. CASE memory # NoMemory
  <2>1. memory.status \notin Terminal /\ (memory.status = "ABSTAINED" => memory.hyp = "unavailable")
    BY <1>3 DEF LifecycleInv, MemoryKept
  <2>2. ev.rel # "NEW" /\ ev.prev = memory.hyp
    BY <1>3 DEF UsableShape
  <2>3. CASE ev.rel = "REVERSED"
    BY <1>3, <2>2, <2>3 DEF KernelRefuses, Accepts
  <2>4. CASE ev.rel # "REVERSED"
    <3>1. ev.hyp = memory.hyp /\ ev.hyp # "unavailable"
      BY <1>3, <2>4 DEF UsableShape, Hypotheses, Directional
    <3>2. memory.status \in Continuing
      BY <1>1, <1>3, <2>1, <3>1, MemoryFields, StatusKinds DEF Continuing, Terminal
    <3>3. ev.status \in AllowedTransitions[memory.status]
      BY <1>3, <3>1, <3>2 DEF UsableShape
    <3> QED
      BY <1>3, <2>2, <2>4, <3>3 DEF KernelRefuses, Accepts
  <2> QED
    BY <2>3, <2>4
<1> QED
  BY <1>2, <1>3

(* ... and the thesis takes it too, and remembers it: unless the bar       *)
(* itself is a cause.                                                      *)
LEMMA ThesisTakes ==
  ASSUME LifecycleInv, NEW ev, UsableShape(ev), causes = {}, NEW kind, NEW at \in Nat, at >= now,
         kind # "M5" => thesis # NoThesis /\ ev.rel # "REVERSED",
         thesis # NoThesis => thesis.status \notin Terminal /\ ~Expired(at)
  PROVE  LET t == UpdateScenario(kind, ev, at)
         IN t # Refused /\ t # NoThesis /\ t.memory = Remember(ev)
<1> DEFINE t == UpdateScenario(kind, ev, at)
<1>0. memory \in Memories /\ Shape(ev) /\ ev.status \notin Terminal
  BY DEF LifecycleInv, ScenarioTypeOK, Shape, UsableShape, Continuing, Terminal
<1>1. CASE thesis = NoThesis
  <2>1. memory = NoMemory
    BY <1>1 DEF LifecycleInv, MemoriesAgree
  <2>2. ev.rel = "NEW" /\ kind = "M5"
    BY <1>1, <2>1 DEF UsableShape
  <2>3. t = Create(ev, at)
    BY <1>1, <2>2 DEF UpdateScenario
  <2>4. ThesisGood(t, at, closed) /\ t.memory = Remember(ev)
    BY <1>0, <2>3, CreateGood
  <2> HIDE DEF t
  <2>5. t \in Theses \ {NoThesis}
    BY <2>4 DEF ThesisGood, ThesisBase
  <2>6. t.id \in Nat
    BY <2>5, ThesisFields
  <2> QED
    BY <2>4, <2>5, <2>6 DEF t, Refused
<1>2. CASE thesis # NoThesis
  <2>1. /\ memory # NoMemory /\ thesis.memory = memory /\ thesis.hyp = memory.hyp
        /\ ThesisGood(thesis, now, closed) /\ thesis \in Theses \ {NoThesis}
    BY <1>2 DEF LifecycleInv, MemoriesAgree, ThesisKept, ThesisGood, ThesisBase
  <2>2. ~KernelRefuses(ev)
    BY KernelTakes
  <2>3. Accepts(thesis.memory, ev) /\ ev.prev = thesis.hyp /\ ev.rel # "NEW"
    BY <2>1, <2>2 DEF KernelRefuses, UsableShape
  <2>4. ~Renews(kind, ev, at) /\ ~RollsOver(kind, ev)
    BY <1>2, <2>3 DEF Renews, RollsOver, Terminal
  <2>5. CASE Reverses(kind, ev)
    <3>1. Inherited(kind, ev, at) = thesis.memory /\ Succeeds(kind, ev, at)
      BY <2>4, <2>5 DEF Inherited, Succeeds
    <3>2. t = Create(ev, at)
      BY <1>2, <2>3, <2>4, <3>1 DEF UpdateScenario, WithThesis
    <3>3. ThesisGood(t, at, closed) /\ t.memory = Remember(ev)
      BY <1>0, <3>2, CreateGood
    <3> HIDE DEF t
    <3>4. t \in Theses \ {NoThesis}
      BY <3>3 DEF ThesisGood, ThesisBase
    <3>5. t.id \in Nat
      BY <3>4, ThesisFields
    <3> QED
      BY <3>3, <3>4, <3>5 DEF t, Refused
  <2>6. CASE ~Reverses(kind, ev)
    <3>1. ev.rel # "REVERSED" /\ ev.hyp = thesis.hyp
      BY <2>1, <2>6 DEF Reverses, UsableShape
    <3>2. t = Continue(thesis, ev, kind, at)
      BY <1>0, <1>2, <2>3, <2>4, <2>6, <3>1 DEF UpdateScenario, WithThesis, Succeeds
    <3>3. ThesisBase(thesis, closed) /\ thesis.id \notin closed /\ at < thesis.expires
      BY <1>2, <2>1, ThesisFields DEF ThesisGood, Expired
    <3>4. ThesisGood(t, at, closed \cup (IF t.status \in Terminal THEN {t.id} ELSE {})) /\ t.memory = Remember(ev)
      BY <1>0, <3>1, <3>2, <3>3, ContinueGood
    <3> HIDE DEF t
    <3>5. t \in Theses \ {NoThesis}
      BY <3>4 DEF ThesisGood, ThesisBase
    <3>6. t.id \in Nat
      BY <3>5, ThesisFields
    <3> QED
      BY <3>4, <3>5, <3>6 DEF t, Refused
  <2> QED
    BY <2>5, <2>6
<1> QED
  BY <1>1, <1>2

LEMMA LaterGood ==
  ASSUME NEW t, NEW shut, NEW early \in Nat, NEW late \in Nat, late >= early, ThesisGood(t, early, shut)
  PROVE  ThesisGood(t, late, shut)
<1>1. t.expires \in Nat
  BY ThesisFields DEF ThesisGood, ThesisBase
<1>2. early >= t.expires => late >= t.expires
  BY <1>1
<1> QED
  BY <1>2 DEF ThesisGood

LEMMA CausesType ==
  ASSUME LifecycleInv, NEW ev, Shape(ev), NEW kind, NEW at, NEW t
  PROVE  CausesAfter(kind, ev, at, t) \subseteq {"abstained", "terminal", "intrabar", "lapsed", "torn"}
<1>1. ev.kind \in {"usable", "abstained", "terminal"}
  BY DEF Shape, UsableShape, AbstainedShape, TerminalShape
<1> QED
  BY <1>1 DEF CausesAfter, LifecycleInv, ScenarioTypeOK

(* A bar that gives no cause and no new thesis.                            *)
LEMMA Uncaused ==
  ASSUME NEW ev, Shape(ev), NEW kind, NEW at, NEW t, ~(t # Refused /\ Created(t)),
         CausesAfter(kind, ev, at, t) = {}
  PROVE  /\ causes = {} /\ UsableShape(ev)
         /\ kind # "M5" => thesis # NoThesis /\ ev.rel # "REVERSED"
         /\ thesis # NoThesis => thesis.status \notin Terminal /\ ~Expired(at)
<1>1. ev.kind = "usable"
  BY DEF CausesAfter
<1>2. UsableShape(ev)
  BY <1>1 DEF Shape, AbstainedShape, TerminalShape
<1> QED
  BY <1>2 DEF CausesAfter

LEMMA RejectInKernelStep ==
  ASSUME LifecycleInv, NEW ev \in Evidence, NEW kind, NEW at \in Nat, at >= now,
         now' = at, RejectInKernel(kind, at, ev), crashes' = crashes
  PROVE  LifecycleInv'
<1> USE DEF RejectInKernel
<1>0. memory \in Memories /\ now \in Nat /\ Shape(ev) /\ ~(Refused # Refused /\ Created(Refused))
  BY EvidenceShape DEF LifecycleInv, ScenarioTypeOK
<1>1. causes' # {}
  <2>1. SUFFICES ASSUME causes' = {} PROVE FALSE
    OBVIOUS
  <2>2. CausesAfter(kind, ev, at, Refused) = {}
    BY <2>1
  <2>3. causes = {} /\ UsableShape(ev)
    BY <1>0, <2>2, Uncaused
  <2> QED
    BY <2>3, KernelTakes
<1>2. ScenarioTypeOK'
  <2>1. causes' \subseteq {"abstained", "terminal", "intrabar", "lapsed", "torn"}
    BY <1>0, CausesType
  <2>2. last' \in {"usable", "abstained", "terminal"}
    BY <1>0 DEF Shape, UsableShape, AbstainedShape, TerminalShape
  <2> QED
    BY <2>1, <2>2 DEF LifecycleInv, ScenarioTypeOK
<1>3. ThesisKept'
  BY <1>0, LaterGood DEF LifecycleInv, ThesisKept
<1> QED
  BY <1>1, <1>2, <1>3 DEF LifecycleInv, MemoriesAgree, RefusedForCause, MemoryKept

LEMMA RejectInThesisStep ==
  ASSUME LifecycleInv, NEW ev \in Evidence, NEW kind, NEW at \in Nat, at >= now,
         now' = at, RejectInThesis(kind, at, ev), crashes' = crashes
  PROVE  LifecycleInv'
<1> USE DEF RejectInThesis
<1>0. memory \in Memories /\ now \in Nat /\ Shape(ev) /\ ~(Refused # Refused /\ Created(Refused))
  BY EvidenceShape DEF LifecycleInv, ScenarioTypeOK
<1>1. causes' # {}
  <2>1. SUFFICES ASSUME causes' = {} PROVE FALSE
    OBVIOUS
  <2>2. CausesAfter(kind, ev, at, Refused) = {}
    BY <2>1
  <2>3. /\ causes = {} /\ UsableShape(ev)
        /\ kind # "M5" => thesis # NoThesis /\ ev.rel # "REVERSED"
        /\ thesis # NoThesis => thesis.status \notin Terminal /\ ~Expired(at)
    BY <1>0, <2>2, Uncaused
  <2>4. UpdateScenario(kind, ev, at) # Refused
    BY <2>3, ThesisTakes
  <2> QED
    BY <2>4
<1>2. memory' \in Memories \ {NoMemory}
  BY <1>0, KernelKeeps
<1>3. ScenarioTypeOK'
  <2>1. causes' \subseteq {"abstained", "terminal", "intrabar", "lapsed", "torn"}
    BY <1>0, CausesType
  <2>2. last' \in {"usable", "abstained", "terminal"}
    BY <1>0 DEF Shape, UsableShape, AbstainedShape, TerminalShape
  <2> QED
    BY <1>2, <2>1, <2>2 DEF LifecycleInv, ScenarioTypeOK
<1>4. ThesisKept'
  BY <1>0, <1>2, LaterGood DEF LifecycleInv, ThesisKept
<1> QED
  BY <1>1, <1>3, <1>4 DEF LifecycleInv, MemoriesAgree, RefusedForCause, MemoryKept

(* The process dies between the two records: the thesis stays what it was. *)
LEMMA TearStep ==
  ASSUME LifecycleInv, NEW ev \in Evidence, NEW kind, NEW at \in Nat, at >= now,
         now' = at, Tear(kind, at, ev)
  PROVE  LifecycleInv'
<1> USE DEF Tear
<1>0. memory \in Memories /\ now \in Nat /\ Shape(ev)
  BY EvidenceShape DEF LifecycleInv, ScenarioTypeOK
<1>1. memory' \in Memories \ {NoMemory} /\ recorded' = memory'
  BY <1>0, KernelKeeps
<1>2. ScenarioTypeOK'
  <2>1. last' \in {"usable", "abstained", "terminal"}
    BY <1>0 DEF Shape, UsableShape, AbstainedShape, TerminalShape
  <2>2. crashes' \in 0..MaxCrashes
    BY FactsAssumption DEF LifecycleInv, ScenarioTypeOK
  <2> QED
    BY <1>1, <2>1, <2>2 DEF LifecycleInv, ScenarioTypeOK
<1>3. ThesisKept'
  BY <1>0, <1>1, LaterGood DEF LifecycleInv, ThesisKept
<1>4. causes' # {}
  OBVIOUS
<1> QED
  BY <1>2, <1>3, <1>4 DEF LifecycleInv, MemoriesAgree, RefusedForCause, MemoryKept

(* A new process takes the recorded memory for its own.                    *)
LEMMA RestartStep ==
  ASSUME LifecycleInv, Restart
  PROVE  LifecycleInv'
<1> USE DEF Restart
<1>1. ScenarioTypeOK'
  BY FactsAssumption DEF LifecycleInv, ScenarioTypeOK
<1>2. ThesisKept'
  BY DEF LifecycleInv, ThesisKept
<1>3. MemoriesAgree' /\ MemoryKept'
  BY DEF LifecycleInv, MemoriesAgree, MemoryKept
<1>4. RefusedForCause'
  BY DEF RefusedForCause
<1> QED
  BY <1>1, <1>2, <1>3, <1>4 DEF LifecycleInv

LEMMA ApplyStep ==
  ASSUME LifecycleInv, NEW ev \in Evidence, NEW kind, NEW at \in Nat, at >= now,
         now' = at, Apply(kind, at, ev), crashes' = crashes
  PROVE  LifecycleInv'
<1> DEFINE t == UpdateScenario(kind, ev, at)
<1>0. memory \in Memories /\ now \in Nat /\ Shape(ev)
  BY EvidenceShape DEF LifecycleInv, ScenarioTypeOK
<1>1. /\ t # Refused /\ memory' = Observed(ev) /\ thesis' = t /\ recorded' = memory'
      /\ outcome' = "APPLIED" /\ last' = ev.kind /\ crashes' = crashes /\ now' = at
      /\ closed' = closed \cup (IF t # NoThesis /\ t.status \in Terminal THEN {t.id} ELSE {})
      /\ causes' = CausesAfter(kind, ev, at, t)
  BY Zenon DEF Apply
<1> HIDE DEF t
<1>2. memory' \in Memories \ {NoMemory}
  BY <1>0, <1>1, KernelKeeps
<1>3. ThesisKept' /\ thesis' \in Theses /\ closed' \subseteq Nat /\ (thesis' # NoThesis => thesis'.updated <= thesis'.expires)
  <2>1. CASE t = NoThesis
    <3>1. thesis = NoThesis
      <4>1. SUFFICES ASSUME thesis # NoThesis PROVE FALSE
        OBVIOUS
      <4>2. t = WithThesis(kind, ev, at)
        BY <4>1 DEF t, UpdateScenario
      <4>3. ThesisGood(t, at, closed \cup (IF t.status \in Terminal THEN {t.id} ELSE {}))
        BY <1>0, <1>1, <4>1, <4>2, ThesisStep
      <4> QED
        BY <2>1, <4>3 DEF ThesisGood, ThesisBase
    <3>2. closed' = {}
      BY <1>1, <2>1, <3>1 DEF LifecycleInv, ThesisKept
    <3> QED
      BY <1>1, <2>1, <3>2 DEF ThesisKept, Theses
  <2>2. CASE t # NoThesis
    <3>1. ThesisGood(t, at, closed \cup (IF t.status \in Terminal THEN {t.id} ELSE {}))
      <4>1. CASE thesis # NoThesis
        <5>1. t = WithThesis(kind, ev, at)
          BY <4>1 DEF t, UpdateScenario
        <5> QED
          BY <1>0, <1>1, <4>1, <5>1, ThesisStep
      <4>2. CASE thesis = NoThesis
        <5>1. ev.rel = "NEW" /\ t = Create(ev, at)
          BY <1>1, <2>2, <4>2 DEF t, UpdateScenario
        <5>2. ev.status \notin Terminal
          BY <1>0, <5>1 DEF Shape, UsableShape, AbstainedShape, TerminalShape, Continuing, Terminal
        <5>3. ThesisGood(t, at, closed) /\ t.status = ev.status
          BY <1>0, <5>1, <5>2, CreateGood
        <5>4. closed \cup {} = closed
          OBVIOUS
        <5> QED
          BY <5>2, <5>3, <5>4
      <4> QED
        BY <4>1, <4>2
    <3>2. ThesisGood(t, at, closed')
      BY <1>1, <2>2, <3>1
    <3>3. t \in Theses /\ t.updated <= t.expires /\ closed' \subseteq 1..t.id /\ t.id \in Nat
      BY <3>2, ThesisFields DEF ThesisGood, ThesisBase
    <3>4. ThesisGood(thesis', now', closed')
      BY <1>1, <3>2
    <3> QED
      BY <1>1, <1>2, <2>2, <3>3, <3>4 DEF ThesisKept
  <2> QED
    BY <2>1, <2>2
<1>4. ASSUME causes' = {}
      PROVE  /\ thesis' # NoThesis /\ thesis'.memory = memory' /\ memory'.status \notin Terminal
             /\ memory'.status = "ABSTAINED" => memory'.hyp = "unavailable"
  <2>1. CASE Created(t) /\ thesis = NoThesis
    <3>1. t # NoThesis /\ ev.rel = "NEW" /\ t = Create(ev, at)
      BY <1>1, <2>1 DEF t, UpdateScenario, Created
    <3>2. memory = NoMemory /\ ~TerminalShape(ev)
      BY <1>0, <3>1 DEF Shape, UsableShape, AbstainedShape, TerminalShape, Terminal
    <3>3. ev.status \notin Terminal /\ (ev.status = "ABSTAINED" => ev.hyp = "unavailable")
      BY <1>0, <3>2 DEF Shape, UsableShape, AbstainedShape, Continuing, Terminal
    <3>4. t.memory = Remember(ev)
      BY <1>0, <3>1, <3>3, CreateGood
    <3>5. memory' = Remember(ev)
      BY <1>0, <1>1, <3>2, KernelKeeps
    <3>6. Remember(ev).hyp = ev.hyp /\ Remember(ev).status = ev.status
      BY <1>0, ShapeFields
    <3> QED
      BY <1>1, <3>1, <3>3, <3>4, <3>5, <3>6
  <2>2. ASSUME thesis # NoThesis \/ ~Created(t)
        PROVE  UsableShape(ev) /\ t # NoThesis /\ t.memory = Remember(ev)
    <3>1. CASE Created(t)
      <4>1. thesis # NoThesis /\ t # NoThesis /\ t.id > thesis.id
        BY <2>2, <3>1 DEF Created
      <4>2. t = WithThesis(kind, ev, at)
        BY <4>1 DEF t, UpdateScenario
      <4>3. t.memory = Remember(ev) /\ UsableShape(ev)
        BY <1>0, <1>1, <4>1, <4>2, ThesisStep
      <4> QED
        BY <4>1, <4>3
    <3>2. CASE ~Created(t)
      <4>1. CausesAfter(kind, ev, at, t) = {}
        BY <1>1, <1>4
      <4>2. /\ causes = {} /\ UsableShape(ev)
            /\ kind # "M5" => thesis # NoThesis /\ ev.rel # "REVERSED"
            /\ thesis # NoThesis => thesis.status \notin Terminal /\ ~Expired(at)
        BY <1>0, <3>2, <4>1, Uncaused
      <4>3. t # NoThesis /\ t.memory = Remember(ev)
        BY <4>2, ThesisTakes DEF t
      <4> QED
        BY <4>2, <4>3
    <3> QED
      BY <3>1, <3>2
  <2>3. CASE thesis # NoThesis \/ ~Created(t)
    <3>1. UsableShape(ev) /\ t # NoThesis /\ t.memory = Remember(ev)
      BY <2>2, <2>3
    <3>2. memory' = Remember(ev) /\ Remember(ev).status = ev.status
      BY <1>0, <1>1, <3>1, KernelKeeps, ShapeFields DEF UsableShape
    <3>3. ev.status \notin Terminal \cup {"ABSTAINED"}
      BY <3>1 DEF UsableShape, Continuing, Terminal
    <3> QED
      BY <1>1, <3>1, <3>2, <3>3
  <2> QED
    BY <2>1, <2>3
<1>5. ScenarioTypeOK'
  <2>1. causes' \subseteq {"abstained", "terminal", "intrabar", "lapsed", "torn"}
    BY <1>0, <1>1, CausesType
  <2>2. last' \in {"usable", "abstained", "terminal"}
    BY <1>0, <1>1 DEF Shape, UsableShape, AbstainedShape, TerminalShape
  <2> QED
    BY <1>1, <1>2, <1>3, <2>1, <2>2 DEF LifecycleInv, ScenarioTypeOK
<1>6. MemoriesAgree' /\ MemoryKept'
  BY <1>1, <1>4 DEF MemoriesAgree, MemoryKept
<1>7. RefusedForCause'
  BY <1>1 DEF RefusedForCause
<1> QED
  BY <1>3, <1>5, <1>6, <1>7 DEF LifecycleInv

-----------------------------------------------------------------------------
(* THEOREMS                                                                *)

LEMMA LifecycleStep ==
  ASSUME LifecycleInv, [Next]_lifecycleVars
  PROVE  LifecycleInv'
<1>1. CASE Bar
  <2>1. PICK kind \in Kinds, gap \in 1..MaxGap, ev \in Evidence :
          /\ now' = now + gap
          /\ \/ Observe(kind, now + gap, ev) /\ UNCHANGED crashes
             \/ Tear(kind, now + gap, ev)
    BY <1>1 DEF Bar
  <2>2. now + gap \in Nat /\ now + gap >= now
    BY DEF LifecycleInv, ScenarioTypeOK
  <2> QED
    BY <2>1, <2>2, RejectInKernelStep, RejectInThesisStep, ApplyStep, TearStep DEF Observe
<1>2. CASE Restart
  BY <1>2, RestartStep
<1>3. CASE UNCHANGED lifecycleVars
  BY <1>3 DEF lifecycleVars, LifecycleInv, ScenarioTypeOK, MemoriesAgree, RefusedForCause, ThesisKept, MemoryKept
<1> QED
  BY <1>1, <1>2, <1>3 DEF Next

(* update_scenario and transition_memory together: the invariant of the    *)
(* thesis, of the kernel's memory and of the recorded one holds throughout.*)
THEOREM LifecycleInvariant == Spec => []LifecycleInv
<1>1. Init => LifecycleInv
  <2> SUFFICES ASSUME Init PROVE LifecycleInv
    OBVIOUS
  <2>1. ScenarioTypeOK
    BY FactsAssumption DEF Init, ScenarioTypeOK, Memories, Theses
  <2> QED
    BY <2>1 DEF Init, LifecycleInv, MemoriesAgree, RefusedForCause, ThesisKept, MemoryKept
<1> QED
  BY <1>1, LifecycleStep, PTL DEF Spec

(* The type of the thesis, the memories and the journal's record of a bar. *)
THEOREM LifecycleTyped == Spec => []ScenarioTypeOK
<1>1. LifecycleInv => ScenarioTypeOK
  BY DEF LifecycleInv
<1> QED
  BY <1>1, LifecycleInvariant, PTL

(* The thesis the runtime decides by agrees with the specialist's memory   *)
(* and takes every bar unless there is a cause, and is offered for an      *)
(* entry only while it stands (scenarios.py: update_scenario).             *)
THEOREM ThesisIsSound == Spec => []ThesisSound
<1>1. LifecycleInv => ThesisSound
  BY DEF LifecycleInv, ThesisSound, ThesisKept, ThesisGood, ThesisBase, EligibleStands,
         BreakNeverInvalidates, Terminal
<1> QED
  BY <1>1, LifecycleInvariant, PTL

(* No later bar and no restart revives a thesis that was invalidated or    *)
(* expired: what follows it has an identity of its own.                    *)
THEOREM ClosedIsFinal == Spec => NeverRevived
<1> DEFINE Stays == thesis # NoThesis /\ thesis.id \in closed /\ thesis' # NoThesis
                      => thesis'.id > thesis.id \/ thesis'.status \in Terminal
<1>1. ASSUME LifecycleInv, [Next]_lifecycleVars PROVE [Stays]_lifecycleVars
  <2>1. SUFFICES ASSUME thesis # NoThesis, thesis.id \in closed
                 PROVE  thesis'.id > thesis.id \/ thesis'.status \in Terminal
    OBVIOUS
  <2>2. thesis.status \in Terminal
    BY <1>1, <2>1 DEF LifecycleInv, ThesisKept, ThesisGood
  <2>3. CASE thesis' = thesis
    BY <2>2, <2>3
  <2>4. CASE thesis' # thesis
    <3>1. PICK kind \in Kinds, gap \in 1..MaxGap, ev \in Evidence : Apply(kind, now + gap, ev)
      BY <1>1, <2>4 DEF Next, Bar, Restart, Observe, RejectInKernel, RejectInThesis, Tear, lifecycleVars
    <3>2. now + gap \in Nat /\ now + gap >= now /\ Shape(ev)
      BY <1>1, EvidenceShape DEF LifecycleInv, ScenarioTypeOK
    <3>3. thesis' = WithThesis(kind, ev, now + gap) /\ WithThesis(kind, ev, now + gap) # Refused
      BY <2>1, <3>1 DEF Apply, UpdateScenario
    <3>4. LET t == WithThesis(kind, ev, now + gap) IN t.id > thesis.id \/ t.status \in Terminal
      BY <1>1, <2>1, <3>2, <3>3, ThesisStep
    <3> QED
      BY <3>3, <3>4
  <2> QED
    BY <2>3, <2>4
<1> QED
  BY <1>1, LifecycleInvariant, PTL DEF Spec, NeverRevived

-----------------------------------------------------------------------------
(* THE THESIS, BAR BY BAR                                                  *)

LEMMA UsableBar ==
  ASSUME memory \in Memories, NEW ev \in Bars
  PROVE  ev \in Evidence /\ UsableShape(ev)
<1>1. ev \in Evidence /\ ev.kind = "usable"
  BY DEF Bars, Evidence, Interpretations, Interpret
<1> QED
  BY <1>1, EvidenceShape DEF Shape, AbstainedShape, TerminalShape

(* What a bar that is taken leaves of the thesis in hand.                  *)
Stays(t, ev) ==
  t.id = thesis.id \/ (t.id > thesis.id /\ ev.rel = "REVERSED") \/ thesis.status = "EXPIRED"

LEMMA ThesisMoves ==
  ASSUME LifecycleInv, NEW ev, UsableShape(ev), NEW at \in Nat, at >= now, thesis # NoThesis,
         NEW t, t = WithThesis("M5", ev, at), t # Refused
  PROVE  t # NoThesis /\ Stays(t, ev) /\ (t.eligible = "ELIGIBLE" => ev.hyp = t.hyp)
<1>0. /\ Shape(ev) /\ memory \in Memories /\ memory # NoMemory /\ ev.rel # "NEW"
      /\ ev.status \notin Terminal /\ now \in Nat /\ thesis \in Theses \ {NoThesis}
      /\ ThesisGood(thesis, now, closed) /\ ThesisBase(thesis, closed)
  BY StatusKinds DEF Shape, UsableShape, LifecycleInv, ScenarioTypeOK, ThesisKept, ThesisGood
<1>1. ThesisGood(t, at, closed \cup (IF t.status \in Terminal THEN {t.id} ELSE {}))
  BY <1>0, ThesisStep
<1>2. t # NoThesis /\ t \in Theses /\ t.memory.hyp = t.hyp /\ (t.eligible = "ELIGIBLE" => t.status = "CONFIRMED")
  BY <1>1 DEF ThesisGood, ThesisBase
<1>3. CASE Succeeds("M5", ev, at)
  <2>1. t = Create(ev, at)
    BY <1>3 DEF WithThesis
  <2>2. t.eligible # "ELIGIBLE"
    BY <2>1 DEF Create
  <2>3. t.id > thesis.id
    BY <1>0, <2>1, CreateGood
  <2>4. ev.rel = "REVERSED" \/ thesis.status = "EXPIRED"
    BY <1>0, <1>3 DEF Succeeds, Reverses, Renews, RollsOver
  <2> QED
    BY <1>2, <2>2, <2>3, <2>4 DEF Stays
<1>4. CASE ~Succeeds("M5", ev, at) /\ Expired(at)
  <2>1. t = Close(thesis, "EXPIRED", at)
    BY <1>4 DEF WithThesis
  <2>2. "EXPIRED" \in Terminal /\ at >= thesis.expires
    BY <1>4 DEF Terminal, Expired
  <2>3. Close(thesis, "EXPIRED", at).id = thesis.id /\ Close(thesis, "EXPIRED", at).status = "EXPIRED"
    <3>1. ThesisBase(thesis, closed)
      BY <1>0
    <3> QED
      BY ONLY <2>2, <3>1, at \in Nat, CloseGood
  <2>4. t.id = thesis.id /\ t.status = "EXPIRED"
    BY ONLY <2>1, <2>3
  <2> QED
    BY <1>2, <2>4 DEF Stays
<1>5. CASE ~Succeeds("M5", ev, at) /\ ~Expired(at)
  <2>1. ev.hyp = thesis.hyp /\ t = Continue(thesis, ev, "M5", at)
    BY <1>0, <1>5 DEF WithThesis
  <2>2. t.id = thesis.id /\ t.memory = Remember(ev)
    <3>1. thesis \in Theses \ {NoThesis}
      BY <1>0
    <3>2. Continue(thesis, ev, "M5", at).id = thesis.id
          /\ Continue(thesis, ev, "M5", at).memory = Remember(ev)
      BY ONLY <3>1, ContinueKeeps
    <3> QED
      BY <2>1, <3>2
  <2>3. t.hyp = ev.hyp
    BY <1>2, <2>2 DEF Remember
  <2> QED
    BY <1>2, <2>2, <2>3 DEF Stays
<1> QED
  BY <1>3, <1>4, <1>5

(* One bar of the replay: the lifecycle's invariant, and what becomes of   *)
(* the thesis.                                                             *)
LEMMA ObservedBar ==
  ASSUME LifecycleInv, NEW ev \in Bars, NEW at \in Nat, at > now, now' = at,
         Observe("M5", at, ev), crashes' = crashes
  PROVE  /\ LifecycleInv'
         /\ outcome' = "REJECTED" => thesis' = thesis
         /\ outcome' # "REJECTED" /\ thesis # NoThesis => thesis' # NoThesis /\ Stays(thesis', ev)
         /\ outcome' = "REJECTED" \/ outcome' = "APPLIED"
         /\ outcome' # "REJECTED" /\ Eligible(thesis') => ev.hyp = thesis'.hyp
<1>0. ev \in Evidence /\ UsableShape(ev) /\ at >= now /\ now \in Nat
  BY UsableBar DEF LifecycleInv, ScenarioTypeOK
<1>1. CASE RejectInKernel("M5", at, ev)
  BY <1>0, <1>1, RejectInKernelStep DEF RejectInKernel
<1>2. CASE RejectInThesis("M5", at, ev)
  BY <1>0, <1>2, RejectInThesisStep DEF RejectInThesis
<1>3. CASE Apply("M5", at, ev)
  <2>1. LifecycleInv'
    BY <1>0, <1>3, ApplyStep
  <2>2. PICK t : t = UpdateScenario("M5", ev, at)
    OBVIOUS
  <2>3. thesis' = t /\ t # Refused /\ outcome' = "APPLIED"
    BY <1>3, <2>2 DEF Apply
  <2>4. CASE thesis # NoThesis
    <3>1. t = WithThesis("M5", ev, at)
      BY <2>2, <2>4 DEF UpdateScenario
    <3>2. t # NoThesis /\ Stays(t, ev) /\ (t.eligible = "ELIGIBLE" => ev.hyp = t.hyp)
      BY <1>0, <2>3, <2>4, <3>1, ThesisMoves
    <3> QED
      BY <2>1, <2>3, <3>2 DEF Eligible
  <2>5. CASE thesis = NoThesis
    <3>1. t = Create(ev, at)
      BY <2>2, <2>3, <2>5 DEF UpdateScenario
    <3>2. t.eligible # "ELIGIBLE"
      BY <3>1 DEF Create
    <3> QED
      BY <2>1, <2>3, <2>5, <3>2 DEF Eligible
  <2> QED
    BY <2>4, <2>5
<1> QED
  BY <1>1, <1>2, <1>3 DEF Observe

-----------------------------------------------------------------------------
(* THE BOOK                                                                *)

Single(S) == \A x, y \in S : x = y

IsPosition(p) ==
  p = [id |-> p.id, side |-> p.side, open |-> p.open, stop |-> p.stop, opened |-> p.opened,
       activeAfter |-> p.activeAfter, thesis |-> p.thesis, towards |-> p.towards]

IsDesk(d) ==
  d = [lastExit |-> d.lastExit, lastStop |-> d.lastStop, lastEntry |-> d.lastEntry,
       lastRejection |-> d.lastRejection, losses |-> d.losses, today |-> d.today,
       day |-> d.day, theses |-> d.theses]

(* A position that is what another was, or what an entry asked for.        *)
Remains(q, p) == q.id = p.id /\ q.side = p.side /\ q.thesis = p.thesis /\ q.towards = p.towards

Opened(q, e) == q.id = e.decided /\ q.side = e.side /\ q.thesis = e.thesis /\ q.towards = e.towards

(* What is queued was decided on the bar now, an entry for the thesis now. *)
QueueKept ==
  /\ \A x \in entries \cup closings \cup stopChanges : x.decided = now
  /\ Single(entries) /\ \A e \in entries : Eligible(thesis) /\ e.thesis = thesis.id
  /\ \A p \in positions : IsPosition(p)
  /\ EntryFollowsThesis

LEMMA WithStopIs ==
  ASSUME NEW p, IsPosition(p), NEW at
  PROVE  IsPosition(WithStop(p, at)) /\ Remains(WithStop(p, at), p)
<1>1. PICK s : s = (CHOOSE x \in Due(stopChanges, at) : x.id = p.id).stop
  OBVIOUS
<1>2. PICK q : q = WithStop(p, at)
  OBVIOUS
<1>3. q = p \/ q = [p EXCEPT !.stop = s, !.activeAfter = at]
  BY <1>1, <1>2 DEF WithStop
<1>4. PICK i, sd, o, st, op, ac, th, to :
        p = [id |-> i, side |-> sd, open |-> o, stop |-> st, opened |-> op,
             activeAfter |-> ac, thesis |-> th, towards |-> to]
  BY DEF IsPosition
<1>5. CASE q = p
  BY <1>2, <1>5 DEF Remains
<1>6. CASE q = [p EXCEPT !.stop = s, !.activeAfter = at]
  <2>1. q = [id |-> i, side |-> sd, open |-> o, stop |-> s, opened |-> op,
             activeAfter |-> at, thesis |-> th, towards |-> to]
    BY ONLY <1>4, <1>6
  <2>2. IsPosition(q) /\ Remains(q, p)
    BY ONLY <1>4, <2>1 DEF IsPosition, Remains
  <2> QED
    BY <1>2, <2>2
<1> QED
  BY <1>3, <1>5, <1>6

LEMMA FillIs ==
  ASSUME NEW e, NEW price, NEW at
  PROVE  IsPosition(Fill(e, price, at)) /\ Opened(Fill(e, price, at), e)
  BY DEF IsPosition, Fill, Opened

(* Everything queued is due: the next bar is a later one.                  *)
LEMMA AllDue ==
  ASSUME QueueKept, now \in Nat, NEW at \in Nat, at > now
  PROVE  Due(entries, at) = entries /\ Due(closings, at) = closings /\ Due(stopChanges, at) = stopChanges
<1>1. now <= at - 1
  OBVIOUS
<1> QED
  BY <1>1 DEF QueueKept, Due

LEMMA AfterBar ==
  ASSUME QueueKept, now \in Nat, NEW at \in Nat, at > now, NEW price, NEW book,
         book = AfterStops(price, at)
  PROVE  /\ \A q \in book : /\ IsPosition(q)
                            /\ (\E p \in positions : Remains(q, p)) \/ (\E e \in entries : Opened(q, e))
         /\ Single(positions) /\ (positions = {} \/ entries = {}) => Single(book)
<1>1. PICK filled : filled = AfterFills(price, at)
  OBVIOUS
<1>2. \A p \in filled : /\ IsPosition(p)
                        /\ p \in positions \/ \E e \in entries : p = Fill(e, price, at) /\ Opened(p, e)
  BY <1>1, AllDue, FillIs DEF AfterFills, QueueKept
<1>3. \A q \in book : \E p \in filled : q = WithStop(p, at)
  BY <1>1 DEF AfterStops
<1>4. ASSUME NEW q \in book
      PROVE  /\ IsPosition(q)
             /\ (\E p \in positions : Remains(q, p)) \/ (\E e \in entries : Opened(q, e))
  <2>1. PICK p \in filled : q = WithStop(p, at)
    BY <1>3
  <2>2. IsPosition(q) /\ Remains(q, p)
    BY <1>2, <2>1, WithStopIs
  <2> QED
    BY <1>2, <2>2 DEF Remains, Opened
<1>5. ASSUME Single(positions), positions = {} \/ entries = {} PROVE Single(book)
  <2>1. \A x, y \in filled : x = y
    BY <1>2, <1>5 DEF Single, QueueKept
  <2> QED
    BY <1>3, <2>1 DEF Single
<1> QED
  BY <1>4, <1>5

LEMMA DeskIs ==
  ASSUME NEW gone, NEW stopped, NEW lost, NEW at, NEW d, d = DeskAfter(gone, stopped, lost, entries, at)
  PROVE  /\ IsDesk(d) /\ d.day = DayOf(at) /\ d.theses = desk.theses \cup {e.thesis : e \in entries}
         /\ d.today = IF DayOf(at) = desk.day THEN desk.today + Cardinality(entries) ELSE 0
  BY DEF DeskAfter, IsDesk

-----------------------------------------------------------------------------
(* THE DECISION                                                            *)

(* An entry that Discipline and Risk let through.                          *)
Entered(e, ev, t, book, d, at) ==
  /\ e.decided = at /\ Eligible(t) /\ e.thesis = t.id /\ e.towards = t.hyp
  /\ e.side = (IF ev.hyp = "bullish_continuation" THEN "BUY" ELSE "SELL")
  /\ ~(Discipline.preventThesis /\ t.id \in d.theses)
  /\ ~(Cardinality(book) >= Discipline.maxPositions)
  /\ ~(d.today >= Discipline.maxPerDay)

LEMMA SideIsTheStops ==
  ASSUME NEW decision, NEW ev, NEW book,
         StopProtects(decision, RiskContext(ev, book).entry, RiskContext(ev, book).stop)
  PROVE  decision = (IF ev.hyp = "bullish_continuation" THEN "BUY" ELSE "SELL")
<1>1. PICK entry, stop : entry = RiskContext(ev, book).entry /\ stop = RiskContext(ev, book).stop
  OBVIOUS
<1>2. entry = 10 /\ stop = IF ev.hyp = "bullish_continuation" THEN 8 ELSE 12
  BY <1>1 DEF RiskContext, DecisionPrice, StopDistance
<1>3. (decision = "BUY" /\ stop < entry) \/ (decision = "SELL" /\ stop > entry)
  BY <1>1 DEF StopProtects
<1> QED
  BY <1>2, <1>3

LEMMA IntentEnters ==
  ASSUME NEW signal, NEW ev, NEW t, NEW book, NEW d, NEW at,
         NEW context, context = DisciplineContext(t),
         NEW discipline,
         discipline = EvaluateDiscipline(signal, context, DisciplineState(d, book), Discipline, at),
         NEW risk, risk = EvaluateRisk(signal, discipline.result, RiskContext(ev, book), Risk),
         NEW intent, intent = ExecutionIntent(signal, context, risk, RiskContext(ev, book), Risk),
         intent # NoIntent,
         NEW e, e = [decided |-> at, side |-> intent.side, stop |-> intent.stop,
                     thesis |-> intent.thesis, towards |-> t.hyp]
  PROVE  Entered(e, ev, t, book, d, at)
<1>1. risk.result = "PASS"
  BY DEF ExecutionIntent
<1>2. intent.side = signal /\ intent.thesis = context.thesis
  BY <1>1 DEF ExecutionIntent
<1>3. RiskContext(ev, book).complete = TRUE
  BY DEF RiskContext
<1>4. /\ discipline.result = "PASS"
      /\ StopProtects(signal, RiskContext(ev, book).entry, RiskContext(ev, book).stop)
  BY <1>1, <1>3, RiskPassed
<1>5. signal = (IF ev.hyp = "bullish_continuation" THEN "BUY" ELSE "SELL")
  BY <1>4, SideIsTheStops
<1>6. context.reentry = FALSE /\ context.thesis = IF Eligible(t) THEN t.id ELSE None
  BY DEF DisciplineContext
<1>7. PICK s : s = DisciplineState(d, book)
  OBVIOUS
<1>8. s.theses = d.theses /\ s.positions = Cardinality(book) /\ s.today = d.today
  BY <1>7 DEF DisciplineState
<1>9. /\ context.thesis # None /\ ~(Discipline.preventThesis /\ context.thesis \in s.theses)
      /\ ~(s.positions >= Discipline.maxPositions) /\ ~(s.today >= Discipline.maxPerDay)
  <2>1. context.reentry \in BOOLEAN /\ context.reentry = FALSE
    BY <1>6
  <2>2. Disciplined(signal, context, s, Discipline, at)
    BY <1>4, <1>7, <2>1 DEF Disciplined
  <2>3. NoVetoMet(signal, context, s, Discipline)
    BY <2>2, DisciplinePassed, Zenon
  <2> QED
    BY <2>1, <2>3 DEF NoVetoMet
<1>10. Eligible(t) /\ context.thesis = t.id
  BY <1>6, <1>9
<1>11. e.decided = at /\ e.side = signal /\ e.thesis = t.id /\ e.towards = t.hyp
  BY <1>2, <1>10
<1> QED
  BY <1>5, <1>8, <1>9, <1>10, <1>11 DEF Entered

LEMMA ExpiredIsClosed ==
  ASSUME NEW p, NEW t, NEW price, NEW at, t # NoThesis, t.id = p.thesis, t.status = "EXPIRED",
         Management.exitExpired = TRUE
  PROVE  ActionFor(p, t, price, at).result = "PASS" /\ ActionFor(p, t, price, at).action = "CLOSE_POSITION"
<1>1. PICK c : c = ManagementContext(p, t, price, at)
  OBVIOUS
<1>2. /\ c.present = TRUE /\ c.safe = TRUE /\ c.linked = TRUE /\ c.fresh = TRUE /\ c.kill = FALSE
      /\ c.tradeAllowed = TRUE /\ c.lifecycle = "EXPIRED"
  BY <1>1 DEF ManagementContext
<1>3. PICK m : m = EvaluatePosition(c, Management)
  OBVIOUS
<1>4. m.result = "EXIT_POSITION"
  BY <1>2, <1>3, ExpiredLeaves
<1>5. PICK n : n = [result |-> m.result, stop |-> m.stop, existing |-> p.stop]
  OBVIOUS
<1>6. n.result = "EXIT_POSITION"
  BY <1>4, <1>5
<1>7. EvaluateActionSafety(n, c, Actions).result = "PASS"
      /\ EvaluateActionSafety(n, c, Actions).action = "CLOSE_POSITION"
  BY <1>2, <1>6, LeavingPasses
<1> QED
  BY <1>1, <1>3, <1>5, <1>7 DEF ActionFor

(* What a decision asks of the open positions.                             *)
Asked(ended, moved, t, book, at) ==
  /\ \A x \in ended \cup moved : x.decided = at /\ \E p \in book : x.id = p.id
  /\ Single(book) => \A x, y \in ended \cup moved : x = y
  /\ Management.exitExpired = TRUE =>
       \A p \in book : t # NoThesis /\ t.id = p.thesis /\ t.status = "EXPIRED"
                         => \E x \in ended : x.id = p.id

LEMMA ActionsAsked ==
  ASSUME NEW t, NEW book, NEW price, NEW at, NEW ended, NEW moved,
         \A x : x \in ended <=> \E p \in book : /\ x = [id |-> p.id, decided |-> at]
                                               /\ ActionFor(p, t, price, at).result = "PASS"
                                               /\ ActionFor(p, t, price, at).action = "CLOSE_POSITION",
         \A x : x \in moved <=> \E p \in book :
                   /\ x = [id |-> p.id, decided |-> at, stop |-> ActionFor(p, t, price, at).stop]
                   /\ ActionFor(p, t, price, at).result = "PASS"
                   /\ ActionFor(p, t, price, at).action = "MODIFY_PROTECTIVE_STOP"
  PROVE  Asked(ended, moved, t, book, at)
<1>1. ASSUME NEW x \in ended \cup moved PROVE x.decided = at /\ \E p \in book : x.id = p.id
  <2>1. CASE x \in ended
    <3>1. PICK p \in book : x = [id |-> p.id, decided |-> at]
      BY <2>1
    <3> QED
      BY <3>1
  <2>2. CASE x \in moved
    <3>1. PICK p \in book : x = [id |-> p.id, decided |-> at, stop |-> ActionFor(p, t, price, at).stop]
      BY <2>2
    <3> QED
      BY <3>1
  <2> QED
    BY <2>1, <2>2
<1>2. ASSUME Single(book), NEW x \in ended \cup moved, NEW y \in ended \cup moved PROVE x = y
  <2>1. CASE \E p \in book : ActionFor(p, t, price, at).action = "CLOSE_POSITION"
    <3>1. PICK p \in book : ActionFor(p, t, price, at).action = "CLOSE_POSITION"
      BY <2>1
    <3>2. \A q \in book : q = p
      BY <1>2 DEF Single
    <3>3. x = [id |-> p.id, decided |-> at] /\ y = [id |-> p.id, decided |-> at]
      BY <1>2, <3>1, <3>2
    <3> QED
      BY <3>3
  <2>2. CASE ~\E p \in book : ActionFor(p, t, price, at).action = "CLOSE_POSITION"
    <3>1. x \in moved /\ y \in moved
      BY <2>2
    <3>2. PICK p \in book : x = [id |-> p.id, decided |-> at, stop |-> ActionFor(p, t, price, at).stop]
      BY <3>1
    <3>3. PICK q \in book : y = [id |-> q.id, decided |-> at, stop |-> ActionFor(q, t, price, at).stop]
      BY <3>1
    <3>4. p = q
      BY <1>2 DEF Single
    <3> QED
      BY <3>2, <3>3, <3>4
  <2> QED
    BY <2>1, <2>2
<1>3. ASSUME Management.exitExpired = TRUE, NEW p \in book, t # NoThesis, t.id = p.thesis,
             t.status = "EXPIRED"
      PROVE  \E x \in ended : x.id = p.id
  <2>1. ActionFor(p, t, price, at).result = "PASS" /\ ActionFor(p, t, price, at).action = "CLOSE_POSITION"
    BY <1>3, ExpiredIsClosed
  <2>2. PICK x : x = [id |-> p.id, decided |-> at]
    OBVIOUS
  <2>3. x \in ended
    BY <2>1, <2>2
  <2> QED
    BY <2>2, <2>3
<1> QED
  BY <1>1, <1>2, <1>3 DEF Asked

(* What a decision puts into empty queues, and leaves of the record.       *)
Decided(ev, t, book, d, at) ==
  /\ Single(entries') /\ \A e \in entries' : Entered(e, ev, t, book, d, at)
  /\ Asked(closings', stopChanges', t, book, at)
  /\ desk'.today = d.today /\ desk'.day = d.day /\ desk'.theses = d.theses

LEMMA DecideIs ==
  ASSUME NEW ev, NEW book, NEW d, IsDesk(d), NEW queued, NEW at,
         queued.entries = {}, queued.closings = {}, queued.stopChanges = {},
         Decide(ev, book, d, queued, at)
  PROVE  Decided(ev, thesis', book, d, at)
<1>1. PICK signal \in Signals, price \in (IF book = {} THEN {None} ELSE Closes) :
        LET context    == DisciplineContext(thesis')
            discipline == EvaluateDiscipline(signal, context, DisciplineState(d, book), Discipline, at)
            facts      == RiskContext(ev, book)
            risk       == EvaluateRisk(signal, discipline.result, facts, Risk)
            intent     == ExecutionIntent(signal, context, risk, facts, Risk)
            asked(a)   == {p \in book : LET r == ActionFor(p, thesis', price, at)
                                        IN r.result = "PASS" /\ r.action = a}
        IN /\ entries' = queued.entries \cup
                (IF intent = NoIntent THEN {}
                 ELSE {[decided |-> at, side |-> intent.side, stop |-> intent.stop,
                        thesis |-> intent.thesis, towards |-> thesis'.hyp]})
           /\ closings' = queued.closings \cup
                {[id |-> p.id, decided |-> at] : p \in asked("CLOSE_POSITION")}
           /\ stopChanges' = queued.stopChanges \cup
                {[id |-> p.id, decided |-> at, stop |-> ActionFor(p, thesis', price, at).stop] :
                   p \in asked("MODIFY_PROTECTIVE_STOP")}
           /\ desk' = [d EXCEPT !.lastRejection = IF discipline.result = "REJECT" THEN at ELSE @]
  BY Zenon DEF Decide
<1>2. PICK context, discipline, facts, risk, intent :
        /\ context = DisciplineContext(thesis')
        /\ discipline = EvaluateDiscipline(signal, context, DisciplineState(d, book), Discipline, at)
        /\ facts = RiskContext(ev, book)
        /\ risk = EvaluateRisk(signal, discipline.result, facts, Risk)
        /\ intent = ExecutionIntent(signal, context, risk, facts, Risk)
  OBVIOUS
<1>3. PICK e : e = [decided |-> at, side |-> intent.side, stop |-> intent.stop,
                    thesis |-> intent.thesis, towards |-> thesis'.hyp]
  OBVIOUS
<1>4. entries' = IF intent = NoIntent THEN {} ELSE {e}
  <2>1. entries' = queued.entries \cup (IF intent = NoIntent THEN {} ELSE {e})
    BY ONLY <1>1, <1>2, <1>3, Zenon
  <2> QED
    BY <2>1
<1>5. intent # NoIntent => Entered(e, ev, thesis', book, d, at)
  BY ONLY <1>2, <1>3, IntentEnters, Zenon
<1>6. Single(entries') /\ \A x \in entries' : Entered(x, ev, thesis', book, d, at)
  BY ONLY <1>4, <1>5 DEF Single
<1>7. \A x : x \in closings' <=> \E p \in book : /\ x = [id |-> p.id, decided |-> at]
                                                /\ ActionFor(p, thesis', price, at).result = "PASS"
                                                /\ ActionFor(p, thesis', price, at).action = "CLOSE_POSITION"
  <2>1. PICK asked : asked = {p \in book : /\ ActionFor(p, thesis', price, at).result = "PASS"
                                          /\ ActionFor(p, thesis', price, at).action = "CLOSE_POSITION"}
    OBVIOUS
  <2>2. closings' = queued.closings \cup {[id |-> p.id, decided |-> at] : p \in asked}
    BY ONLY <1>1, <2>1, Zenon
  <2> QED
    BY ONLY <2>1, <2>2, queued.closings = {}
<1>8. \A x : x \in stopChanges' <=> \E p \in book :
                   /\ x = [id |-> p.id, decided |-> at, stop |-> ActionFor(p, thesis', price, at).stop]
                   /\ ActionFor(p, thesis', price, at).result = "PASS"
                   /\ ActionFor(p, thesis', price, at).action = "MODIFY_PROTECTIVE_STOP"
  <2>1. PICK asked : asked = {p \in book : /\ ActionFor(p, thesis', price, at).result = "PASS"
                                          /\ ActionFor(p, thesis', price, at).action = "MODIFY_PROTECTIVE_STOP"}
    OBVIOUS
  <2>2. stopChanges' = queued.stopChanges \cup
          {[id |-> p.id, decided |-> at, stop |-> ActionFor(p, thesis', price, at).stop] : p \in asked}
    BY ONLY <1>1, <2>1, Zenon
  <2> QED
    BY ONLY <2>1, <2>2, queued.stopChanges = {}
<1>9. Asked(closings', stopChanges', thesis', book, at)
  <2>1. PICK ended, moved : ended = closings' /\ moved = stopChanges'
    OBVIOUS
  <2>2. Asked(ended, moved, thesis', book, at)
    BY ONLY <1>7, <1>8, <2>1, ActionsAsked
  <2> QED
    BY <2>1, <2>2, Zenon
<1>10. desk'.today = d.today /\ desk'.day = d.day /\ desk'.theses = d.theses
  <2>1. PICK r, w : /\ desk' = [d EXCEPT !.lastRejection = r] /\ w = desk'
    BY ONLY <1>1, Zenon
  <2>2. w.today = d.today /\ w.day = d.day /\ w.theses = d.theses
    BY ONLY <2>1, IsDesk(d) DEF IsDesk
  <2> QED
    BY <2>1, <2>2
<1> QED
  BY <1>6, <1>9, <1>10 DEF Decided

-----------------------------------------------------------------------------
(* ONE BAR                                                                 *)

(* What a bar makes of the book and of the record before its decision.     *)
BookMoved(at, d) ==
  /\ fills' = fills \cup
       {[thesis |-> e.thesis, decided |-> e.decided, executed |-> at - 1] : e \in entries}
  /\ \A q \in positions' :
       /\ IsPosition(q) /\ \A x \in closings : x.id # q.id
       /\ (\E p \in positions : Remains(q, p)) \/ (\E e \in entries : Opened(q, e))
  /\ Single(positions) /\ (positions = {} \/ entries = {}) => Single(positions')
  /\ d.day = DayOf(at) /\ d.theses = desk.theses \cup {e.thesis : e \in entries}
  /\ d.today = IF DayOf(at) = desk.day THEN desk.today + Cardinality(entries) ELSE 0

(* And what it makes of the thesis, and decides.                           *)
BarTaken(at, ev, d) ==
  /\ outcome' # "REJECTED"
  /\ thesis # NoThesis => thesis' # NoThesis /\ Stays(thesis', ev)
  /\ Eligible(thesis') => ev.hyp = thesis'.hyp
  /\ thesis # NoThesis /\ thesis' # NoThesis /\ thesis'.id > thesis.id /\ ev.rel = "REVERSED"
       => thesis.id \in reversed'
  /\ Decided(ev, thesis', positions', d, at)

BarRefused(d) ==
  /\ outcome' = "REJECTED" /\ thesis' = thesis
  /\ entries' = {} /\ closings' = {} /\ stopChanges' = {} /\ desk' = d

LEMMA BarIs ==
  ASSUME LifecycleInv, QueueKept, ReplayBar
  PROVE  \E at, ev, d :
           /\ at \in Nat /\ LifecycleInv' /\ now' = at /\ now \in Nat /\ now < at
           /\ reversed \subseteq reversed'
           /\ BookMoved(at, d) /\ (BarTaken(at, ev, d) \/ BarRefused(d))
<1>1. PICK at \in BarTimes :
        /\ now < at /\ now' = at
        /\ fills' = fills \cup {[thesis |-> e.thesis, decided |-> e.decided, executed |-> at - 1] :
                                  e \in Due(entries, at)}
        /\ \E price \in (IF Due(entries, at) = {} THEN {DecisionPrice} ELSE Opens) :
           \E stopped \in SUBSET Touchable(price, at) :
           \E lost \in SUBSET (ClosedByAction(price, at) \cup stopped) :
              /\ positions' = AfterStops(price, at) \ (ClosedByAction(price, at) \cup stopped)
              /\ ObserveAndDecide(DeskAfter(ClosedByAction(price, at) \cup stopped, stopped, lost,
                                            Due(entries, at), at), at)
  BY Zenon DEF ReplayBar
<1>2. at \in Nat /\ now \in Nat /\ now < at
  BY <1>1, DayAssumption DEF LifecycleInv, ScenarioTypeOK
<1>3. Due(entries, at) = entries /\ Due(closings, at) = closings /\ Due(stopChanges, at) = stopChanges
  BY <1>2, AllDue
<1>4. PICK price, stopped, lost, gone :
        /\ gone = ClosedByAction(price, at) \cup stopped
        /\ positions' = AfterStops(price, at) \ gone
        /\ ObserveAndDecide(DeskAfter(gone, stopped, lost, Due(entries, at), at), at)
  BY <1>1, Zenon
<1>5. PICK d : d = DeskAfter(gone, stopped, lost, entries, at)
  OBVIOUS
<1>6. ObserveAndDecide(d, at)
  BY <1>3, <1>4, <1>5, Zenon
<1>7. PICK ev, queued :
        /\ ev \in Bars
        /\ queued = [entries |-> entries \ Due(entries, at), closings |-> closings \ Due(closings, at),
                     stopChanges |-> stopChanges \ Due(stopChanges, at)]
        /\ Observe("M5", at, ev) /\ crashes' = crashes
        /\ reversed' = reversed \cup (IF outcome' = "APPLIED" /\ Created(thesis')
                                          /\ ev.rel = "REVERSED" THEN {thesis.id} ELSE {})
        /\ IF outcome' = "REJECTED"
           THEN entries' = queued.entries /\ closings' = queued.closings
                  /\ stopChanges' = queued.stopChanges /\ desk' = d
           ELSE Decide(ev, positions', d, queued, at)
  BY <1>6, Zenon DEF ObserveAndDecide
<1>8. queued.entries = {} /\ queued.closings = {} /\ queued.stopChanges = {}
  BY <1>3, <1>7
<1>9. /\ LifecycleInv'
      /\ outcome' = "REJECTED" => thesis' = thesis
      /\ outcome' # "REJECTED" /\ thesis # NoThesis => thesis' # NoThesis /\ Stays(thesis', ev)
      /\ outcome' = "REJECTED" \/ outcome' = "APPLIED"
      /\ outcome' # "REJECTED" /\ Eligible(thesis') => ev.hyp = thesis'.hyp
  BY <1>1, <1>2, <1>7, ObservedBar
<1>10. IsDesk(d) /\ d.day = DayOf(at) /\ d.theses = desk.theses \cup {e.thesis : e \in entries}
       /\ d.today = IF DayOf(at) = desk.day THEN desk.today + Cardinality(entries) ELSE 0
  BY ONLY <1>5, DeskIs
<1>11. BookMoved(at, d)
  <2>1. PICK book : book = AfterStops(price, at)
    OBVIOUS
  <2>2. /\ \A q \in book : /\ IsPosition(q)
                           /\ (\E p \in positions : Remains(q, p)) \/ (\E e \in entries : Opened(q, e))
        /\ Single(positions) /\ (positions = {} \/ entries = {}) => Single(book)
    BY <1>2, <2>1, AfterBar
  <2>3. positions' \subseteq book
    BY <1>4, <2>1
  <2>4. ASSUME NEW q \in positions', NEW x \in closings PROVE x.id # q.id
    <3>1. q \in AfterStops(price, at) /\ q \notin ClosedByAction(price, at)
      BY <1>4
    <3> QED
      BY <1>3, <3>1 DEF ClosedByAction
  <2>5. Single(positions) /\ (positions = {} \/ entries = {}) => Single(positions')
    BY <2>2, <2>3 DEF Single
  <2>6. fills' = fills \cup
          {[thesis |-> e.thesis, decided |-> e.decided, executed |-> at - 1] : e \in entries}
    BY <1>1, <1>3, Zenon
  <2> QED
    BY <1>10, <2>2, <2>3, <2>4, <2>5, <2>6, Zenon DEF BookMoved
<1>12. CASE outcome' = "REJECTED"
  <2>1. BarRefused(d)
    BY <1>7, <1>8, <1>9, <1>12 DEF BarRefused
  <2> QED
    BY <1>1, <1>2, <1>7, <1>9, <1>11, <2>1
<1>13. CASE outcome' # "REJECTED"
  <2>1. Decide(ev, positions', d, queued, at)
    BY <1>7, <1>13
  <2>2. Decided(ev, thesis', positions', d, at)
    BY ONLY <1>8, <1>10, <2>1, DecideIs, Zenon
  <2>3. thesis # NoThesis /\ thesis' # NoThesis /\ thesis'.id > thesis.id /\ ev.rel = "REVERSED"
          => thesis.id \in reversed'
    BY <1>7, <1>9, <1>13 DEF Created
  <2>4. BarTaken(at, ev, d)
    BY <1>9, <1>13, <2>2, <2>3 DEF BarTaken
  <2>5. reversed \subseteq reversed'
    BY <1>7
  <2> QED
    BY <1>1, <1>2, <1>9, <1>11, <2>4, <2>5
<1> QED
  BY <1>12, <1>13

-----------------------------------------------------------------------------
(* THE INVARIANTS                                                          *)

ReplayInv == LifecycleInv /\ QueueKept

LEMMA QueueStep ==
  ASSUME ReplayInv, ReplayBar
  PROVE  ReplayInv'
<1>1. PICK at, ev, d :
        /\ at \in Nat /\ LifecycleInv' /\ now' = at /\ BookMoved(at, d) /\ (BarTaken(at, ev, d) \/ BarRefused(d))
  BY BarIs DEF ReplayInv
<1>2. \A q \in positions' : /\ IsPosition(q)
                            /\ q.side = (IF q.towards = "bullish_continuation" THEN "BUY" ELSE "SELL")
  BY <1>1 DEF BookMoved, Remains, Opened, ReplayInv, QueueKept, EntryFollowsThesis
<1>3. /\ \A x \in entries' \cup closings' \cup stopChanges' : x.decided = at
      /\ Single(entries') /\ \A e \in entries' : Eligible(thesis') /\ e.thesis = thesis'.id
      /\ \A e \in entries' : e.side = (IF e.towards = "bullish_continuation" THEN "BUY" ELSE "SELL")
  <2>1. CASE BarTaken(at, ev, d)
    BY <2>1 DEF BarTaken, Decided, Entered, Asked
  <2>2. CASE BarRefused(d)
    BY <2>2 DEF BarRefused, Single
  <2> QED
    BY <1>1, <2>1, <2>2
<1>4. QueueKept'
  <2>1. EntryFollowsThesis'
    BY <1>2, <1>3 DEF EntryFollowsThesis
  <2>2. (\A e \in entries : Eligible(thesis) /\ e.thesis = thesis.id)'
    BY <1>3 DEF Eligible
  <2>3. Single(entries)'
    BY <1>3 DEF Single
  <2>4. (\A p \in positions : IsPosition(p))'
    BY <1>2 DEF IsPosition
  <2>5. (\A x \in entries \cup closings \cup stopChanges : x.decided = now)'
    BY <1>1, <1>3
  <2> QED
    BY <2>1, <2>2, <2>3, <2>4, <2>5 DEF QueueKept
<1> QED
  BY <1>1, <1>4 DEF ReplayInv

LEMMA ReplayStays ==
  ASSUME ReplayInv, UNCHANGED <<lifecycleVars, replayVars>>
  PROVE  ReplayInv'
  BY DEF ReplayInv, LifecycleInv, ScenarioTypeOK, MemoriesAgree, RefusedForCause, ThesisKept, MemoryKept,
         QueueKept, Eligible, EntryFollowsThesis, lifecycleVars, replayVars, bookVars

LEMMA ReplayStart == ReplayInit => ReplayInv
<1> SUFFICES ASSUME ReplayInit PROVE ReplayInv
  OBVIOUS
<1>1. ScenarioTypeOK
  BY FactsAssumption DEF ReplayInit, Init, ScenarioTypeOK, Memories, Theses
<1>2. LifecycleInv
  BY <1>1 DEF ReplayInit, Init, LifecycleInv, MemoriesAgree, RefusedForCause, ThesisKept, MemoryKept
<1> QED
  BY <1>2 DEF ReplayInit, ReplayInv, QueueKept, Single, EntryFollowsThesis

(* Over any bars, prices and policies: the thesis's own invariant also     *)
(* holds inside the replay, and everything queued is due on the next bar.  *)
THEOREM ReplayInvariant == ReplaySpec => []ReplayInv
  BY ReplayStart, QueueStep, ReplayStays, PTL DEF ReplaySpec

(* No position is ever opened against the thesis it is opened for, for all *)
(* that nothing compares the Master's signal with the thesis: Risk refuses *)
(* a stop on the wrong side (evaluator.py), and the stop lies where the    *)
(* chart points to.                                                        *)
THEOREM EntriesFollow == ReplaySpec => []EntryFollowsThesis
<1>1. ReplayInv => EntryFollowsThesis
  BY DEF ReplayInv, QueueKept
<1> QED
  BY <1>1, ReplayInvariant, PTL

-----------------------------------------------------------------------------
(* THE DAILY CAP                                                           *)

LEMMA DaysGoOn ==
  ASSUME NEW a \in Nat, NEW b \in Nat, a <= b
  PROVE  DayOf(a) \in Nat /\ DayOf(a) <= DayOf(b)
<1>1. PICK n \in Nat : n = DayLength /\ n > 0
  BY DayAssumption
<1>2. PICK x, y : x = a \div n /\ y = b \div n
  OBVIOUS
<1>3. x \in Int /\ y \in Int /\ n * x <= a /\ a < n * (x + 1) /\ n * y <= b /\ b < n * (y + 1)
  BY ONLY <1>1, <1>2, a \in Nat, b \in Nat, SMTT(30)
<1>4. x >= 0
  BY ONLY <1>1, <1>3, a \in Nat, b \in Nat
<1>5. n * x < n * (y + 1)
  BY ONLY <1>1, <1>3, a \in Nat, b \in Nat, a <= b
<1>6. ~(x >= y + 1)
  <2>1. SUFFICES ASSUME x >= y + 1 PROVE FALSE
    OBVIOUS
  <2>2. n * x >= n * (y + 1)
    BY ONLY <1>1, <1>3, <2>1
  <2> QED
    BY ONLY <1>1, <1>3, <1>5, <2>2
<1> QED
  BY <1>1, <1>2, <1>3, <1>4, <1>6 DEF DayOf

(* The fills of a day that were decided on that day.                       *)
OwnFills(all, day) == {f \in all : DayOf(f.executed) = day /\ DayOf(f.decided) = day}

(* The record counts at least them, today; and an entry is queued only     *)
(* where one more of them is still below the cap.                          *)
CapInv ==
  /\ IsFiniteSet(fills)
  /\ \A f \in fills : /\ f.decided \in Nat /\ f.executed \in Nat
                      /\ f.decided <= f.executed /\ f.executed < now
  /\ desk.day = DayOf(now) /\ desk.today \in Nat
  /\ \A day \in Nat : Cardinality(OwnFills(fills, day)) <= Discipline.maxPerDay
  /\ Cardinality(OwnFills(fills, DayOf(now))) <= desk.today
  /\ entries # {} => desk.today < Discipline.maxPerDay

LEMMA OwnFinite ==
  ASSUME NEW all, IsFiniteSet(all), NEW day
  PROVE  IsFiniteSet(OwnFills(all, day)) /\ Cardinality(OwnFills(all, day)) \in Nat
<1>1. OwnFills(all, day) \subseteq all
  BY DEF OwnFills
<1> QED
  BY <1>1, FS_Subset, FS_CardinalityType

(* A bar fills what was queued on the one before it, if anything.          *)
Filled(more, at) ==
  fills' = fills \cup more
    /\ \/ entries = {} /\ more = {}
       \/ \E f : /\ entries # {} /\ more = {f} /\ Cardinality(entries) = 1
                 /\ f.decided = now /\ f.executed = at - 1

LEMMA FillsAre ==
  ASSUME QueueKept, NEW at, NEW d, BookMoved(at, d)
  PROVE  \E more : Filled(more, at)
<1>1. PICK more : more = {[thesis |-> e.thesis, decided |-> e.decided, executed |-> at - 1] : e \in entries}
  OBVIOUS
<1>2. fills' = fills \cup more
  BY <1>1 DEF BookMoved
<1>3. CASE entries = {}
  BY <1>1, <1>2, <1>3 DEF Filled
<1>4. CASE entries # {}
  <2>1. PICK e \in entries : entries = {e}
    BY <1>4 DEF QueueKept, Single
  <2>2. PICK f : f = [thesis |-> e.thesis, decided |-> e.decided, executed |-> at - 1]
    OBVIOUS
  <2>3. more = {f}
    BY <1>1, <2>1, <2>2
  <2>4. f.decided = now /\ f.executed = at - 1
    BY <2>2 DEF QueueKept
  <2>5. Cardinality(entries) = 1
    BY <2>1, FS_Singleton
  <2> QED
    BY <1>2, <1>4, <2>3, <2>4, <2>5 DEF Filled
<1> QED
  BY <1>3, <1>4

(* The fills of a day are those there were and at most the new one, and    *)
(* that one only if it was decided on the day.                             *)
LEMMA OwnGrow ==
  ASSUME IsFiniteSet(fills), NEW more, NEW at, Filled(more, at), NEW day
  PROVE  /\ IsFiniteSet(fills')
         /\ Cardinality(OwnFills(fills', day)) <= Cardinality(OwnFills(fills, day)) + Cardinality(entries)
         /\ entries = {} \/ DayOf(now) # day => OwnFills(fills', day) = OwnFills(fills, day)
<1>1. IsFiniteSet(OwnFills(fills, day)) /\ Cardinality(OwnFills(fills, day)) \in Nat
  BY OwnFinite
<1>2. CASE entries = {}
  <2>1. fills' = fills /\ Cardinality(entries) = 0
    BY <1>2, FS_EmptySet DEF Filled
  <2> QED
    BY <1>1, <2>1
<1>3. CASE entries # {}
  <2>1. PICK f : /\ fills' = fills \cup {f} /\ Cardinality(entries) = 1
                 /\ f.decided = now /\ f.executed = at - 1
    BY <1>3 DEF Filled
  <2>2. IsFiniteSet(fills')
    BY <2>1, FS_AddElement
  <2>3. DayOf(now) # day => OwnFills(fills', day) = OwnFills(fills, day)
    BY <2>1 DEF OwnFills
  <2>4. PICK own, grown : own = OwnFills(fills, day) /\ grown = OwnFills(fills', day)
    OBVIOUS
  <2>5. grown \subseteq own \cup {f}
    BY <2>1, <2>4 DEF OwnFills
  <2>6. IsFiniteSet(own \cup {f}) /\ Cardinality(own \cup {f}) <= Cardinality(own) + 1
        /\ Cardinality(own \cup {f}) \in Nat
    <3>1. /\ IsFiniteSet(own \cup {f})
          /\ Cardinality(own \cup {f}) = IF f \in own THEN Cardinality(own) ELSE Cardinality(own) + 1
      BY <1>1, <2>4, FS_AddElement
    <3> QED
      BY <1>1, <2>4, <3>1
  <2>7. Cardinality(grown) <= Cardinality(own \cup {f}) /\ Cardinality(grown) \in Nat
    BY <2>5, <2>6, FS_Subset, FS_CardinalityType
  <2>8. Cardinality(grown) <= Cardinality(own) + Cardinality(entries)
    BY <1>1, <2>1, <2>4, <2>6, <2>7
  <2> QED
    BY <1>3, <2>2, <2>3, <2>4, <2>8
<1> QED
  BY <1>2, <1>3

LEMMA CapStep ==
  ASSUME ReplayInv, CapInv, ReplayBar
  PROVE  CapInv'
<1>1. PICK at, ev, d :
        /\ at \in Nat /\ now' = at /\ now \in Nat /\ now < at /\ BookMoved(at, d)
        /\ BarTaken(at, ev, d) \/ BarRefused(d)
  BY BarIs DEF ReplayInv
<1>2. PICK more : Filled(more, at)
  BY <1>1, FillsAre DEF ReplayInv
<1>3. \A day : /\ IsFiniteSet(fills')
               /\ Cardinality(OwnFills(fills', day)) <= Cardinality(OwnFills(fills, day)) + Cardinality(entries)
               /\ entries = {} \/ DayOf(now) # day => OwnFills(fills', day) = OwnFills(fills, day)
  BY <1>2, OwnGrow DEF CapInv
<1>4. \A day : /\ Cardinality(OwnFills(fills', day)) \in Nat /\ Cardinality(OwnFills(fills, day)) \in Nat
  BY <1>3, OwnFinite DEF CapInv
<1>5. \A f \in fills' : /\ f.decided \in Nat /\ f.executed \in Nat
                        /\ f.decided <= f.executed /\ f.executed < at /\ f.decided <= now
  BY <1>1, <1>2 DEF Filled, CapInv
<1>6. Cardinality(entries) \in {0, 1} /\ (entries = {} <=> Cardinality(entries) = 0)
  BY <1>2, FS_EmptySet DEF Filled
<1>7. DayOf(now) \in Nat /\ DayOf(at) \in Nat /\ DayOf(now) <= DayOf(at)
  BY <1>1, DaysGoOn
<1>8. \A day \in Nat : Cardinality(OwnFills(fills', day)) <= Discipline.maxPerDay
  <2> SUFFICES ASSUME NEW day \in Nat PROVE Cardinality(OwnFills(fills', day)) <= Discipline.maxPerDay
    OBVIOUS
  <2>1. CASE entries = {} \/ DayOf(now) # day
    BY <1>3, <2>1 DEF CapInv
  <2>2. CASE entries # {} /\ DayOf(now) = day
    <3>1. Cardinality(OwnFills(fills', day)) <= desk.today + 1 /\ desk.today < Discipline.maxPerDay
      BY <1>3, <1>4, <1>6, <2>2 DEF CapInv
    <3> QED
      BY <1>4, <3>1, CapAssumption DEF CapInv
  <2> QED
    BY <2>1, <2>2
<1>9. d.today \in Nat /\ Cardinality(OwnFills(fills', DayOf(at))) <= d.today
  <2>1. CASE DayOf(at) = desk.day
    <3>1. d.today = desk.today + Cardinality(entries)
      BY <1>1, <2>1 DEF BookMoved
    <3>2. Cardinality(OwnFills(fills', DayOf(at))) <= Cardinality(OwnFills(fills, DayOf(at))) + Cardinality(entries)
      BY <1>3
    <3>3. Cardinality(OwnFills(fills, DayOf(at))) <= desk.today /\ desk.today \in Nat
      BY <2>1 DEF CapInv
    <3> QED
      BY <1>4, <1>6, <3>1, <3>2, <3>3
  <2>2. CASE DayOf(at) # desk.day
    <3>1. d.today = 0
      BY <1>1, <2>2 DEF BookMoved
    <3>2. DayOf(now) < DayOf(at)
      BY <1>7, <2>2 DEF CapInv
    <3>3. OwnFills(fills', DayOf(at)) = {}
      <4>1. \A f \in fills' : DayOf(f.decided) \in Nat /\ DayOf(f.decided) <= DayOf(now)
        BY <1>1, <1>5, DaysGoOn
      <4> QED
        BY <1>7, <3>2, <4>1 DEF OwnFills
    <3> QED
      BY <3>1, <3>3, FS_EmptySet
  <2> QED
    BY <2>1, <2>2
<1>10. desk'.day = DayOf(at) /\ desk'.today = d.today /\ (entries' # {} => d.today < Discipline.maxPerDay)
  <2>1. d.day = DayOf(at)
    BY <1>1 DEF BookMoved
  <2>2. CASE BarTaken(at, ev, d)
    <3>1. desk'.day = d.day /\ desk'.today = d.today
      BY <2>2 DEF BarTaken, Decided
    <3>2. \A e \in entries' : ~(d.today >= Discipline.maxPerDay)
      BY <2>2 DEF BarTaken, Decided, Entered
    <3> QED
      BY <1>9, <2>1, <3>1, <3>2, CapAssumption
  <2>3. CASE BarRefused(d)
    BY <2>1, <2>3 DEF BarRefused
  <2> QED
    BY <1>1, <2>2, <2>3
<1>11. \A day : OwnFills(fills', day) = OwnFills(fills, day)'
  BY DEF OwnFills
<1> QED
  BY <1>1, <1>3, <1>5, <1>8, <1>9, <1>10, <1>11 DEF CapInv, OwnFills, DayOf

(* A day never sees more fills decided on it than its cap: the entry that  *)
(* mark_day forgets to count is always one of the day before.              *)
THEOREM DailyCapHolds == ReplaySpec => []DailyCapButCarried
<1>1. ReplayInit => CapInv
  <2> SUFFICES ASSUME ReplayInit PROVE CapInv
    OBVIOUS
  <2>1. now = 0 /\ fills = {} /\ entries = {} /\ desk.day = 0 /\ desk.today = 0
    BY DEF ReplayInit, Init, InitialDesk
  <2>2. \A day : OwnFills(fills, day) = {} /\ Cardinality(OwnFills(fills, day)) = 0 /\ IsFiniteSet(fills)
    BY <2>1, FS_EmptySet DEF OwnFills
  <2>3. DayOf(0) = 0
    <3>1. PICK n \in Nat : n = DayLength /\ n > 0
      BY DayAssumption
    <3>2. 0 \div n = 0
      BY <3>1
    <3> QED
      BY <3>1, <3>2 DEF DayOf
  <2> QED
    BY <2>1, <2>2, <2>3, CapAssumption DEF CapInv
<1>2. ASSUME ReplayInv, CapInv, [ReplayBar]_<<lifecycleVars, replayVars>> PROVE CapInv'
  <2>1. CASE ReplayBar
    BY <1>2, <2>1, CapStep
  <2>2. CASE UNCHANGED <<lifecycleVars, replayVars>>
    BY <1>2, <2>2 DEF CapInv, OwnFills, DayOf, lifecycleVars, replayVars, bookVars
  <2> QED
    BY <1>2, <2>1, <2>2
<1>3. ReplayInv /\ CapInv => DailyCapButCarried
  <2> SUFFICES ASSUME CapInv, NEW f \in fills
               PROVE  LET today == {g \in fills : DayOf(g.executed) = DayOf(f.executed)}
                      IN Cardinality({g \in today : DayOf(g.decided) = DayOf(f.executed)})
                           <= Discipline.maxPerDay
    BY DEF DailyCapButCarried
  <2>1. PICK day : day = DayOf(f.executed)
    OBVIOUS
  <2>2. day \in Nat
    BY <2>1, DaysGoOn DEF CapInv
  <2>3. {g \in {h \in fills : DayOf(h.executed) = day} : DayOf(g.decided) = day} = OwnFills(fills, day)
    BY DEF OwnFills
  <2>4. Cardinality({g \in {h \in fills : DayOf(h.executed) = day} : DayOf(g.decided) = day})
          <= Discipline.maxPerDay
    BY <2>2, <2>3 DEF CapInv
  <2> QED
    BY <2>1, <2>4, Zenon
<1>4. ReplaySpec => []CapInv
  BY <1>1, <1>2, ReplayInvariant, PTL DEF ReplaySpec
<1> QED
  BY <1>3, <1>4, ReplayInvariant, PTL

-----------------------------------------------------------------------------
(* ONE POSITION                                                            *)

(* The policies of the shared kernel: one position at a time, no thesis    *)
(* entered twice, and the position of an expired thesis left.              *)
OnePositionPolicy ==
  /\ Discipline.maxPositions = 1 /\ Discipline.preventThesis = TRUE
  /\ Management.exitExpired = TRUE

(* A position is looked after: its thesis is in hand, or was reversed; and *)
(* when that thesis has run out its close is on its way.                   *)
LookedAfter(p) ==
  \/ p.thesis \in reversed
  \/ /\ thesis # NoThesis /\ p.thesis = thesis.id
     /\ thesis.status = "EXPIRED" => \E x \in closings : x.id = p.id

BookInv ==
  /\ Single(positions) /\ (positions = {} \/ entries = {})
  /\ OneEntryPerThesis /\ \A f \in fills : f.thesis \in desk.theses
  /\ ActionsMeetTheirPosition
  /\ \A p \in positions : LookedAfter(p)

LEMMA ThesisLooksAfter ==
  ASSUME ReplayInv, BookInv, NEW at, NEW ev, NEW d, Management.exitExpired = TRUE,
         reversed \subseteq reversed', LifecycleInv',
         BookMoved(at, d), BarTaken(at, ev, d) \/ BarRefused(d), NEW q \in positions'
  PROVE  LookedAfter(q)'
<1>1. \A x \in closings : x.id # q.id
  BY DEF BookMoved
<1>2. \/ q.thesis \in reversed
      \/ thesis # NoThesis /\ q.thesis = thesis.id /\ thesis.status # "EXPIRED"
  <2>1. CASE \E p \in positions : Remains(q, p)
    <3>1. PICK p \in positions : Remains(q, p)
      BY <2>1
    <3>2. LookedAfter(p) /\ q.thesis = p.thesis /\ q.id = p.id
      BY <3>1 DEF BookInv, Remains
    <3> QED
      BY <1>1, <3>2 DEF LookedAfter
  <2>2. CASE \E e \in entries : Opened(q, e)
    <3>1. PICK e \in entries : Opened(q, e)
      BY <2>2
    <3>2. thesis # NoThesis /\ thesis.eligible = "ELIGIBLE" /\ q.thesis = thesis.id
      BY <3>1 DEF ReplayInv, QueueKept, Eligible, Opened
    <3>3. thesis.status = "CONFIRMED"
      BY <3>2 DEF ReplayInv, LifecycleInv, ThesisKept, ThesisGood
    <3> QED
      BY <3>2, <3>3
  <2> QED
    BY <2>1, <2>2 DEF BookMoved
<1>3. CASE q.thesis \in reversed
  BY <1>3 DEF LookedAfter
<1>4. CASE thesis # NoThesis /\ q.thesis = thesis.id /\ thesis.status # "EXPIRED"
  <2>1. CASE BarRefused(d)
    BY <1>4, <2>1 DEF BarRefused, LookedAfter
  <2>2. CASE BarTaken(at, ev, d)
    <3>1. thesis' # NoThesis /\ Stays(thesis', ev)
      BY <1>4, <2>2 DEF BarTaken
    <3>2. CASE thesis'.id = thesis.id
      <4>1. thesis'.status = "EXPIRED" => \E x \in closings' : x.id = q.id
        BY <1>4, <2>2, <3>1, <3>2 DEF BarTaken, Decided, Asked
      <4> QED
        BY <1>4, <3>1, <3>2, <4>1 DEF LookedAfter
    <3>3. CASE thesis'.id > thesis.id /\ ev.rel = "REVERSED"
      BY <1>4, <2>2, <3>1, <3>3 DEF BarTaken, LookedAfter
    <3> QED
      BY <1>4, <3>1, <3>2, <3>3 DEF Stays
  <2> QED
    BY <2>1, <2>2
<1> QED
  BY <1>2, <1>3, <1>4

LEMMA BookStep ==
  ASSUME OnePositionPolicy, ReplayInv, BookInv, ReplayBar
  PROVE  BookInv'
<1>1. PICK at, ev, d :
        /\ at \in Nat /\ LifecycleInv' /\ now' = at /\ now \in Nat /\ now < at /\ reversed \subseteq reversed'
        /\ BookMoved(at, d) /\ (BarTaken(at, ev, d) \/ BarRefused(d))
  BY BarIs DEF ReplayInv
<1>2. Single(positions')
  BY <1>1 DEF BookMoved, BookInv
<1>3. /\ entries' # {} => positions' = {}
      /\ Single(entries')
      /\ \A e \in entries' : e.thesis \notin d.theses
  <2>1. CASE BarTaken(at, ev, d)
    <3>1. Single(entries') /\ \A e \in entries' : Entered(e, ev, thesis', positions', d, at)
      BY <2>1 DEF BarTaken, Decided
    <3>2. ASSUME NEW e \in entries' PROVE positions' = {} /\ e.thesis \notin d.theses
      <4>1. ~(Cardinality(positions') >= 1) /\ e.thesis \notin d.theses
        BY <3>1 DEF Entered, OnePositionPolicy
      <4>2. SUFFICES ASSUME positions' # {} PROVE FALSE
        BY <4>1
      <4>3. PICK q : q \in positions' /\ positions' = {q}
        BY <1>2, <4>2 DEF Single
      <4>4. Cardinality(positions') = 1
        BY <4>3, FS_Singleton
      <4> QED
        BY <4>1, <4>4
    <3> QED
      BY <3>1, <3>2
  <2>2. CASE BarRefused(d)
    BY <2>2 DEF BarRefused, Single
  <2> QED
    BY <1>1, <2>1, <2>2
<1>4. desk'.theses = d.theses /\ d.theses = desk.theses \cup {e.thesis : e \in entries}
  BY <1>1 DEF BookMoved, BarTaken, Decided, BarRefused
<1>5. \A f \in fills' : \/ f \in fills
                        \/ \E e \in entries : f.thesis = e.thesis /\ f.decided = e.decided
  BY <1>1 DEF BookMoved
<1>6. \A f \in fills' : f.thesis \in d.theses
  BY <1>4, <1>5 DEF BookInv
<1>7. OneEntryPerThesis'
  <2>1. \A f, g \in fills' : f.thesis = g.thesis => f.decided = g.decided
    BY <1>5 DEF BookInv, OneEntryPerThesis
  <2>2. \A f, g \in fills' \cup entries' : f.thesis = g.thesis => f.decided = g.decided
    BY <1>3, <1>6, <2>1 DEF Single
  <2> QED
    BY <2>2 DEF OneEntryPerThesis
<1>8. ActionsMeetTheirPosition'
  <2>1. /\ \A x \in closings' \cup stopChanges' : \E p \in positions' : p.id = x.id
        /\ \A x, y \in closings' \cup stopChanges' : x = y
    <3>1. CASE BarTaken(at, ev, d)
      BY <1>2, <3>1 DEF BarTaken, Decided, Asked
    <3>2. CASE BarRefused(d)
      BY <3>2 DEF BarRefused
    <3> QED
      BY <1>1, <3>1, <3>2
  <2> QED
    BY <2>1 DEF ActionsMeetTheirPosition
<1>9. \A q \in positions' : LookedAfter(q)'
  BY <1>1, ThesisLooksAfter DEF OnePositionPolicy
<1>10. (\A p \in positions : LookedAfter(p))'
  BY <1>9 DEF LookedAfter
<1>11. (\A f \in fills : f.thesis \in desk.theses)'
  BY <1>4, <1>6
<1>12. Single(positions)' /\ (positions = {} \/ entries = {})'
  BY <1>2, <1>3 DEF Single
<1> QED
  BY <1>7, <1>8, <1>10, <1>11, <1>12 DEF BookInv

LEMMA SingleSize ==
  ASSUME NEW S, Single(S)
  PROVE  Cardinality(S) \in {0, 1}
<1>1. CASE S = {}
  BY <1>1, FS_EmptySet
<1>2. CASE S # {}
  <2>1. PICK x \in S : TRUE
    BY <1>2
  <2>2. S = {x}
    BY <2>1 DEF Single
  <2> QED
    BY <2>2, FS_Singleton
<1> QED
  BY <1>1, <1>2

(* Under those policies what is pending, open and asked for fits together  *)
(* bar after bar: never two positions, no thesis entered twice, no action  *)
(* without its position and no position without its thesis but after a     *)
(* reversal (replay_validation/system.py: run_system_replay).              *)
THEOREM BookStaysInOrder ==
  ASSUME OnePositionPolicy
  PROVE  ReplaySpec => []BookInOrder
<1>1. ReplayInit => BookInv
  BY DEF ReplayInit, BookInv, Single, OneEntryPerThesis, ActionsMeetTheirPosition
<1>2. ASSUME ReplayInv, BookInv, [ReplayBar]_<<lifecycleVars, replayVars>> PROVE BookInv'
  <2>1. CASE ReplayBar
    BY OnePositionPolicy, <1>2, <2>1, BookStep
  <2>2. CASE UNCHANGED <<lifecycleVars, replayVars>>
    BY <1>2, <2>2 DEF BookInv, Single, OneEntryPerThesis, ActionsMeetTheirPosition, LookedAfter,
       lifecycleVars, replayVars, bookVars
  <2> QED
    BY <1>2, <2>1, <2>2
<1>3. ReplayInv /\ BookInv => BookInOrder
  <2> SUFFICES ASSUME ReplayInv, BookInv PROVE BookInOrder
    OBVIOUS
  <2>1. Single(entries) /\ Single(positions) /\ (positions = {} \/ entries = {})
    BY DEF ReplayInv, QueueKept, BookInv
  <2>2. Cardinality(positions) \in {0, 1} /\ Cardinality(entries) \in {0, 1}
    BY <2>1, SingleSize
  <2>3. Cardinality(positions) = 0 \/ Cardinality(entries) = 0
    BY <2>1, FS_EmptySet
  <2>4. OnePosition
    BY <2>2, <2>3 DEF OnePosition
  <2> QED
    BY <2>4 DEF BookInv, BookInOrder, OrphanedOnlyByReversal, LookedAfter
<1>4. ReplaySpec => []BookInv
  BY <1>1, <1>2, ReplayInvariant, PTL DEF ReplaySpec
<1> QED
  BY <1>3, <1>4, ReplayInvariant, PTL

=============================================================================
