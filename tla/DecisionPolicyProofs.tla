------------------------ MODULE DecisionPolicyProofs ------------------------
(***************************************************************************)
(* What is left of a proposal that the deterministic boundaries let pass.  *)
(* Each of them is a list of checks of which the first that hits answers;  *)
(* so whatever passes has been hit by none, and every veto that the list   *)
(* names is one it did not meet.  For any proposal, record and policy.     *)
(***************************************************************************)
EXTENDS DecisionPolicy, SequenceTheorems, WellFoundedInduction, TLAPS

-----------------------------------------------------------------------------
(* CHECKS MADE ONE AFTER THE OTHER                                         *)

(* A first one of several checks that hit there always is.                 *)
LEMMA LeastHit ==
  ASSUME NEW T, T \subseteq Nat, T # {}
  PROVE  \E t \in T : \A y \in T : t <= y
<1>1. PICK t \in T : \A y \in T : ~(<<y, t>> \in OpToRel(<, Nat))
  BY NatLessThanWellFounded, WFMin
<1>2. ASSUME NEW y \in T PROVE t <= y
  <2>1. y \in Nat /\ t \in Nat
    BY <1>1, <1>2
  <2>2. y < t => <<y, t>> \in OpToRel(<, Nat)
    BY <2>1 DEF OpToRel
  <2>3. <<y, t>> \notin OpToRel(<, Nat)
    BY <1>1, <1>2, Zenon
  <2>4. ~(y < t)
    BY <2>2, <2>3
  <2> QED
    BY <2>1, <2>4
<1> QED
  BY <1>1, <1>2

LEMMA FirstOfIs ==
  ASSUME NEW checks, DOMAIN checks \subseteq Nat, NEW otherwise
  PROVE  \/ /\ \A i \in DOMAIN checks : ~checks[i].hit
            /\ FirstOf(checks, otherwise) = otherwise
         \/ \E i \in DOMAIN checks :
              /\ checks[i].hit /\ FirstOf(checks, otherwise) = checks[i]
              /\ \A j \in DOMAIN checks : checks[j].hit => i <= j
<1>1. CASE \A i \in DOMAIN checks : ~checks[i].hit
  BY <1>1 DEF FirstOf
<1>2. CASE \E i \in DOMAIN checks : checks[i].hit
  <2> DEFINE hits == {i \in DOMAIN checks : checks[i].hit}
  <2>1. \E i \in hits : \A j \in hits : i <= j
    BY <1>2, LeastHit
  <2>2. \E i \in DOMAIN checks : checks[i].hit /\ \A j \in DOMAIN checks : checks[j].hit => i <= j
    BY <2>1
  <2>3. PICK i : i = CHOOSE k \in DOMAIN checks :
                       checks[k].hit /\ \A j \in DOMAIN checks : checks[j].hit => k <= j
    OBVIOUS
  <2>4. i \in DOMAIN checks /\ checks[i].hit /\ \A j \in DOMAIN checks : checks[j].hit => i <= j
    BY <2>2, <2>3
  <2>5. FirstOf(checks, otherwise) = checks[i]
    BY <1>2, <2>3 DEF FirstOf
  <2> QED
    BY <2>4, <2>5
<1> QED
  BY <1>1, <1>2

(* Two lists of checks made one after the other.                           *)
Joined(u, s, t) == u = s \o t

Both(u, s, t) ==
  /\ \A i \in DOMAIN s : i \in DOMAIN u /\ u[i] = s[i]
  /\ \A i \in DOMAIN t : \E j \in DOMAIN u : u[j] = t[i]
  /\ \A j \in DOMAIN u : (\E i \in DOMAIN s : u[j] = s[i]) \/ (\E i \in DOMAIN t : u[j] = t[i])

LEMMA BothLists ==
  ASSUME NEW S, NEW s, NEW t, NEW u, s \in Seq(S), t \in Seq(S), Joined(u, s, t)
  PROVE  u \in Seq(S) /\ Both(u, s, t)
<1> USE DEF Joined
<1>1. u \in Seq(S) /\ Len(u) = Len(s) + Len(t)
  BY ConcatProperties
<1>2. \A j \in 1..Len(s) + Len(t) : u[j] = IF j <= Len(s) THEN s[j] ELSE t[j - Len(s)]
  BY ConcatProperties
<1>3. DOMAIN s = 1..Len(s) /\ DOMAIN t = 1..Len(t) /\ DOMAIN u = 1..(Len(s) + Len(t))
      /\ Len(s) \in Nat /\ Len(t) \in Nat
  BY <1>1
<1>4. \A i \in DOMAIN s : i \in DOMAIN u /\ u[i] = s[i]
  BY <1>2, <1>3
<1>5. \A i \in DOMAIN t : \E j \in DOMAIN u : u[j] = t[i]
  <2> SUFFICES ASSUME NEW i \in DOMAIN t PROVE \E j \in DOMAIN u : u[j] = t[i]
    OBVIOUS
  <2>1. i + Len(s) \in DOMAIN u /\ ~(i + Len(s) <= Len(s)) /\ (i + Len(s)) - Len(s) = i
    BY <1>3
  <2> QED
    BY <1>2, <1>3, <2>1
<1>6. \A j \in DOMAIN u : (\E i \in DOMAIN s : u[j] = s[i]) \/ (\E i \in DOMAIN t : u[j] = t[i])
  <2> SUFFICES ASSUME NEW j \in DOMAIN u, ~(j <= Len(s))
               PROVE  \E i \in DOMAIN t : u[j] = t[i]
    BY <1>2, <1>3
  <2>1. j - Len(s) \in DOMAIN t
    BY <1>3
  <2> QED
    BY <1>2, <1>3, <2>1
<1> QED
  BY <1>1, <1>4, <1>5, <1>6 DEF Both

LEMMA CheckIs ==
  ASSUME NEW h, NEW r, NEW w
  PROVE  Check(h, r, w).hit = h /\ Check(h, r, w).result = r
  BY DEF Check

(* What lists of checks refuse with, none of them lets pass.               *)
Refusing(s) == s \in Seq({s[i] : i \in DOMAIN s}) /\ \A i \in DOMAIN s : s[i].result # "PASS"

LEMMA RefusingBoth ==
  ASSUME NEW s, NEW t, NEW u, Joined(u, s, t), Refusing(s), Refusing(t)
  PROVE  Refusing(u) /\ Both(u, s, t)
<1>1. PICK S : S = {s[i] : i \in DOMAIN s} \cup {t[i] : i \in DOMAIN t}
  OBVIOUS
<1>2. s \in Seq(S)
  <2>1. s \in Seq({s[i] : i \in DOMAIN s}) /\ {s[i] : i \in DOMAIN s} \subseteq S
    BY <1>1 DEF Refusing
  <2> QED
    BY <2>1
<1>3. t \in Seq(S)
  <2>1. t \in Seq({t[i] : i \in DOMAIN t}) /\ {t[i] : i \in DOMAIN t} \subseteq S
    BY <1>1 DEF Refusing
  <2> QED
    BY <2>1
<1>4. u \in Seq(S) /\ Both(u, s, t)
  BY <1>2, <1>3, BothLists
<1>5. u \in Seq({u[i] : i \in DOMAIN u})
  <2>1. PICK R : R = {u[i] : i \in DOMAIN u}
    OBVIOUS
  <2>2. Len(u) \in Nat /\ DOMAIN u = 1..Len(u) /\ u = [i \in 1..Len(u) |-> u[i]]
    BY ONLY <1>4
  <2>3. \A i \in 1..Len(u) : u[i] \in R
    BY ONLY <2>1, <2>2
  <2>4. u \in Seq(R)
    BY ONLY <2>2, <2>3
  <2> QED
    BY ONLY <2>1, <2>4
<1>6. \A j \in DOMAIN u : u[j].result # "PASS"
  BY <1>4 DEF Refusing, Both
<1> QED
  BY <1>4, <1>5, <1>6 DEF Refusing

LEMMA PassedBy ==
  ASSUME NEW s, Refusing(s), NEW otherwise, FirstOf(s, otherwise).result = "PASS"
  PROVE  \A i \in DOMAIN s : ~s[i].hit
<1>1. DOMAIN s \subseteq Nat
  BY DEF Refusing
<1> QED
  BY <1>1, FirstOfIs DEF Refusing

LEMMA DisciplineLists ==
  ASSUME NEW decision, NEW c, NEW s, NEW p, NEW at
  PROVE  /\ Refusing(PauseChecks(decision, c, s, p, at)) /\ Refusing(SetupChecks(c, s, p))
         /\ Refusing(ReentryChecks(decision, c, s, p, at)) /\ Refusing(InitialChecks(c, s, p))
         /\ Refusing(CadenceChecks(decision, s, p, at))
<1>1. Refusing(PauseChecks(decision, c, s, p, at))
  BY DEF PauseChecks, Check, Refusing
<1>2. Refusing(SetupChecks(c, s, p))
  BY DEF SetupChecks, Check, Refusing
<1>3. Refusing(ReentryChecks(decision, c, s, p, at))
  BY DEF ReentryChecks, Check, Refusing
<1>4. Refusing(InitialChecks(c, s, p))
  BY DEF InitialChecks, Check, Refusing
<1>5. Refusing(CadenceChecks(decision, s, p, at))
  BY DEF CadenceChecks, Check, Refusing
<1> QED
  BY <1>1, <1>2, <1>3, <1>4, <1>5

Disciplined(decision, c, s, p, at) ==
  c.reentry \in BOOLEAN /\ EvaluateDiscipline(decision, c, s, p, at).result = "PASS"

NoVetoMet(decision, c, s, p) ==
  /\ decision # "HOLD" /\ c.setup # None /\ c.thesis # None
  /\ ~(p.preventSetup /\ c.setup \in s.setups)
  /\ c.reentry = TRUE => s.lastExit # None /\ c.thesis \notin s.activeTheses
  /\ c.reentry = FALSE => ~(p.preventThesis /\ c.thesis \in s.theses)
  /\ ~(s.positions >= p.maxPositions)
  /\ ~(s.today >= p.maxPerDay) /\ ~(s.session >= p.maxPerSession)

(* What Discipline let pass met none of its vetoes (guard.py:              *)
(* evaluate_discipline): it has its identities, repeats no setup and no    *)
(* thesis that the policy forbids to repeat, re-enters only after an exit, *)
(* and found room in the book and in the day.                              *)
THEOREM DisciplinePassed ==
  ASSUME NEW decision, NEW c, NEW s, NEW p, NEW at, Disciplined(decision, c, s, p, at)
  PROVE  NoVetoMet(decision, c, s, p)
<1> USE DEF Disciplined
<1>1. PICK w, x, y, z :
        /\ w = PauseChecks(decision, c, s, p, at) /\ x = SetupChecks(c, s, p)
        /\ y = (IF c.reentry THEN ReentryChecks(decision, c, s, p, at) ELSE InitialChecks(c, s, p))
        /\ z = CadenceChecks(decision, s, p, at)
  OBVIOUS
<1>2. Refusing(w) /\ Refusing(x) /\ Refusing(y) /\ Refusing(z)
  BY <1>1, DisciplineLists
<1>3. FirstOf(w \o x \o y \o z, Check(TRUE, "PASS", "PASSED")).result = "PASS"
  BY <1>1 DEF EvaluateDiscipline
<1>4. PICK wx, wxy, all : Joined(wx, w, x) /\ Joined(wxy, wx, y) /\ Joined(all, wxy, z)
  BY DEF Joined
<1>5. Refusing(wx) /\ Both(wx, w, x)
  BY <1>2, <1>4, RefusingBoth
<1>6. Refusing(wxy) /\ Both(wxy, wx, y)
  BY <1>2, <1>4, <1>5, RefusingBoth
<1>7. Refusing(all) /\ Both(all, wxy, z)
  BY <1>2, <1>4, <1>6, RefusingBoth
<1>8. \A i \in DOMAIN all : ~all[i].hit
  BY <1>3, <1>4, <1>7, PassedBy DEF Joined
<1>9. /\ \A i \in DOMAIN w : ~w[i].hit
      /\ \A i \in DOMAIN x : ~x[i].hit
      /\ \A i \in DOMAIN y : ~y[i].hit
      /\ \A i \in DOMAIN z : ~z[i].hit
  BY <1>5, <1>6, <1>7, <1>8 DEF Both
<1>10. decision # "HOLD"
  <2>1. 1 \in DOMAIN w /\ w[1].hit = (decision = "HOLD")
    BY <1>1 DEF PauseChecks, Check
  <2> QED
    BY <1>9, <2>1
<1>11. c.setup # None /\ c.thesis # None /\ ~(p.preventSetup /\ c.setup \in s.setups)
  <2>1. 1 \in DOMAIN x /\ x[1].hit = (c.setup = None \/ c.thesis = None)
    BY <1>1 DEF SetupChecks, Check
  <2>2. 4 \in DOMAIN x /\ x[4].hit = (p.preventSetup /\ c.setup \in s.setups)
    BY <1>1 DEF SetupChecks, Check
  <2> QED
    BY <1>9, <2>1, <2>2
<1>12. /\ ~(s.positions >= p.maxPositions) /\ ~(s.today >= p.maxPerDay)
       /\ ~(s.session >= p.maxPerSession)
  <2>1. 1 \in DOMAIN z /\ z[1].hit = (s.positions >= p.maxPositions)
    BY <1>1 DEF CadenceChecks, Check
  <2>2. 3 \in DOMAIN z /\ z[3].hit = (s.today >= p.maxPerDay)
    BY <1>1 DEF CadenceChecks, Check
  <2>3. 4 \in DOMAIN z /\ z[4].hit = (s.session >= p.maxPerSession)
    BY <1>1 DEF CadenceChecks, Check
  <2> QED
    BY <1>9, <2>1, <2>2, <2>3
<1>13. CASE c.reentry
  <2>1. y = ReentryChecks(decision, c, s, p, at)
    BY <1>1, <1>13
  <2>2. 3 \in DOMAIN y /\ y[3].hit = (c.thesis \in s.activeTheses)
    BY <2>1 DEF ReentryChecks, Check
  <2>3. 4 \in DOMAIN y /\ y[4].hit = (s.lastExit = None)
    BY <2>1 DEF ReentryChecks, Check
  <2> QED
    BY <1>9, <1>10, <1>11, <1>12, <1>13, <2>2, <2>3 DEF NoVetoMet
<1>14. CASE ~c.reentry
  <2>1. y = InitialChecks(c, s, p)
    BY <1>1, <1>14
  <2>2. 2 \in DOMAIN y /\ y[2].hit = (p.preventThesis /\ c.thesis \in s.theses)
    BY <2>1 DEF InitialChecks, Check
  <2> QED
    BY <1>9, <1>10, <1>11, <1>12, <1>14, <2>2 DEF NoVetoMet
<1> QED
  BY <1>13, <1>14

(* What Risk let pass had passed Discipline, with its stop on the right    *)
(* side.                                                                   *)
LEMMA RiskPassed ==
  ASSUME NEW decision, NEW discipline, NEW c, NEW p, c.complete = TRUE,
         EvaluateRisk(decision, discipline, c, p).result = "PASS"
  PROVE  discipline = "PASS" /\ StopProtects(decision, c.entry, c.stop)
<1>1. PICK s : s =
        << Check(discipline # "PASS", "NO_ACTION", "DISCIPLINE_NOT_PASSED"),
           Check(Emergency(c, p), "EMERGENCY_STOP", "EMERGENCY"),
           Check(~c.complete, "REJECT", "STATE_MISSING_OR_STALE"),
           Check(c.complete /\ BreaksLimit(decision, c, p), "REJECT", "LIMIT"),
           Check(c.complete /\ ~BreaksLimit(decision, c, p) /\ SizedVolume(c, p) = 0,
                 "REJECT", "VOLUME_BELOW_MINIMUM"),
           Check(c.complete /\ ~BreaksLimit(decision, c, p) /\ ExceedsExposure(decision, c, p),
                 "REJECT", "EXPOSURE") >>
  OBVIOUS
<1>2. Refusing(s)
  BY <1>1 DEF Check, Refusing
<1>3. FirstOf(s, Check(TRUE, "PASS", "PASSED")).result = "PASS"
  BY <1>1 DEF EvaluateRisk
<1>4. \A i \in DOMAIN s : ~s[i].hit
  BY <1>2, <1>3, PassedBy
<1>5. 1 \in DOMAIN s /\ s[1].hit = (discipline # "PASS")
  BY <1>1 DEF Check
<1>6. 4 \in DOMAIN s /\ s[4].hit = (c.complete /\ BreaksLimit(decision, c, p))
  BY <1>1 DEF Check
<1>7. discipline = "PASS" /\ ~BreaksLimit(decision, c, p)
  BY <1>4, <1>5, <1>6
<1> QED
  BY <1>7 DEF BreaksLimit

(* The position of an expired thesis is to be left.                        *)
LEMMA ExpiredLeaves ==
  ASSUME NEW c, NEW p, c.present = TRUE, c.safe = TRUE, c.linked = TRUE,
         c.lifecycle = "EXPIRED", p.exitExpired = TRUE
  PROVE  EvaluatePosition(c, p).result = "EXIT_POSITION"
<1>1. PICK k1, k2, k3, k4, k5, k6 :
        /\ k1 = Managed(~c.present, "NO_ACTION", "NO_OPEN_POSITION", None)
        /\ k2 = Managed(~c.safe \/ ~c.linked \/ c.lifecycle = "NONE", "NO_ACTION", "UNSAFE", None)
        /\ k3 = Leaves(c.lifecycle = "INVALIDATED", p.exitInvalidated, "THESIS_INVALIDATED")
        /\ k4 = Leaves(c.lifecycle = "EXPIRED", p.exitExpired, "THESIS_EXPIRED")
        /\ k5 = Leaves(c.scenario = "INVALIDATED", p.exitScenario, "SCENARIO_INVALIDATED")
        /\ k6 = Held(c.lifecycle # "WEAKENING", "THESIS_STANDS")
  OBVIOUS
<1>2. PICK s, t, otherwise : /\ s = <<k1, k2, k3, k4, k5, k6>>
                             /\ t = ProtectionChecks(c, p) /\ otherwise = Held(TRUE, "THESIS_WEAKENING")
  OBVIOUS
<1>3. /\ ~s[1].hit /\ ~s[2].hit /\ ~s[3].hit
      /\ s[4].hit /\ s[4].result = "EXIT_POSITION" /\ DOMAIN s = 1..6
  <2>1. ~k1.hit
    BY <1>1 DEF Managed
  <2>2. ~k2.hit
    BY <1>1 DEF Managed
  <2>3. ~k3.hit
    BY <1>1 DEF Managed, Leaves
  <2>4. k4.hit /\ k4.result = "EXIT_POSITION"
    BY <1>1 DEF Managed, Leaves
  <2> QED
    BY ONLY <1>2, <2>1, <2>2, <2>3, <2>4
<1>4. PICK S : S = {s[i] : i \in DOMAIN s} \cup {t[i] : i \in DOMAIN t}
  OBVIOUS
<1>5. s \in Seq(S) /\ t \in Seq(S)
  <2>1. s \in Seq(S)
    <3>1. k1 \in S /\ k2 \in S /\ k3 \in S /\ k4 \in S /\ k5 \in S /\ k6 \in S
      BY ONLY <1>2, <1>4
    <3> QED
      BY ONLY <1>2, <3>1
  <2>2. t \in Seq(S)
    <3>1. PICK t1, t2, t3 :
            /\ t1 = Held(~p.protect, "THESIS_WEAKENING")
            /\ t2 = Held(~p.breakEven, "BREAK_EVEN_DISABLED")
            /\ t3 = Held(c.age < p.minAge, "POSITION_TOO_YOUNG_FOR_PROTECTION")
      OBVIOUS
    <3>2. PICK t4, t5, t6 :
            /\ t4 = Held(~c.tradeAllowed, "BROKER_PROTECTION_CONSTRAINT")
            /\ t5 = Managed(c.price = None, "NO_ACTION", "CURRENT_PRICE_UNAVAILABLE", None)
            /\ t6 = Held(c.stop # None /\ ~Less(c.side, c.open, c.stop), "ALREADY_PROTECTED")
      OBVIOUS
    <3>3. PICK t7, t8, t9 :
            /\ t7 = Held(c.stop # None /\ ~Less(c.side, Candidate(c, p), c.stop), "PROTECTION_NOT_RISK_REDUCING")
            /\ t8 = Held(~BrokerAccepts(c.side, Candidate(c, p), c.price, c.stopsLevel), "BROKER_PROTECTION_CONSTRAINT")
            /\ t9 = Managed(TRUE, "PROTECT_POSITION", "BREAK_EVEN_PROTECTION", Candidate(c, p))
      OBVIOUS
    <3>4. t = <<t1, t2, t3, t4, t5, t6, t7, t8, t9>>
      <4>1. t = ProtectionChecks(c, p)
        BY ONLY <1>2
      <4> QED
        BY ONLY <3>1, <3>2, <3>3, <4>1 DEF ProtectionChecks
    <3>5. t1 \in S /\ t2 \in S /\ t3 \in S /\ t4 \in S /\ t5 \in S /\ t6 \in S /\ t7 \in S
          /\ t8 \in S /\ t9 \in S
      BY ONLY <1>4, <3>4
    <3> QED
      BY ONLY <3>4, <3>5
  <2> QED
    BY <2>1, <2>2
<1>6. PICK u : Joined(u, s, t)
  BY DEF Joined
<1>7. u \in Seq(S) /\ Both(u, s, t)
  BY <1>5, <1>6, BothLists
<1>8. EvaluatePosition(c, p) = FirstOf(u, otherwise)
  BY <1>1, <1>2, <1>6, Zenon DEF EvaluatePosition, Joined
<1>9. DOMAIN u \subseteq Nat
  BY <1>7
<1>10. \A i \in 1..4 : i \in DOMAIN u /\ u[i] = s[i]
  BY <1>3, <1>7 DEF Both
<1>11. PICK i \in DOMAIN u : /\ u[i].hit /\ FirstOf(u, otherwise) = u[i]
                             /\ \A j \in DOMAIN u : u[j].hit => i <= j
  <2>1. 4 \in DOMAIN u /\ u[4].hit
    BY <1>3, <1>10
  <2> QED
    BY <1>9, <2>1, FirstOfIs
<1>12. i \in Nat /\ i <= 4 /\ i # 0
  <2>1. DOMAIN u = 1..Len(u)
    BY <1>7
  <2> QED
    BY <1>3, <1>9, <1>10, <1>11, <2>1
<1>13. i = 4
  <2>1. i # 1 /\ i # 2 /\ i # 3
    BY <1>3, <1>10, <1>11
  <2> QED
    BY <1>12, <2>1
<1> QED
  BY <1>3, <1>8, <1>10, <1>11, <1>13

LEMMA LeavingPasses ==
  ASSUME NEW m, NEW c, NEW p, m.result = "EXIT_POSITION", c.present = TRUE, c.safe = TRUE,
         c.linked = TRUE, c.fresh = TRUE, c.tradeAllowed = TRUE, c.kill = FALSE
  PROVE  LET r == EvaluateActionSafety(m, c, p)
         IN r.result = "PASS" /\ r.action = "CLOSE_POSITION"
<1>1. PICK k1, k2, k3, k4, k5 :
        /\ k1 = Action(m.result \in {"NO_ACTION", "HOLD_POSITION"}, "NO_ACTION", "NO_ACTION", None)
        /\ k2 = Action(c.kill \/ ~c.safe \/ (c.present /\ ~c.linked), "EMERGENCY_BLOCK", Requested(m), None)
        /\ k3 = Action(~c.present \/ ~c.fresh \/ ~c.tradeAllowed, "REJECT", Requested(m), None)
        /\ k4 = Action(m.result = "EXIT_POSITION", "PASS", "CLOSE_POSITION", None)
        /\ k5 = Action(StopRefused(m, c, p), "REJECT", "MODIFY_PROTECTIVE_STOP", None)
  OBVIOUS
<1>2. PICK s, otherwise :
        /\ s = <<k1, k2, k3, k4, k5>>
        /\ otherwise = Action(TRUE, "PASS", "MODIFY_PROTECTIVE_STOP", Normalized(c.side, m.stop, c.tick))
  OBVIOUS
<1>3. /\ ~s[1].hit /\ ~s[2].hit /\ ~s[3].hit /\ s[4].hit
      /\ s[4].result = "PASS" /\ s[4].action = "CLOSE_POSITION" /\ DOMAIN s = 1..5
  <2>1. ~k1.hit
    BY <1>1 DEF Action
  <2>2. ~k2.hit
    BY <1>1 DEF Action
  <2>3. ~k3.hit
    BY <1>1 DEF Action
  <2>4. k4.hit /\ k4.result = "PASS" /\ k4.action = "CLOSE_POSITION"
    BY <1>1 DEF Action
  <2> QED
    BY ONLY <1>2, <2>1, <2>2, <2>3, <2>4
<1>4. EvaluateActionSafety(m, c, p) = FirstOf(s, otherwise)
  BY <1>1, <1>2, Zenon DEF EvaluateActionSafety
<1>5. PICK i \in DOMAIN s : /\ s[i].hit /\ FirstOf(s, otherwise) = s[i]
                            /\ \A j \in DOMAIN s : s[j].hit => i <= j
  <2>1. DOMAIN s \subseteq Nat /\ 4 \in DOMAIN s
    BY <1>3
  <2> QED
    BY <1>3, <2>1, FirstOfIs
<1>6. i = 4
  <2>1. i \in 1..5 /\ i <= 4
    BY <1>3, <1>5
  <2>2. i # 1 /\ i # 2 /\ i # 3
    BY <1>3, <1>5
  <2> QED
    BY <2>1, <2>2
<1> QED
  BY <1>3, <1>4, <1>5, <1>6

=============================================================================
