--------------------------- MODULE DecisionPolicy ---------------------------
(***************************************************************************)
(* The deterministic boundaries one decision passes, as operators: the     *)
(* Discipline Guard, financial Risk with its sizing, and for an open       *)
(* position its management and the safety check of the action asked for.   *)
(* Each takes a proposal or an outcome, a context and a policy (records    *)
(* named as in the code) and answers with a result.                        *)
(*                                                                         *)
(* Prices, volumes and fractions are integers in the smallest unit that    *)
(* matters; reasons are kept, rationales and content hashes are not.  Of   *)
(* several reasons found together only the result they give is kept.       *)
(***************************************************************************)
EXTENDS Integers, Sequences, FiniteSets

Sides == {"BUY", "SELL"}
Signals == Sides \cup {"HOLD"}

(* A time, an identity or a price that is not there.                       *)
None == -1

(* Checks made one after the other: the first that hits answers.           *)
Check(hit, result, reason) == [hit |-> hit, result |-> result, reason |-> reason]

FirstOf(checks, otherwise) ==
  IF \E i \in DOMAIN checks : checks[i].hit
  THEN checks[CHOOSE i \in DOMAIN checks :
                checks[i].hit /\ \A j \in DOMAIN checks : checks[j].hit => i <= j]
  ELSE otherwise

-----------------------------------------------------------------------------
(* Discipline: cadence and behaviour, with no view of money.               *)
CooldownRuns(since, seconds, at) == since # None /\ seconds # 0 /\ at < since + seconds

(* The loss-streak pause starts at the last stop-loss there ever was, or   *)
(* if there was none at the last exit.                                     *)
PauseAnchor(s, at) ==
  IF s.lastStop # None THEN s.lastStop ELSE IF s.lastExit # None THEN s.lastExit ELSE at

ReentryChecks(decision, c, s, p, at) ==
  << Check(p.reentry = "DISABLED", "REJECT", "REENTRY_DISABLED"),
     Check(c.thesis \notin s.theses, "REJECT", "REENTRY_NOT_PREVIOUSLY_EXECUTED"),
     Check(c.thesis \in s.activeTheses, "REJECT", "ACTIVE_THESIS"),
     Check(s.lastExit = None, "REJECT", "REENTRY_MISSING_EXIT"),
     Check(s.lastDirection = decision /\ CooldownRuns(s.lastExit, p.reentryCooldown, at),
           "REJECT", "REENTRY_COOLDOWN") >>

InitialChecks(c, s, p) ==
  << Check(p.preventThesis /\ c.thesis \in s.activeTheses, "REJECT", "ACTIVE_THESIS"),
     Check(p.preventThesis /\ c.thesis \in s.theses, "REJECT", "DUPLICATE_THESIS") >>

(* The pauses: nothing to decide, nothing rolled over, or a pause running. *)
PauseChecks(decision, c, s, p, at) ==
  << Check(decision = "HOLD", "NO_ACTION", "MASTER_HOLD"),
     Check(~c.inScope, "PAUSE", "STATE_SCOPE_MISMATCH"),
     Check(s.pausedUntil # None /\ at < s.pausedUntil, "PAUSE", "POLICY_PAUSE"),
     Check(s.losses >= p.lossThreshold /\ at < PauseAnchor(s, at) + p.lossPause,
           "PAUSE", "LOSS_STREAK_PAUSE") >>

SetupChecks(c, s, p) ==
  << Check(c.setup = None \/ c.thesis = None, "REJECT", "MISSING_STABLE_IDENTITY"),
     Check(c.handled, "REJECT", "DUPLICATE_PROPOSAL"),
     Check(p.preventSetup /\ c.setup \in s.activeSetups, "REJECT", "ACTIVE_SETUP"),
     Check(p.preventSetup /\ c.setup \in s.setups, "REJECT", "DUPLICATE_SETUP") >>

(* Caps and cooldowns, whatever the setup.                                 *)
CadenceChecks(decision, s, p, at) ==
  << Check(s.positions >= p.maxPositions, "REJECT", "MAX_SIMULTANEOUS_POSITIONS"),
     Check(p.preventDirection /\ decision \in s.directions,
           "REJECT", "SAME_DIRECTION_POSITION_ACTIVE"),
     Check(s.today >= p.maxPerDay, "REJECT", "DAILY_TRADE_CAP"),
     Check(s.session >= p.maxPerSession, "REJECT", "SESSION_TRADE_CAP"),
     Check(CooldownRuns(s.lastStop, p.stopCooldown, at), "REJECT", "STOP_LOSS_COOLDOWN"),
     Check(CooldownRuns(s.lastEntry, p.cooldown, at), "REJECT", "ORDINARY_COOLDOWN"),
     Check(CooldownRuns(s.lastRejection, p.rejectionCooldown, at),
           "REJECT", "POST_REJECTION_COOLDOWN") >>

EvaluateDiscipline(decision, c, s, p, at) ==
  FirstOf(
    PauseChecks(decision, c, s, p, at) \o SetupChecks(c, s, p)
      \o (IF c.reentry THEN ReentryChecks(decision, c, s, p, at) ELSE InitialChecks(c, s, p))
      \o CadenceChecks(decision, s, p, at),
    Check(TRUE, "PASS", "PASSED"))

-----------------------------------------------------------------------------
(* Risk: the last veto, and the size of what it lets through.              *)
Distance(a, b) == IF a < b THEN b - a ELSE a - b

Absolute(x) == IF x < 0 THEN -x ELSE x

(* On which side of its entry a protective stop lies.                      *)
StopProtects(side, entry, stop) ==
  \/ side = "BUY" /\ stop < entry
  \/ side = "SELL" /\ stop > entry

(* calculate_volume_lots: the budget over the loss of one lot, capped, and *)
(* rounded down to a step; nothing when that is below the minimum.         *)
VolumeLots(budget, lossPerUnit, minimum, maximum, step) ==
  LET raw     == budget \div lossPerUnit
      capped  == IF raw < maximum THEN raw ELSE maximum
      stepped == (capped \div step) * step
  IN IF stepped < minimum THEN 0 ELSE stepped

SizedVolume(c, p) ==
  VolumeLots(c.riskBudget, Distance(c.entry, c.stop) * c.tickValue,
             c.volumeMin, IF c.volumeMax < p.maxVolume THEN c.volumeMax ELSE p.maxVolume,
             c.volumeStep)

Emergency(c, p) ==
  \/ c.kill
  \/ c.dailyDrawdown >= p.emergencyDaily
  \/ c.totalDrawdown >= p.emergencyTotal

BreaksLimitMutant(decision, c, p) ==
  \/ ~c.consistent \/ c.marginLevel < p.minMarginLevel
  \/ c.freeMargin < c.marginNeeded + c.marginBuffer
  \/ c.dailyDrawdown >= p.maxDaily \/ c.totalDrawdown >= p.maxTotal
  \/ c.positions >= p.maxOpen \/ c.orders > p.maxPending
  \/ c.spread > p.maxSpread \/ c.slippage > p.maxSlippage
  \/ ~c.tradeAllowed
  \/ Distance(c.entry, c.stop) < p.minStop
  \/ Distance(c.entry, c.stop) < c.stopsLevel \/ Distance(c.entry, c.stop) < c.freezeLevel

BreaksLimit(decision, c, p) ==
  \/ ~c.consistent \/ c.marginLevel < p.minMarginLevel
  \/ c.freeMargin < c.marginNeeded + c.marginBuffer
  \/ c.dailyDrawdown >= p.maxDaily \/ c.totalDrawdown >= p.maxTotal
  \/ c.positions >= p.maxOpen \/ c.orders > p.maxPending
  \/ c.spread > p.maxSpread \/ c.slippage > p.maxSlippage
  \/ ~c.tradeAllowed
  \/ ~StopProtects(decision, c.entry, c.stop)
  \/ Distance(c.entry, c.stop) < p.minStop
  \/ Distance(c.entry, c.stop) < c.stopsLevel \/ Distance(c.entry, c.stop) < c.freezeLevel

Signed(decision, volume) == IF decision = "BUY" THEN volume ELSE -volume

ExceedsExposure(decision, c, p) ==
  \/ c.gross + SizedVolume(c, p) > p.maxGross
  \/ Absolute(c.net + Signed(decision, SizedVolume(c, p))) > p.maxNet

EvaluateRisk(decision, discipline, c, p) ==
  FirstOf(
    << Check(discipline # "PASS", "NO_ACTION", "DISCIPLINE_NOT_PASSED"),
       Check(Emergency(c, p), "EMERGENCY_STOP", "EMERGENCY"),
       Check(~c.complete, "REJECT", "STATE_MISSING_OR_STALE"),
       Check(c.complete /\ BreaksLimit(decision, c, p), "REJECT", "LIMIT"),
       Check(c.complete /\ ~BreaksLimit(decision, c, p) /\ SizedVolume(c, p) = 0,
             "REJECT", "VOLUME_BELOW_MINIMUM"),
       Check(c.complete /\ ~BreaksLimit(decision, c, p) /\ ExceedsExposure(decision, c, p),
             "REJECT", "EXPOSURE") >>,
    Check(TRUE, "PASS", "PASSED"))

(* build_execution_intent *)
NoIntent == [volume |-> 0]

ExecutionIntent(decision, disciplined, risk, c, p) ==
  IF risk.result = "PASS"
  THEN [volume |-> SizedVolume(c, p), side |-> decision, stop |-> c.stop,
        setup |-> disciplined.setup, thesis |-> disciplined.thesis]
  ELSE NoIntent

-----------------------------------------------------------------------------
(* Position management: what the thesis in hand asks of an open position.  *)
Less(side, new, old) == IF side = "BUY" THEN new > old ELSE new < old

Nearer(side, a, b) ==
  IF side = "BUY" THEN (IF a < b THEN a ELSE b) ELSE (IF a > b THEN a ELSE b)

(* The break-even stop, approached by at most the permitted change.        *)
Candidate(c, p) ==
  IF c.stop = None THEN c.open
  ELSE Nearer(c.side, c.open,
              IF c.side = "BUY" THEN c.stop + p.maxChange ELSE c.stop - p.maxChange)

BrokerAccepts(side, stop, price, distance) ==
  IF side = "BUY" THEN stop <= price - distance ELSE stop >= price + distance

Managed(hit, result, reason, stop) ==
  [hit |-> hit, result |-> result, reason |-> reason, stop |-> stop]

Held(hit, reason) == Managed(hit, "HOLD_POSITION", reason, None)

Leaves(hit, asked, reason) ==
  Managed(hit, IF asked THEN "EXIT_POSITION" ELSE "HOLD_POSITION", reason, None)

(* _evaluate_protection *)
ProtectionChecks(c, p) ==
  << Held(~p.protect, "THESIS_WEAKENING"),
     Held(~p.breakEven, "BREAK_EVEN_DISABLED"),
     Held(c.age < p.minAge, "POSITION_TOO_YOUNG_FOR_PROTECTION"),
     Held(~c.tradeAllowed, "BROKER_PROTECTION_CONSTRAINT"),
     Managed(c.price = None, "NO_ACTION", "CURRENT_PRICE_UNAVAILABLE", None),
     Held(c.stop # None /\ ~Less(c.side, c.open, c.stop), "ALREADY_PROTECTED"),
     Held(c.stop # None /\ ~Less(c.side, Candidate(c, p), c.stop),
          "PROTECTION_NOT_RISK_REDUCING"),
     Held(~BrokerAccepts(c.side, Candidate(c, p), c.price, c.stopsLevel),
          "BROKER_PROTECTION_CONSTRAINT"),
     Managed(TRUE, "PROTECT_POSITION", "BREAK_EVEN_PROTECTION", Candidate(c, p)) >>

EvaluatePosition(c, p) ==
  FirstOf(
    << Managed(~c.present, "NO_ACTION", "NO_OPEN_POSITION", None),
       Managed(~c.safe \/ ~c.linked \/ c.lifecycle = "NONE", "NO_ACTION", "UNSAFE", None),
       Leaves(c.lifecycle = "INVALIDATED", p.exitInvalidated, "THESIS_INVALIDATED"),
       Leaves(c.lifecycle = "EXPIRED", p.exitExpired, "THESIS_EXPIRED"),
       Leaves(c.scenario = "INVALIDATED", p.exitScenario, "SCENARIO_INVALIDATED"),
       Held(c.lifecycle # "WEAKENING", "THESIS_STANDS") >>
    \o ProtectionChecks(c, p),
    Held(TRUE, "THESIS_WEAKENING"))

-----------------------------------------------------------------------------
(* Position-action safety: the same position looked at once more, now.     *)
CeilingTo(x, tick) == ((x + tick - 1) \div tick) * tick

FloorTo(x, tick) == (x \div tick) * tick

(* _risk_reducing_normalize: to a tick, and never towards more risk.       *)
Normalized(side, stop, tick) ==
  IF side = "BUY" THEN CeilingTo(stop, tick) ELSE FloorTo(stop, tick)

(* _validate_protective_stop *)
StopRefused(m, c, p) ==
  \/ m.stop = None
  \/ m.existing # c.stop
  \/ c.stop = None /\ (~p.addMissing \/ Less(c.side, c.original, m.stop))
  \/ c.stop # None /\ ~Less(c.side, m.stop, c.stop)
  \/ ~p.normalize /\ Normalized(c.side, m.stop, c.tick) # m.stop
  \/ LET current == IF c.side = "BUY" THEN c.bid ELSE c.ask
         stop    == Normalized(c.side, m.stop, c.tick)
     IN ~Less(c.side, current, stop) \/ ~BrokerAccepts(c.side, stop, current, c.stopsLevel)

Action(hit, result, action, stop) ==
  [hit |-> hit, result |-> result, action |-> action, stop |-> stop]

Requested(m) ==
  IF m.result = "PROTECT_POSITION" THEN "MODIFY_PROTECTIVE_STOP" ELSE "CLOSE_POSITION"

EvaluateActionSafety(m, c, p) ==
  FirstOf(
    << Action(m.result \in {"NO_ACTION", "HOLD_POSITION"}, "NO_ACTION", "NO_ACTION", None),
       Action(c.kill \/ ~c.safe \/ (c.present /\ ~c.linked), "EMERGENCY_BLOCK", Requested(m), None),
       Action(~c.present \/ ~c.fresh \/ ~c.tradeAllowed, "REJECT", Requested(m), None),
       Action(m.result = "EXIT_POSITION", "PASS", "CLOSE_POSITION", None),
       Action(StopRefused(m, c, p), "REJECT", "MODIFY_PROTECTIVE_STOP", None) >>,
    Action(TRUE, "PASS", "MODIFY_PROTECTIVE_STOP", Normalized(c.side, m.stop, c.tick)))

=============================================================================
