---------------------------- MODULE SystemReplay ----------------------------
(***************************************************************************)
(* run_system_replay: the decision cycle over recorded M5 bars.  Each bar  *)
(* first fills what the bar before it queued (ReplayExecutionBook), then   *)
(* brings the trading record up to date, then is observed (kernel and      *)
(* thesis), and last decided on: a new entry through Discipline and Risk,  *)
(* and what the thesis asks of the open positions.  Nothing decided on a   *)
(* bar takes effect before the next one opens.                             *)
(*                                                                         *)
(* A time unit is a bar; a bar missing from BarTimes is a closed market.   *)
(* The Master's signal, the prices and which stops are touched are free.   *)
(* One session a day, so the session cap counts what the daily cap counts. *)
(***************************************************************************)
EXTENDS ScenarioLifecycle, DecisionPolicy

CONSTANTS
  Discipline, Risk, Management, Actions,   (* SharedKernelPolicySet        *)
  DayLength,                               (* of a trading day             *)
  BarTimes,                                (* when its bars become known   *)
  Opens, Closes                            (* prices; an entry is decided  *)
                                           (* at DecisionPrice             *)

ASSUME DayAssumption == DayLength \in Nat \ {0} /\ BarTimes \subseteq Nat \ {0}

ASSUME CapAssumption == Discipline.maxPerDay \in Nat \ {0}

VARIABLES
  entries, stopChanges, closings,   (* ReplayExecutionBook: queued         *)
  positions,                        (* and open                            *)
  desk,                             (* _ReplayContext: the trading record  *)
  fills,                            (* ghost: every fill there was         *)
  reversed                          (* ghost: theses reversed away         *)

bookVars == <<entries, stopChanges, closings, positions>>
replayVars == <<bookVars, desk, fills, reversed>>

DayOf(t) == t \div DayLength

InitialDesk ==
  [lastEntry |-> None, lastExit |-> None, lastStop |-> None, lastRejection |-> None,
   losses |-> 0, today |-> 0, day |-> 0, theses |-> {}]

-----------------------------------------------------------------------------
(* ReplayExecutionBook.process_bar, for the bar that ends at "at".         *)
DueMutant(queue, at) == {x \in queue : x.decided < at - 1}

Due(queue, at) == {x \in queue : x.decided <= at - 1}

Fill(e, price, at) ==
  [id |-> e.decided, side |-> e.side, open |-> price, stop |-> e.stop, opened |-> at - 1,
   activeAfter |-> at, thesis |-> e.thesis, towards |-> e.towards]

AfterFills(price, at) == positions \cup {Fill(e, price, at) : e \in Due(entries, at)}

WithStop(p, at) ==
  IF \E x \in Due(stopChanges, at) : x.id = p.id
  THEN [p EXCEPT !.stop = (CHOOSE x \in Due(stopChanges, at) : x.id = p.id).stop,
                 !.activeAfter = at]
  ELSE p

AfterStops(price, at) == {WithStop(p, at) : p \in AfterFills(price, at)}

ClosedByAction(price, at) ==
  {p \in AfterStops(price, at) : \E x \in Due(closings, at) : x.id = p.id}

(* A stop set on this bar is not yet watched on it.                        *)
Touchable(price, at) ==
  {p \in AfterStops(price, at) \ ClosedByAction(price, at) : p.activeAfter < at}

(* Below its own stop a position is closed at a loss, spread included.     *)
SureLosses(stopped) == {p \in stopped : ~Less(p.side, p.stop, p.open)}

-----------------------------------------------------------------------------
(* The trading record after the bar's trades and fills, and mark_day.      *)
DeskAfterResets(gone, stopped, lost, filled, at) ==
  [lastExit  |-> IF gone = {} THEN desk.lastExit ELSE at,
   lastStop  |-> IF stopped = {} THEN desk.lastStop ELSE at,
   lastEntry |-> IF filled = {} THEN desk.lastEntry ELSE at - 1,
   lastRejection |-> desk.lastRejection,
   losses    |-> IF gone = {} THEN desk.losses
                 ELSE IF gone = lost THEN desk.losses + Cardinality(lost) ELSE 0,
   today     |-> Cardinality(filled),
   day       |-> DayOf(at),
   theses    |-> desk.theses \cup {e.thesis : e \in filled}]

DeskAfter(gone, stopped, lost, filled, at) ==
  [lastExit  |-> IF gone = {} THEN desk.lastExit ELSE at,
   lastStop  |-> IF stopped = {} THEN desk.lastStop ELSE at,
   lastEntry |-> IF filled = {} THEN desk.lastEntry ELSE at - 1,
   lastRejection |-> desk.lastRejection,
   losses    |-> IF gone = {} THEN desk.losses
                 ELSE IF gone = lost THEN desk.losses + Cardinality(lost) ELSE 0,
   today     |-> IF DayOf(at) = desk.day THEN desk.today + Cardinality(filled) ELSE 0,
   day       |-> DayOf(at),
   theses    |-> desk.theses \cup {e.thesis : e \in filled}]

(* _ReplayContext.discipline_inputs: only an eligible scenario lends the   *)
(* decision its identities.                                                *)
Eligible(t) == t # NoThesis /\ t.eligible = "ELIGIBLE"

DisciplineContext(t) ==
  [inScope |-> TRUE, handled |-> FALSE, reentry |-> FALSE,
   setup  |-> IF Eligible(t) THEN t.id ELSE None,
   thesis |-> IF Eligible(t) THEN t.id ELSE None]

DisciplineState(d, book) ==
  [pausedUntil |-> None, losses |-> d.losses, lastStop |-> d.lastStop, lastExit |-> d.lastExit,
   lastEntry |-> d.lastEntry, lastRejection |-> d.lastRejection,
   today |-> d.today, session |-> d.today, positions |-> Cardinality(book),
   directions |-> {p.side : p \in book},
   setups |-> d.theses, theses |-> d.theses,
   activeSetups |-> {p.thesis : p \in book}, activeTheses |-> {p.thesis : p \in book}]

(* The stop is laid on the side the chart points to, whatever the Master   *)
(* decided.                                                                *)
DecisionPrice == 10
StopDistance == 2

RiskContext(ev, book) ==
  [complete |-> TRUE, kill |-> FALSE, dailyDrawdown |-> 0, totalDrawdown |-> 0,
   consistent |-> TRUE, marginLevel |-> 1, freeMargin |-> 1, marginNeeded |-> 0, marginBuffer |-> 0,
   positions |-> Cardinality(book), orders |-> 0, spread |-> 0, slippage |-> 0,
   tradeAllowed |-> TRUE, entry |-> DecisionPrice,
   stop |-> IF ev.hyp = "bullish_continuation"
            THEN DecisionPrice - StopDistance ELSE DecisionPrice + StopDistance,
   stopsLevel |-> 0, freezeLevel |-> 0, riskBudget |-> StopDistance, tickValue |-> 1,
   volumeMin |-> 1, volumeMax |-> 1, volumeStep |-> 1, gross |-> 0, net |-> 0]

(* _ReplayContext.position_inputs and action_input: the thesis is handed   *)
(* over only if it is the one the position was opened for.                 *)
ManagementContext(p, t, price, at) ==
  [present |-> TRUE, safe |-> TRUE, linked |-> TRUE, fresh |-> TRUE, kill |-> FALSE,
   tradeAllowed |-> TRUE, side |-> p.side, open |-> p.open, stop |-> p.stop,
   existing |-> p.stop, original |-> p.stop, age |-> at - p.opened,
   lifecycle |-> IF t # NoThesis /\ t.id = p.thesis THEN t.status ELSE "NONE",
   scenario  |-> IF t # NoThesis /\ t.id = p.thesis THEN t.scenario ELSE "NONE",
   price |-> price, bid |-> price, ask |-> price, tick |-> 1, stopsLevel |-> 0]

ActionFor(p, t, price, at) ==
  LET c == ManagementContext(p, t, price, at)
      m == EvaluatePosition(c, Management)
  IN EvaluateActionSafety([result |-> m.result, stop |-> m.stop, existing |-> p.stop], c, Actions)

-----------------------------------------------------------------------------
(* The decision on a bar, and what it puts in the queues.                  *)
Decide(ev, book, d, queued, at) ==
  \E signal \in Signals, price \in (IF book = {} THEN {None} ELSE Closes) :
    LET context    == DisciplineContext(thesis')
        discipline == EvaluateDiscipline(signal, context, DisciplineState(d, book), Discipline, at)
        facts      == RiskContext(ev, book)
        risk       == EvaluateRisk(signal, discipline.result, facts, Risk)
        intent     == ExecutionIntent(signal, context, risk, facts, Risk)
        asked(a)   == {p \in book : LET r == ActionFor(p, thesis', price, at)
                                    IN r.result = "PASS" /\ r.action = a}
    IN /\ entries' = queued.entries \cup
            (IF intent = NoIntent THEN {}
             ELSE {[decided |-> at, side |-> intent.side, stop |-> intent.stop,
                    thesis |-> intent.thesis, towards |-> thesis'.hyp]})
       /\ closings' = queued.closings \cup
            {[id |-> p.id, decided |-> at] : p \in asked("CLOSE_POSITION")}
       /\ stopChanges' = queued.stopChanges \cup
            {[id |-> p.id, decided |-> at, stop |-> ActionFor(p, thesis', price, at).stop] :
               p \in asked("MODIFY_PROTECTIVE_STOP")}
       /\ desk' = [d EXCEPT !.lastRejection = IF discipline.result = "REJECT" THEN at ELSE @]

(* The facts for a bar that the scenario looks at: a break of structure is *)
(* never among them (BreakNeverInvalidates).                               *)
Bars == {ev \in Interpretations : ev.supports \subseteq {"m5_structure_bias"}}

(* process_event, after the book has moved.  A refused bar leaves it by an *)
(* exception, and ends the run.                                            *)
ObserveAndDecide(d, at) ==
  \E ev \in Bars :
    LET left == [entries |-> entries \ Due(entries, at), closings |-> closings \ Due(closings, at),
                 stopChanges |-> stopChanges \ Due(stopChanges, at)]
    IN /\ Observe("M5", at, ev) /\ UNCHANGED crashes
       /\ reversed' = reversed \cup (IF outcome' = "APPLIED" /\ Created(thesis')
                                          /\ ev.rel = "REVERSED" THEN {thesis.id} ELSE {})
       /\ IF outcome' = "REJECTED"
          THEN entries' = left.entries /\ closings' = left.closings
                 /\ stopChanges' = left.stopChanges /\ desk' = d
          ELSE Decide(ev, positions', d, left, at)

ReplayBar ==
  /\ outcome # "REJECTED"
  /\ \E at \in BarTimes :
     LET filled == Due(entries, at)
     IN /\ now < at /\ \A t \in BarTimes : now < t => at <= t
        /\ now' = at
        /\ fills' = fills \cup
             {[thesis |-> e.thesis, decided |-> e.decided, executed |-> at - 1] : e \in filled}
        /\ \E price \in (IF filled = {} THEN {DecisionPrice} ELSE Opens) :
           \E stopped \in SUBSET Touchable(price, at) :
           LET gone == ClosedByAction(price, at) \cup stopped
           IN \E lost \in SUBSET gone :
              /\ SureLosses(stopped) \subseteq lost
              /\ positions' = AfterStops(price, at) \ gone
              /\ ObserveAndDecide(DeskAfter(gone, stopped, lost, filled, at), at)

ReplayInit ==
  /\ Init
  /\ entries = {} /\ stopChanges = {} /\ closings = {} /\ positions = {}
  /\ desk = InitialDesk
  /\ fills = {} /\ reversed = {}

ReplaySpec == ReplayInit /\ [][ReplayBar]_<<lifecycleVars, replayVars>>

-----------------------------------------------------------------------------
(* Never more than the one position the policies allow, although an entry  *)
(* that is still queued counts in none of their limits: it is filled       *)
(* before the next decision looks at the book.                             *)
OnePosition == Cardinality(positions) + Cardinality(entries) <= 1

(* A thesis is entered once, whatever happens to its position.             *)
OneEntryPerThesis ==
  \A f, g \in fills \cup entries : f.thesis = g.thesis => f.decided = g.decided

(* A position is held in the direction of the thesis it was opened for:    *)
(* no step compares the Master's signal with the thesis, only a stop on    *)
(* the wrong side of the entry gives a contradiction away.                 *)
EntryFollowsThesis ==
  \A p \in positions \cup entries :
    p.side = (IF p.towards = "bullish_continuation" THEN "BUY" ELSE "SELL")

(* A position outlives its thesis unmanaged only when the thesis was       *)
(* reversed; one that expires takes its position along.                    *)
OrphanedOnlyByReversal ==
  \A p \in positions : p.thesis # thesis.id => p.thesis \in reversed

(* A queued close or stop change finds its position still open when its    *)
(* bar comes, and a position is asked to do one thing at a time: neither   *)
(* of the RuntimeErrors of run_system_replay can be raised.                *)
ActionsMeetTheirPosition ==
  /\ \A x \in closings \cup stopChanges : \E p \in positions : p.id = x.id
  /\ \A x, y \in closings \cup stopChanges : x.id = y.id => x = y

(* What is pending, open and asked for fits together, bar after bar: one   *)
(* position, one entry of a thesis, no action without its position, and no *)
(* position without its thesis but after a reversal.                       *)
BookInOrder ==
  OnePosition /\ OneEntryPerThesis /\ ActionsMeetTheirPosition /\ OrphanedOnlyByReversal

(* A day sees at most its cap of fills, and beyond it only those decided   *)
(* the day before: mark_day clears the count after it counted them.        *)
DailyCapButCarried ==
  \A day \in {DayOf(f.executed) : f \in fills} :
    LET today == {f \in fills : DayOf(f.executed) = day}
    IN Cardinality({f \in today : DayOf(f.decided) = day}) <= Discipline.maxPerDay
=============================================================================
