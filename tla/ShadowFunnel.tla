---------------------------- MODULE ShadowFunnel ----------------------------
(***************************************************************************)
(* What the live shadow runtime does with one completed bar and leaves in  *)
(* its journal: the scan, the proposal and what the gates make of it, the  *)
(* discussion of opposed specialists, the trade it would have made, and the*)
(* cycle that names them all.  The process may die between two appends, and*)
(* the next one knows of the day's entries only what the journal tells.    *)
(*                                                                         *)
(* A time unit is a bar.  The plan comes from a decision processor as the  *)
(* runtime is given it; under MT5SnapshotProvider the drawdown facts are   *)
(* always missing, and it ends at the Master's proposal.  One side stands  *)
(* for both: with no position and no exit the Discipline Guard does not    *)
(* tell them apart.  What runner.process journals is in RuntimeStream.     *)
(***************************************************************************)
EXTENDS DecisionPolicy, SequencesExt

CONSTANTS
  Panel,            (* AGENT_ORDER                                         *)
  Bundles(_),       (* what the specialists may say: [side, strength] each *)
  MaxDisagreement,  (* in tenths                                           *)
  Pictures(_),      (* what the features may show; both poll by poll       *)
  Setups, Cadence,  (* the scenarios a thesis may offer; the discipline    *)
  BarsPerDay, Window,                    (* the active window of each day  *)
  LastBar, MaxPolls, MaxCuts             (* bounds: bars, faults           *)

ASSUME FunnelAssumption ==
  /\ BarsPerDay \in Nat \ {0} /\ Window \subseteq 0..(BarsPerDay - 1)
  /\ MaxDisagreement \in 0..10 /\ MaxPolls \in Nat
  /\ Cadence.maxPerDay \in Nat \ {0}

(* AGENT_ORDER names nobody twice, and everyone in a bundle.               *)
ASSUME PanelAssumption ==
  /\ Panel \in Seq(ToSet(Panel)) /\ IsInjective(Panel)
  /\ \A poll \in 1..MaxPolls : \A bundle \in Bundles(poll) :
       /\ DOMAIN bundle \subseteq ToSet(Panel)
       /\ \A a \in DOMAIN bundle : bundle[a].strength \in Nat

VARIABLES
  written,     (* the journal                                              *)
  taken,       (* journal: the last bar the reducer accepted               *)
  bar, lastPolled, (* the last completed bar, and source._last_close           *)
  scan, plan,  (* of the bar in hand                                       *)
  step, queue, (* what is done with it, and the records of this step       *)
  polls, cuts

funnelVars == <<written, taken, bar, lastPolled, scan, plan, step, queue, polls, cuts>>

NoBar == 0

NoScan == [result |-> "NONE", direction |-> "NONE", context |-> "NONE", structure |-> "NONE"]

NoPlan == [decision |-> "NONE", discipline |-> "NONE", risk |-> "NONE",
           setup |-> None, resolved |-> FALSE]

FunnelInit ==
  /\ written = << >> /\ taken = NoBar /\ bar = NoBar /\ lastPolled = NoBar
  /\ scan = NoScan /\ plan = NoPlan /\ step = "off" /\ queue = << >>
  /\ polls = 0 /\ cuts = 0

(* A record of the poll in hand, by its kind, and those it names.          *)
Id(kind) == <<kind, polls>>

Record(kind, names, says) ==
  [id |-> Id(kind), kind |-> kind, names |-> {Id(k) : k \in names}, at |-> bar, says |-> says]

OfKind(kind) == {r \in ToSet(written) : r.kind = kind}

Has(names, kind) == IF names THEN {kind} ELSE {}

DayOf(at) == at \div BarsPerDay

-----------------------------------------------------------------------------
(* scanner                                                                 *)

(* _active_window: 20:00 to 23:00 in Malaysia.                             *)
ActiveWindow(at) == at % BarsPerDay \in Window

(* _m15_context: the structure of the higher timeframe, by its bias.       *)
Structure(bias) == IF bias > 0 THEN "BULLISH" ELSE IF bias < 0 THEN "BEARISH" ELSE "NEUTRAL"

Direction(picture) ==
  IF picture.up # {} /\ picture.down # {} THEN "CONFLICTED"
  ELSE IF picture.up # {} THEN "BULLISH" ELSE "BEARISH"

Result(picture) ==
  IF picture.up = {} /\ picture.down = {} THEN "NO_SETUP"
  ELSE IF picture.up # {} /\ picture.down # {} THEN "CANDIDATE_CONFLICTED" ELSE "CANDIDATE"

ContextSays(direction, structure) ==
  IF direction \in {"NONE", "CONFLICTED"} \/ structure = "NEUTRAL" THEN "NEUTRAL"
  ELSE IF direction = structure THEN "SUPPORTS" ELSE "OPPOSES"

Candidates == {"CANDIDATE", "CANDIDATE_CONFLICTED"}

(* scan_m5_candidate: "up" and "down" are the activations (structure,      *)
(* breakout, quant) that point there; a picture that is not usable is of   *)
(* another symbol or manifest, or lacks a timeframe, a feature or a number.*)
Scanned(at, picture) ==
  LET direction == IF Result(picture) \in Candidates THEN Direction(picture) ELSE "NONE"
      structure == Structure(picture.bias)
  IN IF ~ActiveWindow(at) THEN [NoScan EXCEPT !.result = "OUTSIDE_WINDOW"]
     ELSE IF ~picture.usable THEN [NoScan EXCEPT !.result = "UNAVAILABLE"]
     ELSE [result |-> Result(picture), direction |-> direction,
           context |-> ContextSays(direction, structure), structure |-> structure]

-----------------------------------------------------------------------------
(* interaction                                                             *)

Voices(bundle, side) == {a \in DOMAIN bundle : bundle[a].side = side}

Rank(a) == CHOOSE i \in DOMAIN Panel : Panel[i] = a

Outranks(bundle, a, b) ==
  \/ bundle[a].strength > bundle[b].strength
  \/ bundle[a].strength = bundle[b].strength /\ Rank(a) < Rank(b)

Strongest(bundle, agents) ==
  {a \in agents : \A b \in agents \ {a} : Outranks(bundle, a, b)}

Summed(bundle, side) ==
  FoldSet(LAMBDA a, sum : bundle[a].strength + sum, 0, Voices(bundle, side))

Lesser(x, y) == IF x < y THEN x ELSE y

(* Both sides are heard and their disagreement is HIGH_DISAGREEMENT, which *)
(* makes the proposal a HOLD.                                              *)
Required(bundle) ==
  LET up == Summed(bundle, "BULLISH") down == Summed(bundle, "BEARISH")
  IN /\ Voices(bundle, "BULLISH") # {} /\ Voices(bundle, "BEARISH") # {}
     /\ 20 * Lesser(up, down) > MaxDisagreement * (up + down)

(* The strongest of each side, and the strongest of the others.            *)
Selected(bundle) ==
  LET up == Voices(bundle, "BULLISH") down == Voices(bundle, "BEARISH")
      pair == Strongest(bundle, up) \cup Strongest(bundle, down)
  IN pair \cup Strongest(bundle, (up \cup down) \ pair)

(* Those, in the order of the panel.                                       *)
Participants(bundle) ==
  CHOOSE row \in [1..Cardinality(Selected(bundle)) -> Selected(bundle)] :
    \A i, j \in DOMAIN row : i < j => Rank(row[i]) < Rank(row[j])

(* How far the exchange may get: each participant is challenged and answers*)
(* before the next; an answer that is late or not bound to its evidence    *)
(* ends the round at its challenge.                                        *)
TurnCounts(bundle) ==
  LET n == Len(Participants(bundle)) IN {2 * n} \cup {2 * k - 1 : k \in 1..n}

Assessment(bundle) == Record("ASSESSMENT", {"SCAN", "MASTER"}, bundle)

Round(bundle) == Record("ROUND", {"ASSESSMENT", "SCAN"}, Participants(bundle))

TurnId(i) == <<"TURN", polls, i>>

(* Odd turns are the Master's challenges, even ones the rebuttals.         *)
Turn(bundle, i) ==
  [id |-> TurnId(i), kind |-> "TURN", at |-> bar,
   names |-> {Id("ROUND")} \cup (IF i % 2 = 0 THEN {TurnId(i - 1)} ELSE {}),
   says |-> [of |-> Participants(bundle)[(i + 1) \div 2], rebuts |-> i % 2 = 0]]

ResolutionOf(bundle, turns) ==
  [id |-> Id("RESOLUTION"), kind |-> "RESOLUTION", at |-> bar,
   names |-> {Id("ROUND"), Id("ASSESSMENT"), Id("MASTER")} \cup {TurnId(i) : i \in 1..turns},
   says |-> IF turns = 2 * Len(Participants(bundle)) THEN "COMPLETED" ELSE "FAILED"]

(* The Master's proposal before the discussion is the one after it.        *)
Impact == Record("IMPACT", {"ROUND", "RESOLUTION", "MASTER"}, "UNCHANGED")

(* build_evidence_bound_interaction: the session, in the order in which its*)
(* parts are appended.                                                     *)
Discussion(bundle, turns) ==
  IF ~Required(bundle) THEN <<Assessment(bundle)>>
  ELSE <<Assessment(bundle), Round(bundle)>> \o [i \in 1..turns |-> Turn(bundle, i)]
       \o <<ResolutionOf(bundle, turns), Impact>>

-----------------------------------------------------------------------------
(* _LiveContext                                                            *)

(* Mutant: the day's entries are read from the cycles that report them.    *)
TodaysMutant == {r \in OfKind("CYCLE") : DayOf(r.at) = DayOf(bar) /\ r.says = "TRADE_PLAN"}

Todays == {r \in OfKind("EXECUTION") : DayOf(r.at) = DayOf(bar)}

(* The entries of the day, and the intents they are linked to.             *)
ShadowHistory ==
  LET linked == {i \in OfKind("INTENT") : \E r \in Todays : i.id \in r.names}
  IN [trades |-> Cardinality(Todays),
      last   |-> IF Todays = {} THEN None
                 ELSE (CHOOSE r \in Todays : \A s \in Todays : s.at <= r.at).at,
      setups |-> {i.says : i \in linked}]

(* entry: no exit, loss or rejection is ever known here.                   *)
DisciplineState ==
  [pausedUntil |-> None, losses |-> 0, lastStop |-> None, lastExit |-> None,
   lastRejection |-> None, positions |-> 0, directions |-> {},
   activeSetups |-> {}, activeTheses |-> {}, lastDirection |-> "BUY",
   lastEntry |-> ShadowHistory.last, today |-> ShadowHistory.trades,
   session |-> ShadowHistory.trades,
   setups |-> ShadowHistory.setups, theses |-> ShadowHistory.setups]

DisciplineContext(setup, reentry) ==
  [inScope |-> TRUE, handled |-> FALSE, reentry |-> reentry, setup |-> setup, thesis |-> setup]

(* The plan of DeterministicDecisionProcessor, once the broker's facts are *)
(* there; Risk may refuse what Discipline lets through.                    *)
Gated(decision, setup, reentry, approves) ==
  LET context    == DisciplineContext(setup, reentry)
      discipline == EvaluateDiscipline(decision, context, DisciplineState, Cadence, bar).result
      intended   == discipline = "PASS" /\ approves
  IN [decision |-> decision, discipline |-> discipline, resolved |-> FALSE,
      risk  |-> IF intended THEN "PASS" ELSE "REFUSED",
      setup |-> IF intended THEN setup ELSE None]

(* _FailClosedLiveProcessor: without drawdown facts the Master's proposal  *)
(* alone.  Any other error leaves an empty plan.                           *)
Plans ==
  {NoPlan}
  \cup {[NoPlan EXCEPT !.decision = d] : d \in {"HOLD", "BUY"}}
  \cup {Gated(d, setup, reentry, approves) :
          d \in {"HOLD", "BUY"}, setup \in Setups \cup {None},
          reentry \in BOOLEAN, approves \in BOOLEAN}

Intended(p) == p.risk = "PASS"

(* _journal_plan                                                           *)
PlanRecords(p) ==
  (IF p.decision = "NONE" THEN << >> ELSE <<Record("MASTER", {}, p.decision)>>)
  \o (IF p.discipline = "NONE" THEN << >>
      ELSE <<Record("DISCIPLINE", {"MASTER"}, p.discipline),
             Record("RISK", {"MASTER", "DISCIPLINE"}, p.risk)>>)
  \o (IF Intended(p) THEN <<Record("INTENT", {"MASTER", "DISCIPLINE", "RISK"}, p.setup)>>
      ELSE << >>)

-----------------------------------------------------------------------------
(* LiveShadowRuntime.process                                               *)

(* build_hypothetical_trade_plan                                           *)
TradePlan ==
  Record("TRADE_PLAN", {"SCAN", "INTENT", "MASTER", "DISCIPLINE", "RISK"}, plan.setup)

Execution == Record("EXECUTION", {"SCAN", "TRADE_PLAN", "INTENT"}, "WOULD_SUBMIT")

(* JournalShadowExecutionSink.record                                       *)
Missing(record) == IF record \in ToSet(written) THEN << >> ELSE <<record>>

SinkRecords == Missing(TradePlan) \o Missing(Execution)

Context(found) == Record("CONTEXT", {}, found.structure)

QuietCycle == Record("CYCLE", {"SCAN"} \cup Has(scan.structure # "NONE", "CONTEXT"), "QUIET")

CandidateCycle ==
  Record("CYCLE",
         {"SCAN", "CONTEXT"} \cup Has(plan.decision # "NONE", "MASTER")
           \cup (IF plan.discipline # "NONE" THEN {"DISCIPLINE", "RISK"} ELSE {})
           \cup (IF Intended(plan) THEN {"INTENT", "TRADE_PLAN", "EXECUTION"} ELSE {})
           \cup Has(plan.resolved, "RESOLUTION"),
         IF Intended(plan) THEN "TRADE_PLAN"
         ELSE IF plan.decision = "HOLD" THEN "HOLD" ELSE "SETUP_DETECTED")

(* The source gives the last completed bar, once in a session.             *)
PollCompleted ==
  /\ step = "wait" /\ polls < MaxPolls /\ polls' = polls + 1
  /\ \E at \in bar..LastBar :
       at > NoBar /\ at # lastPolled /\ bar' = at /\ lastPolled' = at
  /\ step' = "poll" /\ plan' = NoPlan
  /\ UNCHANGED <<written, taken, scan, queue, cuts>>

ScanBar ==
  /\ step = "poll" /\ step' = "scan"
  /\ \E picture \in Pictures(polls) : scan' = Scanned(bar, picture)
  /\ queue' = IF scan'.structure = "NONE" THEN <<Record("SCAN", {}, scan'.result)>>
              ELSE <<Context(scan'), Record("SCAN", {"CONTEXT"}, scan'.result)>>
  /\ UNCHANGED <<written, taken, bar, lastPolled, plan, polls, cuts>>

Write ==
  /\ queue # << >>
  /\ written' = Append(written, Head(queue)) /\ queue' = Tail(queue)
  /\ UNCHANGED <<taken, bar, lastPolled, scan, plan, step, polls, cuts>>

(* process_event: the reducer accepts the bar, and the plan is made.  A bar*)
(* it has accepted before it refuses, and the process ends (Halt).         *)
DecideOnBar ==
  /\ step = "scan" /\ queue = << >> /\ bar > taken
  /\ taken' = bar /\ step' = "discuss"
  /\ \E p \in Plans, bundle \in Bundles(polls) :
       /\ Required(bundle) => p.decision \in {"NONE", "HOLD"}
       /\ plan' = [p EXCEPT !.resolved = Required(bundle) /\ p.decision # "NONE"]
       /\ IF p.decision = "NONE" THEN queue' = << >>
          ELSE \E turns \in TurnCounts(bundle) : queue' = Discussion(bundle, turns)
  /\ UNCHANGED <<written, bar, lastPolled, scan, polls, cuts>>

(* Mutant: the discussion's records are lost and its resolution is named.  *)
DiscussionFailsMutant ==
  /\ step = "discuss" /\ queue # << >> /\ cuts < MaxCuts /\ cuts' = cuts + 1
  /\ queue' = << >>
  /\ UNCHANGED <<written, taken, bar, lastPolled, scan, plan, step, polls>>

(* An append raises in the processor: process_event goes on with an empty  *)
(* plan.                                                                   *)
DiscussionFails ==
  /\ step = "discuss" /\ queue # << >> /\ cuts < MaxCuts /\ cuts' = cuts + 1
  /\ queue' = << >> /\ plan' = NoPlan
  /\ UNCHANGED <<written, taken, bar, lastPolled, scan, step, polls>>

JournalPlan ==
  /\ step = "discuss" /\ queue = << >>
  /\ queue' = PlanRecords(plan) /\ step' = "plan"
  /\ UNCHANGED <<written, taken, bar, lastPolled, scan, plan, polls, cuts>>

(* An intent of a quiet bar is left alone.                                 *)
Conclude ==
  /\ step = "plan" /\ queue = << >>
  /\ queue' = IF scan.result \notin Candidates THEN <<QuietCycle>>
              ELSE (IF Intended(plan) THEN SinkRecords ELSE << >>) \o <<CandidateCycle>>
  /\ step' = "cycle"
  /\ UNCHANGED <<written, taken, bar, lastPolled, scan, plan, polls, cuts>>

BarDone ==
  /\ step = "cycle" /\ queue = << >> /\ step' = "wait"
  /\ UNCHANGED <<written, taken, bar, lastPolled, scan, plan, queue, polls, cuts>>

StartProcess ==
  /\ step = "off" /\ step' = "wait"
  /\ UNCHANGED <<written, taken, bar, lastPolled, scan, plan, queue, polls, cuts>>

(* The process is stopped or dies, or an append outside the processor or   *)
(* the reducer raises: what is not journaled is gone.                      *)
Halt ==
  /\ step # "off" /\ cuts < MaxCuts /\ cuts' = cuts + 1
  /\ step' = "off" /\ lastPolled' = NoBar /\ scan' = NoScan /\ plan' = NoPlan /\ queue' = << >>
  /\ UNCHANGED <<written, taken, bar, polls>>

FunnelNext ==
  \/ StartProcess \/ PollCompleted \/ ScanBar \/ Write \/ DecideOnBar \/ DiscussionFails
  \/ JournalPlan \/ Conclude \/ BarDone \/ Halt

FunnelSpec == FunnelInit /\ [][FunnelNext]_funnelVars

-----------------------------------------------------------------------------
(* PROPERTIES                                                              *)

(* What a record names, and what that names, and so on.                    *)
Further(ids) == ids \cup UNION {r.names : r \in {x \in ToSet(written) : x.id \in ids}}

(* The longest chain has seven links, through the turns of a round.        *)
GroundsOf(record) ==
  LET near == Further(Further(record.names))
      far  == Further(Further(near))
  IN Further(Further(Further(far)))

(* When a cycle or a would-be execution is journaled, all it rests on has  *)
(* been: directly, or through what it names.  The records of a discussion  *)
(* name a proposal that is journaled after them, and that a crash or a     *)
(* failed append keeps out for good.                                       *)
Grounded ==
  written # << >> /\ Last(written).kind \in {"CYCLE", "EXECUTION"} =>
    GroundsOf(Last(written)) \subseteq {r.id : r \in ToSet(Front(written))}

(* When a discussion is journaled as completed it has heard the strongest  *)
(* of either side, and no one twice.                                       *)
BothHeard ==
  written # << >> /\ Last(written).kind = "RESOLUTION" /\ Last(written).says = "COMPLETED" =>
    LET r        == Last(written)
        answers  == {t \in OfKind("TURN") : t.id \in r.names /\ t.says.rebuts}
        bundle   == (CHOOSE a \in OfKind("ASSESSMENT") : a.id \in r.names).says
        speakers == {t.says.of : t \in answers}
    IN /\ \A side \in {"BULLISH", "BEARISH"} :
            Strongest(bundle, Voices(bundle, side)) \subseteq speakers
       /\ Cardinality(answers) = Cardinality(speakers) /\ Cardinality(speakers) <= 3

(* The decisions can be explained from the journal alone.                  *)
DecisionsOnRecord == Grounded /\ BothHeard

(* Over stops and crashes between any two appends the entries of a day     *)
(* keep to the discipline: no more than its cap, and no setup twice.       *)
ShadowKeepsDiscipline ==
  \A r, s \in OfKind("EXECUTION") : DayOf(r.at) = DayOf(s.at) =>
    /\ Cardinality({x \in OfKind("EXECUTION") : DayOf(x.at) = DayOf(r.at)}) <= Cadence.maxPerDay
    /\ \A i, j \in OfKind("INTENT") :
         r # s /\ i.id \in r.names /\ j.id \in s.names => i.says # j.says

=============================================================================
