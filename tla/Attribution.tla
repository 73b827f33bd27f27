----------------------------- MODULE Attribution -----------------------------
(***************************************************************************)
(* Experiences are told from the records of a finished replay: of every    *)
(* proposal a decision, its refusal, what each specialist contributed, its *)
(* trade, and of every look at its position a management experience.  Each *)
(* of them is joined by identifiers of its own, from the journal and from  *)
(* replay-outcomes.json, which the replay writes at its end.               *)
(*                                                                         *)
(* The records come from a run of the replay, one bar a step: what was     *)
(* queued is filled and applied, the position may be stopped out, then     *)
(* the cycle decides and looks at the position.  SystemReplay has the      *)
(* chain that decides; here a cycle may end in any way that chain can.     *)
(* Contents that no join reads (prices, regimes, reasons) are left out.    *)
(***************************************************************************)
EXTENDS FiniteSets, Naturals

CONSTANTS
  Specialists,
  MaxTold          (* bound: bars of the replay                            *)

(* Every decision has the contributions of AGENT_ORDER.                    *)
ASSUME SpecialistsAssumption == Specialists # {}

VARIABLES
  bars,            (* the bars replayed; a cycle's proposal has its number *)
  cycles,          (* journal: the decision cycle of each bar              *)
  looks,           (* journal: position management and its safety          *)
  book,            (* the pending entry or the open position, what is      *)
                   (* queued for it                                        *)
  outcomes,        (* fills, trades and applications of replay-outcomes    *)
  written          (* replay-outcomes.json is there                        *)

storyVars == <<bars, cycles, looks, book, outcomes, written>>

Nobody == [proposal |-> 0, state |-> "FLAT", queued |-> {}]

StoryInit ==
  /\ bars = 0 /\ cycles = <<>> /\ looks = {} /\ book = Nobody /\ written = FALSE
  /\ outcomes = [fills |-> {}, trades |-> {}, applied |-> {}]

(* How a cycle may end.  An intent is built only for a flat book.          *)
Cycle(decision, discipline, risk, intent) ==
  [decision |-> decision, discipline |-> discipline, risk |-> risk, intent |-> intent]

Cycles ==
  {Cycle("HOLD", "NONE", "NONE", FALSE), Cycle("BUY", "REJECT", "NONE", FALSE),
   Cycle("BUY", "PAUSE", "NONE", FALSE), Cycle("BUY", "PASS", "REJECT", FALSE),
   Cycle("BUY", "PASS", "EMERGENCY_STOP", FALSE), Cycle("BUY", "PASS", "PASS", TRUE)}

Looks ==
  {[result |-> result, safety |-> "NO_ACTION"] : result \in {"HOLD_POSITION", "NO_ACTION"}}
  \cup [result : {"PROTECT_POSITION", "EXIT_POSITION"}, safety : {"PASS", "REJECT", "EMERGENCY_BLOCK"}]

(* A fill opens the position; a queued stop is moved, a queued close ends  *)
(* it, and so may its stop, but not on the bar of the fill or the move.    *)
Executed(exit) ==
  LET entered == book.state = "PENDING"
      closes  == {look \in book.queued : look.result = "EXIT_POSITION"}
      open    == book.state = "OPEN"
  IN [fills   |-> outcomes.fills \cup (IF entered THEN {book.proposal} ELSE {}),
      trades  |-> outcomes.trades \cup
        (IF open /\ closes # {}
         THEN {[proposal |-> book.proposal, exit |-> "POSITION_ACTION_CLOSE",
                action |-> (CHOOSE look \in closes : TRUE).bar]}
         ELSE IF exit THEN {[proposal |-> book.proposal, exit |-> "PROTECTIVE_STOP", action |-> 0]}
         ELSE {}),
      applied |-> outcomes.applied \cup {look.bar : look \in book.queued}]

Stoppable == book.state = "OPEN" /\ book.queued = {}

RecordBar ==
  /\ bars < MaxTold /\ ~written
  /\ \E exit \in BOOLEAN :
       /\ exit => Stoppable
       /\ LET closes == {look \in book.queued : look.result = "EXIT_POSITION"} # {}
              kept   == CASE book.state = "FLAT" \/ exit \/ closes -> Nobody
                          [] OTHER -> [book EXCEPT !.state = "OPEN", !.queued = {}]
          IN \E cycle \in Cycles :
               /\ cycle.intent => kept = Nobody
               /\ cycles' = [n \in 1..(bars + 1) |-> IF n <= bars THEN cycles[n] ELSE cycle]
               /\ outcomes' = Executed(exit)
               /\ IF kept = Nobody
                  THEN /\ book' = IF cycle.intent
                                  THEN [Nobody EXCEPT !.proposal = bars + 1, !.state = "PENDING"]
                                  ELSE Nobody
                       /\ UNCHANGED looks
                  ELSE \E look \in Looks :
                         LET seen == [bar |-> bars + 1, proposal |-> kept.proposal,
                                      result |-> look.result, safety |-> look.safety]
                         IN /\ looks' = looks \cup {seen}
                            /\ book' = [kept EXCEPT !.queued = IF look.safety = "PASS" THEN {seen} ELSE {}]
  /\ bars' = bars + 1
  /\ UNCHANGED written

(* The end of the data; what is still open or pending is no trade.         *)
Write == bars > 0 /\ ~written /\ written' = TRUE /\ UNCHANGED <<bars, cycles, looks, book, outcomes>>

StoryNext == RecordBar \/ Write

StorySpec == StoryInit /\ [][StoryNext]_storyVars

-----------------------------------------------------------------------------
(* THE EXPERIENCES                                                         *)

Proposals == DOMAIN cycles

(* _progressed_to: as far as the records of the proposal go.               *)
ProgressedTo(cycle) ==
  IF cycle.decision = "HOLD" THEN "MASTER_HOLD"
  ELSE IF cycle.discipline \in {"REJECT", "PAUSE"} THEN "DISCIPLINE"
  ELSE IF cycle.risk \in {"REJECT", "EMERGENCY_STOP"} THEN "RISK"
  ELSE IF cycle.intent THEN "EXECUTION_INTENT"
  ELSE "MASTER"

(* Links that are missing: every decision wants both outcomes.             *)
Missing(cycle) ==
  (IF cycle.discipline = "NONE" THEN {"DISCIPLINE_OUTCOME"} ELSE {})
  \cup (IF cycle.risk = "NONE" THEN {"RISK_OUTCOME"} ELSE {})

Decisions ==
  {[proposal |-> p, progressed |-> ProgressedTo(cycles[p]), missing |-> Missing(cycles[p])] :
     p \in Proposals}

(* Refusals: of the proposal by Discipline or Risk, of an action on its    *)
(* position by the safety evaluator; the last need the intent and the      *)
(* master's proposal the position came from.                               *)
Rejections ==
  {[proposal |-> p, layer |-> "DISCIPLINE", source |-> p] :
     p \in {q \in Proposals : cycles[q].discipline \in {"REJECT", "PAUSE"}}}
  \cup
  {[proposal |-> p, layer |-> "RISK", source |-> p] :
     p \in {q \in Proposals : cycles[q].risk \in {"REJECT", "EMERGENCY_STOP"}}}
  \cup
  {[proposal |-> look.proposal, layer |-> "POSITION_ACTION_SAFETY", source |-> look.bar] :
     look \in {l \in looks : /\ l.safety \in {"REJECT", "EMERGENCY_BLOCK"}
                             /\ l.proposal \in Proposals /\ cycles[l.proposal].intent}}

(* Every look at a position, and whether its action was executed.          *)
Managements ==
  {[proposal |-> look.proposal, look |-> look.bar, result |-> look.result,
    action |-> look.safety = "PASS", reached |-> look.bar \in outcomes.applied] : look \in looks}

(* Mutant: an emergency stop is not a refusal.                             *)
RejectedProposalsMutant ==
  {p \in Proposals : cycles[p].discipline \in {"REJECT", "PAUSE"} \/ cycles[p].risk = "REJECT"}

RejectedProposals ==
  {p \in Proposals : \/ cycles[p].discipline \in {"REJECT", "PAUSE"}
                     \/ cycles[p].risk \in {"REJECT", "EMERGENCY_STOP"}}

(* What became of the proposal each specialist contributed to.             *)
Downstream(p) ==
  CASE p \in {t.proposal : t \in outcomes.trades} -> "TRADE_COMPLETED"
    [] p \notin {t.proposal : t \in outcomes.trades} /\ p \in RejectedProposals -> "REJECTED"
    [] OTHER -> "NONE"

Contributions ==
  {[proposal |-> p, specialist |-> s, downstream |-> Downstream(p)] :
     p \in Proposals, s \in Specialists}

(* Trades, with the fill, its result and the proposal they came from.      *)
TradeExperiences ==
  {[proposal |-> t.proposal, exit |-> t.exit, action |-> t.action,
    complete |-> t.proposal \in outcomes.fills /\ t.proposal \in Proposals] : t \in outcomes.trades}

-----------------------------------------------------------------------------
(* PROPERTY                                                                *)

OfProposal(told, p) == {x \in told : x.proposal = p}

(* Told by six joins, one story: a proposal was refused by the layer its   *)
(* decision stopped at, once, and its specialists are told so; one that    *)
(* was traded went all the way, was traded once and is told completely;    *)
(* an explicit exit is the one executed exit of the looks at its position; *)
(* an action that safety refused is never told as executed.                *)
TellingsAgree ==
  written =>
    /\ \A d \in Decisions :
         LET refusals == {r \in OfProposal(Rejections, d.proposal) : r.layer # "POSITION_ACTION_SAFETY"}
             trades   == OfProposal(TradeExperiences, d.proposal)
             says     == {x.downstream : x \in OfProposal(Contributions, d.proposal)}
         IN /\ {r.layer : r \in refusals} = {d.progressed} \cap {"DISCIPLINE", "RISK"}
            /\ Cardinality(refusals) <= 1 /\ Cardinality(trades) <= 1
            /\ trades # {} => d.progressed = "EXECUTION_INTENT" /\ d.missing = {}
            /\ says = {IF trades # {} THEN "TRADE_COMPLETED"
                       ELSE IF refusals # {} THEN "REJECTED" ELSE "NONE"}
    /\ \A t \in TradeExperiences :
         LET exits == {m \in OfProposal(Managements, t.proposal) : m.result = "EXIT_POSITION" /\ m.reached}
         IN /\ t.complete
            /\ {m.look : m \in exits} = {t.action} \ {0}
            /\ (t.action = 0) = (t.exit = "PROTECTIVE_STOP")
    /\ \A m \in Managements, r \in Rejections :
         m.reached => r.layer # "POSITION_ACTION_SAFETY" \/ r.source # m.look
=============================================================================
