---------------------------- MODULE Orchestrator ----------------------------
(***************************************************************************)
(* RuntimeOrchestrator around the execution boundary: startup, the broker  *)
(* refresh with its reconciliation and readiness verdict, the operator's   *)
(* gates, one decision cycle (process_event) with its entry and its        *)
(* position actions, shutdown, and a crash anywhere in between.            *)
(*                                                                         *)
(* There is one runtime and it is single-threaded.  ExecutionBoundary is   *)
(* its entry adapter, step by step; this module adds the books the         *)
(* snapshot reads, the position-action ledger and the program counter opc  *)
(* of process_event:                                                       *)
(*                                                                         *)
(*   idle -> entry -> execute -> refresh -> actions                        *)
(*   actions -> action -> asend -> arecord -> afeedback -> arefresh -> ... *)
(***************************************************************************)
EXTENDS ExecutionBoundary

CONSTANTS
  Runtime,   (* the one executor                                           *)
  Actions,   (* position-action intents                                    *)
  Target,    (* the entry whose position an action closes or protects      *)
  Linkable,  (* intents a snapshot may carry a persisted broker link for   *)
  None       (* no entry in this cycle's plan                              *)

ASSUME RuntimeAssumption == Executors = {Runtime}
ASSUME TargetAssumption == Target \in [Actions -> Intents]
ASSUME LinkAssumption == Linkable \subseteq Intents /\ None \notin Intents

VARIABLES
  runtimeMode,  (* RuntimeConfig.mode                                      *)
  phase,        (* where startup() and the refreshes have left the runtime *)
  controls,     (* OperatorControls except the kill switch                 *)
  report,       (* ledger: the latest reconciliation report                *)
  readiness,    (* the latest ResumeReadiness                              *)
  opc, plan,    (* next step of process_event and what is left of its plan *)
  stale,        (* the result in hand was in its ledger before this cycle  *)
  book,         (* broker: live volume of the object of each entry         *)
  foreign,      (* broker: an object nobody's intent opened                *)
  actionLedger, (* position-action ledger and the sends it stands for      *)
  actionDraft   (* the action status about to be recorded                  *)

verdictVars == <<phase, report, readiness>>
cycleVars == <<opc, plan, stale>>
bookVars == <<book, foreign>>
actionVars == <<actionLedger, actionDraft>>
orchVars == <<vars, runtimeMode, verdictVars, controls, cycleVars, bookVars, actionVars>>

(* DISABLED behaves as REPLAY: no broker reads, never a mutation.          *)
RuntimeModes == {"REPLAY", "SHADOW", "DEMO"}
Phases == {"CREATED", "SAFE", "BLOCKED", "STOPPED"}

(* shutdown_requested gates a mutation exactly as "disabled" does.         *)
Gates == {"pause", "disabled"}

(* "ANSWERED" stands for every status taken from a broker acknowledgement. *)
ActionStatuses == {"NONE", "NO_ACTION", "FAILED", "ANSWERED", "UNKNOWN"}

Findings == [kind : {"MATCHED", "CONFLICT", "LOCAL_ONLY", "UNKNOWN"}, intent : Intents]
              \cup [kind : {"BROKER_ONLY"}, intent : Intents \cup {None}]

NoPlan == [entry |-> None, actions |-> << >>]

Cycle == {"idle", "entry", "execute", "refresh", "actions",
          "action", "asend", "arecord", "afeedback", "arefresh"}

OrchTypeOK ==
  /\ TypeOK
  /\ runtimeMode \in RuntimeModes
  /\ phase \in Phases
  /\ controls \subseteq Gates
  /\ report \in [made : BOOLEAN, findings : SUBSET Findings]
  /\ readiness \in {"none", "SAFE", "BLOCKED"}
  /\ opc \in Cycle
  /\ plan \in [entry : Intents \cup {None}, actions : Seq(Actions)]
  /\ stale \in BOOLEAN
  /\ book \in [Intents -> 0..ApprovedVolume]
  /\ foreign \in BOOLEAN
  /\ actionLedger \in
       [Actions -> [reserved : BOOLEAN, status : ActionStatuses, sends : Nat]]
  /\ actionDraft \in ActionStatuses

OrchInit ==
  /\ Init
  /\ runtimeMode \in RuntimeModes
  /\ phase = "CREATED"
  /\ controls = {}
  /\ report = [made |-> FALSE, findings |-> {}]
  /\ readiness = "none"
  /\ opc = "idle" /\ plan = NoPlan /\ stale = FALSE
  /\ book = [i \in Intents |-> 0] /\ foreign \in BOOLEAN
  /\ actionLedger = [a \in Actions |-> [reserved |-> FALSE, status |-> "NONE", sends |-> 0]]
  /\ actionDraft = "NONE"

-----------------------------------------------------------------------------
(* reconcile_execution_state                                               *)

(* Mutant: an outcome nobody knows is skipped as well.                     *)
SettledMutant == {"NO_ACTION", "REJECTED", "EXPIRED", "FAILED", "UNKNOWN"}

Settled == {"NO_ACTION", "REJECTED", "EXPIRED", "FAILED"}

(* The results reconciliation looks for at the broker.                     *)
Claims == {i \in Intents : HasResult(i) /\ Latest(i).status \notin Settled}

(* filled_volume_lots or requested_volume_lots: a zero fill is falsy.      *)
Expected(r) == IF r.filled # 0 THEN r.filled ELSE ApprovedVolume

(* Found by its link or by the ticket of the result; a deal's ticket names *)
(* no position and no order.                                               *)
Candidates(links) ==
  {i \in Claims : book[i] > 0 /\ (i \in links \/ Latest(i).ticket = "object")}

Kind(i, links) ==
  IF i \notin Candidates(links)
  THEN IF Latest(i).status = "UNKNOWN" THEN "UNKNOWN" ELSE "LOCAL_ONLY"
  ELSE IF Latest(i).ticket = "deal" \/ book[i] # Expected(Latest(i)) THEN "CONFLICT"
  ELSE "MATCHED"

(* Mutant: an object is left over only if the ledger has no result for it. *)
UnclaimedMutant(links) ==
  {i \in Intents : book[i] > 0 /\ ~HasResult(i)} \cup (IF foreign THEN {None} ELSE {})

(* The objects left over once every claim has taken its candidate.         *)
Unclaimed(links) ==
  {i \in Intents : book[i] > 0 /\ i \notin Candidates(links)}
    \cup (IF foreign THEN {None} ELSE {})

Reconciliation(links) ==
  [made |-> TRUE,
   findings |-> {[kind |-> Kind(i, links), intent |-> i] : i \in Claims}
                  \cup {[kind |-> "BROKER_ONLY", intent |-> i] : i \in Unclaimed(links)}]

Resolved(r) == \A f \in r.findings : f.kind = "MATCHED"

-----------------------------------------------------------------------------
(* _refresh_broker and what its callers make of it                         *)

(* SQLitePositionActionTransportLedger.requires_reconciliation             *)
AmbiguousAction(a) ==
  actionLedger[a].reserved /\ actionLedger[a].status \in {"NONE", "UNKNOWN"}

(* What else the verdict depends on: a market component that is not fresh, *)
(* an expired thesis, any other stale component or a continuity gap.       *)
Conditions == {"fresh", "market", "thesis", "other"}

(* _shadow_recovery_event_is_safe, given that readiness is BLOCKED.        *)
ShadowRecoverable(r, condition) ==
  /\ runtimeMode = "SHADOW"
  /\ Resolved(r)
  /\ \/ condition = "market"
     \/ condition = "thesis" /\ ~foreign /\ \A i \in Intents : book[i] = 0

Verdict(r, condition) ==
  IF Resolved(r) /\ condition = "fresh" THEN "SAFE" ELSE "BLOCKED"

RefreshCompletes ==
  \E links \in SUBSET Linkable, condition \in Conditions :
    /\ report' = Reconciliation(links)
    /\ readiness' = Verdict(report', condition)
    /\ phase' = IF \/ \E a \in Actions : AmbiguousAction(a)
                   \/ readiness' # "SAFE" /\ ~ShadowRecoverable(report', condition)
                THEN "BLOCKED" ELSE "SAFE"

(* The capture, a reduction or a write fails: before the report is         *)
(* appended, after it, or once the verdict is there as well.               *)
RefreshFails ==
  /\ phase' = "BLOCKED"
  /\ \/ UNCHANGED <<report, readiness>>
     \/ \E links \in SUBSET Linkable :
          /\ report' = Reconciliation(links)
          /\ readiness' \in {readiness, Verdict(report', "fresh"), "BLOCKED"}

Refresh == RefreshCompletes \/ RefreshFails

-----------------------------------------------------------------------------
(* startup, the snapshot cadence, the operator and the end of the process  *)

Startup ==
  /\ phase = "CREATED"
  /\ \/ phase' = "BLOCKED" /\ UNCHANGED <<report, readiness>>
     \/ runtimeMode = "REPLAY" /\ phase' = "SAFE" /\ UNCHANGED <<report, readiness>>
     \/ runtimeMode # "REPLAY" /\ Refresh
  /\ UNCHANGED <<vars, runtimeMode, controls, cycleVars, bookVars, actionVars>>

(* Once the cadence has elapsed; the phase is not looked at.               *)
RefreshSnapshotIfDue ==
  /\ opc = "idle"
  /\ runtimeMode # "REPLAY"
  /\ Refresh
  /\ UNCHANGED <<vars, runtimeMode, controls, cycleVars, bookVars, actionVars>>

(* The kill switch is the one gate a later set of controls cannot lift.    *)
SetOperatorControls ==
  /\ opc = "idle"
  /\ controls' \in SUBSET Gates
  /\ \E on \in BOOLEAN : (kill[Runtime] => on) /\ kill' = [kill EXCEPT ![Runtime] = on]
  /\ UNCHANGED <<ledgerVars, brokerVars, mode, pc, work, draft>>
  /\ UNCHANGED <<runtimeMode, verdictVars, cycleVars, bookVars, actionVars>>

ResumeNewEntries ==
  /\ opc = "idle"
  /\ phase = "SAFE" /\ readiness = "SAFE"
  /\ "disabled" \notin controls /\ ~kill[Runtime]
  /\ controls' = controls \ {"pause"}
  /\ UNCHANGED <<vars, runtimeMode, verdictVars, cycleVars, bookVars, actionVars>>

Shutdown ==
  /\ opc = "idle"
  /\ phase # "STOPPED"
  /\ phase' = "STOPPED"
  /\ UNCHANGED <<vars, runtimeMode, report, readiness, controls,
                 cycleVars, bookVars, actionVars>>

(* Mutant: reservations live in the memory of the process.                 *)
RestartMutant ==
  /\ pc' = [pc EXCEPT ![Runtime] = "idle"] /\ kill' = [kill EXCEPT ![Runtime] = FALSE]
  /\ draft' = [draft EXCEPT ![Runtime] = NoDraft] /\ reserved' = {}
  /\ phase' = "CREATED" /\ readiness' = "none" /\ controls' = {}
  /\ opc' = "idle" /\ plan' = NoPlan /\ stale' = FALSE /\ actionDraft' = "NONE"
  /\ UNCHANGED <<results, brokerVars, mode, work, runtimeMode, report, bookVars, actionLedger>>

(* The process dies, at any step, and a new one is constructed over the    *)
(* same ledgers with the same configuration.                               *)
Restart ==
  /\ Crash(Runtime) /\ mode' = mode
  /\ phase' = "CREATED" /\ readiness' = "none" /\ controls' = {}
  /\ opc' = "idle" /\ plan' = NoPlan /\ stale' = FALSE /\ actionDraft' = "NONE"
  /\ UNCHANGED <<runtimeMode, report, bookVars, actionLedger>>

(* A stop is hit, or someone trades by hand on the same account.           *)
BrokerMoves ==
  /\ \/ \E i \in Intents : \E left \in 0..(book[i] - 1) :
          book' = [book EXCEPT ![i] = left] /\ UNCHANGED foreign
     \/ foreign' = ~foreign /\ UNCHANGED book
  /\ UNCHANGED <<vars, runtimeMode, verdictVars, controls, cycleVars, actionVars>>

-----------------------------------------------------------------------------
(* process_event: the plan and the entry                                   *)

MutationBlocked == kill[Runtime] \/ "disabled" \in controls
CanMutateEntry == runtimeMode = "DEMO" /\ "pause" \notin controls /\ ~MutationBlocked
CanMutatePosition == runtimeMode = "DEMO" /\ ~MutationBlocked

(* The position actions of a plan, in order: two at most, none repeated.   *)
Batches == {s \in UNION {[1..n -> Actions] : n \in 0..2} :
              \A m, n \in DOMAIN s : s[m] = s[n] => m = n}

(* The event is reduced and the processor's plan journaled.  Which plan it *)
(* is belongs to Master, Discipline, Risk and position management.         *)
ProcessEvent ==
  /\ opc = "idle" /\ phase = "SAFE"
  /\ \E entry \in Intents \cup {None}, actions \in Batches :
       /\ plan' = [entry |-> entry, actions |-> actions]
       /\ opc' = IF entry # None /\ CanMutateEntry THEN "entry" ELSE "actions"
  /\ UNCHANGED <<vars, runtimeMode, verdictVars, controls, stale, bookVars, actionVars>>

(* Mutant: the refresh is made but its verdict is not looked at.           *)
RevalidatedMutant(next, otherwise) == Refresh /\ opc' \in {next, otherwise}

(* _revalidate_before_mutation: go on only from a refresh that ended SAFE. *)
Revalidated(next, otherwise) ==
  /\ Refresh
  /\ opc' = IF phase' = "SAFE" /\ readiness' = "SAFE" THEN next ELSE otherwise

RevalidateEntry ==
  /\ opc = "entry"
  /\ Revalidated("execute", "actions")
  /\ UNCHANGED <<vars, runtimeMode, controls, plan, stale, bookVars, actionVars>>

(* One step of the adapter, and what order_send adds to the books.         *)
ExecuteEntry ==
  /\ opc = "execute"
  /\ \/ /\ Execute(Runtime, plan.entry)
        /\ stale' = HasResult(plan.entry)
     \/ (AdapterStep(Runtime) \/ Raise(Runtime)) /\ UNCHANGED stale
  /\ book' = [i \in Intents |-> book[i] + exposure'[i] - exposure[i]]
  /\ UNCHANGED <<runtimeMode, verdictVars, controls, opc, plan, foreign, actionVars>>

(* The refresh before the mutation has moved the runtime's clock: feedback *)
(* dated before it, with the intent or by an earlier cycle, is out of order*)
(* for the reducer unless that clock stood still.  NO_ACTION is not fed.   *)
Belated(r) == r.status # "NO_ACTION" /\ (stale \/ r.origin = "intent")

(* The result is journaled and fed back; a ValueError of the reducer leaves*)
(* process_event, and with it everything that was still to be done.        *)
TakeResult ==
  /\ opc = "execute" /\ pc[Runtime] = "returned"
  /\ Return(Runtime)
  /\ \/ opc' = "refresh" /\ UNCHANGED plan
     \/ Belated(draft[Runtime]) /\ opc' = "idle" /\ plan' = NoPlan
  /\ stale' = FALSE
  /\ UNCHANGED <<runtimeMode, verdictVars, controls, bookVars, actionVars>>

EntryRaised ==
  /\ opc = "execute" /\ pc[Runtime] = "raised"
  /\ Return(Runtime)
  /\ phase' = "BLOCKED"
  /\ opc' = "actions"
  /\ UNCHANGED <<runtimeMode, report, readiness, controls, plan, stale, bookVars, actionVars>>

RefreshAfterEntry ==
  /\ opc = "refresh"
  /\ Refresh
  /\ opc' = "actions"
  /\ UNCHANGED <<vars, runtimeMode, controls, plan, stale, bookVars, actionVars>>

-----------------------------------------------------------------------------
(* process_event: the position actions                                     *)

Current == Head(plan.actions)

EndCycle == opc' = "idle" /\ plan' = NoPlan

(* Position actions need no SAFE phase: their own refresh may find one.    *)
BeginAction ==
  /\ opc = "actions"
  /\ \/ /\ plan.actions = << >> \/ ~CanMutatePosition
        /\ EndCycle
        /\ UNCHANGED verdictVars
     \/ /\ plan.actions # << >> /\ CanMutatePosition
        /\ Revalidated("action", "idle")
        /\ plan' = IF opc' = "idle" THEN NoPlan ELSE plan
  /\ UNCHANGED <<vars, runtimeMode, controls, stale, bookVars, actionVars>>

(* MT5PositionActionAdapter.execute up to its reservation.                 *)
ReserveAction ==
  LET entry == actionLedger[Current] IN
  /\ opc = "action"
  /\ \/ entry.status # "NONE"
        /\ opc' = "afeedback" /\ stale' = TRUE /\ actionDraft' = entry.status
        /\ UNCHANGED actionLedger
     \/ entry.status = "NONE" /\ entry.reserved
        /\ opc' = "arecord" /\ actionDraft' = "UNKNOWN" /\ UNCHANGED <<actionLedger, stale>>
     \/ /\ entry.status = "NONE" /\ ~entry.reserved
        /\ actionLedger' = [actionLedger EXCEPT ![Current].reserved = TRUE]
        /\ IF mode[Runtime] = "DISABLED"
           THEN opc' = "arecord" /\ actionDraft' = "NO_ACTION"
           ELSE opc' = "asend" /\ UNCHANGED actionDraft
        /\ UNCHANGED stale
  /\ UNCHANGED <<vars, runtimeMode, verdictVars, controls, plan, bookVars>>

(* The exact-ticket checks, order_send and its interpretation.  A close may*)
(* take any part of the position, a stop modification takes none.          *)
SendAction ==
  /\ opc = "asend"
  /\ opc' = "arecord"
  /\ \/ actionDraft' = "FAILED" /\ UNCHANGED <<actionLedger, book>>
     \/ /\ ~kill[Runtime] /\ VerifiedDemo /\ book[Target[Current]] > 0
        /\ \/ /\ mode[Runtime] = "DRY_RUN" /\ actionDraft' = "NO_ACTION"
              /\ UNCHANGED <<actionLedger, book>>
           \/ /\ mode[Runtime] = "DEMO_ENABLED"
              /\ actionLedger' = [actionLedger EXCEPT ![Current].sends = @ + 1]
              /\ \E left \in 0..book[Target[Current]] :
                   book' = [book EXCEPT ![Target[Current]] = left]
              /\ actionDraft' \in {"ANSWERED", "UNKNOWN"}
  /\ UNCHANGED <<vars, runtimeMode, verdictVars, controls, plan, stale, foreign>>

(* Mutant: an unknown outcome gives the reservation back for a retry.      *)
RecordActionMutant ==
  /\ opc = "arecord"
  /\ opc' = "afeedback"
  /\ actionLedger' =
       IF actionDraft = "UNKNOWN"
       THEN [actionLedger EXCEPT ![Current].reserved = FALSE]
       ELSE [actionLedger EXCEPT ![Current].status = actionDraft]
  /\ UNCHANGED <<vars, runtimeMode, verdictVars, controls, plan, stale, bookVars, actionDraft>>

RecordAction ==
  /\ opc = "arecord"
  /\ opc' = "afeedback"
  /\ actionLedger' = [actionLedger EXCEPT ![Current].status = actionDraft]
  /\ UNCHANGED <<vars, runtimeMode, verdictVars, controls, plan, stale, bookVars, actionDraft>>

(* As TakeResult; a new position result is always dated now.               *)
TakeActionResult ==
  /\ opc = "afeedback"
  /\ \/ opc' = "arefresh" /\ UNCHANGED plan
     \/ stale /\ actionDraft # "NO_ACTION" /\ EndCycle
  /\ stale' = FALSE /\ actionDraft' = "NONE"
  /\ UNCHANGED <<vars, runtimeMode, verdictVars, controls, bookVars, actionLedger>>

(* An exception out of the adapter ends the batch, wherever it arose: the  *)
(* order may already have left.                                            *)
ActionRaised ==
  /\ opc \in {"action", "asend", "arecord"}
  /\ EndCycle
  /\ phase' = "BLOCKED" /\ actionDraft' = "NONE"
  /\ UNCHANGED <<vars, runtimeMode, report, readiness, controls, stale, bookVars, actionLedger>>

RefreshAfterAction ==
  /\ opc = "arefresh"
  /\ Refresh
  /\ opc' = "actions"
  /\ plan' = [plan EXCEPT !.actions = Tail(@)]
  /\ UNCHANGED <<vars, runtimeMode, controls, stale, bookVars, actionVars>>

-----------------------------------------------------------------------------

OrchNext ==
  \/ Startup \/ RefreshSnapshotIfDue \/ SetOperatorControls \/ ResumeNewEntries
  \/ Shutdown \/ Restart \/ BrokerMoves
  \/ ProcessEvent \/ RevalidateEntry \/ ExecuteEntry \/ TakeResult \/ EntryRaised
  \/ RefreshAfterEntry
  \/ BeginAction \/ ReserveAction \/ SendAction \/ RecordAction \/ TakeActionResult
  \/ ActionRaised \/ RefreshAfterAction

OrchSpec == OrchInit /\ [][OrchNext]_orchVars

-----------------------------------------------------------------------------
(* PROPERTIES                                                              *)

(* The entry side of the composed system is the execution boundary: with   *)
(* the orchestrator around it every step of the adapter, its ledger and the*)
(* broker is a step ExecutionBoundary allows, so what is checked and proved*)
(* of the boundary holds here.                                             *)
KeepsBoundary == Spec

(* A position action is sent at most once, whatever crashes or repeated    *)
(* plans come between: the unique reservation of its ledger.               *)
ActionsSentOnce == \A a \in Actions : actionLedger[a].sends =< 1

(* An order of either kind leaves only in DEMO, with every gate open, from *)
(* a refresh that reconciled everything and found the runtime ready, and   *)
(* while no other position action is unresolved: docs/decision_log.md,     *)
(* "DEMO reacquires readiness before every action; UNKNOWN or              *)
(* reconciliation anomalies block autonomy".                               *)
DispatchOnlyWhenReady ==
  [][\A i \in Intents, a \in Actions :
       /\ sends'[i] # sends[i] =>
            CanMutateEntry /\ phase = "SAFE" /\ readiness = "SAFE" /\ Resolved(report)
              /\ ~AmbiguousAction(a)
       /\ actionLedger'[a].sends # actionLedger[a].sends =>
            CanMutatePosition /\ phase = "SAFE" /\ readiness = "SAFE" /\ Resolved(report)
              /\ \A b \in Actions \ {a} : ~AmbiguousAction(b)]_orchVars

(* What the ledger says each entry holds at the broker.                    *)
Claimed(i) == IF i \in Claims THEN Expected(Latest(i)) ELSE 0

Explained == ~foreign /\ \A i \in Intents : book[i] = Claimed(i)

(* The runtime goes on to a mutation only when ledger and broker tell the  *)
(* same story: no object without a result, none of another volume, and no  *)
(* confirmed result without its object.  In particular a position that a   *)
(* stop, a hand or the runtime's own close has ended stops all further     *)
(* mutation, for its FILLED result can never be explained again.           *)
MutatesOnlyExplainedBooks ==
  [][(opc = "entry" /\ opc' = "execute") \/ (opc = "actions" /\ opc' = "action")
       => Explained']_orchVars

(* An entry whose outcome is UNKNOWN stops every later entry, across       *)
(* restarts, unless a snapshot can carry a persisted link that explains it.*)
UnknownStopsEntries ==
  [][(\E i \in Intents : sends'[i] # sends[i]) =>
       \A i \in Intents \ Linkable : HasResult(i) => Latest(i).status # "UNKNOWN"]_orchVars

(* SQLiteExecutionLedger.requires_reconciliation.                          *)
RequiresReconciliation(i) ==
  IF ~HasResult(i) THEN i \in reserved
  ELSE /\ Latest(i).status = "UNKNOWN"
       /\ \/ ~report.made \/ ~Resolved(report)
          \/ \A f \in report.findings : f.intent # i

(* docs/agentic_architecture.md: safe resume blocks until "execution       *)
(* ambiguity is resolved".  A DEMO startup that ends SAFE leaves no intent *)
(* that left for the broker and that the ledger still calls ambiguous.     *)
SafeResumeLeavesNoAmbiguity ==
  [][phase = "CREATED" /\ phase' = "SAFE" /\ runtimeMode = "DEMO"
       => \A i \in Intents : sends[i] > 0 => ~RequiresReconciliation(i)']_orchVars

(* docs/runtime_orchestration.md: "resuming entries is permitted only while*)
(* current readiness is SAFE and execution/kill gates are inactive".       *)
PauseLiftedOnlyWhenSafe ==
  [][phase' # "CREATED" /\ "pause" \in controls /\ "pause" \notin controls'
       => phase = "SAFE" /\ readiness = "SAFE" /\ ~MutationBlocked]_orchVars

(* docs/runtime_orchestration.md: results are "journaled and converted to  *)
(* EXECUTION_FEEDBACK; the reducer is the only route into shared state. A  *)
(* bounded snapshot refresh follows transport".  A cycle that has taken a  *)
(* result from the entry adapter ends only after feedback and refresh.     *)
ResultsReachSharedState ==
  [][opc = "execute" /\ opc' = "idle" => phase' = "CREATED"]_orchVars

=============================================================================
