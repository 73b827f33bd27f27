----------------------------- MODULE Governance -----------------------------
(***************************************************************************)
(* The stores of the reflection pipeline.  Each keeps the histories of its *)
(* subjects (the daily reflections of a period, the status transitions of  *)
(* a proposal, the reviews of a paired result ...) as a chain of immutable *)
(* records: a new one must name the latest as its predecessor.             *)
(*                                                                         *)
(* A writer is a process with a draft.  Database.transaction() begins the  *)
(* transaction of SQLite at the first INSERT, so what append() reads       *)
(* before it is read outside: append is two steps,                         *)
(*     idle -> drafted -> checked -> idle                                  *)
(* and only the authorisation store, which begins with BEGIN IMMEDIATE,    *)
(* appends in one.  append_plan looks at the proposal before it opens its  *)
(* transaction: drafted -> validated -> checked.                           *)
(*                                                                         *)
(* Each behaviour is about one family of stores, those that read each      *)
(* other.  The time stamps are left out: they may only add refusals.       *)
(***************************************************************************)
EXTENDS Naturals, Sequences, SequencesExt

CONSTANTS
  Writers,        (* processes that append                                *)
  Versions,       (* contents of a record nobody looks into               *)
  Families,       (* sets of stores                                       *)
  MaxRecords      (* bound: records of a history in each store            *)

Stores == {"DAILY", "WEEKLY", "PATTERN_TRANSITION", "PROPOSAL", "PROPOSAL_TRANSITION",
           "PLAN", "RESULT", "OPERATOR_DECISION", "REVIEW", "AUTHORIZATION"}

ASSUME FamiliesAssumption == Families \subseteq SUBSET Stores
ASSUME MaxRecordsAssumption == MaxRecords \in [Stores -> Nat]

VARIABLES
  family,      (* the stores of this behaviour                            *)
  log,         (* durable: the history of a subject in each store         *)
  writer,      (* what each process is at                                 *)
  overlapped   (* stores in which two appends were between their check    *)
               (* and their insert at the same time                       *)

governanceVars == <<family, log, writer, overlapped>>

-----------------------------------------------------------------------------
(* CONTENTS AND HISTORIES                                                  *)

ProposalStatuses ==
  {"OBSERVATION", "HYPOTHESIS", "CANDIDATE", "VALIDATED", "REJECTED", "DEPRECATED"}

AllowedTransitions ==
  [OBSERVATION |-> {"HYPOTHESIS", "REJECTED", "DEPRECATED"},
   HYPOTHESIS  |-> {"CANDIDATE", "REJECTED", "DEPRECATED"},
   CANDIDATE   |-> {"VALIDATED", "REJECTED", "DEPRECATED"},
   VALIDATED   |-> {"DEPRECATED"},
   REJECTED    |-> {},
   DEPRECATED  |-> {}]

ReviewDecisions == {"ACCEPT_EVIDENCE", "REJECT_EVIDENCE", "DEFER"}

Transitions == {"PATTERN_TRANSITION", "PROPOSAL_TRANSITION"}

Content(k) == CASE k \in Transitions -> ProposalStatuses
             [] k \in {"REVIEW", "OPERATOR_DECISION"} -> ReviewDecisions
             [] OTHER -> Versions

Contents == UNION {Content(k) : k \in Stores}
Record == [prev : Nat, what : Contents]

Latest(k) == Len(log[k])

(* The status after n records of a chain of transitions.                   *)
StatusAfter(h, n) == IF n = 0 THEN "OBSERVATION" ELSE h[n].what

(* What transition_history, decision_history and history accept; they      *)
(* raise for anything else.                                                *)
Replayable(h) == \A n \in DOMAIN h : h[n].prev = n - 1

Current(k) == StatusAfter(log[k], Latest(k))

(* current_status replays the history; a plan and an authorisation need it.*)
IsCandidate == Replayable(log["PROPOSAL_TRANSITION"]) /\ Current("PROPOSAL_TRANSITION") = "CANDIDATE"

(* The terminal review accepts the evidence.                               *)
Accepted ==
  /\ Replayable(log["REVIEW"]) /\ log["REVIEW"] # <<>>
  /\ Last(log["REVIEW"]).what = "ACCEPT_EVIDENCE"

-----------------------------------------------------------------------------
(* THE WRITERS                                                             *)

Idle == [step |-> "idle", store |-> "DAILY", record |-> [prev |-> 0, what |-> "NONE"]]

Writer ==
  [step : {"idle", "drafted", "validated", "checked"}, store : Stores,
   record : [prev : Nat, what : Contents \cup {"NONE"}]]

At(w, step) == writer[w].step = step
Go(w, step) == writer' = [writer EXCEPT ![w].step = step]
Rest(w) == writer' = [writer EXCEPT ![w] = Idle]

(* The contracts bind a transition to a legal edge from the status that    *)
(* the operator saw with the predecessor it names.                         *)
Draftable(k, record) ==
  k \in Transitions => record.what \in AllowedTransitions[StatusAfter(log[k], record.prev)]

(* Somebody reads the history and names a predecessor, the latest or an    *)
(* earlier one; by the time it is submitted the latest may be another.     *)
Draft(w) ==
  /\ At(w, "idle")
  /\ \E k \in family : \E prev \in 0..Latest(k), what \in Content(k) :
       /\ Draftable(k, [prev |-> prev, what |-> what])
       /\ writer' = [writer EXCEPT ![w] =
            [step |-> "drafted", store |-> k, record |-> [prev |-> prev, what |-> what]]]
  /\ UNCHANGED <<family, log, overlapped>>

Exists(w) == \E n \in DOMAIN log[writer[w].store] : log[writer[w].store][n] = writer[w].record

(* append_plan, before its transaction.                                    *)
ValidatePlan(w) ==
  /\ At(w, "drafted") /\ writer[w].store = "PLAN"
  /\ IF ~Exists(w) /\ IsCandidate THEN Go(w, "validated") ELSE Rest(w)
  /\ UNCHANGED <<family, log, overlapped>>

(* Mutant: the predecessor must exist, not be the latest.                  *)
NamesLatestMutant(w) == writer[w].record.prev \in 0..Latest(writer[w].store)

NamesLatest(w) == writer[w].record.prev = Latest(writer[w].store)

(* The reads of append(): a record that is there already is not appended   *)
(* again, and one that does not follow the latest is refused.              *)
Look(w) ==
  LET k == writer[w].store IN
  /\ IF Exists(w) \/ ~NamesLatest(w)
     THEN Rest(w) /\ UNCHANGED overlapped
     ELSE /\ Go(w, "checked")
          /\ overlapped' = IF \E v \in Writers : At(v, "checked") /\ writer[v].store = k
                           THEN overlapped \cup {k} ELSE overlapped
  /\ UNCHANGED <<family, log>>

Submit(w, k) == At(w, "drafted") /\ writer[w].store = k /\ Look(w)

(* Daily and weekly reflections, each superseding the last of its period;  *)
(* what their policies, findings and patterns say is not told apart.       *)
AppendReflection(w) == Submit(w, "DAILY")
AppendWeekly(w) == Submit(w, "WEEKLY")
TransitionPattern(w) == Submit(w, "PATTERN_TRANSITION")

(* Proposals and their lifecycle.                                          *)
AppendProposal(w) == Submit(w, "PROPOSAL")
TransitionProposal(w) == Submit(w, "PROPOSAL_TRANSITION")

(* Plans, their results and what the operator decides on these; the        *)
(* subject of a history (a result's plan, a decision's result) is there.   *)
AppendPlan(w) == At(w, "validated") /\ Look(w)
AppendResult(w) == Submit(w, "RESULT")
AppendDecision(w) == Submit(w, "OPERATOR_DECISION")
AppendReview(w) == Submit(w, "REVIEW")

Check(w) ==
  \/ AppendReflection(w) \/ AppendWeekly(w) \/ TransitionPattern(w)
  \/ AppendProposal(w) \/ TransitionProposal(w)
  \/ AppendPlan(w) \/ AppendResult(w) \/ AppendDecision(w) \/ AppendReview(w)

(* The INSERT, and the COMMIT; the id is unique, so a record that another  *)
(* process inserted in the meantime raises.  The answer may be lost, and   *)
(* the same draft submitted again.                                         *)
Insert(w) ==
  LET k == writer[w].store IN
  /\ At(w, "checked")
  /\ log' = IF Exists(w) THEN log ELSE [log EXCEPT ![k] = Append(@, writer[w].record)]
  /\ Rest(w) \/ Go(w, "drafted")
  /\ UNCHANGED <<family, overlapped>>

(* Mutant: the write lock is taken with the INSERT, as elsewhere.          *)
AuthorizeMutant(w) ==
  /\ At(w, "drafted") /\ writer[w].store = "AUTHORIZATION"
  /\ IF ~Exists(w) /\ IsCandidate /\ Accepted /\ NamesLatest(w) THEN Go(w, "checked") ELSE Rest(w)
  /\ UNCHANGED <<family, log, overlapped>>

(* ProposalTransitionAuthorizationStore.append, all under the write lock.  *)
Authorize(w) ==
  /\ At(w, "drafted") /\ writer[w].store = "AUTHORIZATION"
  /\ log' = IF ~Exists(w) /\ IsCandidate /\ Accepted /\ NamesLatest(w)
            THEN [log EXCEPT !["AUTHORIZATION"] = Append(@, writer[w].record)] ELSE log
  /\ Rest(w)
  /\ UNCHANGED <<family, overlapped>>

(* The process dies; what it had not inserted is lost.                     *)
Crash(w) == ~At(w, "idle") /\ Rest(w) /\ UNCHANGED <<family, log, overlapped>>

-----------------------------------------------------------------------------
GovernanceInit ==
  /\ family \in Families
  /\ log = [k \in Stores |-> <<>>]
  /\ writer = [w \in Writers |-> Idle]
  /\ overlapped = {}

Bounded(w) == Latest(writer[w].store) < MaxRecords[writer[w].store]

GovernanceNext ==
  \E w \in Writers :
    \/ Draft(w) \/ ValidatePlan(w) \/ Check(w) \/ Crash(w)
    \/ Bounded(w) /\ (Insert(w) \/ Authorize(w))

GovernanceSpec == GovernanceInit /\ [][GovernanceNext]_governanceVars

-----------------------------------------------------------------------------
(* PROPERTIES                                                              *)

WellTyped ==
  /\ family \in Families
  /\ log \in [Stores -> Seq(Record)]
  /\ writer \in [Writers -> Writer]
  /\ \A w \in Writers : At(w, "idle") \/ writer[w].record.what \in Content(writer[w].store)
  /\ overlapped \subseteq Stores

(* Types, and no authorisation ever waits between a check and an insert.   *)
GovernanceTypeOK ==
  WellTyped /\ \A w \in Writers : At(w, "checked") => writer[w].store # "AUTHORIZATION"

(* A history can be replayed unless two appends to it overlapped: no       *)
(* sequence of stale, repeated or abandoned drafts forks it.  Whatever     *)
(* fork there is comes from a second process between a check and an insert.*)
ForksOnlyByOverlap == \A k \in Stores : ~Replayable(log[k]) => k \in overlapped

(* docs/proposal_transition_authorization.md: authorisations are a strict  *)
(* linear history, also with several operators and over crashes.           *)
Authorizations == INSTANCE LinearHistory WITH history <- log["AUTHORIZATION"], What <- Versions
AuthorizationsAppendLinearly == Authorizations!HistorySpec

(* An authorisation is recorded only while the proposal is a candidate and *)
(* the terminal review accepts its evidence, not on what either was when   *)
(* the operator looked.                                                    *)
AuthorizedOnEvidence ==
  [][log'["AUTHORIZATION"] # log["AUTHORIZATION"] => IsCandidate /\ Accepted]_governanceVars

(* In a history without overlap a rejected or deprecated proposal stays    *)
(* so, and a validated one was a candidate immediately before.             *)
LifecycleRespected ==
  \A k \in Transitions \ overlapped : \A n \in DOMAIN log[k] :
    /\ StatusAfter(log[k], n - 1) \notin {"REJECTED", "DEPRECATED"}
    /\ log[k][n].what = "VALIDATED" => StatusAfter(log[k], n - 1) = "CANDIDATE"

(* A plan of an evaluation rests on a proposal that was a candidate when   *)
(* its registration began: one was recorded in the history.                *)
PlansFollowCandidacy ==
  log["PLAN"] # <<>> =>
    \E n \in DOMAIN log["PROPOSAL_TRANSITION"] : log["PROPOSAL_TRANSITION"][n].what = "CANDIDATE"

(* docs/paired_evaluation_review.md: "every later review must name the     *)
(* current terminal review" and "stale or forked predecessors fail closed".*)
ReviewsNameTerminal == Replayable(log["REVIEW"])

=============================================================================
