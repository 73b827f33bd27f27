------------------------- MODULE GovernedExecution -------------------------
(***************************************************************************)
(* The four services that execute a governed request: the evaluation of    *)
(* canonical samples, the candidate replay, the shared-kernel candidate    *)
(* and the paired evaluation.  They share one shape: record the request,   *)
(* give out what an earlier execution has completed or else compute,       *)
(* record the outputs, record the audit, return:                           *)
(*   idle -> asked -> inserting -> stored -> idle               (reused)   *)
(*                                 stored -> new -> computed -> storing    *)
(*                                        -> recorded -> auditing -> idle  *)
(* As in Governance the reads of a store happen before its transaction     *)
(* begins, and a process that runs into a refusal raises: it ends, and the *)
(* operator may run the command again.  Every behaviour is about one of    *)
(* the services.                                                           *)
(***************************************************************************)
EXTENDS FiniteSets, Naturals

CONSTANTS
  Processes,      (* runs of the command                                   *)
  Requests,
  RequestOf,      (* the request each process is run for                   *)
  RunKeys,        (* evaluation_run_key of each request, as they may be    *)
  Outcomes,
  Engines,        (* the outcomes that executing each request may compute  *)
  Nothing,
  MaxCrashes      (* bound: processes that die                             *)

ASSUME RequestsAssumption ==
  /\ RequestOf \in [Processes -> Requests]
  /\ Engines \subseteq [Requests -> SUBSET Outcomes]
  /\ Nothing \notin Outcomes
ASSUME RunKeysAssumption == \A runKey \in RunKeys : DOMAIN runKey = Requests
ASSUME CrashesAssumption == MaxCrashes \in Nat

Services == {"EVALUATION", "CANDIDATE_REPLAY", "SHARED_KERNEL", "PAIRED"}

VARIABLES
  service,     (* the service of this behaviour                            *)
  setting,     (* the run keys and the engine of this behaviour            *)
  candidate,   (* the proposal's status is CANDIDATE, which it never       *)
               (* becomes again                                            *)
  requests,    (* store: requests                                          *)
  outputs,     (* store: the outputs under each key                        *)
  audit,       (* store: the completed outcome of each request             *)
  process,     (* where each process is, and what it has computed          *)
  given,       (* what the services have returned                          *)
  crashes

stores == <<requests, outputs, audit>>
executionVars == <<service, setting, candidate, stores, process, given, crashes>>

(* The result of an evaluation is filed under its run key and supersedes   *)
(* the latest one there; the other services file outputs by request.       *)
Key(r) == IF service = "EVALUATION" THEN setting.runKey[r] ELSE r
Keys == Requests \cup UNION {{runKey[r] : r \in Requests} : runKey \in RunKeys}

Rest == [step |-> "idle", out |-> Nothing]

At(p, step) == process[p].step = step
Go(p, step) == process' = [process EXCEPT ![p].step = step]
Leave(p) == process' = [process EXCEPT ![p] = Rest]
Return(p, out) == Leave(p) /\ given' = given \cup {<<RequestOf[p], out>>}

ExecutionInit ==
  /\ service \in Services /\ candidate = TRUE
  /\ setting \in [runKey : RunKeys, engine : Engines]
  /\ requests = {} /\ outputs = [key \in Keys |-> {}]
  /\ audit = [r \in Requests |-> Nothing]
  /\ process = [p \in Processes |-> Rest]
  /\ given = {} /\ crashes = 0

-----------------------------------------------------------------------------
Ask(p) ==
  /\ At(p, "idle") /\ Go(p, "asked")
  /\ UNCHANGED <<service, setting, candidate, stores, given, crashes>>

(* append_request: one on record is not judged again, a new one needs the  *)
(* status, except of an evaluation.                                        *)
Submit(p) ==
  /\ At(p, "asked")
  /\ \/ RequestOf[p] \in requests /\ Go(p, "stored")
     \/ /\ RequestOf[p] \notin requests /\ (candidate \/ service = "EVALUATION")
        /\ Go(p, "inserting")
     \/ /\ RequestOf[p] \notin requests /\ ~candidate /\ service # "EVALUATION"
        /\ Leave(p)
  /\ UNCHANGED <<service, setting, candidate, stores, given, crashes>>

(* Its INSERT.  A request that another process has recorded since raises,  *)
(* unless the service looks again and sees it.                             *)
InsertRequest(p) ==
  /\ At(p, "inserting")
  /\ \/ RequestOf[p] \notin requests /\ Go(p, "stored")
     \/ RequestOf[p] \in requests /\ Leave(p)
     \/ RequestOf[p] \in requests /\ service \in {"EVALUATION", "CANDIDATE_REPLAY"} /\ Go(p, "stored")
  /\ requests' = requests \cup {RequestOf[p]}
  /\ UNCHANGED <<service, setting, candidate, outputs, audit, given, crashes>>

(* What the service finds of a completed execution must be what its audit  *)
(* says.                                                                   *)
Intact(r) ==
  IF service = "EVALUATION" THEN audit[r] \in outputs[Key(r)] ELSE outputs[Key(r)] = {audit[r]}

Lookup(p) ==
  LET r == RequestOf[p] IN
  /\ At(p, "stored")
  /\ \/ audit[r] = Nothing /\ Go(p, "new") /\ UNCHANGED given
     \/ audit[r] # Nothing /\ Intact(r) /\ Return(p, audit[r])
     \/ audit[r] # Nothing /\ ~Intact(r) /\ Leave(p) /\ UNCHANGED given
  /\ UNCHANGED <<service, setting, candidate, stores, crashes>>

(* Two of the services want the status again before they compute.          *)
Execute(p) ==
  /\ At(p, "new")
  /\ IF service \in {"CANDIDATE_REPLAY", "SHARED_KERNEL"} /\ ~candidate
     THEN Leave(p)
     ELSE \E out \in setting.engine[RequestOf[p]] :
            process' = [process EXCEPT ![p] = [step |-> "computed", out |-> out]]
  /\ UNCHANGED <<service, setting, candidate, stores, given, crashes>>

(* Mutant: a second execution is a conflict, whatever it has computed.     *)
CheckOutputMutant(p) ==
  /\ At(p, "computed")
  /\ IF outputs[Key(RequestOf[p])] = {} THEN Go(p, "storing") ELSE Leave(p)
  /\ UNCHANGED <<service, setting, candidate, stores, given, crashes>>

(* append_result, append_artifacts, append_outputs: the same outputs are   *)
(* taken as they are, others are a conflict.                               *)
CheckOutput(p) ==
  LET found == outputs[Key(RequestOf[p])] IN
  /\ At(p, "computed")
  /\ \/ process[p].out \in found /\ Go(p, "recorded")
     \/ found = {} /\ Go(p, "storing")
     \/ found # {} /\ process[p].out \notin found /\ Leave(p)
  /\ UNCHANGED <<service, setting, candidate, stores, given, crashes>>

(* The transaction.  A result of an evaluation is unique by its content,   *)
(* the outputs of the other services by their request.                     *)
Collides(p) ==
  LET found == outputs[Key(RequestOf[p])] IN
  IF service = "EVALUATION" THEN process[p].out \in found ELSE found # {}

(* Mutant: the outputs replace those of the request.                       *)
InsertOutputMutant(p) ==
  /\ At(p, "storing")
  /\ Go(p, "recorded") /\ outputs' = [outputs EXCEPT ![Key(RequestOf[p])] = {process[p].out}]
  /\ UNCHANGED <<service, setting, candidate, requests, audit, given, crashes>>

InsertOutput(p) ==
  /\ At(p, "storing")
  /\ IF Collides(p)
     THEN Leave(p) /\ UNCHANGED outputs
     ELSE Go(p, "recorded") /\ outputs' = [outputs EXCEPT ![Key(RequestOf[p])] = @ \cup {process[p].out}]
  /\ UNCHANGED <<service, setting, candidate, requests, audit, given, crashes>>

(* append_audit: it must describe what is on record.  The time stamps are  *)
(* no part of an audit's identity, except to the paired evaluation.        *)
Describes(p) ==
  LET found == outputs[Key(RequestOf[p])] IN
  process[p].out \in found /\ (service = "EVALUATION" \/ found = {process[p].out})

CheckAudit(p) ==
  LET prior == audit[RequestOf[p]] IN
  /\ At(p, "recorded")
  /\ \/ Describes(p) /\ prior = Nothing /\ Go(p, "auditing") /\ UNCHANGED given
     \/ Describes(p) /\ prior = process[p].out /\ Return(p, prior)
     \/ /\ ~Describes(p) \/ prior \notin {Nothing, process[p].out} \/ (prior # Nothing /\ service = "PAIRED")
        /\ Leave(p) /\ UNCHANGED given
  /\ UNCHANGED <<service, setting, candidate, stores, crashes>>

(* Mutant: no unique index on the request of an audit.                     *)
InsertAuditMutant(p) ==
  /\ At(p, "auditing")
  /\ audit' = [audit EXCEPT ![RequestOf[p]] = process[p].out]
  /\ Return(p, process[p].out)
  /\ UNCHANGED <<service, setting, candidate, requests, outputs, crashes>>

InsertAudit(p) ==
  /\ At(p, "auditing")
  /\ IF audit[RequestOf[p]] = Nothing
     THEN /\ audit' = [audit EXCEPT ![RequestOf[p]] = process[p].out]
          /\ Return(p, process[p].out)
     ELSE Leave(p) /\ UNCHANGED <<audit, given>>
  /\ UNCHANGED <<service, setting, candidate, requests, outputs, crashes>>

ServiceStep(p) ==
  \/ Submit(p) \/ InsertRequest(p) \/ Lookup(p) \/ Execute(p)
  \/ CheckOutput(p) \/ InsertOutput(p) \/ CheckAudit(p) \/ InsertAudit(p)

Die(p) ==
  /\ ~At(p, "idle") /\ crashes < MaxCrashes
  /\ Leave(p) /\ crashes' = crashes + 1
  /\ UNCHANGED <<service, setting, candidate, stores, given>>

(* evaluation_cli appends a result that supersedes the latest of its run.  *)
Supersede ==
  /\ service = "EVALUATION"
  /\ \E r \in Requests, out \in Outcomes :
       /\ outputs[Key(r)] # {} /\ outputs' = [outputs EXCEPT ![Key(r)] = @ \cup {out}]
  /\ UNCHANGED <<service, setting, candidate, requests, audit, process, given, crashes>>

(* The proposal is rejected, deprecated or validated meanwhile.            *)
LeaveCandidacy ==
  /\ candidate /\ candidate' = FALSE
  /\ UNCHANGED <<service, setting, stores, process, given, crashes>>

ExecutionNext ==
  \/ \E p \in Processes : Ask(p) \/ ServiceStep(p) \/ Die(p)
  \/ Supersede \/ LeaveCandidacy

(* The operator runs a command that has raised or died again, and a        *)
(* process that runs goes on.                                              *)
ExecutionFairness ==
  \A p \in Processes : WF_executionVars(Ask(p)) /\ WF_executionVars(ServiceStep(p))

ExecutionSpec == ExecutionInit /\ [][ExecutionNext]_executionVars /\ ExecutionFairness

-----------------------------------------------------------------------------
(* PROPERTIES                                                              *)

Steps == {"idle", "asked", "inserting", "stored", "new", "computed", "storing", "recorded", "auditing"}

ExecutionTypeOK ==
  /\ service \in Services /\ candidate \in BOOLEAN
  /\ setting \in [runKey : RunKeys, engine : Engines]
  /\ requests \subseteq Requests
  /\ outputs \in [Keys -> SUBSET Outcomes]
  /\ audit \in [Requests -> Outcomes \cup {Nothing}]
  /\ process \in [Processes -> [step : Steps, out : Outcomes \cup {Nothing}]]
  /\ given \subseteq Requests \X Outcomes
  /\ crashes \in 0..MaxCrashes

(* docs/evaluation_execution.md, docs/runbook.md: identical requests that  *)
(* have completed are recovered.  Whatever races, dies or is computed      *)
(* twice, a request has one outcome and every caller is given that one,    *)
(* even if the engine computes another one the second time.                *)
OneRequest == INSTANCE RecoverableRequest WITH requested <- requests, outcome <- audit
RecoversOneOutcome == OneRequest!RequestSpec

(* A completed request can be recovered: its outputs are those its audit   *)
(* describes, so the digest check of a later call never fails.             *)
CompletedIsIntact == \A r \in Requests : audit[r] # Nothing => Intact(r)

(* No execution is half recorded with outputs of another: outside the      *)
(* evaluations, which supersede each other, a request never has two.       *)
OutputsOfOneExecution ==
  service # "EVALUATION" => \A r \in Requests : Cardinality(outputs[r]) <= 1

(* What is on record of a request is of one execution, and whole once that *)
(* is said to be completed.                                                *)
RecordsOfOneExecution == CompletedIsIntact /\ OutputsOfOneExecution

(* An execution that died between any two of its writes can be completed   *)
(* by running it again, if its engine is deterministic and no other        *)
(* request shares its run key; two of the services also want the proposal  *)
(* to be a candidate still.                                                *)
Completable(r) ==
  /\ Cardinality(setting.engine[r]) = 1
  /\ service = "EVALUATION" => \A q \in Requests \ {r} : setting.runKey[q] # setting.runKey[r]

RetryCompletes ==
  \A r \in Requests :
    (r \in requests /\ Completable(r))
      ~> (audit[r] # Nothing \/ (service \in {"CANDIDATE_REPLAY", "SHARED_KERNEL"} /\ ~candidate))

=============================================================================
