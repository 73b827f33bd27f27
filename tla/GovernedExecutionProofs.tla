---------------------- MODULE GovernedExecutionProofs ----------------------
(***************************************************************************)
(* Proofs about the governed executions, for any processes, requests, run  *)
(* keys, engines and number of crashes.  Outputs are only added to, and    *)
(* those of a request outside the evaluations only once; nobody writes an  *)
(* audit that does not describe them.                                      *)
(***************************************************************************)
EXTENDS GovernedExecution, FiniteSetTheorems, TLAPS

Process == [step : Steps, out : Outcomes \cup {Nothing}]

(* What a process has made sure of at its step.                            *)
ProcessKept(p) ==
  /\ process[p].step \notin {"idle", "asked", "inserting"} => RequestOf[p] \in requests
  /\ process[p].step \in {"computed", "storing", "recorded", "auditing"} => process[p].out \in Outcomes
  /\ At(p, "auditing") => Describes(p)

OutputsOnce == service # "EVALUATION" => \A r \in Requests : outputs[r] = {} \/ \E out : outputs[r] = {out}

ExecutionInv ==
  /\ ExecutionTypeOK
  /\ \A p \in Processes : ProcessKept(p)
  /\ OutputsOnce /\ CompletedIsIntact

-----------------------------------------------------------------------------
LEMMA KeyOfRequest ==
  ASSUME ExecutionTypeOK, NEW r \in Requests
  PROVE  Key(r) \in Keys /\ (service # "EVALUATION" => Key(r) = r)
  BY DEF ExecutionTypeOK, Key, Keys

LEMMA InitExecutionInv == ExecutionInit => ExecutionInv
<1> SUFFICES ASSUME ExecutionInit PROVE ExecutionInv
  OBVIOUS
<1> USE DEF ExecutionInit
<1>1. Rest \in Process /\ Rest.step = "idle"
  BY DEF Rest, Process, Steps
<1>2. \A p \in Processes : process[p].step = "idle"
  BY <1>1
<1>3. ExecutionTypeOK
  BY <1>1, CrashesAssumption DEF ExecutionTypeOK, Process
<1>4. \A p \in Processes : ProcessKept(p)
  BY <1>2 DEF ProcessKept, At
<1>5. OutputsOnce
  BY DEF OutputsOnce, Keys
<1>6. CompletedIsIntact
  BY DEF CompletedIsIntact
<1> QED
  BY <1>3, <1>4, <1>5, <1>6 DEF ExecutionInv

(* The stores are added to; under a request that has outputs, outside the  *)
(* evaluations, no more.                                                   *)
Grows ==
  /\ UNCHANGED <<service, setting>>
  /\ requests \subseteq requests'
  /\ \A key \in Keys : /\ outputs[key] \subseteq outputs'[key]
                       /\ service # "EVALUATION" /\ outputs[key] # {} => outputs'[key] = outputs[key]

(* That takes nothing from a process that stays where it is.               *)
LEMMA GrowsKept ==
  ASSUME ExecutionTypeOK, Grows, NEW p \in Processes, ProcessKept(p), process'[p] = process[p]
  PROVE  ProcessKept(p)'
<1>1. Key(RequestOf[p]) \in Keys /\ Key(RequestOf[p])' = Key(RequestOf[p])
  BY RequestsAssumption, KeyOfRequest DEF Grows, Key
<1>2. At(p, "auditing") => Describes(p)'
  BY <1>1 DEF ProcessKept, Describes, Grows
<1> QED
  BY <1>2 DEF ProcessKept, Grows, At

(* Nor from a completed request.                                           *)
LEMMA GrowsIntact ==
  ASSUME ExecutionTypeOK, Grows, NEW r \in Requests, Intact(r), audit'[r] = audit[r]
  PROVE  Intact(r)'
<1>1. Key(r) \in Keys /\ Key(r)' = Key(r)
  BY KeyOfRequest DEF Grows, Key
<1> QED
  BY <1>1 DEF Intact, Grows

(* A step of one process that writes no audit.                             *)
LEMMA ProcessMoves ==
  ASSUME ExecutionInv, NEW p \in Processes, NEW x \in Process,
         process' = [process EXCEPT ![p] = x], ProcessKept(p)',
         Grows, requests' \subseteq Requests, outputs' \in [Keys -> SUBSET Outcomes], OutputsOnce',
         UNCHANGED <<candidate, audit>>,
         given' \subseteq Requests \X Outcomes, crashes' \in 0..MaxCrashes
  PROVE  ExecutionInv'
<1>1. /\ process' \in [Processes -> Process]
      /\ \A q \in Processes \ {p} : process'[q] = process[q]
  BY DEF ExecutionInv, ExecutionTypeOK, Process
<1>2. ExecutionTypeOK'
  BY <1>1 DEF ExecutionInv, ExecutionTypeOK, Grows, Process
<1>3. \A q \in Processes : ProcessKept(q)'
  BY <1>1, GrowsKept DEF ExecutionInv
<1>4. CompletedIsIntact'
  BY GrowsIntact DEF ExecutionInv, CompletedIsIntact
<1> QED
  BY <1>2, <1>3, <1>4 DEF ExecutionInv

(* A step that writes nothing at all.                                      *)
LEMMA ProcessReads ==
  ASSUME ExecutionInv, NEW p \in Processes, NEW x \in Process,
         process' = [process EXCEPT ![p] = x], ProcessKept(p)',
         UNCHANGED <<service, setting, candidate, stores>>,
         given' \subseteq Requests \X Outcomes, crashes' \in 0..MaxCrashes
  PROVE  ExecutionInv'
<1>1. Grows
  BY DEF Grows, stores
<1>2. OutputsOnce' /\ requests' \subseteq Requests /\ outputs' \in [Keys -> SUBSET Outcomes]
  BY DEF ExecutionInv, ExecutionTypeOK, OutputsOnce, stores
<1> QED
  BY <1>1, <1>2, ProcessMoves DEF stores

(* Where a process is after going on or raising.                           *)
LEMMA Going ==
  ASSUME ExecutionTypeOK, NEW p \in Processes, NEW step \in Steps, Go(p, step)
  PROVE  /\ [process[p] EXCEPT !.step = step] \in Process
         /\ process' = [process EXCEPT ![p] = [process[p] EXCEPT !.step = step]]
         /\ process'[p].step = step /\ process'[p].out = process[p].out
<1>1. process[p] \in Process
  BY DEF ExecutionTypeOK, Process
<1>2. [process[p] EXCEPT !.step = step] \in Process
  BY <1>1 DEF Process
<1>3. process' = [process EXCEPT ![p] = [process[p] EXCEPT !.step = step]]
  BY DEF Go
<1> QED
  BY <1>1, <1>2, <1>3 DEF ExecutionTypeOK, Process

LEMMA Raising ==
  ASSUME ExecutionTypeOK, NEW p \in Processes, Leave(p)
  PROVE  Rest \in Process /\ process' = [process EXCEPT ![p] = Rest] /\ ProcessKept(p)'
<1>1. Rest \in Process /\ Rest.step = "idle"
  BY DEF Rest, Process, Steps
<1>2. process'[p].step = "idle"
  BY <1>1 DEF Leave, ExecutionTypeOK
<1> QED
  BY <1>1, <1>2 DEF Leave, ProcessKept, At

(* The two ways of a step that writes nothing and gives out nothing.       *)
LEMMA Reads ==
  ASSUME ExecutionInv, NEW p \in Processes,
         \/ Leave(p)
         \/ \E step \in Steps : Go(p, step) /\ ProcessKept(p)',
         UNCHANGED <<service, setting, candidate, stores, given>>, crashes' \in 0..MaxCrashes
  PROVE  ExecutionInv'
<1>1. given' \subseteq Requests \X Outcomes
  BY DEF ExecutionInv, ExecutionTypeOK
<1>2. CASE Leave(p)
  BY <1>1, <1>2, Raising, ProcessReads DEF ExecutionInv
<1>3. ASSUME NEW step \in Steps, Go(p, step), ProcessKept(p)' PROVE ExecutionInv'
  BY <1>1, <1>3, Going, ProcessReads DEF ExecutionInv
<1> QED
  BY <1>2, <1>3

-----------------------------------------------------------------------------
(* The steps that read: where they go on, what is kept is kept.            *)
LEMMA ReadingInv ==
  ASSUME ExecutionInv, NEW p \in Processes,
         Ask(p) \/ Submit(p) \/ CheckOutput(p) \/ Die(p)
  PROVE  ExecutionInv'
<1> DEFINE Kept(step) == Go(p, step) /\ ProcessKept(p)'
<1>1. /\ UNCHANGED <<service, setting, candidate, stores, given>>
      /\ crashes \in 0..MaxCrashes /\ crashes' \in 0..MaxCrashes
      /\ ProcessKept(p)
  BY CrashesAssumption
  DEF Ask, Submit, CheckOutput, Die, ExecutionInv, ExecutionTypeOK
<1>2. {"asked", "inserting", "stored", "storing", "recorded"} \subseteq Steps
  BY DEF Steps
<1>3. CASE Ask(p)
  BY <1>1, <1>2, <1>3, Going, Reads DEF Ask, ProcessKept, At, ExecutionInv
<1>4. CASE Submit(p)
  <2>1. CASE Leave(p)
    BY <1>1, <2>1, Reads
  <2>2. CASE Go(p, "stored") /\ RequestOf[p] \in requests
    BY <1>1, <1>2, <2>2, Going, Reads DEF ProcessKept, At, ExecutionInv, stores
  <2>3. CASE Go(p, "inserting")
    BY <1>1, <1>2, <2>3, Going, Reads DEF ProcessKept, At, ExecutionInv
  <2> QED
    BY <1>4, <2>1, <2>2, <2>3 DEF Submit
<1>5. CASE CheckOutput(p)
  <2>1. RequestOf[p] \in requests /\ process[p].out \in Outcomes
    BY <1>1, <1>5 DEF CheckOutput, ProcessKept, At
  <2>2. CASE Leave(p)
    BY <1>1, <2>2, Reads
  <2>3. ASSUME NEW step \in {"storing", "recorded"}, Go(p, step) PROVE ExecutionInv'
    BY <1>1, <1>2, <2>1, <2>3, Going, Reads DEF ProcessKept, At, ExecutionInv, stores
  <2> QED
    BY <1>5, <2>2, <2>3 DEF CheckOutput
<1>6. CASE Die(p)
  BY <1>1, <1>6, Reads DEF Die
<1> QED
  BY <1>3, <1>4, <1>5, <1>6

LEMMA InsertRequestInv ==
  ASSUME ExecutionInv, NEW p \in Processes, InsertRequest(p) PROVE ExecutionInv'
<1>1. /\ UNCHANGED <<service, setting, candidate, outputs, audit, given, crashes>>
      /\ requests' = requests \cup {RequestOf[p]} /\ RequestOf[p] \in Requests
  BY RequestsAssumption DEF InsertRequest
<1>2. Grows /\ OutputsOnce'
  BY <1>1 DEF Grows, ExecutionInv, OutputsOnce
<1>3. /\ requests' \subseteq Requests /\ outputs' \in [Keys -> SUBSET Outcomes]
      /\ given' \subseteq Requests \X Outcomes /\ crashes' \in 0..MaxCrashes
  BY <1>1 DEF ExecutionInv, ExecutionTypeOK
<1>4. CASE Leave(p)
  BY <1>1, <1>2, <1>3, <1>4, Raising, ProcessMoves DEF ExecutionInv
<1>5. CASE Go(p, "stored")
  <2>1. "stored" \in Steps
    BY DEF Steps
  <2>2. ProcessKept(p)'
    BY <1>1, <1>5, <2>1, Going DEF ProcessKept, At, ExecutionInv
  <2> QED
    BY <1>1, <1>2, <1>3, <1>5, <2>1, <2>2, Going, ProcessMoves DEF ExecutionInv
<1> QED
  BY <1>4, <1>5 DEF InsertRequest

(* What is given out is an outcome on record.                              *)
LEMMA GivenTyped ==
  ASSUME ExecutionInv, NEW p \in Processes, NEW out \in Outcomes,
         given' = given \cup {<<RequestOf[p], out>>}
  PROVE  given' \subseteq Requests \X Outcomes
  BY RequestsAssumption DEF ExecutionInv, ExecutionTypeOK

LEMMA OutcomeOnRecord ==
  ASSUME ExecutionInv, NEW p \in Processes, audit[RequestOf[p]] # Nothing
  PROVE  audit[RequestOf[p]] \in Outcomes
  BY RequestsAssumption DEF ExecutionInv, ExecutionTypeOK

LEMMA LookupInv ==
  ASSUME ExecutionInv, NEW p \in Processes, Lookup(p) PROVE ExecutionInv'
<1>1. /\ UNCHANGED <<service, setting, candidate, stores, crashes>>
      /\ crashes' \in 0..MaxCrashes /\ RequestOf[p] \in requests'
  BY DEF Lookup, ExecutionInv, ExecutionTypeOK, ProcessKept, At, stores
<1>2. CASE Go(p, "new") /\ UNCHANGED given
  <2>1. "new" \in Steps
    BY DEF Steps
  <2>2. ProcessKept(p)'
    BY <1>1, <1>2, <2>1, Going DEF ProcessKept, At, ExecutionInv
  <2> QED
    BY <1>1, <1>2, <2>1, <2>2, Reads
<1>3. CASE audit[RequestOf[p]] # Nothing /\ Return(p, audit[RequestOf[p]])
  BY <1>1, <1>3, OutcomeOnRecord, GivenTyped, Raising, ProcessReads DEF Return, ExecutionInv
<1>4. CASE Leave(p) /\ UNCHANGED given
  BY <1>1, <1>4, Reads
<1> QED
  BY <1>2, <1>3, <1>4 DEF Lookup

LEMMA ExecuteInv ==
  ASSUME ExecutionInv, NEW p \in Processes, Execute(p) PROVE ExecutionInv'
<1>1. /\ UNCHANGED <<service, setting, candidate, stores, given, crashes>>
      /\ crashes' \in 0..MaxCrashes /\ RequestOf[p] \in requests'
      /\ given' \subseteq Requests \X Outcomes
  BY DEF Execute, ExecutionInv, ExecutionTypeOK, ProcessKept, At, stores
<1>2. CASE Leave(p)
  BY <1>1, <1>2, Reads
<1>3. ASSUME NEW out \in setting.engine[RequestOf[p]],
             process' = [process EXCEPT ![p] = [step |-> "computed", out |-> out]]
      PROVE  ExecutionInv'
  <2> DEFINE x == [step |-> "computed", out |-> out]
  <2>1. setting.engine \in [Requests -> SUBSET Outcomes] /\ RequestOf[p] \in Requests
    BY RequestsAssumption DEF ExecutionInv, ExecutionTypeOK
  <2>2. out \in Outcomes
    BY <2>1
  <2>3. x \in Process /\ x.step = "computed" /\ x.out = out
    BY <2>2 DEF Process, Steps
  <2> HIDE DEF x
  <2>4. process'[p] = x
    BY <1>3, <2>3 DEF ExecutionInv, ExecutionTypeOK, x
  <2>5. ProcessKept(p)'
    BY <1>1, <2>2, <2>3, <2>4 DEF ProcessKept, At
  <2> QED
    BY <1>1, <1>3, <2>3, <2>5, ProcessReads DEF x
<1> QED
  BY <1>2, <1>3 DEF Execute

(* Outputs are recorded where no others are, unless they may supersede.    *)
LEMMA InsertOutputInv ==
  ASSUME ExecutionInv, NEW p \in Processes, InsertOutput(p) PROVE ExecutionInv'
<1> DEFINE key == Key(RequestOf[p])
<1>1. /\ UNCHANGED <<service, setting, candidate, requests, audit, given, crashes>>
      /\ RequestOf[p] \in Requests /\ key \in Keys
      /\ ProcessKept(p) /\ process[p].out \in Outcomes /\ RequestOf[p] \in requests
  BY RequestsAssumption, KeyOfRequest DEF InsertOutput, ExecutionInv, ProcessKept, At
<1>2. CASE Leave(p) /\ UNCHANGED outputs
  BY <1>1, <1>2, Reads DEF stores, ExecutionInv, ExecutionTypeOK
<1>3. CASE /\ ~Collides(p) /\ Go(p, "recorded")
           /\ outputs' = [outputs EXCEPT ![key] = @ \cup {process[p].out}]
  <2>1. /\ outputs' \in [Keys -> SUBSET Outcomes]
        /\ outputs'[key] = outputs[key] \cup {process[p].out}
        /\ \A other \in Keys \ {key} : outputs'[other] = outputs[other]
    BY <1>1, <1>3 DEF ExecutionInv, ExecutionTypeOK
  <2>2. service # "EVALUATION" => outputs[key] = {}
    BY <1>3 DEF Collides
  <2>3. Grows
    BY <1>1, <2>1, <2>2 DEF Grows
  <2>4. OutputsOnce'
    <3>1. Requests \subseteq Keys
      BY DEF Keys
    <3> QED
      BY <1>1, <2>1, <2>2, <3>1 DEF ExecutionInv, OutputsOnce
  <2>5. "recorded" \in Steps
    BY DEF Steps
  <2>6. ProcessKept(p)'
    BY <1>1, <1>3, <2>5, Going DEF ProcessKept, At, ExecutionInv
  <2> QED
    BY <1>1, <1>3, <2>1, <2>3, <2>4, <2>5, <2>6, Going, ProcessMoves DEF ExecutionInv, ExecutionTypeOK
<1> QED
  BY <1>2, <1>3 DEF InsertOutput

LEMMA CheckAuditInv ==
  ASSUME ExecutionInv, NEW p \in Processes, CheckAudit(p) PROVE ExecutionInv'
<1>1. /\ UNCHANGED <<service, setting, candidate, stores, crashes>> /\ crashes' \in 0..MaxCrashes
      /\ ProcessKept(p) /\ process[p].out \in Outcomes /\ RequestOf[p] \in requests'
  BY DEF CheckAudit, ExecutionInv, ExecutionTypeOK, ProcessKept, At, stores
<1>2. CASE Describes(p) /\ Go(p, "auditing") /\ UNCHANGED given
  <2>1. "auditing" \in Steps
    BY DEF Steps
  <2>2. process'[p].step = "auditing" /\ process'[p].out = process[p].out
    BY <1>2, <2>1, Going DEF ExecutionInv
  <2>3. Describes(p)'
    BY <1>1, <1>2, <2>2 DEF Describes, Key, stores
  <2>4. ProcessKept(p)'
    BY <1>1, <2>2, <2>3 DEF ProcessKept, At
  <2> QED
    BY <1>1, <1>2, <2>1, <2>4, Reads
<1>3. CASE audit[RequestOf[p]] = process[p].out /\ Return(p, audit[RequestOf[p]])
  BY <1>1, <1>3, GivenTyped, Raising, ProcessReads DEF Return, ExecutionInv
<1>4. CASE Leave(p) /\ UNCHANGED given
  BY <1>1, <1>4, Reads
<1> QED
  BY <1>2, <1>3, <1>4 DEF CheckAudit

(* Who writes an audit describes what is on record.                        *)
LEMMA InsertAuditInv ==
  ASSUME ExecutionInv, NEW p \in Processes, InsertAudit(p) PROVE ExecutionInv'
<1> DEFINE r == RequestOf[p]
           out == process[p].out
<1>1. /\ UNCHANGED <<service, setting, candidate, requests, outputs, crashes>>
      /\ crashes' \in 0..MaxCrashes /\ r \in Requests
      /\ out \in Outcomes /\ Describes(p)
  BY RequestsAssumption
  DEF InsertAudit, ExecutionInv, ExecutionTypeOK, ProcessKept, At
<1>2. CASE Leave(p) /\ UNCHANGED <<audit, given>>
  BY <1>1, <1>2, Reads DEF stores
<1>3. CASE audit' = [audit EXCEPT ![r] = out] /\ Return(p, out)
  <2>1. /\ audit' \in [Requests -> Outcomes \cup {Nothing}] /\ audit'[r] = out
        /\ \A q \in Requests \ {r} : audit'[q] = audit[q]
    BY <1>1, <1>3 DEF ExecutionInv, ExecutionTypeOK
  <2>2. /\ Rest \in Process /\ process' = [process EXCEPT ![p] = Rest] /\ ProcessKept(p)'
    BY <1>3, Raising DEF Return, ExecutionInv
  <2>3. Grows
    BY <1>1 DEF Grows
  <2>4. ExecutionTypeOK'
    BY <1>1, <1>3, <2>1, <2>2, GivenTyped DEF Return, ExecutionInv, ExecutionTypeOK, Process
  <2>5. ASSUME NEW q \in Processes PROVE ProcessKept(q)'
    <3>1. q # p => process'[q] = process[q]
      BY <2>2 DEF ExecutionInv, ExecutionTypeOK
    <3> QED
      BY <2>2, <2>3, <3>1, GrowsKept DEF ExecutionInv
  <2>6. Intact(r)'
    BY <1>1, <2>1 DEF Intact, Describes, Key
  <2>7. CompletedIsIntact'
    BY <2>1, <2>3, <2>6, GrowsIntact DEF ExecutionInv, CompletedIsIntact
  <2>8. OutputsOnce'
    BY <1>1 DEF ExecutionInv, OutputsOnce
  <2> QED
    BY <2>4, <2>5, <2>7, <2>8 DEF ExecutionInv
<1> QED
  BY <1>2, <1>3 DEF InsertAudit

LEMMA EnvironmentInv == ASSUME ExecutionInv, Supersede \/ LeaveCandidacy PROVE ExecutionInv'
<1>1. /\ UNCHANGED <<service, setting, requests, audit, process, given, crashes>>
      /\ candidate' \in BOOLEAN
  BY DEF Supersede, LeaveCandidacy, stores, ExecutionInv, ExecutionTypeOK
<1>2. /\ outputs' \in [Keys -> SUBSET Outcomes]
      /\ service # "EVALUATION" => outputs' = outputs
      /\ \A key \in Keys : outputs[key] \subseteq outputs'[key]
  BY DEF Supersede, LeaveCandidacy, stores, ExecutionInv, ExecutionTypeOK
<1>3. Grows
  BY <1>1, <1>2 DEF Grows
<1>4. ExecutionTypeOK' /\ OutputsOnce'
  BY <1>1, <1>2 DEF ExecutionInv, ExecutionTypeOK, OutputsOnce
<1>5. \A p \in Processes : ProcessKept(p)'
  BY <1>1, <1>3, GrowsKept DEF ExecutionInv
<1>6. CompletedIsIntact'
  BY <1>1, <1>3, GrowsIntact DEF ExecutionInv, CompletedIsIntact
<1> QED
  BY <1>4, <1>5, <1>6 DEF ExecutionInv

LEMMA NextExecutionInv == ExecutionInv /\ [ExecutionNext]_executionVars => ExecutionInv'
<1> SUFFICES ASSUME ExecutionInv, [ExecutionNext]_executionVars PROVE ExecutionInv'
  OBVIOUS
<1>1. CASE UNCHANGED executionVars
  BY <1>1 DEF executionVars, stores, ExecutionInv, ExecutionTypeOK, ProcessKept, At, Describes,
     Key, OutputsOnce, CompletedIsIntact, Intact
<1>2. ASSUME NEW p \in Processes, Ask(p) \/ ServiceStep(p) \/ Die(p) PROVE ExecutionInv'
  BY <1>2, ReadingInv, InsertRequestInv, LookupInv, ExecuteInv, InsertOutputInv, CheckAuditInv,
     InsertAuditInv DEF ServiceStep
<1>3. CASE Supersede \/ LeaveCandidacy
  BY <1>3, EnvironmentInv
<1> QED
  BY <1>1, <1>2, <1>3 DEF ExecutionNext

(* The invariant of the executions: only what describes the outputs on     *)
(* record is ever said to have completed.                                  *)
THEOREM ExecutionSafe == ExecutionSpec => []ExecutionInv
<1>1. ExecutionInv /\ [ExecutionNext]_executionVars => ExecutionInv'
  BY NextExecutionInv
<1> QED
  BY InitExecutionInv, <1>1, PTL DEF ExecutionSpec

-----------------------------------------------------------------------------
(* Every variable of the executions keeps its type.                        *)
THEOREM ExecutionTypeCorrect == ExecutionSpec => []ExecutionTypeOK
<1>1. ExecutionInv => ExecutionTypeOK
  BY DEF ExecutionInv
<1> QED
  BY ExecutionSafe, <1>1, PTL

(* The records of a request are of one execution, and whole once it is     *)
(* said to be completed.                                                   *)
THEOREM RecordsSound == ExecutionSpec => []RecordsOfOneExecution
<1>1. ExecutionInv => RecordsOfOneExecution
  <2> SUFFICES ASSUME ExecutionInv, service # "EVALUATION", NEW r \in Requests
               PROVE  Cardinality(outputs[r]) <= 1
    BY DEF ExecutionInv, RecordsOfOneExecution, OutputsOfOneExecution
  <2>1. CASE outputs[r] = {}
    BY <2>1, FS_EmptySet
  <2>2. ASSUME NEW out, outputs[r] = {out} PROVE Cardinality(outputs[r]) <= 1
    BY <2>2, FS_Singleton
  <2> QED
    BY <2>1, <2>2 DEF ExecutionInv, OutputsOnce
<1> QED
  BY ExecutionSafe, <1>1, PTL

(* What each step is to the one who waits for the outcome of a request.    *)
LEMMA StepIsOfOneRequest ==
  ASSUME ExecutionInv, [ExecutionNext]_executionVars
  PROVE  [OneRequest!RequestNext]_(OneRequest!requestVars)
<1> USE DEF OneRequest!requestVars
<1>1. CASE UNCHANGED executionVars
  BY <1>1 DEF executionVars, stores
<1>2. ASSUME Supersede \/ LeaveCandidacy PROVE UNCHANGED <<requests, audit, given>>
  BY <1>2 DEF Supersede, LeaveCandidacy, stores
<1>3. ASSUME NEW p \in Processes,
             Ask(p) \/ Submit(p) \/ Execute(p) \/ CheckOutput(p) \/ InsertOutput(p) \/ Die(p)
      PROVE  UNCHANGED <<requests, audit, given>>
  BY <1>3 DEF Ask, Submit, Execute, CheckOutput, InsertOutput, Die, stores
<1>4. ASSUME NEW p \in Processes, InsertRequest(p) PROVE OneRequest!RequestNext
  <2>1. RequestOf[p] \in Requests
    BY RequestsAssumption
  <2>2. OneRequest!Ask(RequestOf[p])
    BY <1>4 DEF InsertRequest, OneRequest!Ask
  <2> QED
    BY <2>1, <2>2 DEF OneRequest!RequestNext
<1>5. ASSUME NEW p \in Processes, Lookup(p) \/ CheckAudit(p)
      PROVE  OneRequest!RequestNext \/ UNCHANGED <<requests, audit, given>>
  <2>1. RequestOf[p] \in Requests /\ UNCHANGED <<requests, audit>>
    BY <1>5, RequestsAssumption DEF Lookup, CheckAudit, stores
  <2>2. CASE UNCHANGED given
    BY <2>1, <2>2
  <2>3. CASE audit[RequestOf[p]] # Nothing /\ Return(p, audit[RequestOf[p]])
    <3>1. OneRequest!Give(RequestOf[p])
      BY <2>1, <2>3 DEF Return, OneRequest!Give
    <3> QED
      BY <2>1, <3>1 DEF OneRequest!RequestNext
  <2>4. process[p].out \in Outcomes \/ ~CheckAudit(p)
    BY DEF CheckAudit, At, ExecutionInv, ProcessKept
  <2> QED
    BY <1>5, <2>2, <2>3, <2>4, RequestsAssumption DEF Lookup, CheckAudit
<1>6. ASSUME NEW p \in Processes, InsertAudit(p)
      PROVE  OneRequest!RequestNext \/ UNCHANGED <<requests, audit, given>>
  <2>1. /\ RequestOf[p] \in Requests /\ RequestOf[p] \in requests
        /\ process[p].out \in Outcomes /\ UNCHANGED requests
    BY <1>6, RequestsAssumption DEF InsertAudit, At, ExecutionInv, ProcessKept
  <2>2. CASE audit[RequestOf[p]] = Nothing
    <3>1. OneRequest!Complete(RequestOf[p], process[p].out)
      BY <1>6, <2>1, <2>2 DEF InsertAudit, Return, OneRequest!Complete
    <3> QED
      BY <2>1, <3>1 DEF OneRequest!RequestNext
  <2>3. CASE audit[RequestOf[p]] # Nothing
    BY <1>6, <2>1, <2>3 DEF InsertAudit
  <2> QED
    BY <2>2, <2>3
<1> QED
  BY <1>1, <1>2, <1>3, <1>4, <1>5, <1>6 DEF ExecutionNext, ServiceStep

(* Whatever races or dies, a request has one outcome, and every caller is  *)
(* given that one: the executions implement RecoverableRequest.            *)
THEOREM OneOutcome == ExecutionSpec => RecoversOneOutcome
<1>1. ExecutionInit => OneRequest!RequestInit
  BY DEF ExecutionInit, OneRequest!RequestInit
<1>2. ExecutionInv /\ [ExecutionNext]_executionVars
        => [OneRequest!RequestNext]_(OneRequest!requestVars)
  BY StepIsOfOneRequest
<1> QED
  BY ExecutionSafe, <1>1, <1>2, PTL DEF ExecutionSpec, RecoversOneOutcome, OneRequest!RequestSpec
=============================================================================
