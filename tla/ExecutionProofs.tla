--------------------------- MODULE ExecutionProofs ---------------------------
(***************************************************************************)
(* Proofs about what leaves for the broker.                                *)
(*                                                                         *)
(* THE BOUNDARY, for any set of intents, any number of executors on one    *)
(* ledger, any volume and any policies.  Whoever won the reservation of an *)
(* intent and has not left for the ledger yet owns it (PreSend).  Ownership*)
(* is unique, because the reservation is, and no order has left for an     *)
(* owned intent; so the one order_send of its owner is the only one ever.  *)
(* When nobody owns a reserved intent any more it is closed for good: its  *)
(* sends and its exposure are frozen, and what was written about them      *)
(* stays true.                                                             *)
(*                                                                         *)
(* THE RUNTIME around the boundary is still the boundary: every step of    *)
(* RuntimeOrchestrator is, seen from the adapter, its ledger and the       *)
(* broker, a step of ExecutionBoundary or none.  What is proved of the     *)
(* boundary therefore holds of the runtime, and the position actions,      *)
(* which have a ledger of their own, are sent once for the same reason.    *)
(***************************************************************************)
EXTENDS Orchestrator, TLAPS

-----------------------------------------------------------------------------
(* THE BOUNDARY                                                            *)

PreSend == {"observe", "validate", "check", "send"}

Owns(e, i) == pc[e] \in PreSend /\ work[e] = i

(* An owner works on a reserved intent for which nothing has left.         *)
Ownership ==
  /\ \A e \in Executors : pc[e] \in PreSend => work[e] \in reserved /\ sends[work[e]] = 0
  /\ \A e, f \in Executors : pc[e] \in PreSend /\ Owns(f, work[e]) => e = f

(* The policy checked on entry still holds when the order leaves.          *)
Bound ==
  \A e \in Executors :
    /\ pc[e] \notin {"idle", "returned", "raised"} => PolicyOf[work[e]] = mode[e]
    /\ pc[e] \in PreSend => mode[e] # "DISABLED"
    /\ pc[e] \in {"check", "send"} => mode[e] # "DRY_RUN"

Closed(i) == i \in reserved /\ \A e \in Executors : ~Owns(e, i)

SaysWithheld(r) == r.origin = "preflight" \/ (r.origin = "intent" /\ r.status # "UNKNOWN")

(* What a result claims about the broker is so and can no longer change.   *)
True(i, r) ==
  r # NoDraft =>
    /\ Closed(i)
    /\ SaysWithheld(r) => sends[i] = 0
    /\ r.status = "ACCEPTED" => exposure[i] = ApprovedVolume
    /\ r.status \in {"PARTIALLY_FILLED", "FILLED"} => r.filled = exposure[i]

Recorded(i, r) == \E n \in DOMAIN results[i] : results[i][n] = r
Drafted(e, i, r) == pc[e] \in {"record", "append"} /\ work[e] = i /\ draft[e] = r

Truth ==
  /\ \A i \in Intents : sends[i] = 0 => exposure[i] = 0
  /\ \A i \in Intents, r \in Result : Recorded(i, r) => True(i, r)
  /\ \A e \in Executors, i \in Intents, r \in Result : Drafted(e, i, r) => True(i, r)

Inv == TypeOK /\ Ownership /\ AtMostOneSubmission /\ Truth

-----------------------------------------------------------------------------
(* What the helpers make is a result.                                      *)
LEMMA ResultTypes ==
  /\ NoDraft \in Result
  /\ \A s \in Statuses, o \in Origins : LocalResult(s, o) \in Result
  /\ \A v \in 0..ApprovedVolume : \A c \in Retcodes(v) : Interpretations(v, c) \subseteq Result
  BY VolumeAssumption
  DEF NoDraft, LocalResult, Result, Statuses, Origins, Tickets, Retcodes,
      Interpretations, Acknowledgements, Acknowledged

(* The last of a non-empty history of results is one of them.              *)
LEMMA LatestType ==
  ASSUME TypeOK, NEW i \in Intents, HasResult(i)
  PROVE  Latest(i) \in Result
  BY DEF TypeOK, HasResult, Latest

(* Writing a result leaves draft and pc typed.                             *)
LEMMA WriteType ==
  ASSUME TypeOK, NEW e \in Executors, NEW r \in Result, Write(e, r)
  PROVE  draft' \in [Executors -> Result] /\ pc' \in [Executors -> Steps]
  BY DEF TypeOK, Write, Goto, Steps

(* So does going on to another step.                                       *)
LEMMA GotoType ==
  ASSUME TypeOK, NEW e \in Executors, NEW step \in Steps, Goto(e, step)
  PROVE  pc' \in [Executors -> Steps]
  BY DEF TypeOK, Goto

(* Every variable keeps its type.                                          *)
LEMMA TypeStep == TypeOK /\ [Next]_vars => TypeOK'
<1> SUFFICES ASSUME TypeOK, [Next]_vars PROVE TypeOK'
  OBVIOUS
<1> USE DEF ledgerVars, brokerVars, processVars
<1>0. \A s \in Statuses, o \in Origins : LocalResult(s, o) \in Result
  BY ResultTypes
<1>1. ASSUME NEW e \in Executors, NEW i \in Intents, Execute(e, i) PROVE TypeOK'
  <2>1. pc' \in [Executors -> Steps]
    BY <1>1, GotoType DEF Execute, Steps
  <2>2. draft' \in [Executors -> Result]
    BY <1>1, LatestType DEF Execute, TypeOK
  <2> QED
    BY <1>1, <2>1, <2>2 DEF Execute, TypeOK
<1>2. ASSUME NEW e \in Executors, Reserve(e) PROVE TypeOK'
  <2>1. /\ LocalResult("UNKNOWN", "intent") \in Result
        /\ LocalResult("NO_ACTION", "intent") \in Result
    BY <1>0 DEF Statuses, Origins
  <2>2. draft' \in [Executors -> Result] /\ pc' \in [Executors -> Steps]
    <3>1. CASE \E r \in Result : Write(e, r)
      BY <3>1, WriteType
    <3>2. CASE Goto(e, "observe") /\ UNCHANGED draft
      BY <3>2, GotoType DEF Steps, TypeOK
    <3> QED
      BY <1>2, <2>1, <3>1, <3>2 DEF Reserve
  <2> QED
    BY <1>2, <2>2 DEF Reserve, TypeOK
<1>3. ASSUME NEW e \in Executors, Observe(e) PROVE TypeOK'
  <2>1. /\ LocalResult("FAILED", "intent") \in Result
        /\ LocalResult("REJECTED", "preflight") \in Result
        /\ LocalResult("EXPIRED", "preflight") \in Result
    BY <1>0 DEF Statuses, Origins
  <2>2. draft' \in [Executors -> Result] /\ pc' \in [Executors -> Steps]
    <3>1. CASE \E r \in Result : Write(e, r)
      BY <3>1, WriteType
    <3>2. CASE Goto(e, "validate") /\ UNCHANGED draft
      BY <3>2, GotoType DEF Steps, TypeOK
    <3> QED
      BY <1>3, <2>1, <3>1, <3>2 DEF Observe
  <2> QED
    BY <1>3, <2>2 DEF Observe, TypeOK
<1>4. ASSUME NEW e \in Executors, ValidatePreflight(e) \/ SubmitCheck(e) PROVE TypeOK'
  <2>1. /\ LocalResult("FAILED", "preflight") \in Result
        /\ LocalResult("NO_ACTION", "preflight") \in Result
    BY <1>0 DEF Statuses, Origins
  <2>2. draft' \in [Executors -> Result] /\ pc' \in [Executors -> Steps]
    <3>1. CASE \E r \in Result : Write(e, r)
      BY <3>1, WriteType
    <3>2. CASE (Goto(e, "check") \/ Goto(e, "send")) /\ UNCHANGED draft
      BY <3>2, GotoType DEF Steps, TypeOK
    <3> QED
      BY <1>4, <2>1, <3>1, <3>2 DEF ValidatePreflight, SubmitCheck
  <2> QED
    BY <1>4, <2>2 DEF ValidatePreflight, SubmitCheck, TypeOK
<1>5. ASSUME NEW e \in Executors, OrderSend(e) PROVE TypeOK'
  <2>1. draft' \in [Executors -> Result] /\ pc' \in [Executors -> Steps]
    <3>1. CASE \E r \in Result : Write(e, r)
      BY <3>1, WriteType
    <3>2. CASE Goto(e, "raised") /\ UNCHANGED draft
      BY <3>2, GotoType DEF Steps, TypeOK
    <3> QED
      BY <1>5, ResultTypes, <3>1, <3>2 DEF OrderSend
  <2>2. sends' \in [Intents -> Nat] /\ exposure' \in [Intents -> Nat]
    BY <1>5, VolumeAssumption DEF OrderSend, TypeOK
  <2> QED
    BY <1>5, <2>1, <2>2 DEF OrderSend, TypeOK
<1>6. ASSUME NEW e \in Executors, RecordCheck(e) PROVE TypeOK'
  <2>1. pc' \in [Executors -> Steps]
    BY <1>6, GotoType DEF RecordCheck, Steps
  <2> QED
    BY <1>6, <2>1 DEF RecordCheck, TypeOK
<1>7. ASSUME NEW e \in Executors, RecordAppend(e) PROVE TypeOK'
  <2>1. pc' \in [Executors -> Steps]
    BY <1>7, GotoType DEF RecordAppend, Steps
  <2>2. results' \in [Intents -> Seq(Result)]
    <3>1. work[e] \in Intents /\ draft[e] \in Result /\ results[work[e]] \in Seq(Result)
      BY DEF TypeOK
    <3>2. Append(results[work[e]], draft[e]) \in Seq(Result)
      BY <3>1
    <3> QED
      BY <1>7, <3>2 DEF RecordAppend, TypeOK
  <2> QED
    BY <1>7, <2>1, <2>2 DEF RecordAppend, TypeOK
<1>8. ASSUME NEW e \in Executors, Return(e) \/ Raise(e) \/ KillSwitch(e) \/ Crash(e) PROVE TypeOK'
  <2>1. NoDraft \in Result
    BY ResultTypes
  <2>2. CASE Return(e) \/ Raise(e) \/ KillSwitch(e)
    BY <2>1, <2>2 DEF Return, Raise, KillSwitch, Goto, Steps, TypeOK
  <2>3. CASE Crash(e)
    <3>1. pc' \in [Executors -> Steps]
      BY <2>3, GotoType DEF Crash, Steps
    <3>2. /\ mode' \in [Executors -> Modes] /\ kill' \in [Executors -> BOOLEAN]
          /\ draft' \in [Executors -> Result]
      BY <2>1, <2>3 DEF Crash, TypeOK
    <3> QED
      BY <2>3, <3>1, <3>2 DEF Crash, TypeOK
  <2> QED
    BY <1>8, <2>2, <2>3
<1>9. CASE SwitchAccount
  BY <1>9 DEF SwitchAccount, TypeOK
<1>10. CASE UNCHANGED vars
  BY <1>10 DEF vars, TypeOK
<1> QED
  BY <1>1, <1>2, <1>3, <1>4, <1>5, <1>6, <1>7, <1>8, <1>9, <1>10
  DEF Next, AdapterStep

(* The type invariant of the boundary.                                     *)
THEOREM TypeCorrect == Spec => []TypeOK
<1>1. Init => TypeOK
  BY ResultTypes, VolumeAssumption DEF Init, TypeOK, Steps
<1> QED
  BY <1>1, TypeStep, PTL DEF Spec

-----------------------------------------------------------------------------
(* Three kinds of step, as far as ownership can tell: one that acquires an *)
(* intent, one that submits it, and one that does neither.                 *)
Acquires(e) ==
  /\ pc[e] = "reserve" /\ work[e] \notin reserved
  /\ reserved' = reserved \cup {work[e]}
  /\ \A f \in Executors \ {e} : pc'[f] = pc[f]
  /\ UNCHANGED <<sends, exposure, work>>

Submits(e) ==
  /\ pc[e] = "send" /\ pc'[e] \notin PreSend
  /\ \A f \in Executors \ {e} : pc'[f] = pc[f]
  /\ sends' = [sends EXCEPT ![work[e]] = @ + 1]
  /\ \A i \in Intents \ {work[e]} : exposure'[i] = exposure[i]
  /\ UNCHANGED <<reserved, work>>

Quiet ==
  /\ reserved \subseteq reserved'
  /\ \A f \in Executors : pc'[f] \in PreSend => pc[f] \in PreSend /\ work'[f] = work[f]
  /\ UNCHANGED <<sends, exposure>>

(* Every step is one of the three.                                         *)
LEMMA KindsOfStep ==
  ASSUME TypeOK, [Next]_vars
  PROVE  Quiet \/ \E e \in Executors : Acquires(e) \/ Submits(e)
<1> USE DEF ledgerVars, brokerVars, processVars, Goto, TypeOK
<1>1. ASSUME NEW e \in Executors, NEW i \in Intents, Execute(e, i) PROVE Quiet
  BY <1>1 DEF Execute, Quiet, PreSend
<1>2. ASSUME NEW e \in Executors, Reserve(e) PROVE Quiet \/ Acquires(e)
  <2>1. CASE work[e] \in reserved \/ mode[e] = "DISABLED"
    BY <1>2, <2>1 DEF Reserve, Write, Quiet, PreSend
  <2>2. CASE work[e] \notin reserved /\ mode[e] # "DISABLED"
    BY <1>2, <2>2 DEF Reserve, Acquires
  <2> QED
    BY <2>1, <2>2
<1>3. ASSUME NEW e \in Executors, Observe(e) PROVE Quiet
  BY <1>3 DEF Observe, Write, Quiet, PreSend
<1>4. ASSUME NEW e \in Executors, ValidatePreflight(e) \/ SubmitCheck(e) PROVE Quiet
  BY <1>4 DEF ValidatePreflight, SubmitCheck, Write, Quiet, PreSend
<1>5. ASSUME NEW e \in Executors, OrderSend(e) PROVE Submits(e)
  <2>1. pc' = [pc EXCEPT ![e] = "raised"] \/ pc' = [pc EXCEPT ![e] = "record"]
    BY <1>5 DEF OrderSend, Write
  <2>2. \A i \in Intents \ {work[e]} : exposure'[i] = exposure[i]
    BY <1>5 DEF OrderSend
  <2> QED
    BY <1>5, <2>1, <2>2 DEF OrderSend, Submits, PreSend
<1>6. ASSUME NEW e \in Executors, RecordCheck(e) \/ RecordAppend(e) PROVE Quiet
  BY <1>6 DEF RecordCheck, RecordAppend, Quiet, PreSend
<1>7. ASSUME NEW e \in Executors, Return(e) \/ Raise(e) \/ KillSwitch(e) PROVE Quiet
  BY <1>7 DEF Return, Raise, KillSwitch, Quiet, PreSend
<1>8. ASSUME NEW e \in Executors, Crash(e) PROVE Quiet
  BY <1>8 DEF Crash, Quiet, PreSend
<1>9. CASE SwitchAccount \/ UNCHANGED vars
  BY <1>9 DEF SwitchAccount, vars, Quiet
<1> QED
  BY <1>1, <1>2, <1>3, <1>4, <1>5, <1>6, <1>7, <1>8, <1>9 DEF Next, AdapterStep

(* Ownership stays unique and nothing leaves twice.                        *)
LEMMA OwnershipStep ==
  ASSUME TypeOK, Ownership, AtMostOneSubmission, [Next]_vars
  PROVE  Ownership' /\ AtMostOneSubmission'
<1> USE DEF TypeOK, Ownership, AtMostOneSubmission, Owns
<1>1. CASE Quiet
  BY <1>1 DEF Quiet
<1>2. ASSUME NEW e \in Executors, Acquires(e) PROVE Ownership' /\ AtMostOneSubmission'
  <2>1. work[e] \in Intents /\ sends[work[e]] = 0
    BY <1>2 DEF Acquires
  <2>2. \A f \in Executors \ {e} : pc'[f] \in PreSend => pc[f] \in PreSend /\ work[f] # work[e]
    BY <1>2 DEF Acquires
  <2> QED
    BY <1>2, <2>1, <2>2 DEF Acquires
<1>3. ASSUME NEW e \in Executors, Submits(e) PROVE Ownership' /\ AtMostOneSubmission'
  <2>1. pc[e] \in PreSend /\ work[e] \in Intents
    BY <1>3 DEF Submits, PreSend
  <2>2. \A f \in Executors : pc'[f] \in PreSend => f # e /\ work[f] # work[e]
    BY <1>3, <2>1 DEF Submits
  <2> QED
    BY <1>3, <2>1, <2>2 DEF Submits
<1> QED
  BY <1>1, <1>2, <1>3, KindsOfStep

(* Once closed, an intent stays closed, and so does the broker's account   *)
(* of it.                                                                  *)
LEMMA ClosedStays ==
  ASSUME TypeOK, Ownership, [Next]_vars, NEW i \in Intents, Closed(i)
  PROVE  Closed(i)' /\ sends'[i] = sends[i] /\ exposure'[i] = exposure[i]
<1> USE DEF TypeOK, Closed, Owns
<1>1. CASE Quiet
  BY <1>1 DEF Quiet
<1>2. ASSUME NEW e \in Executors, Acquires(e)
      PROVE  Closed(i)' /\ sends'[i] = sends[i] /\ exposure'[i] = exposure[i]
  BY <1>2 DEF Acquires
<1>3. ASSUME NEW e \in Executors, Submits(e)
      PROVE  Closed(i)' /\ sends'[i] = sends[i] /\ exposure'[i] = exposure[i]
  BY <1>3 DEF Submits, PreSend
<1> QED
  BY <1>1, <1>2, <1>3, KindsOfStep

(* However often an intent is handed in, by however many processes, and    *)
(* wherever they die, at most one order leaves for it.                     *)
THEOREM AtMostOnce == Spec => []AtMostOneSubmission
<1>1. Init => TypeOK /\ Ownership /\ AtMostOneSubmission
  BY ResultTypes, VolumeAssumption
  DEF Init, TypeOK, Steps, Ownership, PreSend, AtMostOneSubmission
<1>2. TypeOK /\ Ownership /\ AtMostOneSubmission /\ [Next]_vars
        => (TypeOK /\ Ownership /\ AtMostOneSubmission)'
  BY TypeStep, OwnershipStep
<1> QED
  BY <1>1, <1>2, PTL DEF Spec

-----------------------------------------------------------------------------
(* The binding of an intent to its policy survives to order_send.          *)
LEMMA BoundStep ==
  ASSUME TypeOK, Bound, [Next]_vars
  PROVE  Bound'
<1> USE DEF ledgerVars, brokerVars, processVars, Goto, TypeOK, Bound, PreSend
<1>1. ASSUME NEW e \in Executors, NEW i \in Intents, Execute(e, i) PROVE Bound'
  BY <1>1 DEF Execute
<1>2. ASSUME NEW e \in Executors, Reserve(e) PROVE Bound'
  BY <1>2 DEF Reserve, Write
<1>3. ASSUME NEW e \in Executors, Observe(e) PROVE Bound'
  BY <1>3 DEF Observe, Write
<1>4. ASSUME NEW e \in Executors, ValidatePreflight(e) PROVE Bound'
  BY <1>4 DEF ValidatePreflight, Write
<1>5. ASSUME NEW e \in Executors, SubmitCheck(e) PROVE Bound'
  BY <1>5 DEF SubmitCheck, Write
<1>6. ASSUME NEW e \in Executors, OrderSend(e) PROVE Bound'
  <2>1. pc' = [pc EXCEPT ![e] = "raised"] \/ pc' = [pc EXCEPT ![e] = "record"]
    BY <1>6 DEF OrderSend, Write
  <2>2. UNCHANGED <<mode, work>> /\ pc[e] = "send"
    BY <1>6 DEF OrderSend
  <2> QED
    BY <2>1, <2>2
<1>7. ASSUME NEW e \in Executors, RecordCheck(e) \/ RecordAppend(e) PROVE Bound'
  BY <1>7 DEF RecordCheck, RecordAppend
<1>8. ASSUME NEW e \in Executors, Return(e) \/ Raise(e) \/ KillSwitch(e) PROVE Bound'
  BY <1>8 DEF Return, Raise, KillSwitch
<1>9. ASSUME NEW e \in Executors, Crash(e) PROVE Bound'
  BY <1>9 DEF Crash
<1>10. CASE SwitchAccount \/ UNCHANGED vars
  BY <1>10 DEF SwitchAccount, vars
<1> QED
  BY <1>1, <1>2, <1>3, <1>4, <1>5, <1>6, <1>7, <1>8, <1>9, <1>10 DEF Next, AdapterStep

(* Only order_send adds to sends, and then under a policy that may trade.  *)
LEMMA OnlyDemoStep ==
  ASSUME TypeOK, Bound, OnlyDemoIntentsReachBroker, [Next]_vars
  PROVE  OnlyDemoIntentsReachBroker'
<1> USE DEF TypeOK, OnlyDemoIntentsReachBroker
<1>1. CASE Quiet
  BY <1>1 DEF Quiet
<1>2. ASSUME NEW e \in Executors, Acquires(e) PROVE OnlyDemoIntentsReachBroker'
  BY <1>2 DEF Acquires
<1>3. ASSUME NEW e \in Executors, Submits(e) PROVE OnlyDemoIntentsReachBroker'
  <2>1. PolicyOf[work[e]] = "DEMO_ENABLED"
    BY <1>3 DEF Submits, Bound, PreSend, Modes
  <2>2. \A i \in Intents \ {work[e]} : sends'[i] = sends[i]
    BY <1>3 DEF Submits
  <2> QED
    BY <2>1, <2>2
<1> QED
  BY <1>1, <1>2, <1>3, KindsOfStep

(* No intent of a DISABLED or DRY_RUN policy reaches the broker, whatever  *)
(* policy a restart brings.                                                *)
THEOREM OnlyDemo == Spec => []OnlyDemoIntentsReachBroker
<1>1. Init => TypeOK /\ Bound /\ OnlyDemoIntentsReachBroker
  BY ResultTypes, VolumeAssumption
  DEF Init, TypeOK, Steps, Bound, PreSend, OnlyDemoIntentsReachBroker
<1>2. TypeOK /\ Bound /\ OnlyDemoIntentsReachBroker /\ [Next]_vars
        => (TypeOK /\ Bound /\ OnlyDemoIntentsReachBroker)'
  BY TypeStep, BoundStep, OnlyDemoStep
<1> QED
  BY <1>1, <1>2, PTL DEF Spec

-----------------------------------------------------------------------------
(* A claim that is true and closed stays true.                             *)
LEMMA TrueStays ==
  ASSUME TypeOK, Ownership, [Next]_vars, NEW i \in Intents, NEW r, True(i, r)
  PROVE  True(i, r)'
<1>1. CASE r = NoDraft
  BY <1>1 DEF True, NoDraft, LocalResult
<1>2. CASE r # NoDraft
  <2>1. Closed(i)' /\ sends'[i] = sends[i] /\ exposure'[i] = exposure[i]
    BY <1>2, ClosedStays DEF True
  <2> QED
    BY <1>2, <2>1 DEF True, SaysWithheld
<1> QED
  BY <1>1, <1>2

(* Whoever gives up an intent it owns closes it.                           *)
LEMMA GivingUpCloses ==
  ASSUME TypeOK, Ownership, NEW e \in Executors, NEW i \in Intents, Owns(e, i),
         Goto(e, "record"), UNCHANGED <<reserved, work>>
  PROVE  Closed(i)'
<1>1. i \in reserved
  BY DEF Ownership, Owns
<1>2. \A f \in Executors : pc'[f] \in PreSend => f # e /\ pc[f] \in PreSend
  BY DEF Goto, TypeOK, PreSend
<1> QED
  BY <1>1, <1>2 DEF Closed, Owns, Ownership

(* A result that says the order was withheld, from a step that withheld it.*)
LEMMA WithheldIsTrue ==
  ASSUME TypeOK, Ownership, Truth, NEW e \in Executors, NEW i \in Intents, Owns(e, i),
         NEW r, r.status \in {"NO_ACTION", "REJECTED", "EXPIRED", "FAILED"},
         Goto(e, "record"), UNCHANGED <<reserved, work, sends, exposure>>
  PROVE  True(i, r)'
<1>1. Closed(i)'
  BY GivingUpCloses
<1>2. sends[i] = 0 /\ exposure[i] = 0
  BY DEF Ownership, Owns, Truth
<1>3. sends'[i] = 0 /\ exposure'[i] = 0
  BY <1>2
<1> QED
  BY <1>1, <1>3 DEF True, SaysWithheld

(* What one answer can be read as agrees with what the broker did.         *)
LEMMA ReadingsAgree ==
  ASSUME NEW v \in 0..ApprovedVolume, NEW c \in Retcodes(v), NEW r \in Interpretations(v, c)
  PROVE  /\ ~SaysWithheld(r)
         /\ r.status = "ACCEPTED" => v = ApprovedVolume
         /\ r.status \in {"PARTIALLY_FILLED", "FILLED"} => r.filled = v
  BY VolumeAssumption
  DEF Retcodes, Interpretations, Acknowledgements, Acknowledged, LocalResult, SaysWithheld

(* Every pending result is true of its intent.                             *)
LEMMA DraftsStep ==
  ASSUME TypeOK, Ownership, AtMostOneSubmission, Truth, [Next]_vars,
         NEW f \in Executors, NEW i \in Intents, NEW r \in Result, Drafted(f, i, r)'
  PROVE  True(i, r)'
<1> USE DEF ledgerVars, brokerVars, processVars
<1>1. CASE Drafted(f, i, r)
  BY <1>1, TrueStays DEF Truth
<1>2. CASE ~Drafted(f, i, r)
  <2>0. ASSUME NEW e \in Executors, NEW q, Write(e, q), UNCHANGED work
        PROVE  f = e /\ q = r /\ work[e] = i
    BY <1>2, <2>0 DEF Write, Goto, Drafted, TypeOK
  <2>1. ASSUME NEW e \in Executors, NEW j \in Intents, Execute(e, j) PROVE FALSE
    BY <1>2, <2>1 DEF Execute, Goto, Drafted, TypeOK
  <2>2. ASSUME NEW e \in Executors, Reserve(e) PROVE True(i, r)'
    <3>1. CASE Write(e, LocalResult("UNKNOWN", "intent"))
      BY <2>0, <2>2, <3>1 DEF Reserve, NoDraft, True
    <3>2. CASE work[e] \notin reserved /\ Write(e, LocalResult("NO_ACTION", "intent"))
      <4>1. f = e /\ work[e] = i /\ LocalResult("NO_ACTION", "intent") = r
        BY <2>0, <2>2, <3>2 DEF Reserve
      <4>2. pc'[e] = "record" /\ \A g \in Executors \ {e} : pc'[g] = pc[g]
        BY <3>2 DEF Write, Goto, TypeOK
      <4>3. Closed(i)'
        BY <2>2, <3>2, <4>1, <4>2 DEF Reserve, Closed, Owns, Ownership, PreSend
      <4>4. sends'[i] = 0
        BY <2>2, <3>2, <4>1 DEF Reserve, AtMostOneSubmission, TypeOK
      <4> QED
        BY <4>1, <4>3, <4>4 DEF True, LocalResult
    <3>3. CASE Goto(e, "observe") /\ UNCHANGED draft
      BY <1>2, <2>2, <3>3 DEF Reserve, Goto, Drafted, TypeOK
    <3> QED
      BY <2>2, <3>1, <3>2, <3>3 DEF Reserve
  <2>3. ASSUME NEW e \in Executors, Observe(e) \/ ValidatePreflight(e) \/ SubmitCheck(e)
        PROVE  True(i, r)'
    <3>1. CASE \E s \in {"NO_ACTION", "REJECTED", "EXPIRED", "FAILED"}, o \in Origins :
                 Write(e, LocalResult(s, o))
      <4>1. PICK s \in {"NO_ACTION", "REJECTED", "EXPIRED", "FAILED"}, o \in Origins :
                   Write(e, LocalResult(s, o))
        BY <3>1
      <4>2. f = e /\ work[e] = i /\ LocalResult(s, o) = r
        BY <2>0, <2>3, <4>1 DEF Observe, ValidatePreflight, SubmitCheck
      <4>3. r.status \in {"NO_ACTION", "REJECTED", "EXPIRED", "FAILED"}
        BY <4>2 DEF LocalResult
      <4>4. Owns(e, i) /\ Goto(e, "record") /\ UNCHANGED <<reserved, work, sends, exposure>>
        BY <2>3, <4>1, <4>2
        DEF Observe, ValidatePreflight, SubmitCheck, Write, Owns, PreSend
      <4> QED
        BY <4>3, <4>4, WithheldIsTrue
    <3>2. CASE (Goto(e, "validate") \/ Goto(e, "check") \/ Goto(e, "send")) /\ UNCHANGED draft
      BY <1>2, <2>3, <3>2
      DEF Observe, ValidatePreflight, SubmitCheck, Goto, Drafted, TypeOK
    <3> QED
      BY <2>3, <3>1, <3>2 DEF Observe, ValidatePreflight, SubmitCheck, Origins
  <2>4. ASSUME NEW e \in Executors, OrderSend(e) PROVE True(i, r)'
    <3>1. PICK v \in 0..ApprovedVolume :
               /\ exposure' = [exposure EXCEPT ![work[e]] = @ + v]
               /\ \/ Goto(e, "raised") /\ UNCHANGED draft
                  \/ \E c \in Retcodes(v) : \E q \in Interpretations(v, c) : Write(e, q)
      BY <2>4 DEF OrderSend
    <3>2. UNCHANGED <<reserved, work>> /\ pc[e] = "send"
      BY <2>4 DEF OrderSend
    <3>3. CASE Goto(e, "raised") /\ UNCHANGED draft
      BY <1>2, <3>2, <3>3 DEF Goto, Drafted, TypeOK
    <3>4. ASSUME NEW c \in Retcodes(v), NEW q \in Interpretations(v, c), Write(e, q)
          PROVE  True(i, r)'
      <4>1. f = e /\ work[e] = i /\ q = r
        BY <2>0, <3>2, <3>4
      <4>2. Owns(e, i) /\ Goto(e, "record")
        BY <3>2, <3>4, <4>1 DEF Owns, PreSend, Write
      <4>3. Closed(i)'
        BY <3>2, <4>2, GivingUpCloses
      <4>4. exposure[i] = 0
        BY <4>2 DEF Ownership, Owns, Truth
      <4>5. exposure'[i] = v
        BY <3>1, <4>1, <4>4 DEF TypeOK
      <4>6. /\ ~SaysWithheld(r)
            /\ r.status = "ACCEPTED" => v = ApprovedVolume
            /\ r.status \in {"PARTIALLY_FILLED", "FILLED"} => r.filled = v
        BY <3>4, <4>1, ReadingsAgree
      <4> QED
        BY <4>3, <4>5, <4>6 DEF True, SaysWithheld
    <3> QED
      BY <3>1, <3>3, <3>4
  <2>5. ASSUME NEW e \in Executors, RecordCheck(e) PROVE FALSE
    BY <1>2, <2>5 DEF RecordCheck, Goto, Drafted, TypeOK
  <2>6. ASSUME NEW e \in Executors, RecordAppend(e) PROVE FALSE
    BY <1>2, <2>6 DEF RecordAppend, Goto, Drafted, TypeOK
  <2>7. ASSUME NEW e \in Executors, Return(e) \/ Raise(e) \/ KillSwitch(e) PROVE FALSE
    BY <1>2, <2>7 DEF Return, Raise, KillSwitch, Goto, Drafted, TypeOK
  <2>8. ASSUME NEW e \in Executors, Crash(e) PROVE FALSE
    BY <1>2, <2>8 DEF Crash, Goto, Drafted, TypeOK
  <2>9. CASE SwitchAccount \/ UNCHANGED vars
    BY <1>2, <2>9 DEF SwitchAccount, vars, Drafted
  <2> QED
    BY <2>1, <2>2, <2>3, <2>4, <2>5, <2>6, <2>7, <2>8, <2>9 DEF Next, AdapterStep
<1> QED
  BY <1>1, <1>2

(* Every recorded result is true of its intent: it was drafted before.     *)
LEMMA RecordsStep ==
  ASSUME TypeOK, Ownership, Truth, [Next]_vars,
         NEW i \in Intents, NEW r \in Result, Recorded(i, r)'
  PROVE  True(i, r)'
<1> USE DEF ledgerVars, brokerVars, processVars
<1>1. CASE Recorded(i, r)
  BY <1>1, TrueStays DEF Truth
<1>2. ASSUME NEW e \in Executors, RecordAppend(e), ~Recorded(i, r) PROVE Drafted(e, i, r)
  <2>1. results' = [results EXCEPT ![work[e]] = Append(@, draft[e])]
    BY <1>2 DEF RecordAppend, Recorded
  <2>2. work[e] = i
    BY <1>2, <2>1 DEF Recorded, TypeOK
  <2>3. results'[i] = Append(results[i], draft[e]) /\ results[i] \in Seq(Result)
    BY <2>1, <2>2 DEF TypeOK
  <2>4. PICK n \in DOMAIN results'[i] : results'[i][n] = r
    BY DEF Recorded
  <2>5. n = Len(results[i]) + 1
    BY <1>2, <2>3, <2>4 DEF Recorded
  <2>6. draft[e] = r
    BY <2>3, <2>4, <2>5
  <2> QED
    BY <1>2, <2>2, <2>6 DEF RecordAppend, Drafted
<1>3. CASE UNCHANGED results
  BY <1>1, <1>3 DEF Recorded
<1>4. (\E e \in Executors : RecordAppend(e)) \/ UNCHANGED results
  BY DEF Next, AdapterStep, vars, Execute, Reserve, Observe, ValidatePreflight, SubmitCheck,
         OrderSend, RecordCheck, Return, Raise, Crash, KillSwitch, SwitchAccount
<1> QED
  BY <1>1, <1>2, <1>3, <1>4, TrueStays DEF Truth

(* What was never sent opened nothing.                                     *)
LEMMA UnsentStep ==
  ASSUME TypeOK, Truth, [Next]_vars, NEW i \in Intents, sends'[i] = 0
  PROVE  exposure'[i] = 0
<1>1. CASE Quiet
  BY <1>1 DEF Quiet, Truth
<1>2. ASSUME NEW e \in Executors, Acquires(e) PROVE exposure'[i] = 0
  BY <1>2 DEF Acquires, Truth
<1>3. ASSUME NEW e \in Executors, Submits(e) PROVE exposure'[i] = 0
  <2>1. i # work[e]
    BY <1>3 DEF Submits, TypeOK
  <2> QED
    BY <1>3, <2>1 DEF Submits, TypeOK, Truth
<1> QED
  BY <1>1, <1>2, <1>3, KindsOfStep

(* The inductive invariant holds at the start and is kept by every step.   *)
LEMMA InvHolds ==
  /\ Init => Inv
  /\ Inv /\ [Next]_vars => Inv'
<1>1. Init => Inv
  BY ResultTypes, VolumeAssumption
  DEF Init, Inv, TypeOK, Steps, Ownership, PreSend, AtMostOneSubmission, Truth, Recorded, Drafted
<1>2. Inv /\ [Next]_vars => Truth'
  <2> SUFFICES ASSUME Inv, [Next]_vars PROVE Truth'
    OBVIOUS
  <2> USE DEF Inv
  <2>1. \A i \in Intents : sends'[i] = 0 => exposure'[i] = 0
    BY UnsentStep
  <2>2. \A i \in Intents, r \in Result : Recorded(i, r)' => True(i, r)'
    BY RecordsStep
  <2>3. \A e \in Executors, i \in Intents, r \in Result : Drafted(e, i, r)' => True(i, r)'
    BY DraftsStep
  <2> QED
    BY <2>1, <2>2, <2>3 DEF Truth
<1> QED
  BY <1>1, <1>2, TypeStep, OwnershipStep DEF Inv

(* The ledger never contradicts the broker: nothing it calls unsent was or *)
(* will be sent, and what it reports placed or filled is what there was.   *)
(* A rejection claims neither: any retcode the transport does not know is  *)
(* one, whatever was executed.                                             *)
THEOREM Truthful == Spec => []TruthfulLedger
<1>1. Inv => TruthfulLedger
  <2> SUFFICES ASSUME Inv, NEW i \in Intents, NEW n \in DOMAIN results[i]
               PROVE  LET r == results[i][n] IN
                      /\ SaysWithheld(r) => sends[i] = 0
                      /\ r.status = "ACCEPTED" => exposure[i] = ApprovedVolume
                      /\ r.status \in {"PARTIALLY_FILLED", "FILLED"} => r.filled = exposure[i]
    BY DEF TruthfulLedger, SaysWithheld
  <2>1. results[i][n] \in Result /\ Recorded(i, results[i][n])
    BY DEF Inv, TypeOK, Recorded
  <2>2. True(i, results[i][n])
    BY <2>1 DEF Inv, Truth
  <2> QED
    BY <2>2 DEF True, NoDraft, LocalResult, SaysWithheld
<1> QED
  BY <1>1, InvHolds, PTL DEF Spec

-----------------------------------------------------------------------------
(* A session in which the terminal is never on a verified demo account: no *)
(* process ever gets beyond the observation.                               *)
BeforeValidation ==
  /\ \A i \in Intents : sends[i] = 0
  /\ \A e \in Executors : pc[e] \notin {"validate", "check", "send"}

LEMMA BeforeValidationStep ==
  ASSUME TypeOK, BeforeValidation, account # "DEMO", [Next]_vars
  PROVE  BeforeValidation'
<1> USE DEF ledgerVars, brokerVars, processVars, Goto, TypeOK, BeforeValidation
<1>1. ASSUME NEW e \in Executors, NEW i \in Intents, Execute(e, i) PROVE BeforeValidation'
  BY <1>1 DEF Execute
<1>2. ASSUME NEW e \in Executors, Reserve(e) PROVE BeforeValidation'
  BY <1>2 DEF Reserve, Write
<1>3. ASSUME NEW e \in Executors, Observe(e) PROVE BeforeValidation'
  BY <1>3 DEF Observe, Write, VerifiedDemo
<1>4. ASSUME NEW e \in Executors, ValidatePreflight(e) \/ SubmitCheck(e) \/ OrderSend(e)
      PROVE  FALSE
  BY <1>4 DEF ValidatePreflight, SubmitCheck, OrderSend
<1>5. ASSUME NEW e \in Executors, RecordCheck(e) \/ RecordAppend(e) PROVE BeforeValidation'
  BY <1>5 DEF RecordCheck, RecordAppend
<1>6. ASSUME NEW e \in Executors, Return(e) \/ Raise(e) \/ Crash(e) \/ KillSwitch(e)
      PROVE  BeforeValidation'
  BY <1>6 DEF Return, Raise, Crash, KillSwitch
<1>7. CASE SwitchAccount \/ UNCHANGED vars
  BY <1>7 DEF SwitchAccount, vars
<1> QED
  BY <1>1, <1>2, <1>3, <1>4, <1>5, <1>6, <1>7 DEF Next, AdapterStep

(* Whatever executors, crashes and policies there are, a terminal that is  *)
(* never on a verified demo account trades nothing.                        *)
THEOREM NoDemoNoTrade == Spec => NonDemoSessionNeverTrades
<1>1. Init => TypeOK /\ BeforeValidation
  BY ResultTypes, VolumeAssumption DEF Init, TypeOK, Steps, BeforeValidation
<1>2. TypeOK /\ [Next]_vars => TypeOK'
  BY TypeStep
<1>3. TypeOK /\ BeforeValidation /\ account # "DEMO" /\ [Next]_vars => BeforeValidation'
  BY BeforeValidationStep
<1>4. BeforeValidation => \A i \in Intents : sends[i] = 0
  BY DEF BeforeValidation
<1> QED
  BY <1>1, <1>2, <1>3, <1>4, PTL DEF Spec, NonDemoSessionNeverTrades

-----------------------------------------------------------------------------
(* The refinement.  With one executor nobody else writes between its look  *)
(* at the ledger and its record, so that whoever is on the way to a result *)
(* is about the only one there will be; and the result it has in hand says *)
(* of the submission what is so.                                           *)
OneExecutor == \A e, f \in Executors : e = f

OnTheWay == {"reserve", "observe", "validate", "check", "send", "record", "append"}

Fresh ==
  \A e \in Executors :
    /\ pc[e] \in OnTheWay => results[work[e]] = << >>
    /\ pc[e] = "append" => work[e] \in reserved

(* What AtMostOnceExecution calls a result.                                *)
Called(r) == IF r.origin = "invalid" THEN "INVALID" ELSE r.status

Answered ==
  \A e \in Executors : pc[e] \in {"record", "append"} =>
    /\ Called(draft[e]) \in Boundary!Withheld => SaysWithheld(draft[e])
    /\ Called(draft[e]) \in Boundary!Confirmed => sends[work[e]] > 0

LEMMA FreshStep ==
  ASSUME OneExecutor, TypeOK, Fresh, [Next]_vars
  PROVE  Fresh'
<1> USE DEF ledgerVars, brokerVars, processVars, Goto, TypeOK, Fresh, OnTheWay, OneExecutor
<1>1. ASSUME NEW e \in Executors, NEW i \in Intents, Execute(e, i) PROVE Fresh'
  BY <1>1 DEF Execute, HasResult
<1>2. ASSUME NEW e \in Executors, Reserve(e) PROVE Fresh'
  BY <1>2 DEF Reserve, Write
<1>3. ASSUME NEW e \in Executors, Observe(e) PROVE Fresh'
  BY <1>3 DEF Observe, Write
<1>4. ASSUME NEW e \in Executors, ValidatePreflight(e) \/ SubmitCheck(e) PROVE Fresh'
  BY <1>4 DEF ValidatePreflight, SubmitCheck, Write
<1>5. ASSUME NEW e \in Executors, OrderSend(e) PROVE Fresh'
  <2>1. pc' = [pc EXCEPT ![e] = "raised"] \/ pc' = [pc EXCEPT ![e] = "record"]
    BY <1>5 DEF OrderSend, Write
  <2>2. UNCHANGED <<results, work>> /\ pc[e] = "send"
    BY <1>5 DEF OrderSend
  <2> QED
    BY <2>1, <2>2
<1>6. ASSUME NEW e \in Executors, RecordCheck(e) PROVE Fresh'
  BY <1>6 DEF RecordCheck, HasResult
<1>7. ASSUME NEW e \in Executors, RecordAppend(e) PROVE Fresh'
  BY <1>7 DEF RecordAppend
<1>8. ASSUME NEW e \in Executors, Return(e) \/ Raise(e) \/ Crash(e) \/ KillSwitch(e)
      PROVE  Fresh'
  BY <1>8 DEF Return, Raise, Crash, KillSwitch
<1>9. CASE SwitchAccount \/ UNCHANGED vars
  BY <1>9 DEF SwitchAccount, vars
<1> QED
  BY <1>1, <1>2, <1>3, <1>4, <1>5, <1>6, <1>7, <1>8, <1>9 DEF Next, AdapterStep

(* What each branch writes, in the words of AtMostOnceExecution.           *)
LEMMA CalledLocally ==
  /\ \A s \in Statuses, o \in {"intent", "preflight"} :
       LET r == LocalResult(s, o) IN
       /\ s \in {"NO_ACTION", "REJECTED", "EXPIRED", "FAILED"} => SaysWithheld(r)
       /\ s \in {"NO_ACTION", "REJECTED", "EXPIRED", "FAILED", "UNKNOWN"}
            => Called(r) \notin Boundary!Confirmed
  /\ Called(NoDraft) \notin Boundary!Confirmed \cup Boundary!Withheld
  /\ \A v \in 0..ApprovedVolume : \A c \in Retcodes(v) : \A r \in Interpretations(v, c) :
       Called(r) \notin Boundary!Withheld
<1>1. \A v \in 0..ApprovedVolume : \A c \in Retcodes(v) : \A r \in Interpretations(v, c) :
       Called(r) \notin Boundary!Withheld
  BY VolumeAssumption
  DEF Called, Boundary!Withheld, Retcodes, Interpretations, Acknowledgements, Acknowledged,
      LocalResult
<1> QED
  BY <1>1 DEF Called, Boundary!Confirmed, Boundary!Withheld, LocalResult, NoDraft, SaysWithheld

LEMMA AnsweredStep ==
  ASSUME TypeOK, Answered, [Next]_vars
  PROVE  Answered'
<1> USE DEF ledgerVars, brokerVars, processVars, Goto
<1> DEFINE Kept(f) == /\ pc[f] \in {"record", "append"} /\ draft'[f] = draft[f]
                      /\ work'[f] = work[f] /\ sends'[work[f]] >= sends[work[f]]
           Fine(f, r) == /\ draft'[f] = r
                         /\ Called(r) \in Boundary!Withheld => SaysWithheld(r)
                         /\ Called(r) \in Boundary!Confirmed => sends'[work'[f]] > 0
<1>1. SUFFICES ASSUME NEW f \in Executors, pc'[f] \in {"record", "append"}
               PROVE  Kept(f) \/ \E r : Fine(f, r)
  <2> SUFFICES ASSUME NEW f \in Executors, pc'[f] \in {"record", "append"},
                      Kept(f) \/ \E r : Fine(f, r)
               PROVE  /\ Called(draft'[f]) \in Boundary!Withheld => SaysWithheld(draft'[f])
                      /\ Called(draft'[f]) \in Boundary!Confirmed => sends'[work'[f]] > 0
    BY DEF Answered, Called, SaysWithheld
  <2>1. CASE Kept(f)
    <3>1. work[f] \in Intents /\ sends'[work[f]] \in Nat /\ sends[work[f]] \in Nat
      BY TypeStep DEF TypeOK
    <3> QED
      BY <2>1, <3>1 DEF Answered
  <2>2. CASE \E r : Fine(f, r)
    BY <2>2
  <2> QED
    BY <2>1, <2>2
<1>2. \A e \in Executors : \A r : Write(e, r) /\ f # e => draft'[f] = draft[f] /\ pc'[f] = pc[f]
  BY DEF Write, TypeOK
<1>3. \A e \in Executors : \A r : Write(e, r) /\ f = e => draft'[f] = r
  BY DEF Write, TypeOK
<1>4. ASSUME NEW e \in Executors, UNCHANGED <<sends, work>>,
             NEW s \in {"NO_ACTION", "REJECTED", "EXPIRED", "FAILED", "UNKNOWN"},
             NEW o \in {"intent", "preflight"}, s = "UNKNOWN" => o = "intent",
             Write(e, LocalResult(s, o))
      PROVE  Kept(f) \/ \E r : Fine(f, r)
  <2>1. CASE f # e
    BY <1>1, <1>2, <1>4, <2>1 DEF TypeOK
  <2>2. CASE f = e
    <3>1. draft'[f] = LocalResult(s, o)
      BY <1>3, <1>4, <2>2
    <3>2. Called(LocalResult(s, o)) \notin Boundary!Confirmed
      BY <1>4, CalledLocally DEF Statuses
    <3>3. Called(LocalResult(s, o)) \in Boundary!Withheld => SaysWithheld(LocalResult(s, o))
      BY <1>4 DEF Called, LocalResult, SaysWithheld, Boundary!Withheld
    <3> QED
      BY <3>1, <3>2, <3>3
  <2> QED
    BY <2>1, <2>2
<1>5. ASSUME NEW e \in Executors, NEW i \in Intents, Execute(e, i) PROVE Kept(f)
  BY <1>1, <1>5 DEF Execute, TypeOK
<1>6. ASSUME NEW e \in Executors, Reserve(e) PROVE Kept(f) \/ \E r : Fine(f, r)
  <2>1. CASE Goto(e, "observe") /\ UNCHANGED draft
    BY <1>1, <1>6, <2>1 DEF Reserve, TypeOK
  <2> QED
    BY <1>4, <1>6, <2>1 DEF Reserve
<1>7. ASSUME NEW e \in Executors, Observe(e) PROVE Kept(f) \/ \E r : Fine(f, r)
  <2>1. CASE Goto(e, "validate") /\ UNCHANGED draft
    BY <1>1, <1>7, <2>1 DEF Observe, TypeOK
  <2> QED
    BY <1>4, <1>7, <2>1 DEF Observe
<1>8. ASSUME NEW e \in Executors, ValidatePreflight(e) \/ SubmitCheck(e)
      PROVE  Kept(f) \/ \E r : Fine(f, r)
  <2>1. CASE (Goto(e, "check") \/ Goto(e, "send")) /\ UNCHANGED draft
    BY <1>1, <1>8, <2>1 DEF ValidatePreflight, SubmitCheck, TypeOK
  <2> QED
    BY <1>4, <1>8, <2>1 DEF ValidatePreflight, SubmitCheck
<1>9. ASSUME NEW e \in Executors, OrderSend(e) PROVE Kept(f) \/ \E r : Fine(f, r)
  <2>1. /\ sends' = [sends EXCEPT ![work[e]] = @ + 1] /\ UNCHANGED work
        /\ \/ Goto(e, "raised") /\ UNCHANGED draft
           \/ \E v \in 0..ApprovedVolume : \E c \in Retcodes(v) :
                \E r \in Interpretations(v, c) : Write(e, r)
    BY <1>9 DEF OrderSend
  <2>2. (\A i \in Intents : sends'[i] >= sends[i]) /\ sends'[work[e]] > 0
    BY <2>1 DEF TypeOK
  <2>3. CASE Goto(e, "raised") /\ UNCHANGED draft
    BY <1>1, <2>1, <2>2, <2>3 DEF TypeOK
  <2>4. ASSUME NEW v \in 0..ApprovedVolume, NEW c \in Retcodes(v), NEW r \in Interpretations(v, c),
               Write(e, r)
        PROVE  Kept(f) \/ Fine(f, r)
    <3>1. Called(r) \notin Boundary!Withheld
      BY CalledLocally
    <3>2. CASE f = e
      BY <1>3, <2>1, <2>2, <2>4, <3>1, <3>2
    <3>3. CASE f # e
      BY <1>1, <1>2, <2>1, <2>2, <2>4, <3>3 DEF TypeOK
    <3> QED
      BY <3>2, <3>3
  <2> QED
    BY <2>1, <2>3, <2>4
<1>10. ASSUME NEW e \in Executors, RecordCheck(e) \/ RecordAppend(e) PROVE Kept(f)
  BY <1>1, <1>10 DEF RecordCheck, RecordAppend, TypeOK
<1>11. ASSUME NEW e \in Executors, Return(e) \/ Raise(e) \/ Crash(e) \/ KillSwitch(e)
       PROVE  Kept(f)
  BY <1>1, <1>11 DEF Return, Raise, Crash, KillSwitch, TypeOK
<1>12. CASE SwitchAccount \/ UNCHANGED vars
  BY <1>1, <1>12 DEF SwitchAccount, vars, TypeOK
<1> QED
  BY <1>5, <1>6, <1>7, <1>8, <1>9, <1>10, <1>11, <1>12 DEF Next, AdapterStep

-----------------------------------------------------------------------------
(* Every step of the boundary is one of AtMostOnceExecution, or none.      *)
Mapped == [Boundary!Next]_<<reserved, Submitted, [i \in Intents |-> OutcomeOf(i)]>>

(* Steps that neither reserve, send nor record anything.                   *)
LEMMA NothingMapped ==
  ASSUME UNCHANGED <<reserved, sends, results>>
  PROVE  Mapped
<1>1. Submitted' = Submitted
  BY DEF Submitted
<1>2. [i \in Intents |-> OutcomeOf(i)]' = [i \in Intents |-> OutcomeOf(i)]
  BY DEF OutcomeOf, HasResult, Latest
<1> QED
  BY <1>1, <1>2 DEF Mapped

LEMMA ReserveMapped ==
  ASSUME TypeOK, NEW e \in Executors, Reserve(e)
  PROVE  Mapped
<1>1. UNCHANGED <<sends, results>> /\ reserved' = reserved \cup {work[e]} /\ work[e] \in Intents
  BY DEF Reserve, brokerVars, TypeOK
<1>2. UNCHANGED <<Submitted, [i \in Intents |-> OutcomeOf(i)]>>
  BY <1>1 DEF Submitted, OutcomeOf, HasResult, Latest
<1>3. CASE work[e] \in reserved
  BY <1>1, <1>3, NothingMapped
<1>4. CASE work[e] \notin reserved
  <2>1. Boundary!Claim(work[e])
    BY <1>1, <1>2, <1>4 DEF Boundary!Claim
  <2> QED
    BY <1>1, <2>1 DEF Mapped, Boundary!Next
<1> QED
  BY <1>3, <1>4

LEMMA SendMapped ==
  ASSUME TypeOK, Ownership, Fresh, NEW e \in Executors, OrderSend(e)
  PROVE  Mapped
<1> DEFINE i == work[e]
<1>1. /\ i \in Intents /\ pc[e] = "send" /\ sends' = [sends EXCEPT ![i] = @ + 1]
      /\ UNCHANGED <<reserved, results>>
  BY DEF OrderSend, ledgerVars, TypeOK
<1>2. i \in reserved /\ sends[i] = 0 /\ ~HasResult(i)
  BY <1>1 DEF Ownership, Fresh, PreSend, OnTheWay, HasResult
<1>3. \A j \in Intents : (sends'[j] > 0) <=> (sends[j] > 0 \/ j = i)
  BY <1>1, <1>2 DEF TypeOK
<1>4. Submitted' = Submitted \cup {i} /\ i \notin Submitted
  BY <1>1, <1>2, <1>3 DEF Submitted
<1>5. [j \in Intents |-> OutcomeOf(j)]' = [j \in Intents |-> OutcomeOf(j)]
  BY <1>1 DEF OutcomeOf, HasResult, Latest
<1>6. [j \in Intents |-> OutcomeOf(j)][i] = "PENDING"
  BY <1>1, <1>2 DEF OutcomeOf
<1>7. Boundary!Submit(i)
  BY <1>1, <1>2, <1>4, <1>5, <1>6 DEF Boundary!Submit
<1> QED
  BY <1>1, <1>7 DEF Mapped, Boundary!Next

LEMMA AppendMapped ==
  ASSUME Inv, Fresh, Answered, NEW e \in Executors, RecordAppend(e)
  PROVE  Mapped
<1> DEFINE i == work[e]
           r == draft[e]
<1> USE DEF Inv
<1>1. CASE UNCHANGED results
  BY <1>1, NothingMapped DEF RecordAppend, brokerVars
<1>2. CASE results' = [results EXCEPT ![i] = Append(@, r)]
  <2>1. /\ i \in Intents /\ r \in Result /\ pc[e] = "append"
        /\ UNCHANGED <<reserved, sends, work>>
        /\ results[i] = << >> /\ i \in reserved
    BY DEF RecordAppend, brokerVars, TypeOK, Fresh, OnTheWay
  <2>2. results'[i] = <<r>> /\ \A j \in Intents \ {i} : results'[j] = results[j]
    BY <1>2, <2>1 DEF TypeOK
  <2>3. OutcomeOf(i) = "PENDING" /\ OutcomeOf(i)' = Called(r)
    <3>1. results'[i] # << >> /\ results'[i][Len(results'[i])] = r
      BY <2>2
    <3> QED
      BY <2>1, <3>1 DEF OutcomeOf, HasResult, Latest, Called
  <2>4. \A j \in Intents \ {i} : OutcomeOf(j)' = OutcomeOf(j)
    BY <2>2 DEF OutcomeOf, HasResult, Latest
  <2>5. [j \in Intents |-> OutcomeOf(j)]'
          = [[j \in Intents |-> OutcomeOf(j)] EXCEPT ![i] = Called(r)]
    <3> DEFINE old(j) == OutcomeOf(j)
               new(j) == OutcomeOf(j)'
               c == Called(r)
    <3>1. new(i) = c /\ \A j \in Intents \ {i} : new(j) = old(j)
      BY <2>3, <2>4
    <3>2. [j \in Intents |-> OutcomeOf(j)]' = [j \in Intents |-> new(j)]
      OBVIOUS
    <3>3. [j \in Intents |-> OutcomeOf(j)] = [j \in Intents |-> old(j)] /\ c = Called(r)
      OBVIOUS
    <3> HIDE DEF old, new, c, i
    <3>4. [j \in Intents |-> new(j)] = [[j \in Intents |-> old(j)] EXCEPT ![i] = c]
      BY <3>1
    <3> QED
      BY <3>2, <3>3, <3>4
  <2>6. Called(r) \in Boundary!Withheld => i \notin Submitted
    <3>1. Drafted(e, i, r)
      BY <2>1 DEF Drafted
    <3>2. True(i, r)
      BY <2>1, <3>1 DEF Truth
    <3>3. Called(r) \in Boundary!Withheld => SaysWithheld(r) /\ r # NoDraft
      BY <2>1, CalledLocally DEF Answered
    <3> QED
      BY <3>2, <3>3 DEF True, Submitted
  <2>7. Called(r) \in Boundary!Confirmed => i \in Submitted
    BY <2>1 DEF Answered, Submitted
  <2>8. Called(r) \in Boundary!Outcomes
    BY <2>1 DEF Called, Result, Statuses, Boundary!Outcomes, Boundary!Withheld, Boundary!Confirmed
  <2>9. Submitted' = Submitted
    BY <2>1 DEF Submitted
  <2>10. Boundary!Conclude(i, Called(r))
    BY <2>1, <2>3, <2>5, <2>6, <2>7, <2>9 DEF Boundary!Conclude
  <2> QED
    BY <2>1, <2>8, <2>10 DEF Mapped, Boundary!Next
<1> QED
  BY <1>1, <1>2 DEF RecordAppend

LEMMA StepMapped ==
  ASSUME Inv, Fresh, Answered, [Next]_vars
  PROVE  Mapped
<1> USE DEF ledgerVars, brokerVars, Inv
<1>1. ASSUME NEW e \in Executors,
             \/ \E i \in Intents : Execute(e, i)
             \/ Observe(e) \/ ValidatePreflight(e) \/ SubmitCheck(e) \/ RecordCheck(e)
             \/ Return(e) \/ Raise(e) \/ Crash(e) \/ KillSwitch(e)
      PROVE  UNCHANGED <<reserved, sends, results>>
  BY <1>1 DEF Execute, Observe, ValidatePreflight, SubmitCheck, RecordCheck, Return, Raise,
              Crash, KillSwitch
<1>2. CASE SwitchAccount \/ UNCHANGED vars
  BY <1>2, NothingMapped DEF SwitchAccount, vars
<1> QED
  BY <1>1, <1>2, NothingMapped, ReserveMapped, SendMapped, AppendMapped DEF Next, AdapterStep

(* With one executor, as shipped, the adapter, its ledger and the broker   *)
(* together do what AtMostOnceExecution promises: an intent is submitted   *)
(* at most once, never after its outcome is written, and the one outcome   *)
(* does not contradict the submission, crashes included.                   *)
THEOREM BoundaryImplements ==
  ASSUME OneExecutor
  PROVE  Spec => ImplementsAtMostOnce
<1>1. Init => Fresh /\ Answered
  BY DEF Init, Fresh, Answered, OnTheWay
<1>2. Init => Boundary!Init
  BY DEF Init, Boundary!Init, Submitted, OutcomeOf, HasResult
<1>3. Inv /\ Fresh /\ Answered /\ [Next]_vars => Fresh' /\ Answered'
  BY FreshStep, AnsweredStep DEF Inv
<1>4. Inv /\ Fresh /\ Answered /\ [Next]_vars => [Boundary!Next]_(Boundary!vars)
  BY StepMapped DEF Mapped, Boundary!vars
<1> QED
  BY <1>1, <1>2, <1>3, <1>4, InvHolds, PTL DEF Spec, ImplementsAtMostOnce, Boundary!Spec

(* With one executor a result, once written, is what every later call gets.*)
THEOREM ResultsFinal ==
  ASSUME OneExecutor
  PROVE  Spec => ResultIsFinal
<1>1. Init => Fresh
  BY DEF Init, Fresh, OnTheWay
<1>2. TypeOK /\ Fresh /\ [Next]_vars => Fresh'
  BY FreshStep
<1>3. TypeOK /\ Fresh /\ [Next]_vars
        => [\A i \in Intents : results[i] # << >> => results'[i] = results[i]]_vars
  <2> SUFFICES ASSUME TypeOK, Fresh, Next, NEW i \in Intents, results[i] # << >>
               PROVE  results'[i] = results[i]
    OBVIOUS
  <2>1. ASSUME NEW e \in Executors, RecordAppend(e) PROVE results'[i] = results[i]
    BY <2>1 DEF RecordAppend, Fresh, OnTheWay, TypeOK
  <2>2. (\E e \in Executors : RecordAppend(e)) \/ UNCHANGED results
    BY DEF Next, AdapterStep, Execute, Reserve, Observe, ValidatePreflight, SubmitCheck,
           OrderSend, RecordCheck, Return, Raise, Crash, KillSwitch, SwitchAccount,
           ledgerVars
  <2> QED
    BY <2>1, <2>2
<1> QED
  BY <1>1, <1>2, <1>3, TypeCorrect, PTL DEF Spec, ResultIsFinal

-----------------------------------------------------------------------------
(* THE RUNTIME                                                             *)

(* Between the decision on an entry and its result the plan names it.      *)
EntryPlanned == opc \in {"entry", "execute"} => plan.entry \in Intents

LEMMA RuntimeExecutes == Runtime \in Executors
BY RuntimeAssumption

(* Setting the controls turns the kill switch on, or leaves it.            *)
LEMMA ControlsStep ==
  ASSUME TypeOK, SetOperatorControls
  PROVE  KillSwitch(Runtime) \/ UNCHANGED vars
<1>1. PICK on \in BOOLEAN : (kill[Runtime] => on) /\ kill' = [kill EXCEPT ![Runtime] = on]
  BY DEF SetOperatorControls
<1>2. UNCHANGED <<ledgerVars, brokerVars, mode, pc, work, draft>>
  BY DEF SetOperatorControls
<1>3. CASE on = kill[Runtime]
  <2>1. kill' = kill
    BY <1>1, <1>3, RuntimeExecutes DEF TypeOK
  <2> QED BY <1>2, <2>1 DEF vars, processVars
<1>4. CASE on # kill[Runtime]
  <2>1. ~kill[Runtime] /\ kill' = [kill EXCEPT ![Runtime] = TRUE]
    BY <1>1, <1>4, RuntimeExecutes DEF TypeOK
  <2> QED BY <1>2, <2>1 DEF KillSwitch
<1> QED BY <1>3, <1>4

LEMMA BoundaryStep ==
  ASSUME TypeOK, EntryPlanned, [OrchNext]_orchVars
  PROVE  [Next]_vars
<1> USE RuntimeExecutes
<1>1. CASE \/ Startup \/ RefreshSnapshotIfDue \/ ResumeNewEntries \/ Shutdown \/ BrokerMoves
           \/ ProcessEvent \/ RevalidateEntry \/ RefreshAfterEntry
  BY <1>1 DEF Startup, RefreshSnapshotIfDue, ResumeNewEntries, Shutdown, BrokerMoves,
              ProcessEvent, RevalidateEntry, RefreshAfterEntry
<1>2. CASE \/ BeginAction \/ ReserveAction \/ SendAction \/ RecordAction \/ TakeActionResult
           \/ ActionRaised \/ RefreshAfterAction
  BY <1>2 DEF BeginAction, ReserveAction, SendAction, RecordAction, TakeActionResult,
              ActionRaised, RefreshAfterAction
<1>3. CASE SetOperatorControls
  BY <1>3, ControlsStep DEF Next
<1>4. CASE Restart
  BY <1>4 DEF Restart, Next
<1>5. CASE ExecuteEntry
  <2>1. plan.entry \in Intents
    BY <1>5 DEF ExecuteEntry, EntryPlanned
  <2> QED
    BY <1>5, <2>1 DEF ExecuteEntry, Next
<1>6. CASE TakeResult \/ EntryRaised
  BY <1>6 DEF TakeResult, EntryRaised, Next
<1>7. CASE UNCHANGED orchVars
  BY <1>7 DEF orchVars
<1> QED BY <1>1, <1>2, <1>3, <1>4, <1>5, <1>6, <1>7 DEF OrchNext

LEMMA EntryPlannedStep ==
  ASSUME EntryPlanned, [OrchNext]_orchVars
  PROVE  EntryPlanned'
<1> USE DEF EntryPlanned
<1>1. CASE \/ Startup \/ RefreshSnapshotIfDue \/ SetOperatorControls \/ ResumeNewEntries
           \/ Shutdown \/ BrokerMoves
  BY <1>1 DEF Startup, RefreshSnapshotIfDue, SetOperatorControls, ResumeNewEntries,
              Shutdown, BrokerMoves, cycleVars
<1>2. CASE Restart
  BY <1>2 DEF Restart
<1>3. CASE ProcessEvent
  <2>1. PICK entry \in Intents \cup {None}, actions \in Batches :
          /\ plan' = [entry |-> entry, actions |-> actions]
          /\ opc' = IF entry # None /\ CanMutateEntry THEN "entry" ELSE "actions"
    BY <1>3 DEF ProcessEvent
  <2> QED BY <2>1
<1>4. CASE RevalidateEntry \/ ExecuteEntry
  BY <1>4 DEF RevalidateEntry, ExecuteEntry
<1>5. CASE TakeResult \/ EntryRaised \/ RefreshAfterEntry
  BY <1>5 DEF TakeResult, EntryRaised, RefreshAfterEntry
<1>6. CASE \/ BeginAction \/ ReserveAction \/ SendAction \/ RecordAction \/ TakeActionResult
           \/ ActionRaised \/ RefreshAfterAction
  BY <1>6 DEF BeginAction, Revalidated, EndCycle, ReserveAction, SendAction, RecordAction,
              TakeActionResult, ActionRaised, RefreshAfterAction
<1>7. CASE UNCHANGED orchVars
  BY <1>7 DEF orchVars, cycleVars
<1> QED BY <1>1, <1>2, <1>3, <1>4, <1>5, <1>6, <1>7 DEF OrchNext

(* The composed runtime implements ExecutionBoundary.                      *)
THEOREM RuntimeKeepsBoundary == OrchSpec => KeepsBoundary
<1> DEFINE Typed == TypeOK /\ EntryPlanned
<1>1. OrchInit => Init /\ Typed
  <2>1. Init => TypeOK
    BY ResultTypes, VolumeAssumption DEF Init, TypeOK, Steps
  <2> QED BY <2>1 DEF OrchInit, EntryPlanned
<1>2. Typed /\ [OrchNext]_orchVars => [Next]_vars /\ Typed'
  BY BoundaryStep, EntryPlannedStep, TypeStep
<1> HIDE DEF Typed
<1> QED BY <1>1, <1>2, PTL DEF OrchSpec, KeepsBoundary, Spec

(* At most one order leaves the runtime for an intent, whatever refreshes, *)
(* operator controls, cycles and restarts come between the handings-in.    *)
THEOREM RuntimeSubmitsOnce == OrchSpec => []AtMostOneSubmission
BY RuntimeKeepsBoundary, AtMostOnce, PTL DEF KeepsBoundary

(* And what its ledger says of an entry stays true.                        *)
THEOREM RuntimeLedgerTruthful == OrchSpec => []TruthfulLedger
BY RuntimeKeepsBoundary, Truthful, PTL DEF KeepsBoundary

-----------------------------------------------------------------------------
(* Position actions: the reservation is written before the send, and only  *)
(* an action that was not reserved gets as far.                            *)

ActionSteps == {"action", "asend", "arecord", "afeedback", "arefresh"}

Entries == [reserved : BOOLEAN, status : ActionStatuses, sends : Nat]

ActionTypes ==
  /\ actionLedger \in [Actions -> Entries]
  /\ actionDraft \in ActionStatuses
  /\ plan.actions \in Seq(Actions)
  /\ opc \in ActionSteps => plan.actions # << >>

(* Who is about to send has reserved and not sent.                         *)
Reserved ==
  /\ \A a \in Actions : actionLedger[a].sends =< 1
                       /\ (actionLedger[a].sends > 0 => actionLedger[a].reserved)
  /\ opc = "asend" => actionLedger[Current].reserved /\ actionLedger[Current].sends = 0

ActionInv == ActionTypes /\ Reserved

(* A batch is a sequence of actions.                                       *)
LEMMA BatchTypes == \A s \in Batches : s \in Seq(Actions)
<1> SUFFICES ASSUME NEW s \in Batches PROVE s \in Seq(Actions)
  OBVIOUS
<1>1. s \in UNION {[1..n -> Actions] : n \in 0..2}
  BY DEF Batches
<1>2. PICK n \in 0..2 : s \in [1..n -> Actions]
  BY <1>1
<1>3. n \in Nat
  OBVIOUS
<1> QED BY <1>2, <1>3

(* Steps that leave the ledger of actions alone, do not enter its sending  *)
(* and keep a plan or drop it.                                             *)
LEMMA ElsewhereStep ==
  ASSUME ActionInv, UNCHANGED actionVars, opc' # "asend" \/ (opc' = opc /\ plan' = plan),
         plan'.actions \in Seq(Actions), opc' \in ActionSteps => plan'.actions # << >>
  PROVE  ActionInv'
<1> actionLedger' = actionLedger /\ actionDraft' = actionDraft
  BY DEF actionVars
<1>1. ActionTypes'
  BY DEF ActionInv, ActionTypes
<1>2. Reserved'
  <2>1. CASE opc' # "asend"
    BY <2>1 DEF ActionInv, Reserved
  <2>2. CASE opc' = opc /\ plan' = plan
    BY <2>2 DEF ActionInv, Reserved, Current
  <2> QED BY <2>1, <2>2
<1> QED BY <1>1, <1>2 DEF ActionInv

LEMMA ActionStep ==
  ASSUME ActionInv, [OrchNext]_orchVars
  PROVE  ActionInv'
<1> USE DEF ActionSteps
<1>0. << >> \in Seq(Actions) /\ NoPlan.actions = << >>
  BY DEF NoPlan
<1>1. CASE \/ Startup \/ RefreshSnapshotIfDue \/ SetOperatorControls \/ ResumeNewEntries
           \/ Shutdown \/ BrokerMoves \/ UNCHANGED orchVars
  <2>1. UNCHANGED <<cycleVars, actionVars>>
    BY <1>1 DEF Startup, RefreshSnapshotIfDue, SetOperatorControls, ResumeNewEntries,
                Shutdown, BrokerMoves, orchVars
  <2> QED BY <2>1, ElsewhereStep DEF cycleVars, ActionInv, ActionTypes
<1>2. CASE Restart
  BY <1>0, <1>2 DEF Restart, ActionInv, ActionTypes, Reserved, ActionStatuses
<1>3. CASE ProcessEvent
  <2>1. PICK entry \in Intents \cup {None}, actions \in Batches :
          /\ plan' = [entry |-> entry, actions |-> actions]
          /\ opc' = IF entry # None /\ CanMutateEntry THEN "entry" ELSE "actions"
    BY <1>3 DEF ProcessEvent
  <2>2. plan'.actions \in Seq(Actions)
    BY <2>1, BatchTypes
  <2> QED BY <1>3, <2>1, <2>2, ElsewhereStep DEF ProcessEvent
<1>4. CASE RevalidateEntry \/ ExecuteEntry \/ TakeResult \/ EntryRaised \/ RefreshAfterEntry
  <2>1. UNCHANGED actionVars /\ opc' \in {"execute", "actions", "refresh", "idle"}
    BY <1>4 DEF RevalidateEntry, Revalidated, ExecuteEntry, TakeResult, EntryRaised,
                RefreshAfterEntry
  <2>2. plan' = plan \/ plan' = NoPlan
    BY <1>4 DEF RevalidateEntry, ExecuteEntry, TakeResult, EntryRaised, RefreshAfterEntry
  <2> QED BY <1>0, <2>1, <2>2, ElsewhereStep DEF ActionInv, ActionTypes
<1>5. CASE BeginAction
  <2>1. UNCHANGED actionVars
    BY <1>5 DEF BeginAction
  <2>2. \/ opc' = "idle" /\ plan' = NoPlan
        \/ opc' = "action" /\ plan' = plan /\ plan.actions # << >>
    BY <1>5 DEF BeginAction, EndCycle, Revalidated
  <2> QED BY <1>0, <2>1, <2>2, ElsewhereStep DEF ActionInv, ActionTypes
<1>6. CASE ReserveAction
  <2> USE DEF ActionInv, ActionTypes, Reserved
  <2>1. Current \in Actions /\ plan' = plan /\ plan.actions # << >> /\ opc = "action"
    BY <1>6 DEF ReserveAction, Current
  <2>2. CASE UNCHANGED actionLedger /\ opc' \in {"afeedback", "arecord"}
    BY <1>6, <2>1, <2>2 DEF ReserveAction, Current, Entries, ActionStatuses
  <2>3. CASE /\ ~actionLedger[Current].reserved
             /\ actionLedger' = [actionLedger EXCEPT ![Current].reserved = TRUE]
             /\ opc' \in {"arecord", "asend"} /\ actionDraft' \in ActionStatuses
    <3>1. actionLedger' \in [Actions -> Entries]
      BY <2>1, <2>3 DEF Entries
    <3>2. \A a \in Actions : /\ actionLedger'[a].sends = actionLedger[a].sends
                             /\ actionLedger[a].reserved => actionLedger'[a].reserved
      BY <2>3, <2>1 DEF Entries
    <3>3. actionLedger'[Current].reserved /\ actionLedger'[Current].sends = 0
      BY <2>1, <2>3 DEF Entries
    <3> QED BY <2>1, <2>3, <3>1, <3>2, <3>3 DEF Current
  <2> QED BY <1>6, <2>2, <2>3 DEF ReserveAction, ActionStatuses
<1>7. CASE SendAction
  <2> USE DEF ActionInv, ActionTypes, Reserved
  <2>1. /\ Current \in Actions /\ plan' = plan /\ plan.actions # << >>
        /\ opc = "asend" /\ opc' = "arecord" /\ actionDraft' \in ActionStatuses
    BY <1>7 DEF SendAction, Current, ActionStatuses
  <2>2. CASE UNCHANGED actionLedger
    BY <2>1, <2>2
  <2>3. CASE actionLedger' = [actionLedger EXCEPT ![Current].sends = @ + 1]
    <3>1. actionLedger' \in [Actions -> Entries]
      <4>1. actionLedger[Current] \in Entries
        BY <2>1
      <4>2. [actionLedger[Current] EXCEPT !.sends = @ + 1] \in Entries
        BY <4>1 DEF Entries
      <4> QED BY <2>3, <4>2
    <3>2. \A a \in Actions \ {Current} : actionLedger'[a] = actionLedger[a]
      BY <2>1, <2>3
    <3>3. actionLedger'[Current].sends = 1 /\ actionLedger'[Current].reserved
      BY <2>1, <2>3 DEF Entries
    <3> QED BY <2>1, <3>1, <3>2, <3>3
  <2> QED BY <1>7, <2>2, <2>3 DEF SendAction
<1>8. CASE RecordAction
  <2> USE DEF ActionInv, ActionTypes, Reserved
  <2>1. Current \in Actions /\ plan' = plan /\ plan.actions # << >> /\ opc' = "afeedback"
    BY <1>8 DEF RecordAction, Current
  <2>2. actionLedger' = [actionLedger EXCEPT ![Current].status = actionDraft]
    BY <1>8 DEF RecordAction
  <2>3. actionLedger' \in [Actions -> Entries]
    BY <2>1, <2>2 DEF Entries
  <2>4. \A a \in Actions : /\ actionLedger'[a].sends = actionLedger[a].sends
                           /\ actionLedger'[a].reserved = actionLedger[a].reserved
    BY <2>1, <2>2 DEF Entries
  <2> QED BY <1>8, <2>1, <2>3, <2>4 DEF RecordAction
<1>9. CASE TakeActionResult \/ ActionRaised
  <2>1. /\ UNCHANGED actionLedger /\ actionDraft' = "NONE"
        /\ \/ opc' = "arefresh" /\ plan' = plan /\ plan.actions # << >>
           \/ opc' = "idle" /\ plan' = NoPlan
    BY <1>9 DEF TakeActionResult, ActionRaised, EndCycle, ActionInv, ActionTypes
  <2> QED BY <1>0, <2>1 DEF ActionInv, ActionTypes, Reserved, ActionStatuses
<1>10. CASE RefreshAfterAction
  <2>1. UNCHANGED actionVars /\ opc' = "actions" /\ plan'.actions = Tail(plan.actions)
    BY <1>10 DEF RefreshAfterAction, ActionInv, ActionTypes
  <2>2. plan'.actions \in Seq(Actions)
    BY <1>10, <2>1 DEF RefreshAfterAction, ActionInv, ActionTypes
  <2> QED BY <2>1, <2>2, ElsewhereStep
<1> QED BY <1>1, <1>2, <1>3, <1>4, <1>5, <1>6, <1>7, <1>8, <1>9, <1>10 DEF OrchNext

(* A position action is sent at most once, over repeated plans, unknown    *)
(* outcomes and restarts.                                                  *)
THEOREM RuntimeActsOnce == OrchSpec => []ActionsSentOnce
<1>1. OrchInit => ActionInv
  BY DEF OrchInit, ActionInv, ActionTypes, Entries, ActionStatuses, Reserved, ActionSteps, NoPlan
<1>2. ActionInv /\ [OrchNext]_orchVars => ActionInv'
  BY ActionStep
<1>3. ActionInv => ActionsSentOnce
  BY DEF ActionInv, Reserved, ActionsSentOnce
<1> QED BY <1>1, <1>2, <1>3, PTL DEF OrchSpec

-----------------------------------------------------------------------------
(* Nothing is dispatched but from a verdict: what the refresh before a     *)
(* mutation has established stays so until the order leaves, for nothing   *)
(* else of the runtime runs in between.                                    *)

Ready == phase = "SAFE" /\ readiness = "SAFE" /\ Resolved(report)

EntryReady ==
  /\ opc \in {"entry", "execute"} => CanMutateEntry
  /\ opc = "execute" => Ready /\ \A a \in Actions : ~AmbiguousAction(a)

(* The action about to be sent is ambiguous itself, being reserved.        *)
ActionReady ==
  opc \in {"action", "asend"} =>
    /\ CanMutatePosition /\ Ready
    /\ \A b \in Actions : opc = "action" \/ b # Current => ~AmbiguousAction(b)

ReadyInv == EntryReady /\ ActionReady

(* A revalidation goes on only where the runtime is ready.                 *)
LEMMA RevalidatedReady ==
  ASSUME NEW next, NEW otherwise, Revalidated(next, otherwise), opc' = next, next # otherwise
  PROVE  Ready' /\ \A a \in Actions : ~AmbiguousAction(a)
<1>1. phase' = "SAFE" /\ readiness' = "SAFE"
  BY DEF Revalidated
<1>2. RefreshCompletes
  BY <1>1 DEF Revalidated, Refresh, RefreshFails
<1>3. PICK links \in SUBSET Linkable, condition \in Conditions :
        /\ report' = Reconciliation(links)
        /\ readiness' = Verdict(report', condition)
        /\ phase' = IF \/ \E a \in Actions : AmbiguousAction(a)
                       \/ readiness' # "SAFE" /\ ~ShadowRecoverable(report', condition)
                    THEN "BLOCKED" ELSE "SAFE"
  BY <1>2 DEF RefreshCompletes
<1>4. \A a \in Actions : ~AmbiguousAction(a)
  BY <1>1, <1>3
<1>5. Resolved(report')
  BY <1>1, <1>3 DEF Verdict
<1> QED BY <1>1, <1>4, <1>5 DEF Ready, Resolved

(* The adapter does not touch the policy or the kill switch.               *)
LEMMA AdapterKeepsGates ==
  ASSUME ExecuteEntry
  PROVE  kill' = kill
BY DEF ExecuteEntry, Execute, AdapterStep, Reserve, Observe, ValidatePreflight, SubmitCheck,
       OrderSend, RecordCheck, RecordAppend, Raise, processVars

LEMMA ReadyStep ==
  ASSUME ActionInv, ReadyInv, [OrchNext]_orchVars
  PROVE  ReadyInv'
<1> USE DEF ReadyInv
<1>1. ASSUME opc' \notin {"entry", "execute", "action", "asend"}
      PROVE  ReadyInv'
  BY <1>1 DEF EntryReady, ActionReady
<1>2. CASE Startup \/ BrokerMoves \/ UNCHANGED orchVars
  <2>1. CASE BrokerMoves \/ UNCHANGED orchVars
    BY <2>1 DEF BrokerMoves, orchVars, vars, processVars, verdictVars, cycleVars, actionVars,
                EntryReady, ActionReady, Ready, Resolved, CanMutateEntry, CanMutatePosition,
                MutationBlocked, AmbiguousAction, Current
  <2>2. CASE Startup
    <3>1. UNCHANGED <<vars, runtimeMode, controls, opc>> /\ phase = "CREATED"
      BY <2>2 DEF Startup, cycleVars
    <3>2. opc' \notin {"execute", "action", "asend"}
      BY <3>1 DEF EntryReady, ActionReady, Ready
    <3> QED BY <3>1, <3>2 DEF EntryReady, ActionReady, CanMutateEntry, MutationBlocked,
                             vars, processVars
  <2> QED BY <1>2, <2>1, <2>2
<1>3. CASE \/ RefreshSnapshotIfDue \/ SetOperatorControls \/ ResumeNewEntries \/ Shutdown
           \/ Restart \/ TakeResult \/ EntryRaised \/ RefreshAfterEntry
           \/ RecordAction \/ TakeActionResult \/ ActionRaised \/ RefreshAfterAction \/ SendAction
  BY <1>1, <1>3 DEF RefreshSnapshotIfDue, SetOperatorControls, ResumeNewEntries, Shutdown,
       Restart, TakeResult, EntryRaised, RefreshAfterEntry, RecordAction, TakeActionResult,
       ActionRaised, RefreshAfterAction, SendAction, EndCycle, cycleVars
<1>4. CASE ProcessEvent
  <2>1. opc' \in {"entry", "actions"} /\ (opc' = "entry" => CanMutateEntry)
    BY <1>4 DEF ProcessEvent
  <2>2. UNCHANGED <<vars, runtimeMode, controls>>
    BY <1>4 DEF ProcessEvent
  <2> QED BY <2>1, <2>2 DEF EntryReady, ActionReady, CanMutateEntry, MutationBlocked,
                           vars, processVars
<1>5. CASE RevalidateEntry
  <2>1. opc' \in {"execute", "actions"} /\ CanMutateEntry
    BY <1>5 DEF RevalidateEntry, Revalidated, EntryReady
  <2>2. UNCHANGED <<vars, runtimeMode, controls, actionVars>>
    BY <1>5 DEF RevalidateEntry
  <2>3. opc' = "execute" => Ready' /\ \A a \in Actions : ~AmbiguousAction(a)
    BY <1>5, RevalidatedReady DEF RevalidateEntry
  <2> QED BY <2>1, <2>2, <2>3 DEF EntryReady, ActionReady, CanMutateEntry, MutationBlocked,
                                 AmbiguousAction, vars, processVars, actionVars
<1>6. CASE ExecuteEntry
  <2>1. kill' = kill
    BY <1>6, AdapterKeepsGates
  <2>2. UNCHANGED <<runtimeMode, verdictVars, controls, opc, actionVars>> /\ opc = "execute"
    BY <1>6 DEF ExecuteEntry
  <2> QED BY <2>1, <2>2 DEF EntryReady, ActionReady, Ready, Resolved, CanMutateEntry,
                           MutationBlocked, AmbiguousAction, verdictVars, actionVars
<1>7. CASE BeginAction
  <2>1. UNCHANGED <<vars, runtimeMode, controls, actionVars>>
    BY <1>7 DEF BeginAction
  <2>2. \/ opc' = "idle"
        \/ opc' = "action" /\ CanMutatePosition /\ Revalidated("action", "idle")
    BY <1>7 DEF BeginAction, EndCycle, Revalidated
  <2>3. opc' = "action" => Ready' /\ \A a \in Actions : ~AmbiguousAction(a)
    BY <2>2, RevalidatedReady
  <2> QED BY <2>1, <2>2, <2>3 DEF EntryReady, ActionReady, CanMutatePosition, MutationBlocked,
                                 AmbiguousAction, vars, processVars, actionVars
<1>8. CASE ReserveAction
  <2>1. /\ Current \in Actions /\ plan' = plan /\ opc = "action"
        /\ opc' \in {"afeedback", "arecord", "asend"}
    BY <1>8 DEF ReserveAction, Current, ActionInv, ActionTypes, ActionSteps
  <2>2. UNCHANGED <<vars, runtimeMode, verdictVars, controls>>
    BY <1>8 DEF ReserveAction
  <2>3. \A b \in Actions : b # Current => actionLedger'[b] = actionLedger[b]
    BY <1>8, <2>1 DEF ReserveAction, ActionInv, ActionTypes
  <2> QED BY <2>1, <2>2, <2>3 DEF EntryReady, ActionReady, Ready, Resolved, CanMutatePosition,
        MutationBlocked, AmbiguousAction, Current, vars, processVars, verdictVars
<1> QED BY <1>2, <1>3, <1>4, <1>5, <1>6, <1>7, <1>8 DEF OrchNext

(* An order leaves only from "execute", an action only from "asend".       *)
LEMMA WhoSends ==
  ASSUME ActionInv, [OrchNext]_orchVars
  PROVE  /\ opc # "execute" => sends' = sends
         /\ \A a \in Actions : actionLedger'[a].sends # actionLedger[a].sends =>
              opc = "asend" /\ a = Current
<1> USE DEF ActionInv, ActionTypes, ActionSteps
<1>1. opc # "execute" => sends' = sends
  BY DEF OrchNext, Startup, RefreshSnapshotIfDue, SetOperatorControls, ResumeNewEntries,
         Shutdown, Restart, Crash, BrokerMoves, ProcessEvent, RevalidateEntry, ExecuteEntry,
         TakeResult, EntryRaised, RefreshAfterEntry, BeginAction, ReserveAction, SendAction,
         RecordAction, TakeActionResult, ActionRaised, RefreshAfterAction,
         orchVars, vars, brokerVars
<1>2. CASE ReserveAction
  <2>1. Current \in Actions
    BY <1>2 DEF ReserveAction, Current
  <2>2. \/ actionLedger' = actionLedger
        \/ actionLedger' = [actionLedger EXCEPT ![Current].reserved = TRUE]
    BY <1>2 DEF ReserveAction
  <2>3. \A a \in Actions : actionLedger'[a].sends = actionLedger[a].sends
    BY <2>1, <2>2 DEF Entries
  <2> QED BY <1>1, <2>3
<1>3. CASE SendAction
  <2>1. Current \in Actions /\ opc = "asend"
    BY <1>3 DEF SendAction, Current
  <2>2. \A a \in Actions \ {Current} : actionLedger'[a] = actionLedger[a]
    BY <1>3, <2>1 DEF SendAction
  <2> QED BY <1>1, <2>1, <2>2
<1>4. CASE RecordAction
  <2>1. Current \in Actions
    BY <1>4 DEF RecordAction, Current
  <2> QED BY <1>1, <1>4, <2>1 DEF RecordAction, Entries
<1>5. CASE ~ReserveAction /\ ~SendAction /\ ~RecordAction
  <2>1. actionLedger' = actionLedger
    BY <1>5 DEF OrchNext, Startup, RefreshSnapshotIfDue, SetOperatorControls, ResumeNewEntries,
         Shutdown, Restart, BrokerMoves, ProcessEvent, RevalidateEntry, ExecuteEntry,
         TakeResult, EntryRaised, RefreshAfterEntry, BeginAction,
         TakeActionResult, ActionRaised, RefreshAfterAction, orchVars, actionVars
  <2> QED BY <1>1, <2>1
<1> QED BY <1>2, <1>3, <1>4, <1>5

(* An order of either kind leaves only in DEMO, with every gate open and   *)
(* from a refresh that reconciled everything and was ready: no step of the *)
(* cycle, the operator or a failure comes between verdict and order.       *)
THEOREM RuntimeDispatchesWhenReady == OrchSpec => DispatchOnlyWhenReady
<1> DEFINE Checked == ActionInv /\ ReadyInv
<1> DEFINE Dispatch ==
      \A i \in Intents, a \in Actions :
        /\ sends'[i] # sends[i] =>
             CanMutateEntry /\ phase = "SAFE" /\ readiness = "SAFE" /\ Resolved(report)
               /\ ~AmbiguousAction(a)
        /\ actionLedger'[a].sends # actionLedger[a].sends =>
             CanMutatePosition /\ phase = "SAFE" /\ readiness = "SAFE" /\ Resolved(report)
               /\ \A b \in Actions \ {a} : ~AmbiguousAction(b)
<1>1. OrchInit => Checked
  BY DEF OrchInit, ActionInv, ActionTypes, Entries, ActionStatuses, Reserved, ActionSteps, NoPlan,
         ReadyInv, EntryReady, ActionReady
<1>2. Checked /\ [OrchNext]_orchVars => Checked'
  BY ActionStep, ReadyStep
<1>3. Checked /\ [OrchNext]_orchVars => Dispatch
  BY WhoSends DEF ReadyInv, EntryReady, ActionReady, Ready
<1>4. Checked /\ [OrchNext]_orchVars => [Dispatch]_orchVars
  BY <1>3
<1> HIDE DEF Checked
<1>5. OrchSpec => [][Dispatch]_orchVars
  BY <1>1, <1>2, <1>4, PTL DEF OrchSpec
<1> QED BY <1>5 DEF DispatchOnlyWhenReady

-----------------------------------------------------------------------------
(* The books: a resolved reconciliation explains every object there is.    *)

BookTypes == book \in [Intents -> Nat]

(* The adapter only ever adds to what an intent was opened with.           *)
LEMMA ExposureGrows ==
  ASSUME TypeOK, EntryPlanned, ExecuteEntry
  PROVE  \A i \in Intents : exposure'[i] \in Nat /\ exposure'[i] >= exposure[i]
<1> USE RuntimeExecutes, VolumeAssumption DEF TypeOK
<1>1. CASE OrderSend(Runtime)
  <2>1. PICK volume \in 0..ApprovedVolume :
          exposure' = [exposure EXCEPT ![work[Runtime]] = @ + volume]
    BY <1>1 DEF OrderSend
  <2> QED BY <2>1
<1>2. CASE UNCHANGED exposure
  BY <1>2
<1> QED
  BY <1>1, <1>2 DEF ExecuteEntry, Execute, AdapterStep, Reserve, Observe, ValidatePreflight,
       SubmitCheck, RecordCheck, RecordAppend, Raise, brokerVars

LEMMA BookTypesStep ==
  ASSUME TypeOK, EntryPlanned, ActionInv, BookTypes, [OrchNext]_orchVars
  PROVE  BookTypes'
<1> USE DEF BookTypes
<1>1. CASE ExecuteEntry
  <2>1. \A i \in Intents : exposure'[i] \in Nat /\ exposure'[i] >= exposure[i] /\ exposure[i] \in Nat
    BY <1>1, ExposureGrows DEF TypeOK
  <2>2. \A i \in Intents : book[i] + exposure'[i] - exposure[i] \in Nat
    BY <2>1
  <2> QED BY <1>1, <2>2 DEF ExecuteEntry
<1>2. CASE BrokerMoves
  <2>1. CASE UNCHANGED book
    BY <2>1
  <2>2. CASE \E i \in Intents : \E left \in 0..(book[i] - 1) : book' = [book EXCEPT ![i] = left]
    <3>1. PICK i \in Intents : \E left \in 0..(book[i] - 1) : book' = [book EXCEPT ![i] = left]
      BY <2>2
    <3>2. PICK left \in 0..(book[i] - 1) : book' = [book EXCEPT ![i] = left]
      BY <3>1
    <3>3. left \in Nat
      BY <3>2
    <3> QED BY <3>2, <3>3
  <2> QED BY <1>2, <2>1, <2>2 DEF BrokerMoves
<1>3. CASE SendAction
  <2>1. CASE UNCHANGED book
    BY <2>1
  <2>2. CASE \E left \in 0..book[Target[Current]] : book' = [book EXCEPT ![Target[Current]] = left]
    <3>1. PICK left \in 0..book[Target[Current]] : book' = [book EXCEPT ![Target[Current]] = left]
      BY <2>2
    <3>2. Target[Current] \in Intents
      BY <1>3, TargetAssumption DEF SendAction, Current, ActionInv, ActionTypes, ActionSteps
    <3>3. left \in Nat
      BY <3>1, <3>2
    <3> QED BY <3>1, <3>3
  <2> QED BY <1>3, <2>1, <2>2 DEF SendAction
<1>4. CASE ~ExecuteEntry /\ ~BrokerMoves /\ ~SendAction
  BY <1>4 DEF OrchNext, Startup, RefreshSnapshotIfDue, SetOperatorControls, ResumeNewEntries,
       Shutdown, Restart, ProcessEvent, RevalidateEntry, TakeResult, EntryRaised,
       RefreshAfterEntry, BeginAction, ReserveAction, RecordAction, TakeActionResult,
       ActionRaised, RefreshAfterAction, orchVars, bookVars
<1> QED BY <1>1, <1>2, <1>3, <1>4

(* A report without an open finding leaves no object unexplained.          *)
LEMMA ResolvedExplains ==
  ASSUME BookTypes, NEW links, Resolved(Reconciliation(links))
  PROVE  Explained
<1>1. Unclaimed(links) = {}
  <2> SUFFICES ASSUME NEW i \in Unclaimed(links) PROVE FALSE
    OBVIOUS
  <2>1. [kind |-> "BROKER_ONLY", intent |-> i] \in Reconciliation(links).findings
    BY DEF Reconciliation
  <2> QED BY <2>1 DEF Resolved
<1>2. \A i \in Claims : Kind(i, links) = "MATCHED"
  <2> SUFFICES ASSUME NEW i \in Claims PROVE Kind(i, links) = "MATCHED"
    OBVIOUS
  <2>1. [kind |-> Kind(i, links), intent |-> i] \in Reconciliation(links).findings
    BY DEF Reconciliation
  <2> QED BY <2>1 DEF Resolved
<1>3. \A i \in Claims : book[i] = Claimed(i)
  BY <1>2 DEF Kind, Claimed
<1>4. \A i \in Intents \ Claims : book[i] = Claimed(i)
  <2> SUFFICES ASSUME NEW i \in Intents \ Claims PROVE book[i] = 0
    BY DEF Claimed
  <2>1. ~(book[i] > 0)
    BY <1>1 DEF Unclaimed, Candidates
  <2> QED BY <2>1 DEF BookTypes
<1>5. ~foreign
  BY <1>1 DEF Unclaimed
<1> QED BY <1>3, <1>4, <1>5 DEF Explained

(* The report of a revalidation that goes on is about the books as they are*)
(* at that moment.                                                         *)
LEMMA RevalidatedExplains ==
  ASSUME BookTypes, NEW next, NEW otherwise, Revalidated(next, otherwise), opc' = next,
         next # otherwise, UNCHANGED <<vars, bookVars>>
  PROVE  Explained'
<1>1. phase' = "SAFE" /\ readiness' = "SAFE"
  BY DEF Revalidated
<1>2. RefreshCompletes
  BY <1>1 DEF Revalidated, Refresh, RefreshFails
<1>3. PICK links \in SUBSET Linkable, condition \in Conditions :
        report' = Reconciliation(links) /\ readiness' = Verdict(report', condition)
  BY <1>2 DEF RefreshCompletes
<1>4. Resolved(Reconciliation(links))
  BY <1>1, <1>3 DEF Verdict
<1>5. Explained
  BY <1>4, ResolvedExplains
<1>6. UNCHANGED <<book, foreign, results>>
  BY DEF vars, ledgerVars, bookVars
<1> QED BY <1>5, <1>6 DEF Explained, Claimed, Claims, HasResult, Latest, Expected

(* The runtime goes on to a mutation only when every object at the broker  *)
(* has its result and every confirmed result its object.                   *)
THEOREM RuntimeMutatesExplained == OrchSpec => MutatesOnlyExplainedBooks
<1> DEFINE Checked == TypeOK /\ EntryPlanned /\ ActionInv /\ BookTypes
<1> DEFINE Mutates == (opc = "entry" /\ opc' = "execute") \/ (opc = "actions" /\ opc' = "action")
<1>1. OrchInit => Checked
  <2>1. Init => TypeOK
    BY ResultTypes, VolumeAssumption DEF Init, TypeOK, Steps
  <2> QED
    BY <2>1 DEF OrchInit, EntryPlanned, ActionInv, ActionTypes, Entries, ActionStatuses, Reserved,
                ActionSteps, NoPlan, BookTypes
<1>2. Checked /\ [OrchNext]_orchVars => Checked'
  BY BoundaryStep, TypeStep, EntryPlannedStep, ActionStep, BookTypesStep
<1>3. Checked /\ [OrchNext]_orchVars /\ Mutates => Explained'
  <2> SUFFICES ASSUME BookTypes, OrchNext, Mutates PROVE Explained'
    BY DEF orchVars, cycleVars
  <2>1. (RevalidateEntry /\ opc' = "execute") \/ (BeginAction /\ opc' = "action")
    <3>1. ASSUME \/ Startup \/ RefreshSnapshotIfDue \/ SetOperatorControls \/ ResumeNewEntries
                 \/ Shutdown \/ Restart \/ BrokerMoves
          PROVE  FALSE
      BY <3>1 DEF Startup, RefreshSnapshotIfDue, SetOperatorControls, ResumeNewEntries,
                  Shutdown, Restart, BrokerMoves, cycleVars
    <3>2. ASSUME \/ ProcessEvent \/ ExecuteEntry \/ TakeResult \/ EntryRaised \/ RefreshAfterEntry
          PROVE  FALSE
      BY <3>2 DEF ProcessEvent, ExecuteEntry, TakeResult, EntryRaised, RefreshAfterEntry
    <3>3. ASSUME \/ ReserveAction \/ SendAction \/ RecordAction \/ TakeActionResult
                 \/ ActionRaised \/ RefreshAfterAction
          PROVE  FALSE
      BY <3>3 DEF ReserveAction, SendAction, RecordAction, TakeActionResult, ActionRaised,
                  RefreshAfterAction, EndCycle
    <3>4. CASE RevalidateEntry
      BY <3>4 DEF RevalidateEntry
    <3>5. CASE BeginAction
      BY <3>5 DEF BeginAction
    <3> QED BY <3>1, <3>2, <3>3, <3>4, <3>5 DEF OrchNext
  <2>2. CASE RevalidateEntry /\ opc' = "execute"
    BY <2>2, RevalidatedExplains DEF RevalidateEntry
  <2>3. CASE BeginAction /\ opc' = "action"
    <3>1. Revalidated("action", "idle") /\ UNCHANGED <<vars, bookVars>>
      BY <2>3 DEF BeginAction, EndCycle
    <3> QED BY <2>3, <3>1, RevalidatedExplains
  <2> QED BY <2>1, <2>2, <2>3
<1>4. Checked /\ [OrchNext]_orchVars => [Mutates => Explained']_orchVars
  BY <1>3
<1> HIDE DEF Checked
<1>5. OrchSpec => [][Mutates => Explained']_orchVars
  BY <1>1, <1>2, <1>4, PTL DEF OrchSpec
<1> QED BY <1>5 DEF MutatesOnlyExplainedBooks

-----------------------------------------------------------------------------
(* An unknown outcome names no ticket, so no object can answer for it but  *)
(* one that is linked; a reconciliation that resolves everything therefore *)
(* finds no unlinkable intent in doubt, and until the order leaves nothing *)
(* is recorded.                                                            *)

Ticketless(r) == r.status = "UNKNOWN" => r.ticket = "none"

DoubtsTicketless ==
  /\ \A e \in Executors : Ticketless(draft[e])
  /\ \A i \in Intents : \A n \in DOMAIN results[i] : Ticketless(results[i][n])

NoneInDoubt == \A i \in Intents \ Linkable : HasResult(i) => Latest(i).status # "UNKNOWN"

Sending == {"record", "append", "returned", "raised"}

DoubtsStop == opc = "execute" /\ pc[Runtime] \notin Sending => NoneInDoubt

(* Whatever the adapter drafts.                                            *)
LEMMA DraftsTicketless ==
  ASSUME TypeOK, DoubtsTicketless, [Next]_vars
  PROVE  \A e \in Executors : Ticketless(draft'[e])
<1> USE DEF TypeOK, ledgerVars, brokerVars, processVars
<1>1. \A s \in Statuses, o \in Origins : Ticketless(LocalResult(s, o))
  BY DEF Ticketless, LocalResult
<1>2. \A v \in 0..ApprovedVolume : \A c \in Retcodes(v) : \A r \in Interpretations(v, c) :
        Ticketless(r)
  BY VolumeAssumption DEF Ticketless, Retcodes, Interpretations, Acknowledgements, Acknowledged,
      LocalResult
<1>3. ASSUME NEW e \in Executors, NEW r, Ticketless(r), draft' = [draft EXCEPT ![e] = r]
      PROVE  \A f \in Executors : Ticketless(draft'[f])
  BY <1>3 DEF DoubtsTicketless
<1>4. CASE UNCHANGED draft
  BY <1>4 DEF DoubtsTicketless
<1>5. ASSUME NEW e \in Executors, NEW i \in Intents, Execute(e, i)
      PROVE  \A f \in Executors : Ticketless(draft'[f])
  <2>1. ASSUME HasResult(i) PROVE Ticketless(Latest(i))
    BY <2>1 DEF HasResult, Latest, DoubtsTicketless
  <2> QED
    BY <1>3, <1>4, <1>5, <2>1 DEF Execute
<1>6. ASSUME NEW e \in Executors, Reserve(e) \/ Observe(e) \/ ValidatePreflight(e) \/ SubmitCheck(e)
      PROVE  \A f \in Executors : Ticketless(draft'[f])
  <2>1. UNCHANGED draft \/ \E s \in Statuses, o \in Origins : Write(e, LocalResult(s, o))
    BY <1>6 DEF Reserve, Observe, ValidatePreflight, SubmitCheck, Statuses, Origins
  <2> QED
    BY <1>1, <1>3, <1>4, <2>1 DEF Write
<1>7. ASSUME NEW e \in Executors, OrderSend(e)
      PROVE  \A f \in Executors : Ticketless(draft'[f])
  <2>1. UNCHANGED draft \/ \E v \in 0..ApprovedVolume : \E c \in Retcodes(v) :
                             \E r \in Interpretations(v, c) : Write(e, r)
    BY <1>7 DEF OrderSend
  <2> QED
    BY <1>2, <1>3, <1>4, <2>1 DEF Write
<1>8. ASSUME NEW e \in Executors, Return(e) \/ Crash(e)
      PROVE  \A f \in Executors : Ticketless(draft'[f])
  <2>1. draft' = [draft EXCEPT ![e] = NoDraft] /\ Ticketless(NoDraft)
    BY <1>8 DEF Return, Crash, NoDraft, LocalResult, Ticketless
  <2> QED
    BY <1>3, <2>1
<1>9. ASSUME NEW e \in Executors, RecordCheck(e) \/ RecordAppend(e) \/ Raise(e) \/ KillSwitch(e)
      PROVE  UNCHANGED draft
  BY <1>9 DEF RecordCheck, RecordAppend, Raise, KillSwitch
<1>10. CASE SwitchAccount \/ UNCHANGED vars
  BY <1>4, <1>10 DEF SwitchAccount, vars
<1> QED
  BY <1>4, <1>5, <1>6, <1>7, <1>8, <1>9, <1>10 DEF Next, AdapterStep

LEMMA TicketlessStep ==
  ASSUME TypeOK, DoubtsTicketless, [Next]_vars
  PROVE  DoubtsTicketless'
<1>1. \A i \in Intents : \A n \in DOMAIN results'[i] : Ticketless(results'[i][n])
  <2>1. CASE UNCHANGED results
    BY <2>1 DEF DoubtsTicketless
  <2>2. ASSUME NEW e \in Executors, results' = [results EXCEPT ![work[e]] = Append(@, draft[e])],
               NEW i \in Intents, NEW n \in DOMAIN results'[i]
        PROVE  Ticketless(results'[i][n])
    <3>1. CASE i # work[e]
      BY <2>2, <3>1 DEF DoubtsTicketless, TypeOK
    <3>2. CASE i = work[e]
      <4>1. results[i] \in Seq(Result) /\ results'[i] = Append(results[i], draft[e])
        BY <2>2, <3>2 DEF TypeOK
      <4>2. CASE n = Len(results[i]) + 1
        BY <4>1, <4>2 DEF DoubtsTicketless
      <4>3. CASE n \in DOMAIN results[i]
        BY <4>1, <4>3 DEF DoubtsTicketless
      <4> QED
        BY <2>2, <4>1, <4>2, <4>3
    <3> QED
      BY <3>1, <3>2
  <2>3. \/ UNCHANGED results
        \/ \E e \in Executors : results' = [results EXCEPT ![work[e]] = Append(@, draft[e])]
    BY DEF Next, AdapterStep, vars, Execute, Reserve, Observe, ValidatePreflight, SubmitCheck,
           OrderSend, RecordCheck, RecordAppend, Return, Raise, Crash, KillSwitch, SwitchAccount,
           ledgerVars
  <2> QED
    BY <2>1, <2>2, <2>3
<1>2. \A e \in Executors : Ticketless(draft'[e])
  BY DraftsTicketless
<1> QED
  BY <1>1, <1>2 DEF DoubtsTicketless, Ticketless

(* A revalidation that goes on has found none.                             *)
LEMMA RevalidatedKnows ==
  ASSUME TypeOK, DoubtsTicketless, RevalidateEntry, opc' = "execute"
  PROVE  NoneInDoubt'
<1>1. UNCHANGED results /\ Revalidated("execute", "actions")
  BY DEF RevalidateEntry, vars, ledgerVars
<1>2. RefreshCompletes /\ readiness' = "SAFE"
  BY <1>1 DEF Revalidated, Refresh, RefreshFails
<1>3. PICK links \in SUBSET Linkable, condition \in Conditions :
        report' = Reconciliation(links) /\ readiness' = Verdict(report', condition)
  BY <1>2 DEF RefreshCompletes
<1>4. Resolved(Reconciliation(links))
  BY <1>2, <1>3 DEF Verdict
<1>5. ASSUME NEW i \in Intents \ Linkable, HasResult(i), Latest(i).status = "UNKNOWN"
      PROVE  FALSE
  <2>1. i \in Claims
    BY <1>5 DEF Claims, Settled
  <2>2. Latest(i).ticket = "none"
    BY <1>5 DEF HasResult, Latest, DoubtsTicketless, Ticketless, TypeOK
  <2>3. i \notin Candidates(links)
    BY <1>3, <1>5, <2>2 DEF Candidates
  <2>4. Kind(i, links) = "UNKNOWN"
    BY <1>5, <2>3 DEF Kind
  <2>5. [kind |-> Kind(i, links), intent |-> i] \in Reconciliation(links).findings
    BY <2>1 DEF Reconciliation
  <2> QED
    BY <1>4, <2>4, <2>5 DEF Resolved
<1> QED
  BY <1>1, <1>5 DEF NoneInDoubt, HasResult, Latest

LEMMA DoubtsStopStep ==
  ASSUME TypeOK, DoubtsTicketless, DoubtsStop, [OrchNext]_orchVars
  PROVE  DoubtsStop'
<1> SUFFICES ASSUME opc' = "execute", pc'[Runtime] \notin Sending PROVE NoneInDoubt'
  BY DEF DoubtsStop
<1>1. ASSUME opc = "execute", UNCHANGED <<results, pc>> PROVE NoneInDoubt'
  BY <1>1 DEF DoubtsStop, NoneInDoubt, HasResult, Latest
<1>2. CASE \/ Startup \/ RefreshSnapshotIfDue \/ SetOperatorControls \/ ResumeNewEntries
           \/ Shutdown \/ BrokerMoves \/ UNCHANGED orchVars
  BY <1>1, <1>2 DEF Startup, RefreshSnapshotIfDue, SetOperatorControls, ResumeNewEntries,
       Shutdown, BrokerMoves, orchVars, vars, ledgerVars, cycleVars
<1>3. CASE \/ Restart \/ ProcessEvent \/ TakeResult \/ EntryRaised \/ RefreshAfterEntry
           \/ BeginAction \/ ReserveAction \/ SendAction \/ RecordAction \/ TakeActionResult
           \/ ActionRaised \/ RefreshAfterAction
  BY <1>3 DEF Restart, ProcessEvent, TakeResult, EntryRaised, RefreshAfterEntry, BeginAction,
       Revalidated, EndCycle, ReserveAction, SendAction, RecordAction, TakeActionResult,
       ActionRaised, RefreshAfterAction
<1>4. CASE RevalidateEntry
  BY <1>4, RevalidatedKnows
<1>5. CASE ExecuteEntry
  <2>1. opc = "execute"
    BY <1>5 DEF ExecuteEntry
  <2>2. pc[Runtime] \notin Sending /\ UNCHANGED results
    BY <1>5, RuntimeExecutes
    DEF ExecuteEntry, Execute, AdapterStep, Reserve, Observe, ValidatePreflight, SubmitCheck,
        OrderSend, RecordCheck, RecordAppend, Raise, Write, Goto, Sending, ledgerVars, TypeOK
  <2> QED
    BY <2>1, <2>2 DEF DoubtsStop, NoneInDoubt, HasResult, Latest
<1> QED
  BY <1>2, <1>3, <1>4, <1>5 DEF OrchNext

(* An order leaves only in the step of the adapter that sends it.          *)
LEMMA SendingStep ==
  ASSUME [OrchNext]_orchVars, sends' # sends
  PROVE  opc = "execute" /\ pc[Runtime] = "send"
BY DEF OrchNext, Startup, RefreshSnapshotIfDue, SetOperatorControls, ResumeNewEntries,
       Shutdown, Restart, Crash, BrokerMoves, ProcessEvent, RevalidateEntry, ExecuteEntry,
       TakeResult, EntryRaised, Return, RefreshAfterEntry, BeginAction, ReserveAction, SendAction,
       RecordAction, TakeActionResult, ActionRaised, RefreshAfterAction, Execute, AdapterStep,
       Reserve, Observe, ValidatePreflight, SubmitCheck, OrderSend, RecordCheck, RecordAppend,
       Raise, orchVars, vars, brokerVars

(* An entry whose outcome is unknown stops every later entry, over any     *)
(* refreshes, cycles and restarts, unless a link may explain it.           *)
THEOREM RuntimeStopsOnUnknown == OrchSpec => UnknownStopsEntries
<1> DEFINE Checked == TypeOK /\ EntryPlanned /\ DoubtsTicketless /\ DoubtsStop
<1> DEFINE Stops ==
      (\E i \in Intents : sends'[i] # sends[i]) =>
        \A i \in Intents \ Linkable : HasResult(i) => Latest(i).status # "UNKNOWN"
<1>1. OrchInit => Checked
  <2> SUFFICES ASSUME OrchInit PROVE Checked
    OBVIOUS
  <2>1. Init => TypeOK
    BY ResultTypes, VolumeAssumption DEF Init, TypeOK, Steps
  <2>2. DoubtsTicketless
    BY DEF OrchInit, Init, DoubtsTicketless, Ticketless, NoDraft, LocalResult
  <2> QED
    BY <2>1, <2>2 DEF OrchInit, EntryPlanned, DoubtsStop
<1>2. Checked /\ [OrchNext]_orchVars => Checked'
  BY BoundaryStep, TypeStep, EntryPlannedStep, TicketlessStep, DoubtsStopStep
<1>3. Checked /\ [OrchNext]_orchVars => [Stops]_orchVars
  BY SendingStep DEF DoubtsStop, NoneInDoubt, Sending
<1> HIDE DEF Checked
<1>4. OrchSpec => [][Stops]_orchVars
  BY <1>1, <1>2, <1>3, PTL DEF OrchSpec
<1> QED
  BY <1>4 DEF UnknownStopsEntries

=============================================================================
