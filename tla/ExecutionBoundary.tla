-------------------------- MODULE ExecutionBoundary --------------------------
(***************************************************************************)
(* The entry side of the execution boundary: DemoExecutionAdapter.execute, *)
(* the MT5 preflight and transport it calls, and the append-only SQLite    *)
(* ledger it reserves and records in.                                      *)
(*                                                                         *)
(* An executor is one process running execute().  Every call that another  *)
(* process, the broker or a crash can come between is a step of its own:   *)
(*                                                                         *)
(*   idle -Execute-> reserve -Reserve-> observe -Observe-> validate        *)
(*        -ValidatePreflight-> check -SubmitCheck-> send -OrderSend->      *)
(*        record -RecordCheck-> append -RecordAppend-> returned -> idle    *)
(*                                                                         *)
(* with a shortcut to "record" wherever the code writes a result early and *)
(* to "raised" wherever an exception leaves execute().  The shipped        *)
(* composition has one executor; the module allows any number.             *)
(***************************************************************************)
EXTENDS Integers, Sequences

CONSTANTS
  Intents,         (* content-addressed execution intents                  *)
  Executors,       (* processes that share the ledger file                 *)
  ApprovedVolume,  (* approved_volume_lots, in volume steps                *)
  PolicyOf         (* the execution_mode each intent was built for         *)

Modes == {"DISABLED", "DRY_RUN", "DEMO_ENABLED"}

ASSUME VolumeAssumption == ApprovedVolume \in Nat \ {0}
ASSUME PolicyAssumption == PolicyOf \in [Intents -> Modes]

VARIABLES
  reserved,   (* ledger: intents with a RESERVED transition                *)
  results,    (* ledger: RESULT_RECORDED transitions of each intent        *)
  account,    (* broker: trade mode of the account the terminal is on      *)
  sends,      (* broker: order_send calls that left for each intent        *)
  exposure,   (* broker: volume each intent's order was opened with        *)
  mode,       (* process: execution mode of the adapter's policy           *)
  kill,       (* process: the kill switch the preflight consults           *)
  pc, work,   (* process: next step of execute() and the intent it works on*)
  draft       (* process: the result execute() is about to write or return *)

ledgerVars == <<reserved, results>>
brokerVars == <<account, sends, exposure>>
processVars == <<mode, kill>>
vars == <<ledgerVars, brokerVars, processVars, pc, work, draft>>

AccountModes == {"DEMO", "LIVE", "UNKNOWN"}

Steps == {"idle", "reserve", "observe", "validate", "check", "send",
          "record", "append", "returned", "raised"}

Statuses == {"NO_ACTION", "ACCEPTED", "PARTIALLY_FILLED", "FILLED",
             "REJECTED", "EXPIRED", "FAILED", "UNKNOWN"}

(* The branch that made a result; two UNKNOWN results of one intent differ *)
(* in it.  "intent" branches run before any fact is observed and date the  *)
(* result with the intent; "invalid" is INVALID_BROKER_REPORT, the one     *)
(* failure written after the order left.                                   *)
Origins == {"intent", "preflight", "transport", "invalid"}

(* A deal ticket and the ticket of the order or position it opened are     *)
(* different numbers at the broker.                                        *)
Tickets == {"none", "deal", "object"}

Result == [status : Statuses, origin : Origins,
           filled : 0..ApprovedVolume, ticket : Tickets]

(* _known_result, _failed_result and _unknown_result: no volume, no ticket.*)
LocalResult(status, origin) ==
  [status |-> status, origin |-> origin, filled |-> 0, ticket |-> "none"]

NoDraft == LocalResult("UNKNOWN", "intent")

-----------------------------------------------------------------------------

Latest(i) == results[i][Len(results[i])]
HasResult(i) == results[i] # << >>

(* Mutant: only a real account is refused.                                 *)
VerifiedDemoMutant == account # "LIVE"

(* MT5EntryPreflight.checked_request: the two facts the properties need.   *)
VerifiedDemo == account = "DEMO"
Permitted(e) == ~kill[e] /\ VerifiedDemo

Goto(e, step) == pc' = [pc EXCEPT ![e] = step]

(* Leave the remaining steps of execute() for the ledger write of r.       *)
Write(e, r) ==
  /\ draft' = [draft EXCEPT ![e] = r]
  /\ Goto(e, "record")

-----------------------------------------------------------------------------

Init ==
  /\ reserved = {}
  /\ results = [i \in Intents |-> << >>]
  /\ account \in AccountModes
  /\ sends = [i \in Intents |-> 0]
  /\ exposure = [i \in Intents |-> 0]
  /\ mode \in [Executors -> Modes]
  /\ kill = [e \in Executors |-> FALSE]
  /\ pc = [e \in Executors |-> "idle"]
  /\ work \in [Executors -> Intents]
  /\ draft = [e \in Executors |-> NoDraft]

(* execute() is called.  An intent bound to another policy is refused with *)
(* an exception; an intent the ledger has a result for gets that result.   *)
Execute(e, i) ==
  /\ pc[e] = "idle"
  /\ work' = [work EXCEPT ![e] = i]
  /\ \/ PolicyOf[i] # mode[e] /\ Goto(e, "raised") /\ UNCHANGED draft
     \/ /\ PolicyOf[i] = mode[e] /\ HasResult(i)
        /\ draft' = [draft EXCEPT ![e] = Latest(i)]
        /\ Goto(e, "returned")
     \/ PolicyOf[i] = mode[e] /\ ~HasResult(i) /\ Goto(e, "reserve") /\ UNCHANGED draft
  /\ UNCHANGED <<ledgerVars, brokerVars, processVars>>

(* Mutant: INSERT OR IGNORE, a repeated reservation is not noticed.        *)
ReserveMutant(e) ==
  /\ pc[e] = "reserve"
  /\ reserved' = reserved \cup {work[e]}
  /\ \/ mode[e] = "DISABLED" /\ Write(e, LocalResult("NO_ACTION", "intent"))
     \/ mode[e] # "DISABLED" /\ Goto(e, "observe") /\ UNCHANGED draft
  /\ UNCHANGED <<results, brokerVars, processVars, work>>

(* One INSERT under the partial unique index.  A second reservation loses  *)
(* and is answered with UNKNOWN; a disabled policy goes no further.        *)
Reserve(e) ==
  /\ pc[e] = "reserve"
  /\ reserved' = reserved \cup {work[e]}
  /\ \/ work[e] \in reserved /\ Write(e, LocalResult("UNKNOWN", "intent"))
     \/ /\ work[e] \notin reserved /\ mode[e] = "DISABLED"
        /\ Write(e, LocalResult("NO_ACTION", "intent"))
     \/ /\ work[e] \notin reserved /\ mode[e] # "DISABLED"
        /\ Goto(e, "observe") /\ UNCHANGED draft
  /\ UNCHANGED <<results, brokerVars, processVars, work>>

(* The observation provider, then _preflight.  Price, spread, latency and  *)
(* expiry verdicts are the environment's.                                  *)
Observe(e) ==
  /\ pc[e] = "observe"
  /\ \/ Write(e, LocalResult("FAILED", "intent"))
     \/ ~VerifiedDemo /\ Write(e, LocalResult("REJECTED", "preflight"))
     \/ /\ VerifiedDemo
        /\ \/ \E s \in {"REJECTED", "EXPIRED"} : Write(e, LocalResult(s, "preflight"))
           \/ Goto(e, "validate") /\ UNCHANGED draft
  /\ UNCHANGED <<ledgerVars, brokerVars, processVars, work>>

(* The preflight validator repeats every fact and runs order_check; a dry  *)
(* run stops after it.                                                     *)
ValidatePreflight(e) ==
  /\ pc[e] = "validate"
  /\ \/ Write(e, LocalResult("FAILED", "preflight"))
     \/ Permitted(e) /\ mode[e] = "DRY_RUN" /\ Write(e, LocalResult("NO_ACTION", "preflight"))
     \/ Permitted(e) /\ mode[e] # "DRY_RUN" /\ Goto(e, "check") /\ UNCHANGED draft
  /\ UNCHANGED <<ledgerVars, brokerVars, processVars, work>>

(* MT5ExecutionTransport.submit up to order_send: every fact once more.    *)
SubmitCheck(e) ==
  /\ pc[e] = "check"
  /\ \/ Write(e, LocalResult("FAILED", "preflight"))
     \/ Permitted(e) /\ Goto(e, "send") /\ UNCHANGED draft
  /\ UNCHANGED <<ledgerVars, brokerVars, processVars, work>>

(* What the broker may do with an order, and the retcodes it then answers: *)
(* one of the three that mt5/entry.py knows, or any other - a refusal, a   *)
(* timeout, a lost connection, none at all -, which says nothing of what   *)
(* was executed.                                                           *)
Retcodes(volume) ==
  {"other"} \cup (IF volume = 0 THEN {}
                  ELSE IF volume = ApprovedVolume THEN {"placed", "done"}
                  ELSE {"done_partial"})

(* One answer as _report and _result_from_report read it.  Any other       *)
(* retcode is a rejection, and its volume and ticket are taken as they are.*)
Acknowledged(volume, retcode, ticket) ==
  [status |-> CASE retcode = "placed"       -> "ACCEPTED"
                [] retcode = "done"         -> "FILLED"
                [] retcode = "done_partial" -> "PARTIALLY_FILLED"
                [] OTHER                    -> "REJECTED",
   origin |-> "transport", filled |-> volume, ticket |-> ticket]

Acknowledgements(volume, retcode) ==
  IF retcode = "other"
  THEN {Acknowledged(v, retcode, t) : v \in {0, volume}, t \in Tickets}
  ELSE {Acknowledged(IF retcode = "placed" THEN 0 ELSE volume, retcode, t) :
          t \in Tickets \ {"none"}}

(* Mutant: a lost answer is handled like any failure before the send.      *)
InterpretationsMutant(volume, retcode) ==
  {LocalResult("FAILED", "preflight")} \cup Acknowledgements(volume, retcode)

(* The results of one answer.  A missing answer, or one that contradicts   *)
(* itself, is UNKNOWN; a claim of more than the approved volume under a    *)
(* retcode whose volume is not compared is written as FAILED.              *)
Interpretations(volume, retcode) ==
  {LocalResult("UNKNOWN", "transport")}
    \cup Acknowledgements(volume, retcode)
    \cup (IF retcode \in {"placed", "other"}
          THEN {LocalResult("FAILED", "invalid")} ELSE {})

(* order_send and the interpretation of what it returns.  An answer whose  *)
(* error text makes the UNKNOWN result invalid leaves no result at all.    *)
OrderSend(e) ==
  /\ pc[e] = "send"
  /\ sends' = [sends EXCEPT ![work[e]] = @ + 1]
  /\ \E volume \in 0..ApprovedVolume :
       /\ exposure' = [exposure EXCEPT ![work[e]] = @ + volume]
       /\ \/ Goto(e, "raised") /\ UNCHANGED draft
          \/ \E retcode \in Retcodes(volume) :
               \E r \in Interpretations(volume, retcode) : Write(e, r)
  /\ UNCHANGED <<ledgerVars, account, processVars, work>>

(* SQLiteExecutionLedger.record reads before it writes, in two statements. *)
RecordCheck(e) ==
  /\ pc[e] = "record"
  /\ \/ /\ \/ work[e] \notin reserved
           \/ HasResult(work[e]) /\ Latest(work[e]) # draft[e]
        /\ Goto(e, "raised")
     \/ /\ work[e] \in reserved /\ HasResult(work[e]) /\ Latest(work[e]) = draft[e]
        /\ Goto(e, "returned")
     \/ work[e] \in reserved /\ ~HasResult(work[e]) /\ Goto(e, "append")
  /\ UNCHANGED <<ledgerVars, brokerVars, processVars, work, draft>>

(* transition_id is a hash of the content and UNIQUE.                      *)
RecordAppend(e) ==
  /\ pc[e] = "append"
  /\ \/ /\ \A n \in DOMAIN results[work[e]] : results[work[e]][n] # draft[e]
        /\ results' = [results EXCEPT ![work[e]] = Append(@, draft[e])]
        /\ Goto(e, "returned")
     \/ /\ \E n \in DOMAIN results[work[e]] : results[work[e]][n] = draft[e]
        /\ Goto(e, "raised")
        /\ UNCHANGED results
  /\ UNCHANGED <<reserved, brokerVars, processVars, work, draft>>

(* The caller takes the result, or the exception.                          *)
Return(e) ==
  /\ pc[e] \in {"returned", "raised"}
  /\ Goto(e, "idle")
  /\ draft' = [draft EXCEPT ![e] = NoDraft]
  /\ UNCHANGED <<ledgerVars, brokerVars, processVars, work>>

(* An exception execute() does not catch: a ledger statement that fails    *)
(* otherwise than on a constraint (a locked file, a full disk), a broker   *)
(* fact that does not convert to a number, a reason of over 500 characters.*)
Raise(e) ==
  /\ pc[e] \in {"reserve", "observe", "validate", "check", "record", "append"}
  /\ Goto(e, "raised")
  /\ UNCHANGED <<ledgerVars, brokerVars, processVars, work, draft>>

(* The process dies anywhere and is started again, with the policy of the  *)
(* configuration it then finds and a fresh set of operator controls.       *)
Crash(e) ==
  /\ Goto(e, "idle")
  /\ kill' = [kill EXCEPT ![e] = FALSE]
  /\ \E m \in Modes : mode' = [mode EXCEPT ![e] = m]
  /\ draft' = [draft EXCEPT ![e] = NoDraft]
  /\ UNCHANGED <<ledgerVars, brokerVars, work>>

KillSwitch(e) ==
  /\ ~kill[e]
  /\ kill' = [kill EXCEPT ![e] = TRUE]
  /\ UNCHANGED <<ledgerVars, brokerVars, mode, pc, work, draft>>

(* Someone logs the terminal into another account.                         *)
SwitchAccount ==
  /\ \E a \in AccountModes \ {account} : account' = a
  /\ UNCHANGED <<ledgerVars, sends, exposure, processVars, pc, work, draft>>

AdapterStep(e) ==
  \/ Reserve(e) \/ Observe(e) \/ ValidatePreflight(e) \/ SubmitCheck(e)
  \/ OrderSend(e) \/ RecordCheck(e) \/ RecordAppend(e)

Next ==
  \/ \E e \in Executors :
       \/ \E i \in Intents : Execute(e, i)
       \/ AdapterStep(e) \/ Return(e) \/ Raise(e)
       \/ Crash(e) \/ KillSwitch(e)
  \/ SwitchAccount

Spec == Init /\ [][Next]_vars

-----------------------------------------------------------------------------
(* PROPERTIES                                                              *)

(* The type of every variable.                                             *)
TypeOK ==
  /\ reserved \subseteq Intents
  /\ results \in [Intents -> Seq(Result)]
  /\ account \in AccountModes
  /\ sends \in [Intents -> Nat]
  /\ exposure \in [Intents -> Nat]
  /\ mode \in [Executors -> Modes]
  /\ kill \in [Executors -> BOOLEAN]
  /\ pc \in [Executors -> Steps]
  /\ work \in [Executors -> Intents]
  /\ draft \in [Executors -> Result]

(* However often an intent is handed in, by whichever process, and wherever*)
(* those processes die, at most one order_send leaves for it, and only with*)
(* a reservation in the ledger: docs/decision_log.md, "Stable intent IDs   *)
(* are reserved before submission ... never resent".                       *)
AtMostOneSubmission ==
  \A i \in Intents : sends[i] =< 1 /\ (sends[i] > 0 => i \in reserved)

(* An intent built under a DISABLED or DRY_RUN policy never reaches the    *)
(* broker, though a restart may change the policy between two steps.       *)
OnlyDemoIntentsReachBroker ==
  \A i \in Intents : sends[i] > 0 => PolicyOf[i] = "DEMO_ENABLED"

(* A result in the ledger does not contradict the broker: one that says    *)
(* nothing was sent is about an intent that was not and never will be sent,*)
(* one that reports an order placed or filled reports the volume the       *)
(* broker opened.  (Of a rejection see the next property.)                 *)
TruthfulLedger ==
  \A i \in Intents : \A n \in DOMAIN results[i] :
    LET r == results[i][n] IN
    /\ (r.origin = "preflight" \/ (r.origin = "intent" /\ r.status # "UNKNOWN"))
         => sends[i] = 0
    /\ r.status = "ACCEPTED" => exposure[i] = ApprovedVolume
    /\ r.status \in {"PARTIALLY_FILLED", "FILLED"} => r.filled = exposure[i]

(* docs/decision_log.md:257-259: "An exception, absent response, or        *)
(* uninterpretable acknowledgement after submission becomes append-only    *)
(* UNKNOWN".  Then a REJECTED, which reconciliation skips as settled, was  *)
(* told by the broker, and nothing is open.  It is false: mt5/entry.py:84  *)
(* makes a timeout, a lost connection and a missing retcode REJECTED too.  *)
RejectedOpenedNothing ==
  \A i \in Intents : \A n \in DOMAIN results[i] :
    results[i][n].status = "REJECTED" => exposure[i] = 0

(* With one executor a result, once written, is what every later call gets:*)
(* record() refuses a second, different one.                               *)
ResultIsFinal ==
  [][\A i \in Intents : results[i] # << >> => results'[i] = results[i]]_vars

(* If the terminal is never on a verified demo account, no order leaves.   *)
NonDemoSessionNeverTrades ==
  [](account # "DEMO") => [](\A i \in Intents : sends[i] = 0)

OutcomeOf(i) ==
  IF ~HasResult(i) THEN "PENDING"
  ELSE IF Latest(i).origin = "invalid" THEN "INVALID"
  ELSE Latest(i).status

Submitted == {i \in Intents : sends[i] > 0}

Boundary == INSTANCE AtMostOnceExecution
  WITH claimed <- reserved, submitted <- Submitted,
       outcome <- [i \in Intents |-> OutcomeOf(i)], Pending <- "PENDING"

(* With one executor the adapter, its ledger and the broker together do    *)
(* what AtMostOnceExecution promises, crashes included.                    *)
ImplementsAtMostOnce == Boundary!Spec

=============================================================================
