------------------------- MODULE AtMostOnceExecution -------------------------
(***************************************************************************)
(* What the execution boundary promises about one intent, with no process, *)
(* no step and no crash in sight: it is claimed before it is submitted, it *)
(* is submitted at most once and never after its outcome is written, and   *)
(* the outcome is written once and does not contradict the submission.     *)
(***************************************************************************)
EXTENDS Integers

CONSTANTS Intents, Pending

VARIABLES claimed, submitted, outcome

vars == <<claimed, submitted, outcome>>

(* Outcomes that assert the broker never saw the intent, and outcomes that *)
(* assert it did.  The other two, "REJECTED" and "UNKNOWN", assert neither.*)
Withheld == {"NO_ACTION", "EXPIRED", "FAILED"}
Confirmed == {"ACCEPTED", "PARTIALLY_FILLED", "FILLED", "INVALID"}
Outcomes == Withheld \cup Confirmed \cup {"REJECTED", "UNKNOWN"}

Init ==
  /\ claimed = {}
  /\ submitted = {}
  /\ outcome = [i \in Intents |-> Pending]

Claim(i) ==
  /\ i \notin claimed
  /\ claimed' = claimed \cup {i}
  /\ UNCHANGED <<submitted, outcome>>

Submit(i) ==
  /\ i \in claimed \ submitted
  /\ outcome[i] = Pending
  /\ submitted' = submitted \cup {i}
  /\ UNCHANGED <<claimed, outcome>>

Conclude(i, o) ==
  /\ i \in claimed
  /\ outcome[i] = Pending
  /\ o \in Withheld => i \notin submitted
  /\ o \in Confirmed => i \in submitted
  /\ outcome' = [outcome EXCEPT ![i] = o]
  /\ UNCHANGED <<claimed, submitted>>

Next ==
  \E i \in Intents :
    Claim(i) \/ Submit(i) \/ \E o \in Outcomes : Conclude(i, o)

Spec == Init /\ [][Next]_vars

=============================================================================
