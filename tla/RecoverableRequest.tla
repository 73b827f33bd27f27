-------------------------- MODULE RecoverableRequest --------------------------
(***************************************************************************)
(* What the governed services and the reasoning service promise of a       *)
(* request: once requested it may complete, with one outcome, and that     *)
(* outcome is what anybody who asks again is given.                        *)
(***************************************************************************)
CONSTANTS
  Requests,
  Outcomes,
  Nothing         (* no outcome yet                                        *)

VARIABLES
  requested,      (* the requests on record                                *)
  outcome,        (* of each request                                       *)
  given           (* what callers were given, as pairs                     *)

requestVars == <<requested, outcome, given>>

RequestInit ==
  requested = {} /\ outcome = [r \in Requests |-> Nothing] /\ given = {}

Ask(r) == requested' = requested \cup {r} /\ UNCHANGED <<outcome, given>>

Complete(r, out) ==
  /\ r \in requested /\ outcome[r] = Nothing
  /\ outcome' = [outcome EXCEPT ![r] = out]
  /\ given' = given \cup {<<r, out>>}
  /\ UNCHANGED requested

Give(r) ==
  /\ outcome[r] # Nothing
  /\ given' = given \cup {<<r, outcome[r]>>}
  /\ UNCHANGED <<requested, outcome>>

RequestNext ==
  \E r \in Requests : Ask(r) \/ Give(r) \/ \E out \in Outcomes : Complete(r, out)

RequestSpec == RequestInit /\ [][RequestNext]_requestVars
=============================================================================
