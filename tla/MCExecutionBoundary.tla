------------------------ MODULE MCExecutionBoundary ------------------------
(* The two places that promise one outcome under one identity: the entry   *)
(* side of the execution boundary, on two intents of one policy each, and  *)
(* the reasoning service.  They share no state: a behaviour is about one.  *)
EXTENDS ExecutionBoundary, Reasoning, TLC

CONSTANTS i1, i2, x1, x2

VARIABLE about

(* One intent that may trade and one that may only be rehearsed.           *)
MixedPolicies == (i1 :> "DEMO_ENABLED") @@ (i2 :> "DRY_RUN")

(* What a server may say of itself and of the model, and what it answers.  *)
Seen(link, named, digest) ==
  [link |-> link, json |-> TRUE, version |-> TRUE, named |-> named, digest |-> digest]
MCSightings == {Seen("OK", 1, TRUE), Seen("OK", 1, FALSE)}

Said(link, thinking, content, cites) ==
  [link |-> link, terminal |-> TRUE, thinking |-> thinking, content |-> content, cites |-> cites]
MCReplies ==
  {Said("OK", FALSE, x1, {1}), Said("OK", FALSE, x2, {1}), Said("TIMEOUT", FALSE, x1, {1}),
   Said("OK", FALSE, Unreadable, {1}), Said("OK", FALSE, x1, {1, 2}), Said("OK", TRUE, x1, {1})}

MCSymmetry ==
  Permutations(Callers) \cup Permutations(AttemptKeys) \cup Permutations(Explanations)

MCInit ==
  /\ Init /\ ReasoningInit /\ about \in {"ENTRIES", "EXPLANATIONS"}
  /\ about = "EXPLANATIONS" =>
       account = "DEMO" /\ \A e \in Executors : mode[e] = "DISABLED" /\ work[e] = i1

MCNext ==
  \/ about = "ENTRIES" /\ Next /\ UNCHANGED <<reasoningVars, about>>
  \/ about = "EXPLANATIONS" /\ ReasoningNext /\ UNCHANGED <<vars, about>>

MCSpec == MCInit /\ [][MCNext]_<<vars, reasoningVars, about>>
=============================================================================
