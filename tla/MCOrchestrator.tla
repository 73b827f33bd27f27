--------------------------- MODULE MCOrchestrator ---------------------------
(* Orchestrator over two entries and the position actions of the first.    *)
EXTENDS Orchestrator, TLC

CONSTANT i1

(* Every intent was built to trade: the boundary's own runs mix policies.  *)
DemoPolicies == [i \in Intents |-> "DEMO_ENABLED"]

(* Every action is about the position of the first entry.                  *)
FirstEntry == [a \in Actions |-> i1]

=============================================================================
