---------------------------- MODULE LinearHistory ----------------------------
(***************************************************************************)
(* What the reflection stores promise of a history: it is append-only, and *)
(* every record names the one before it, so that a reader who replays it   *)
(* arrives at one current record.  No process and no step is in sight.     *)
(***************************************************************************)
EXTENDS Naturals, Sequences

CONSTANT What            (* what a record says                            *)

VARIABLE history

Record == [prev : Nat, what : What]

Linear(h) == \A n \in DOMAIN h : h[n].prev = n - 1

HistoryInit == history = <<>>

Extend(what) == history' = Append(history, [prev |-> Len(history), what |-> what])

HistoryNext == \E what \in What : Extend(what)

HistorySpec == HistoryInit /\ [][HistoryNext]_history
=============================================================================
