----------------------------- MODULE LiveShadow -----------------------------
(***************************************************************************)
(* The loop of the live shadow runtime: refresh the broker facts if they   *)
(* are due, poll the terminal for a newly completed M5 bar, process it,    *)
(* sleep.  Bars and facts share the source "mt5-shadow" and so one cursor  *)
(* of the reducer: the sequence of a bar is the epoch second of its close, *)
(* and the facts count on from the last sequence used.                     *)
(*                                                                         *)
(*   down -> refresh -> poll -> process -> sleep -> refresh ...            *)
(***************************************************************************)
EXTENDS Naturals

CONSTANTS
  Bar,            (* seconds from one M5 close to the next                 *)
  Facts,          (* events of one snapshot                                *)
  Interval,       (* seconds between refreshes                             *)
  PollSeconds,    (* seconds the loop sleeps                               *)
  Latencies,      (* seconds one turn of the loop may take besides         *)
  StaleAfter,     (* age in seconds beyond which a close is not processed  *)
  Epoch,          (* epoch second of the close before the model begins     *)
  BaseSequence,   (* the first sequence of a runtime with no history       *)
  Pauses, MaxStarts, MaxTime                       (* bounds of the search *)

ASSUME PositiveAssumption == {Bar, Facts, Interval, PollSeconds} \subseteq Nat \ {0}
ASSUME NaturalAssumption ==
  {StaleAfter, Epoch, BaseSequence, MaxStarts, MaxTime} \cup Latencies \cup Pauses \subseteq Nat

VARIABLES
  clock,       (* seconds since Epoch                                      *)
  cursor,      (* durable: the last sequence reduced, 0 before any         *)
  lastBar,     (* durable: the close of the last bar reduced, or Never     *)
  nextSeq,     (* orchestrator._source_sequence                            *)
  refreshedAt, (* orchestrator._last_snapshot_at                           *)
  safe,        (* the phase is SAFE                                        *)
  lastClose,   (* source._last_close, or Never                             *)
  close,       (* the bar in hand                                          *)
  pc, starts

durable == <<cursor, lastBar>>
service == <<nextSeq, refreshedAt, safe>>
shadowVars == <<clock, durable, service, lastClose, close, pc, starts>>

(* The closes of the model come after Epoch.                               *)
Never == 0

Closes == {c \in 1..clock : c % Bar = 0 /\ clock - c =< StaleAfter}

BarSequence(c) == Epoch + c

ShadowTypeOK ==
  /\ clock \in Nat /\ cursor \in Nat /\ nextSeq \in Nat /\ refreshedAt \in Nat
  /\ lastBar \in Nat /\ lastClose \in Nat /\ close \in Nat /\ starts \in Nat
  /\ safe \in BOOLEAN
  /\ pc \in {"down", "refresh", "poll", "process", "sleep"}

ShadowInit ==
  /\ clock = Bar /\ cursor = 0 /\ lastBar = Never
  /\ nextSeq = BaseSequence /\ refreshedAt = 0 /\ safe = FALSE
  /\ lastClose = Never /\ close = Never
  /\ pc = "down" /\ starts = 0

-----------------------------------------------------------------------------
(* broker_snapshot_runtime_events, reduced one by one.  The process may die*)
(* between two of them, and a fact behind the cursor ends the refresh.     *)

Fresh == nextSeq > cursor

Reduce(n) ==
  /\ Fresh
  /\ cursor' = (nextSeq + n) - 1
  /\ nextSeq' = nextSeq + n

Ends ==
  /\ pc' = "down" /\ safe' = FALSE /\ lastClose' = Never /\ close' = Never
  /\ UNCHANGED <<starts, clock>>

(* Mutant: the state, and with it the cursor, is not restored.             *)
StartMutant ==
  /\ pc = "down" /\ starts < MaxStarts
  /\ starts' = starts + 1
  /\ cursor' = (BaseSequence + Facts) - 1 /\ nextSeq' = BaseSequence + Facts
  /\ refreshedAt' = clock /\ safe' = TRUE /\ pc' = "refresh"
  /\ UNCHANGED <<clock, lastBar, lastClose, close>>

(* startup() up to its first refresh, which must leave the runtime SAFE.   *)
Start ==
  /\ pc = "down" /\ starts < MaxStarts
  /\ starts' = starts + 1
  /\ LET first == IF cursor = 0 THEN BaseSequence ELSE cursor + 1 IN
     \/ /\ cursor' = (first + Facts) - 1 /\ nextSeq' = first + Facts
        /\ refreshedAt' = clock /\ safe' = TRUE /\ pc' = "refresh"
     \/ \E n \in 0..Facts :
          /\ cursor' = IF n = 0 THEN cursor ELSE (first + n) - 1
          /\ UNCHANGED <<nextSeq, refreshedAt, safe, pc>>
  /\ UNCHANGED <<clock, lastBar, lastClose, close>>

Due == clock - refreshedAt >= Interval

(* refresh_snapshot_if_due                                                 *)
RefreshSnapshotIfDue ==
  /\ pc = "refresh"
  /\ \/ ~Due /\ pc' = "poll" /\ UNCHANGED <<cursor, service, lastClose, close, starts, clock>>
     \/ /\ Due /\ Reduce(Facts)
        /\ refreshedAt' = clock /\ safe' \in BOOLEAN /\ pc' = "poll"
        /\ UNCHANGED <<lastClose, close, starts, clock>>
     \/ /\ Due /\ ~Fresh
        /\ nextSeq' = nextSeq + 1 /\ refreshedAt' = clock /\ safe' = FALSE /\ pc' = "poll"
        /\ UNCHANGED <<cursor, lastClose, close, starts, clock>>
     \/ /\ Due
        /\ safe' = FALSE /\ pc' = "poll"
        /\ UNCHANGED <<cursor, nextSeq, refreshedAt, lastClose, close, starts, clock>>
     \/ Due /\ (\E n \in 1..Facts : Reduce(n)) /\ Ends /\ UNCHANGED refreshedAt
  /\ UNCHANGED lastBar

(* MT5CompletedM5Source.poll: nothing, or the latest bar the terminal has, *)
(* completed, not too old and not the one polled last.                     *)
Poll ==
  /\ pc = "poll"
  /\ \/ pc' = "sleep" /\ UNCHANGED <<lastClose, close>>
     \/ \E c \in Closes \ {lastClose} :
          lastClose' = c /\ close' = c /\ pc' = "process"
  /\ UNCHANGED <<clock, durable, service, starts>>

(* Mutant: the counter stays where the facts have left it.                 *)
AcceptMutant ==
  /\ cursor' = BarSequence(close) /\ lastBar' = close
  /\ UNCHANGED nextSeq

(* The reducer's cursor and the orchestrator's counter move on together.   *)
Accept ==
  /\ cursor' = BarSequence(close) /\ lastBar' = close
  /\ nextSeq' = IF cursor' >= nextSeq THEN cursor' + 1 ELSE nextSeq

(* process_event as far as the bar's order: it needs a SAFE phase and a    *)
(* sequence beyond the cursor, and any exception ends the process.         *)
Process ==
  /\ pc = "process"
  /\ \/ /\ safe /\ BarSequence(close) > cursor
        /\ Accept
        /\ pc' = "sleep"
        /\ UNCHANGED <<clock, refreshedAt, safe, lastClose, close, starts>>
     \/ /\ ~safe \/ BarSequence(close) =< cursor
        /\ Ends
        /\ UNCHANGED <<durable, nextSeq, refreshedAt>>

Sleep ==
  /\ pc = "sleep" /\ clock < MaxTime
  /\ \E late \in Latencies : clock' = clock + PollSeconds + late
  /\ pc' = "refresh"
  /\ UNCHANGED <<durable, service, lastClose, close, starts>>

(* The process stops or dies outside a cycle, or time passes without it.   *)
Stop ==
  /\ pc \in {"refresh", "poll", "sleep"}
  /\ Ends
  /\ UNCHANGED <<durable, nextSeq, refreshedAt>>

Wait ==
  /\ pc = "down" /\ clock < MaxTime
  /\ \E d \in Pauses : clock' = clock + d
  /\ UNCHANGED <<durable, service, lastClose, close, pc, starts>>

ShadowNext ==
  \/ Start \/ RefreshSnapshotIfDue \/ Poll \/ Process \/ Sleep \/ Stop \/ Wait

ShadowSpec == ShadowInit /\ [][ShadowNext]_shadowVars

-----------------------------------------------------------------------------
(* PROPERTIES                                                              *)

Newer(c) == c > lastBar

(* docs/live_shadow_runtime.md:45: "Fresh tick data plus a newly completed *)
(* M5 bar resumes processing without a process restart", and :50, a restart*)
(* at a newer bar processes it "naturally".  Then, in a SAFE phase, a bar  *)
(* newer than every bar processed is never refused.  It is false wherever  *)
(* the facts of a bar's time outnumber its seconds (service.py:274), which *)
(* the six facts and five seconds of the code leave to the loop's turns.   *)
NewBarAccepted ==
  [][pc = "process" /\ safe /\ Newer(close) => lastBar' = close]_shadowVars

(* Bars are processed in the order of their closes and none is processed   *)
(* twice, over restarts that poll it again.                                *)
NoBarTwice == [][lastBar' # lastBar => Newer(lastBar')]_shadowVars

(* A snapshot of a running process is never refused: its counter is beyond *)
(* the cursor whatever bars and restarts came between.                     *)
FactsAccepted == pc # "down" => Fresh

=============================================================================
