---------------------------- MODULE RuntimeStream ----------------------------
(***************************************************************************)
(* The event stream of the runtime: RuntimeStreamRunner feeds one event at *)
(* a time to the EvidenceKernel and journals what came of it, record by    *)
(* record; a restarted process rebuilds itself from that journal.          *)
(*                                                                         *)
(* Bars and execution feedback go through process(), broker facts through  *)
(* reduce_broker_refresh().  An event is its own content-addressed id, and *)
(* a state, a memory or a thesis is the sequence of events it was made     *)
(* from, so that "the same state" and "made from" are comparisons.         *)
(*                                                                         *)
(* idle -> intake (EVENT) -> Evaluate -> outcome (STATE ..APPLIED) -> idle *)
(***************************************************************************)
EXTENDS Naturals, Sequences, SequencesExt

CONSTANTS
  AgentOrder,    (* the specialists, in the order they observe             *)
  FirstSequence, (* the first source sequence of a runtime with no history *)
  MaxInstant, MaxSequence, MaxEvents, MaxSteps     (* bounds of the search *)

ASSUME AgentsAssumption == AgentOrder \in Seq(ToSet(AgentOrder))
ASSUME SequenceAssumption == FirstSequence \in Nat
ASSUME BoundsAssumption == {MaxInstant, MaxSequence, MaxEvents, MaxSteps} \subseteq Nat

VARIABLES
  now,         (* the clock                                                *)
  journal,     (* SQLiteRuntimeJournal: append-only, survives              *)
  history,     (* kernel._state: the events reduced into it                *)
  memories,    (* kernel._memories: the events each specialist observed    *)
  kernelLast,  (* kernel._last_processed                                   *)
  thesis,      (* runner._thesis; empty when there is none                 *)
  runnerLast,  (* runner._last                                             *)
  sourceSequence,           (* orchestrator._source_sequence               *)
  stage, event, todo, nextThesis,  (* the event in hand, its next records  *)
  delivered, spent    (* events, and events and faults, begun: the bounds  *)

kernelVars == <<history, memories, kernelLast>>
runnerVars == <<thesis, runnerLast, sourceSequence>>
workVars == <<stage, event, todo, nextThesis>>
streamVars == <<now, journal, kernelVars, runnerVars, workVars, delivered, spent>>

Agents == ToSet(AgentOrder)

(* Ties of time and sequence are broken by the hash in the event's id; only*)
(* feedback can tie with another source, on either side of it.             *)
Events == [kind : {"bar", "fact"}, seq : Nat, at : Nat, rank : {1}]
            \cup [kind : {"feedback"}, seq : Nat, at : Nat, rank : {0, 2}]

NoEvent == [kind |-> "none"]

(* The live source and the broker snapshots publish under one source name. *)
Source(e) == IF e.kind = "feedback" THEN "transport" ELSE "market"

(* RuntimeEvent.ordering_key                                               *)
Before(e, f) ==
  \/ e.at < f.at
  \/ e.at = f.at /\ e.seq < f.seq
  \/ e.at = f.at /\ e.seq = f.seq /\ e.rank < f.rank

Outcomes == {"APPLIED", "DUPLICATE", "REJECTED"}

Records == [type : {"EVENT"}, event : Events]
             \cup [type : {"STATE", "THESIS"}, value : Seq(Events)]
             \cup [type : {"MEMORY"}, agent : Agents, value : Seq(Events)]
             \cup [type : Outcomes, event : Events]

StreamTypeOK ==
  /\ now \in Nat /\ delivered \in Nat /\ spent \in Nat /\ sourceSequence \in Nat
  /\ journal \in Seq(Records) /\ todo \in Seq(Records)
  /\ history \in Seq(Events)
  /\ memories \in [Agents -> Seq(Events)]
  /\ thesis \in Seq(Events) /\ nextThesis \in Seq(Events)
  /\ {kernelLast, runnerLast, event} \subseteq Events \cup {NoEvent}
  /\ stage \in {"down", "idle", "intake", "outcome", "blocked"}

-----------------------------------------------------------------------------
(* reduce_state                                                            *)

(* Where the events of a source are in a state; the last is its cursor.    *)
OfSource(h, s) == {n \in DOMAIN h : Source(h[n]) = s}

(* The source's cursor is this very event: the state is returned unchanged.*)
Repeats(h, e) ==
  LET own == OfSource(h, Source(e)) IN own # {} /\ h[Max(own)] = e

(* Mutant: events of one instant are not compared any further.             *)
InOrderMutant(h, e) == h # << >> => e.at >= Last(h).at

(* Neither stale nor a collision for its source, nor before the last event.*)
InOrder(h, e) ==
  /\ LET own == OfSource(h, Source(e)) IN own # {} => e.seq > h[Max(own)].seq
  /\ h # << >> => ~Before(e, Last(h))

Reducible(h, e) == Repeats(h, e) \/ InOrder(h, e)

Reduced(h, e) == IF Repeats(h, e) THEN h ELSE Append(h, e)

-----------------------------------------------------------------------------
(* What a new process restores from the journal                            *)

(* Where they are in the journal.                                          *)
OfType(type) == {n \in DOMAIN journal : journal[n].type = type}
MemoriesOf(a) == {n \in OfType("MEMORY") : journal[n].agent = a}
Latest(places) == IF places = {} THEN << >> ELSE journal[Max(places)].value

Remembering == {a \in Agents : MemoriesOf(a) # {}}

(* A set of memories that is neither empty nor complete is refused.        *)
Restorable == OfType("STATE") = {} \/ Remembering \in {{}, Agents}

NextSequence(h) ==
  IF h = << >> THEN FirstSequence
  ELSE 1 + Max({h[n].seq : n \in DOMAIN h})

Empty == [a \in Agents |-> << >>]

RestoredState == Latest(OfType("STATE"))

Restart ==
  /\ stage = "down"
  /\ IF Restorable
     THEN /\ stage' = "idle"
          /\ history' = RestoredState
          /\ memories' = [a \in Agents |-> Latest(MemoriesOf(a))]
          /\ thesis' = Latest(OfType("THESIS"))
          /\ sourceSequence' = NextSequence(RestoredState)
     ELSE stage' = "blocked" /\ UNCHANGED <<history, memories, thesis, sourceSequence>>
  /\ UNCHANGED <<now, journal, kernelLast, runnerLast, event, todo, nextThesis,
                 delivered, spent>>

Crash ==
  /\ stage \notin {"down", "blocked"} /\ spent < MaxSteps
  /\ spent' = spent + 1
  /\ stage' = "down" /\ event' = NoEvent /\ todo' = << >> /\ nextThesis' = << >>
  /\ history' = << >> /\ memories' = Empty /\ thesis' = << >>
  /\ kernelLast' = NoEvent /\ runnerLast' = NoEvent /\ sourceSequence' = FirstSequence
  /\ UNCHANGED <<now, journal, delivered>>

StreamInit ==
  /\ now = 0 /\ journal = << >> /\ delivered = 0 /\ spent = 0
  /\ history = << >> /\ memories = Empty /\ thesis = << >>
  /\ kernelLast = NoEvent /\ runnerLast = NoEvent /\ sourceSequence = FirstSequence
  /\ stage = "down" /\ event = NoEvent /\ todo = << >> /\ nextThesis = << >>

(* Within a cycle nobody reads the clock, so it may as well stand still.   *)
Tick ==
  /\ stage = "idle" /\ now < MaxInstant
  /\ now' = now + 1
  /\ UNCHANGED <<journal, kernelVars, runnerVars, workVars, delivered, spent>>

-----------------------------------------------------------------------------
(* process and reduce_broker_refresh up to the kernel                      *)

EventRecord(e) == [type |-> "EVENT", event |-> e]

Outcome(status, e) == [type |-> status, event |-> e]

Observed(e) == [a \in Agents |-> Append(memories[a], e)]

Begin(e) ==
  /\ stage = "idle" /\ delivered < MaxEvents /\ spent < MaxSteps
  /\ delivered' = delivered + 1 /\ spent' = spent + 1
  /\ event' = e

Intake(e) == stage' = "intake" /\ todo' = <<EventRecord(e)>> /\ UNCHANGED kernelVars

(* The runner has just processed this event.  The kernel answers from its  *)
(* cache unless it has gone on; a second evaluation gives another bundle.  *)
Redelivered(e) ==
  /\ runnerLast = e
  /\ stage' = "outcome"
  /\ IF kernelLast = e
     THEN todo' = <<Outcome("DUPLICATE", e)>> /\ UNCHANGED kernelVars
     ELSE /\ todo' = <<Outcome("REJECTED", e)>>
          /\ IF Repeats(history, e)
             THEN memories' = Observed(e) /\ kernelLast' = e /\ UNCHANGED history
             ELSE UNCHANGED kernelVars

(* The host clock has not reached the event.                               *)
Early(e) ==
  /\ e.at > now
  /\ stage' = "outcome" /\ todo' = <<Outcome("REJECTED", e)>>
  /\ UNCHANGED kernelVars

RunnerProcess(e) ==
  /\ Begin(e)
  /\ \/ Early(e)
     \/ e.at =< now /\ Redelivered(e)
     \/ e.at =< now /\ runnerLast # e /\ Intake(e)

(* A market event of any source, new or delivered before.                  *)
ProcessBar ==
  /\ \E s \in 0..MaxSequence, t \in 0..(now + 1) :
       RunnerProcess([kind |-> "bar", seq |-> s, at |-> t, rank |-> 1])
  /\ UNCHANGED <<now, journal, runnerVars, nextThesis>>

(* _apply_execution_feedback: dated by the transport.                      *)
ProcessFeedback ==
  /\ sourceSequence =< MaxSequence
  /\ \E t \in 0..now, r \in {0, 2} :
       RunnerProcess([kind |-> "feedback", seq |-> sourceSequence, at |-> t, rank |-> r])
  /\ sourceSequence' = sourceSequence + 1
  /\ UNCHANGED <<now, journal, thesis, runnerLast, nextThesis>>

(* One fact of a broker snapshot, dated by the capture.                    *)
RefreshFact ==
  /\ sourceSequence =< MaxSequence
  /\ LET e == [kind |-> "fact", seq |-> sourceSequence, at |-> now, rank |-> 1]
     IN  Begin(e) /\ Intake(e)
  /\ sourceSequence' = sourceSequence + 1
  /\ UNCHANGED <<now, journal, thesis, runnerLast, nextThesis>>

-----------------------------------------------------------------------------
(* The kernel, the scenario transition and the records of their result     *)

StateRecord == [type |-> "STATE", value |-> history']
MemoryRecords ==
  [n \in DOMAIN AgentOrder |->
     [type |-> "MEMORY", agent |-> AgentOrder[n], value |-> memories'[AgentOrder[n]]]]
ThesisRecords(t) == IF t = << >> THEN << >> ELSE <<[type |-> "THESIS", value |-> t]>>

Refused ==
  /\ todo' = <<Outcome("REJECTED", event)>>
  /\ UNCHANGED nextThesis

(* Mutant: the outcome is written as soon as the state is.                 *)
OutcomeFirstMutant(t) ==
  <<StateRecord, Outcome("APPLIED", event)>> \o MemoryRecords \o ThesisRecords(t)

(* Mutant: the memories are written before the state they go with.         *)
MemoriesFirstMutant(t) ==
  MemoryRecords \o <<StateRecord>> \o ThesisRecords(t) \o <<Outcome("APPLIED", event)>>

(* _journal_semantics and the outcome after it.                            *)
Semantics(t) ==
  <<StateRecord>> \o MemoryRecords \o ThesisRecords(t) \o <<Outcome("APPLIED", event)>>

(* State and memories are committed together, before the transition, which *)
(* may raise; nothing takes them back.                                     *)
Committed ==
  /\ \/ kernelLast = event /\ UNCHANGED kernelVars
     \/ /\ kernelLast # event
        /\ Reducible(history, event)
        /\ history' = Reduced(history, event)
        /\ memories' = Observed(event)
        /\ kernelLast' = event
  /\ \/ \E t \in {thesis, Append(thesis, event)} :
          nextThesis' = t /\ todo' = Semantics(t)
     \/ Refused

(* The order is violated, or an agent raises on what it is shown.          *)
Raised == Refused /\ UNCHANGED kernelVars

FactReduced ==
  \/ /\ Reducible(history, event)
     /\ history' = Reduced(history, event)
     /\ todo' = <<StateRecord, Outcome("APPLIED", event)>>
     /\ UNCHANGED <<memories, kernelLast, nextThesis>>
  \/ ~Reducible(history, event) /\ Raised

Evaluate ==
  /\ stage = "intake" /\ todo = << >>
  /\ stage' = "outcome"
  /\ IF event.kind = "fact" THEN FactReduced ELSE Committed \/ Raised
  /\ UNCHANGED <<now, journal, runnerVars, event, delivered, spent>>

-----------------------------------------------------------------------------
(* The journal, one append at a time                                       *)

Done == stage' = "idle" /\ event' = NoEvent /\ todo' = << >> /\ nextThesis' = << >>

(* After its last record, process() takes the event over.                  *)
TakeOver(status) ==
  /\ IF status = "APPLIED"
     THEN thesis' = nextThesis /\ runnerLast' = event
     ELSE UNCHANGED <<thesis, runnerLast>>
  /\ sourceSequence' = IF status \in {"APPLIED", "DUPLICATE"} /\ event.seq >= sourceSequence
                THEN event.seq + 1 ELSE sourceSequence

AppendRecord ==
  /\ stage \in {"intake", "outcome"} /\ todo # << >>
  /\ journal' = Append(journal, Head(todo))
  /\ IF stage = "intake" \/ Len(todo) > 1
     THEN todo' = Tail(todo) /\ UNCHANGED <<stage, event, nextThesis, runnerVars>>
     ELSE /\ Done
          /\ IF event.kind = "fact" THEN UNCHANGED runnerVars ELSE TakeOver(Head(todo).type)
  /\ UNCHANGED <<now, kernelVars, delivered, spent>>

(* An append raises.  process() still tries to journal a rejection; a fact *)
(* and a rejection that cannot be written leave nothing.                   *)
AppendFails ==
  /\ stage \in {"intake", "outcome"} /\ todo # << >> /\ spent < MaxSteps
  /\ spent' = spent + 1
  /\ IF event.kind = "fact" \/ Head(todo).type = "REJECTED"
     THEN Done
     ELSE stage' = "outcome" /\ todo' = <<Outcome("REJECTED", event)>>
            /\ nextThesis' = << >> /\ UNCHANGED event
  /\ UNCHANGED <<now, journal, kernelVars, runnerVars, delivered>>

-----------------------------------------------------------------------------

StreamNext ==
  \/ Restart \/ Crash \/ Tick
  \/ ProcessBar \/ ProcessFeedback \/ RefreshFact
  \/ Evaluate \/ AppendRecord \/ AppendFails

StreamSpec == StreamInit /\ [][StreamNext]_streamVars

-----------------------------------------------------------------------------
(* PROPERTIES                                                              *)

States == {history} \cup {journal[n].value : n \in OfType("STATE")}

InCausalOrder(h) ==
  \A n \in DOMAIN h : \A m \in 1..(n - 1) :
    /\ ~Before(h[n], h[m])
    /\ Source(h[m]) = Source(h[n]) => h[m].seq < h[n].seq

(* Every state, in memory or journaled, was made from events in causal     *)
(* order: the order of their keys, and within a source strictly increasing *)
(* sequences, over crashes, restarts and failed cycles.                    *)
CausalOrder == \A h \in States : InCausalOrder(h)

Extends(places) ==
  \A m, n \in places : m < n => IsPrefix(journal[m].value, journal[n].value)

(* The journal tells one story: each state continues the state journaled   *)
(* before it, and each specialist's memory the memory before it, although  *)
(* the kernel may have been ahead of the journal when the process died.    *)
HistoryOnlyGrows ==
  Extends(OfType("STATE")) /\ \A a \in Agents : Extends(MemoriesOf(a))

(* An event once reported APPLIED is never lost: a restart at any moment   *)
(* finds it in the state, and in the memory of every specialist that       *)
(* observed it (docs/runbook.md: "committed append-only history remains    *)
(* sufficient").                                                           *)
AppliedIsDurable ==
  \A n \in OfType("APPLIED") :
    /\ journal[n].event \in ToSet(RestoredState)
    /\ journal[n].event.kind # "fact" =>
         \A a \in Agents : journal[n].event \in ToSet(Latest(MemoriesOf(a)))

(* The journal is the runtime's memory: nothing told as applied is missing *)
(* and nothing told before is taken back, torn cycles included.            *)
JournalRemembers == AppliedIsDurable /\ HistoryOnlyGrows

(* No specialist remembers and no thesis rests on an event the state does  *)
(* not contain, in memory or in what a restart would restore.              *)
NothingAheadOfState ==
  /\ \A a \in Agents : ToSet(memories[a]) \subseteq ToSet(history)
  /\ ToSet(thesis) \subseteq ToSet(history)
  /\ \A a \in Agents : ToSet(Latest(MemoriesOf(a))) \subseteq ToSet(RestoredState)
  /\ ToSet(Latest(OfType("THESIS"))) \subseteq ToSet(RestoredState)

(* docs/runbook.md: "On crash restart, committed append-only history       *)
(* remains sufficient; the checkpoint is only an anchor."  No crash leaves *)
(* a journal that startup refuses.                                         *)
CommittedHistorySuffices == stage # "blocked"

(* SQLiteRuntimeJournal.events: an event with an outcome but without an    *)
(* APPLIED one is left out of a replay.                                    *)
Replayed ==
  {e \in {journal[n].event : n \in OfType("EVENT")} :
     \/ Outcome("APPLIED", e) \in ToSet(journal)
     \/ \A status \in Outcomes : Outcome(status, e) \notin ToSet(journal)}

(* docs/decision_log.md: "journal replay can reconstruct Phase 6 traces".  *)
(* The events of the journal, sorted by their keys, go through a fresh     *)
(* reducer without a collision or a stale sequence.                        *)
JournalReplayable ==
  \A e, f \in Replayed :
    e # f /\ Source(e) = Source(f) /\ Before(e, f) => e.seq < f.seq

=============================================================================
