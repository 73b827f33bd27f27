# Verification of the adaptive XAUUSD trading system

TLA+ specifications of `src/axq`: the execution boundary and the orchestrator
around it, the event stream and the live shadow runtime with what it journals
and the processes that control it, the deterministic decision chain, the replay
that drives it, and the stores and commands of the reflection and research
pipelines. TLC checks them on small instances; TLAPS proves the central results
for every instance.

Paths below are relative to `src/src/axq` unless they begin with `docs/`.

## 1. The system

A single process takes market events, reduces them into a shared state, lets
specialists and evaluators decide, and hands what was approved to an execution
adapter, or, in shadow operation, records what it would have done. Everything
that matters is kept in append-only SQLite stores and in files, and every
process is meant to be killed and restarted at any time. Offline commands
replay recorded markets through the same chain, tell experiences, reflect on
them, propose changes and evaluate those under governance.

| Component | State it keeps | Operations | What makes it correct |
|---|---|---|---|
| Entry adapter and ledger (`execution_boundary/adapter.py`, `persistence.py`) | RESERVED and RESULT_RECORDED transitions of each intent | `execute`, `reserve`, `record` | an intent leaves at most once; a recorded result does not contradict the broker |
| MT5 preflight and transport (`mt5/preflight.py`, `mt5/entry.py`) | none; reads account, symbol, kill switch | `validate`, `submit` | nothing leaves for an account that is not a verified demo account |
| Reconciliation and readiness (`execution_boundary/reconciliation.py`, `readiness.py`) | latest report | `reconcile_execution_state`, `evaluate_resume_readiness` | a resolved report explains every broker object; ambiguity blocks |
| Orchestrator (`orchestration/service.py`) | phase, controls, report, readiness, sequence | `startup`, `process_event`, `refresh_snapshot_if_due`, operator calls | mutation only from a fresh SAFE verdict |
| Position actions (`position_actions/`, `mt5/position.py`) | their own ledger | `execute`, reconciliation of UNKNOWN | an action is sent once; an ambiguous one blocks the others |
| Runtime stream (`runtime/`) | shared state, memories, thesis, journal | `process`, `reduce_broker_refresh`, `restore_runtime` | causal order; the journal restores what it reported applied |
| Shadow runtime (`orchestration/shadow.py`, `shadow_runtime.py`, `runtime/scanner.py`) | last close polled, the bar in hand | the loop; `process` of a bar | every new bar once; every decision explained by the journal; the day's limits over restarts |
| Lifecycle control (`orchestration/shadow_control.py`, `dashboard/shadow_controller.py`) | control store, instance guard | `start`, `stop`, `restart`, `status` | one instance; a stop request ends it; a recorded end is real |
| Time normalisation (`mt5/time_normalization.py`) | offset resolutions | infer, reuse | a bar is dated by the instant it closed at |
| Thesis and scenarios (`agents/scenarios.py`, `agents/state.py`) | specialist's memory, thesis | transition per bar | an ended thesis stays ended; memory and thesis agree |
| Interaction (`interaction/`) | none | a discussion per contested bar | both sides heard; bound to evidence |
| Evaluators (`master/`, `discipline/`, `risk_boundary/`, `position_management/`, `position_actions/evaluator.py`) | none | pure functions | no veto lost, no side favoured |
| Replay validation (`replay_validation/`) | simulated broker, trading record | `run_system_replay` | decisions act on the next bar; limits of a day |
| Experience (`experience/`) | experiences | attribution by joins | the tellings of one trade agree |
| Reasoning (`reasoning/`) | requests, attempts, responses | explain, reuse | one answer per attempt key |
| Reflection (`reflection/`) | dailies, weeklies, proposals, plans, reviews, authorisations, executions | build, transition, review, authorise, execute | histories do not fork; authorisation on evidence; an execution has one outcome |
| Features, labels, datasets (`features/`, `labels/`, `data/`, `datasets/`) | data frames | batch | no look-ahead, labels apart |
| Training and suites (`quant/`) | model directories, registry, status files | runs that may be repeated | reports rest on artifacts; reruns settle |
| Dashboard, command line, tool catalogue | none | rendering, lookup | - |

How they interact. The runtime calls everything synchronously on one thread.
Processes share only SQLite files and directories: two runtimes could open one
ledger, dashboard sessions and the managed child share the control store, the
commands of the reflection pipeline share their stores, and a restarted process
shares every journal with its predecessor. The broker acts on its own: stops
close positions, a person may trade or log the terminal into another account,
the broker changes its clock, an answer to `order_send` may be lost.

What is hard: a crash between any two appends; an answer lost after the order
was executed; facts read several calls, or one transaction, before they are
used; sources read one after another while others append; three kinds of event
dated by different clocks and numbered by different counters in one order; a
cycle that fails half way and leaves two copies of one thing apart.
`PROJECT.json` lists these hazards line by line with the properties that watch
them.

## 2. The modules

Abstract specifications: **AtMostOnceExecution** (an intent is claimed, then
submitted at most once, then has one outcome that does not contradict the
submission), **RecoverableRequest** (a request has one outcome and everybody who
asks is given that one), **LinearHistory** (a history only grows, and each record
names the one before). `ExecutionBoundary` implements the first,
`GovernedExecution` and `Reasoning` the second, the authorisations of
`Governance` the third.

### Execution

**ExecutionBoundary** is `DemoExecutionAdapter.execute` cut at every point where
another process, the broker or a crash can come between:

| Action | Code |
|---|---|
| `Execute` | policy binding, early return of a recorded result (`adapter.py` `execute`) |
| `Reserve` | one INSERT under the partial unique index (`persistence.py` `reserve`) |
| `Observe` | observation provider and `_preflight` |
| `ValidatePreflight` | `MT5EntryPreflight.validate` with `order_check`; a dry run ends here |
| `SubmitCheck`, `OrderSend` | `MT5ExecutionTransport.submit`, what the broker does, what comes back |
| `RecordCheck`, `RecordAppend` | the two statements of `record` |
| `Return`, `Raise`, `Crash` | the caller takes the result; an exception; the process dies |
| `KillSwitch`, `SwitchAccount` | an operator's control; a person at the terminal |

The ledger (`reserved`, `results`) survives a crash; `pc`, `work`, `draft`,
`mode` and `kill` belong to the process, which may come back under another
policy. `exposure` is the volume the broker really opened. What the broker
answers (`Retcodes`) is one of the three codes the transport lists, when it is
true, or any other code, which says nothing of the volume; `Acknowledgements`
and `Interpretations` are what the code makes of it. A listed code is believed:
the ledger's promise is about those, about results that claim nothing was sent,
and not about REJECTED, which the code also writes where it knows nothing
(`RejectedOpenedNothing`, below).

**Orchestrator** adds the runtime: `process_event` as a program counter `opc`
(entry, execution, refresh, a batch of position actions), the refresh with its
reconciliation and verdict, the operator's gates, and the books (`book`,
`foreign`) which the broker moves on its own. A refresh may fail before the
report is appended, after it, or after the verdict. The adapter's steps are
`ExecutionBoundary`'s, not a copy of them.

### The runtime

**RuntimeStream**: delivery of bars, facts and feedback in any order
(`ProcessBar`, `RefreshFact`, `ProcessFeedback`), reduction and commit of the
kernel (`Evaluate`), the records of the outcome one append at a time
(`AppendRecord`, `AppendFails`), and what a new process restores (`Restart`). A
state, a memory or a thesis is the sequence of the events it was made from,
which is what the properties compare.

**LiveShadow**: the loop of `run_live_shadow` (refresh if due, poll, process,
sleep) with restarts. Bars and facts share the source `mt5-shadow` and so one
cursor of the reducer; a bar is numbered by the second of its close, a fact by
a counter. Whether the two numberings keep apart is a matter of the pace, which
nothing in the code enforces.

**BrokerClock**: the terminal stamps with the broker's clock, whole hours from
UTC. A session infers the offset from the last tick and the host's clock, or
takes one an earlier session recorded for the same environment, and keeps it
(`StartSession`, `RefreshFacts`, `PollBar`, `EndSession`); `Pass`, `Quote` and
`Change` are time, the market, and the broker changing its clock or a person the
account. Two facts the model shows: a session frozen to a wrong offset stays unavailable
rather than guessing again, and the "fails closed until restart" of a mismatch
is a condition that is evaluated at every poll, not a latch.

**ShadowFunnel**: what one completed bar leaves in the journal:

| Action | Code |
|---|---|
| `PollCompleted`, `ScanBar` | `live_source.py` `poll`; `scanner.py` `scan_m5_candidate`, called by `LiveShadowRuntime.process` |
| `DecideOnBar` | reducer's acceptance, then `EvidenceBoundInteractionProcessor.evaluate` around the live processor: proposal, gates, discussion |
| `DiscussionFails` | an append raises in the processor and `process_event` goes on with an empty plan |
| `JournalPlan` | `RuntimeOrchestrator._journal_plan` |
| `Conclude` | quiet cycle, or trade plan, would-be execution and cycle |
| `Write` | each of those appends, one at a time |
| `BarDone`, `Halt`, `StartProcess` | the bar is done; the process ends anywhere; the next one begins |

A record has the identifiers of those it names, so that "explained by the
journal" is reachability. The Discipline Guard is `DecisionPolicy`'s. Facts the
model made plain: the discussion's records name a Master proposal that is
journaled after them, and a crash or a failed append leaves them dangling for
good, which is why the property speaks of cycles and executions; a failed
append of the discussion costs the decision of the whole bar; an intent made on
a bar without a candidate is journaled and never becomes a would-be execution;
a crash between intent and execution forgets the entry. As composed for MT5 the
snapshot never carries drawdown facts, so the live chain ends at the Master's
proposal (`docs/live_shadow_runtime.md` says so): the plans beyond it are those
of the processor the runtime accepts, not of that one snapshot provider.

**ShadowControl**: dashboard sessions (`start`, `stop`, `restart` under the
command lock, `status` without it), the control store, the spawned process with
its guard, boot, turns and closing. Sessions and processes may be killed
anywhere, a process may hang in the terminal, its pid may be lost.

### Deciding

**ScenarioLifecycle**: the chart specialist's hypothesis with its memory in the
kernel, and the thesis with a second copy of that memory, over bars of both
timeframes, abstentions, terminal facts, expiry, torn journals and restarts.
**MasterFusion**: `fuse_evidence`, sums over the specialists as sums of functions.
**DecisionPolicy**: Discipline Guard, Risk and
sizing, position management and action safety as operators on records named as
in the code. **SystemReplay** composes `ScenarioLifecycle` and `DecisionPolicy`
into `run_system_replay`: each bar fills what was queued, brings the trading
record up to date, observes, decides. **Attribution** tells the experiences of a
replay by the six joins of `experience/attribution.py`.

### Reflection, explanation and research

**Reflections**: the three builds (daily, weekly, proposals), each reading its
sources one after the other while the others append. **Governance**: the ten
stores of the pipeline as chains of records, with a check outside and an insert
inside the transaction (`database.py` begins it at the first INSERT), except
for authorisations, which take the lock first. **GovernedExecution**: the four
services that record a request, compute, record outputs and then an audit.
**Reasoning**: request, attempts, responses and their reuse, by two processes,
with the model server's answers lost, late, malformed or of another model.
**MarketData**: candles to rows, with swings, breaks, breakouts, higher
timeframe and barrier labels. **DatasetSplits**: the split functions.
**ResearchInputs**: what `fuse_evidence` and the splits may be called with, once
the validation of their contracts has passed, and what they promise of it.
**QuantRuns**: which files training runs, experiments, suites and walk-forwards
write in which order, where they refuse, and what a rerun finds. The other files
are replaced as a whole; the registry of all models is truncated and written in
place (`CutOff`), so that a fault within it takes every registration along and
leaves a file nobody can read (`garbled`).

### Proof modules

| Module | Proves about |
|---|---|
| `ExecutionProofs` | `ExecutionBoundary`, that it implements `AtMostOnceExecution`, and `Orchestrator` on top of it |
| `DecisionPolicyProofs` | what the check lists of `DecisionPolicy` leave of a proposal they let pass |
| `ShadowRuntimeProofs` | `LiveShadow`, `RuntimeStream`, `BrokerClock`, `ShadowFunnel` |
| `ShadowControlProofs` | `ShadowControl` |
| `ReplayProofs` | `ScenarioLifecycle` and, on top of it and of `DecisionPolicyProofs`, `SystemReplay` |
| `GovernanceProofs` | `Governance`, `Reflections`, `Reasoning` |
| `GovernedExecutionProofs` | `GovernedExecution` |
| `ResearchProofs` | `QuantRuns`, `Attribution`, `DatasetSplits`, `MasterFusion`, `MarketData` |

## 3. What is checked

Passing runs; their state spaces are searched to the end. Some runs hold several
benches that share no state: the initial state decides which one a behaviour
belongs to, and the other variables keep their initial values.

| Run | Instance | Question |
|---|---|---|
| `boundary` | one executor, an intent that may trade and one that may only be rehearsed, volume 2, answers that say nothing; two callers, three keys, two explanations | Is an intent sent at most once, is its result final and does it claim no more than is so, is the whole an implementation of `AtMostOnceExecution`, crashes included? Has every attempt key one answer, and does reuse give the first one? |
| `orchestrator_entries` | two entries, one of them linkable | Is the composition still a boundary? Does UNKNOWN stop later entries? |
| `orchestrator_actions` | one entry, two position actions, volume 2 | Are actions sent once, and only from a resolved SAFE refresh on books that are explained? |
| `shadow_runtime` | loop: bars of 24 s, six facts every 5 s, three starts, 60 s; stream: two specialists, three of events, crashes and failed appends; clock: an hour of two bars, two offsets, two accounts, two changes, two sessions; funnel: five specialists, two days of three active bars, a cap of two entries, three polls, one fault | Is every fact accepted, and no bar processed twice, though facts overtake bars? Are states causal, does the journal remember? Are bars dated truly? Is every cycle and would-be entry explained by the journal, were both sides heard, does a day keep to its discipline over crashes? |
| `shadow_control` | an operator's session and one that only looks, two instances | Does one instance run, the one that can be stopped? Is a recorded end real? Does a stop end its instance, and an orphan itself? |
| `governance` | two processes; two versions, up to three records a store; builds over two weeks of two days with a late loss | Does a history fork only where two appends overlapped? Does an authorisation rest on evidence? Do proposals rest on agreeing days of complete weeks, with every source in sight? |
| `replay` | six bars of two days around a closed market, policies scaled to a day of a few bars; theses of five steps or three bars under bars of both kinds, five steps, one crash; four bars told by one specialist | Do pending entries, positions and actions fit together, does an entry follow its thesis, does the day keep its cap? Does an ended thesis stay ended, do memory and thesis agree but for the known causes, and is an entry offered only on a thesis that stands? Do six joins tell one story? |
| `research` | markets of six candles; every split of ten rows left of twelve candles; every bundle of two specialists; three experiments on two models, two folds, two faults; three processes, two execution requests, with and without a common run key, deterministic engines and not, one crash | Does a row know only what had closed? Are labels apart? Is neither side favoured? Do reports rest on artifacts, and do reruns settle? Has a request one outcome, given to everybody, with all its outputs, and does a retry complete it? |

Bounds and why they are enough. Two intents and two processes are what a race
or a wrong policy needs; intents read each other's records only in
reconciliation, where two of them (one linkable, one not) and a foreign object
give every pair of findings. Volume 2 has the partial fill. Two actions are one
that becomes ambiguous and one that must then be refused. Three steps of
the stream are two events and what tears the first, or a crash between them;
the proofs cover the rest. In the loop six facts every five seconds are the
numbers of the code; under bars of 24 seconds they overtake them within the
search, and two bars and three starts allow a bar to be polled by the process
that has processed it, by a later one, and as late as the staleness limit
permits. Two changes and two sessions let the clock
move within a session and between two. Three polls with a cap of two are the
one that must be refused; five specialists are a round of three of whom two are
opposed; a day of three active bars has room for a cooldown and for a second
day. Two instances are a restart; a third adds no new pair. Three records are a
history, its fork and what hangs on it. A fork, a lost request and a torn
execution each need two processes; the third that executes requests competes
for a run key. Two faults are one that cuts off the registry and one that the
rerun meets. Two theses in a row are what revival and rollover need. The
replay has two days so that a fill is carried over. In `MCSystemReplay` a
thesis has the three bars of the default policy and time for two more, so that
either limit may end it; the other numbers are scaled to a day of a few bars. All histories are bounded by these numbers and nothing else is.

`CHECK_DEADLOCK FALSE` is set where the bounds, or the end of all work, stop the
search: every run but `boundary`, `unclear_answer` and the two of the
orchestrator.

Each property has a mutant in `PROJECT.json`: a plausible bug in a mapped
definition under which the same run fails.

Several run properties are conjunctions of named parts: `ThesisSound`,
`BookInOrder`, `JournalRemembers`, `OneRunsAddressed`, `RecordsOfOneExecution`,
`DecisionsOnRecord`.

Fairness. `ShadowControl`: weak fairness of the steps of each session's command
and of each process. A session's command is a sequential program and its waits
have timeouts; the loop of the runtime polls the stop request between two
turns. A call into the terminal that never returns and the death of a session
are steps of their own that fairness does not exclude, and the properties name
them. Starting a command is not fair. `GovernedExecution`: weak fairness of a
command's steps and of running it again, which is what `docs/runbook.md` asks of
the operator; crashes are bounded and never fair. `QuantRuns`: a command that
runs goes on, and the operator starts it again until everything is done.
Elsewhere nothing is fair: those parts may stop at any moment.

### Disagreements of documents and code

| Run | What the code does |
|---|---|
| `scenario_rollover` | The bar that finds a thesis expired moves the kernel's memory but not the thesis's copy; the rollover that follows hands on the stale copy and is refused with a ValueError, bar after bar |
| `stale_tick` | A tick that is itself a whole number of hours old passes for a fresh one of another offset, and the bar before it is processed as if it closed just now |
| `unclear_answer` | Every retcode but three is REJECTED, those of a timeout or a lost connection and a missing one included, whatever the broker executed; reconciliation takes REJECTED for settled, and the order shows up only as an object nobody claims (`docs/decision_log.md:257-259`) |
| `default_cadence` | Facts count up one by one and a bar has the number of its closing second, under one cursor: six facts in every turn of six seconds reach the next bar's number, and the bar is refused (`docs/live_shadow_runtime.md:45`) |

`default_cadence` has the numbers of the code: six facts
(`execution_boundary/recovery.py:30-37`), due every 5 s
(`orchestration/config.py:24`), and a loop that sleeps 2 s. What the code leaves
open is how long the turn takes besides; the run gives it one second, so that a
refresh falls on every second turn, after six seconds. A turn of just over
2 to 2.4 seconds refreshes on every third, after more than six seconds, and stays
below; one of 2.5 to 3 seconds does not.

Further disagreements have a definition in the modules and no run of their own.
Each is false of its model: add the definition to the run named and TLC finds
the behaviour.

| Definition | With | What the code does | What is written |
|---|---|---|---|
| `SafeResumeLeavesNoAmbiguity` (Orchestrator) | `orchestrator_entries` | a DEMO startup ends SAFE over an intent that was sent and has no result: reconciliation reads results only | `docs/agentic_architecture.md:243-245` |
| `PauseLiftedOnlyWhenSafe` (Orchestrator) | `orchestrator_entries` | `set_operator_controls` lifts an entry pause in any phase | `docs/runtime_orchestration.md:51-53` |
| `ResultsReachSharedState` (Orchestrator) | `orchestrator_entries` | a result dated before the revalidation snapshot is refused by the reducer, and the cycle ends half done | `docs/runtime_orchestration.md:45-47` |
| `CommittedHistorySuffices` (RuntimeStream) | `shadow_runtime` | a crash between the memories of the very first cycle leaves a journal that every later startup refuses | `docs/runbook.md:502-503` |
| `JournalReplayable` (RuntimeStream) | `shadow_runtime` | an event journaled but not reduced and the one that reuses its sequence both enter a replay | `docs/decision_log.md:161-162` |
| `FinishedIsRegistered` (QuantRuns) | `research` | a fault in the registration leaves a complete directory, which the rerun returns without registering it; one that cuts off the registry loses the others' entries too | `docs/model_registry.md:3` |
| `ResultIsFinal` (ExecutionBoundary) | two executors on one intent | `record` reads and writes in two statements, two results may follow each other; none contradicts the broker (`Truthful`), and with one executor there is one (`ResultsFinal`) | - |
| `ReviewsNameTerminal` (Governance) | `governance` | two reviewers that overlap fork a review history | `docs/paired_evaluation_review.md` |

## 4. What is proved

Assumptions: the ones the modules declare (a positive volume, policies and
targets of the right type, one runtime, positive periods, a sequence of
specialists, finite and non-negative bounds, a clock whose offsets are whole
hours, a positive cap, a panel that names nobody twice and everyone who speaks,
builds whose samples and weeks are natural numbers, prices that are integers and
barriers, horizons and swing widths that are positive, inputs of fusion and splits
that their contracts accept). TLC
evaluates them in every run that extends the module. What a theorem assumes
beyond them stands in its statement and is named below.

**ExecutionProofs**, in two parts.

The boundary, for any intents and any number of executors on one ledger: `TypeCorrect`, `AtMostOnce`, `OnlyDemo`, `Truthful`, `NoDemoNoTrade`. None
of the safety invariants is inductive alone. `AtMostOneSubmission` does not say
why the process that is about to send is the only one, so the proof adds
`Ownership`: who has won the reservation and has not left for the ledger owns
the intent, ownership is unique, and nothing has left for an owned intent. A
reserved intent nobody owns is `Closed`: its sends and its exposure are frozen,
which is what makes a result that is true when drafted still true when a slow
process records it later (`True`, `Truth`). What a result is held to is what it
claims: that nothing was sent, that the order waits whole, or that so much was
filled. A REJECTED claims nothing there, since the code writes it on answers
that say nothing. `OnlyDemo` needs that the policy
compared on entry still holds when the order leaves (`Bound`), though a crash may
change it. `NoDemoNoTrade` rests on nobody getting beyond the observation
(`BeforeValidation`).

For one executor on the ledger, which is how the runtime is composed:
`BoundaryImplements` (`ImplementsAtMostOnce`) and `ResultsFinal`. With two of them
the second is false, as the table above says; with one, nobody else writes
between a look at the ledger and a record, so whoever is on its way to a result
is about the only one there will be (`Fresh`), and what it has in hand says of
the submission what is so (`Answered`).

The orchestrator, for any entries, actions, links and plans:
- `RuntimeKeepsBoundary`: each action of the orchestrator is a step of
  `ExecutionBoundary` or leaves its variables alone; the invariant is only that
  a cycle in its entry part has an entry (`EntryPlanned`). `RuntimeSubmitsOnce`
  and `RuntimeLedgerTruthful` follow.
- `RuntimeActsOnce`: whoever is about to send an action has reserved it and has
  not sent it (`Reserved`).
- `RuntimeDispatchesWhenReady`: the verdict of the revalidation still stands
  when the order leaves (`EntryReady`, `ActionReady`). The action being sent is
  itself ambiguous from its reservation on, and the only one.
- `RuntimeMutatesExplained`: a resolved report leaves no object unexplained
  (`ResolvedExplains`), and the step that goes on to a mutation is the step that
  read the books.
- `RuntimeStopsOnUnknown`: an UNKNOWN result of an entry without a ticket stays
  what no snapshot can link, so the reconciliation of every later refresh finds
  it again.

**DecisionPolicyProofs**, for any proposal, context, trading record and policy:
`DisciplinePassed`, that what the Discipline Guard lets pass met none of its
vetoes (`NoVetoMet`). Each boundary is a list of checks of which the first that
hits answers (`FirstOf`), so it is a matter of what is left when none does; the
replay's and the shadow's limits of a day both rest on it, and the lemma on
Risk serves the replay.

**ShadowRuntimeProofs**, in four parts.

The loop, for any periods, snapshot sizes and restarts: `ShadowTypeCorrect`,
`SnapshotsAccepted` (`FactsAccepted`: the counter is beyond the cursor) and
`BarsInOrder` (`NoBarTwice`: the cursor has reached the last bar). That every new
bar is accepted is false at the pace of the code and is stated by no theorem.

The stream, for any specialists and any number of events, crashes and failed
appends: `StreamTypeCorrect`; `StatesInOrder` (`CausalOrder`); `Remembered`
(`JournalRemembers`); `StateLeads` (`NothingAheadOfState`). What is on disk does not
say by itself that the next record will fit, since the kernel commits before
anything of the event is journaled and nothing takes it back. `StreamInv`
therefore relates three things. `KernelAhead`: each journaled state or memory is
a prefix of what the running process holds. `KernelKnows`: an event the kernel
answers from its cache is in the state and in every memory. `RecordKept`: a
record still to be appended is about just what the process holds, and stands
behind the record it rests on, or that one is in the journal already
(`StateFirst`, `MemoryFirst`); this is where the order of `_journal_semantics` is
needed. A crash drops the records in hand and the kernel together, and a restart
makes the last records of the journal the new kernel.

The broker's clock, for any offsets, tolerances and environments:
`BarsDatedTruly` (`DatedTruly`). Every row and tick was stamped under some offset
the broker had (`ClockInv`); two offsets are whole hours, so a tick less than an
hour old admits one of them only, and what is left over from another clock is
older than the silence it takes to change it.

The funnel, for any panel and whatever its members say, any pictures, plans and
calendar, and a process that dies or fails at any append: `DecisionsExplained`
(`DecisionsOnRecord`) and `ShadowDisciplineKept` (`ShadowKeepsDiscipline`). What is
journaled does not say what the records in hand will add to it, so the invariant
`FunnelInv` is about both as one sequence, `Line`: a step puts a batch at its end,
an append only moves the border within it, and a crash cuts it back to the
journal. A line is `Standing` when no identifier comes twice, each record names
only what comes before it, but for the proposal a discussion is about, each
cycle or execution comes after that proposal if it names more than what was
seen, and each completed resolution after the whole of its round (`Heard`). Every
beginning of a line that stands does (`StandingBefore`), and from standing alone
follow both halves of the property (`StandingGrounds`, `StandingHeard`). Each
action then owes a batch that may follow (`SessionFits`, `PlanFits`, `TradeFits`),
for which the invariant keeps what has been told of the poll by each step
(`KindsBy`, `Seen`, `Meant`, `Proposed`).

A day is kept (`DaysKept`) by what is known when the plan is made: a plan with an
intent found `Room` in the journal of the day (`GuardFindsRoom`, from
`DisciplinePassed`), nothing that executes is written between that look and the
execution (`Idle`), and an execution for which there is room keeps the day
(`DaysKeptWith`). The cap needs no more than that. One entry of a setup needs that
the policy forbids to repeat a setup or a thesis, which the shadow takes from one
record: that is the hypothesis `Strict` of `ShadowDisciplineKept`, and true of
`default_demo_discipline_policy`; without it the cap alone remains
(`DaysOfEntriesKept`).

**ShadowControlProofs**, for any sessions and any number of instances:
`ControlTypeCorrect`, `RunsAddressed` (`OneRunsAddressed`), `EndsAreReal`
(`RecordedEndIsReal`). The invariant `ControlInv`: one process has the instance
guard and one session the command lock; of the registered instances all but the
last are at their end; a process that has come to its end does not come back, so
that what a session read of it before it took the lock still holds.

**ReplayProofs**, in three parts.

Thesis and memory, for any facts, time to live, bar limit and crashes:
`LifecycleTyped`, `ThesisIsSound` (`ThesisSound`), `ClosedIsFinal` (`NeverRevived`).
`LifecycleInv` says what a thesis has from its creation (`ThesisBase`), why a
closed one cannot be continued - its memory is terminal, its time is up, or its
bars are (`ThesisGood`) -, and that without a cause the journal has the kernel's
memory (`MemoryKept`).

The replay, for any bars, prices, signals, stops and policies: `EntriesFollow`
(`EntryFollowsThesis`) and `DailyCapHolds` (`DailyCapButCarried`). What waits in a
queue was decided on the bar in hand, and an entry that waits is the only one
and of the thesis eligible then (`QueueKept`). `CapInv` relates fills, the desk's
count and the queue: the fills decided today are no more than the count, and an
entry waits only below the cap. What Discipline and Risk leave of a proposal
once they let it pass comes from `DecisionPolicyProofs`.

One position, under `OnePositionPolicy`, the defaults of the shared kernel (one
position, no thesis entered twice, expired theses closed): `BookStaysInOrder`
(`BookInOrder`). `BookInv` adds that a position whose thesis is no longer in hand
was reversed, and that one whose thesis has run out has its close on the way
(`LookedAfter`).

**GovernanceProofs**, in three parts.

Stores, for any processes, versions, families and bounds: `GovernanceTypeCorrect`;
`ForksNeedOverlap`, that a history which no two appends overlapped can be
replayed; `AuthorizationsLinear`, that authorisations refine `LinearHistory`,
overlaps or not; `AuthorizedSafely`. The invariant `GInv` says of every store
nobody overlapped that its history can be replayed and that a writer between
check and insert still names the latest record and is alone there (`Sound`); of
the authorisations that nobody is ever between the two (`LockHeld`), since that
store takes the lock before it looks. `StatusesFollow` (`LifecycleRespected`) and
`PlansAreNominated` (`PlansFollowCandidacy`) rest on histories that only grow: a
transition was legal after the record it names when it was drafted and is so for
good (`TransitionsLegal`), so that where it names the latest one no status follows
a rejection; a plan that is being registered has seen a candidate, which stays on
record though the proposal may have moved on (`PlansNominated`).

Reflections, for any days, weeks, experiences and interleavings: `EvidenceIsThere`
(`ProposalsStandOnEvidence`), `ProvenanceHolds` (`SourcesInSight`). Stores only grow
(`Grown`) and a command reads the sources of its subjects after the subjects, so
that what a record named when it was written is there for whoever reads it
later. `ReflectionInv` says it of each daily (`Daylong`), each weekly (`Weeklong`),
of what a command has in hand (`BuilderKept`), and of proposals (`Stands`).

Explanations, for any callers and attempts: `FirstReused` (`ReusesTheFirst`) and
`OneAnswerGiven` (`OneAnswerPerKey`), that `Reasoning` implements
`RecoverableRequest` for every key. The first completed attempt of a key is
settled when it completes (`FirstThere`), and a caller that found one holds that
one.

**GovernedExecutionProofs**, for any processes, requests, run keys and engines:
`ExecutionTypeCorrect`, `RecordsSound` (`RecordsOfOneExecution`) and `OneOutcome`,
that the module implements `RecoverableRequest`. The invariant `ExecutionInv` is
about the time between a process's look and its write: outputs only grow, an
evaluation made outside is written once, and who is about to write an audit
describes what is on record already.

**ResearchProofs**, in five parts.

Training runs, for any experiments, models, folds and faults: `ReportsStand`
(`ReportsRestOnArtifacts`). `InHand` says what is there at each step of a run, which
is what the next write of the same run stands on. A fault leaves the registry as
it is or cut off, empty and unreadable (`RegistryLeft`, `FaultLeaves`); nobody
writes it again after that, and what a tracker says of a model no longer
registered rests on its directory alone.

Experiences, for any specialists and any number of bars: `ExperiencesAgree`
(`TellingsAgree`). `StoryInv` says what the book tells of its proposal (`BookTold`),
the looks of the bars between (`LooksTold`), and the trades of the looks that
ended them (`TradesTold`): each decision has one fill, one trade and one exit to
be joined with, or none.

Splits, for any number of rows, any rising candles and any lengths:
`LabelsKeptApart` (`SplitsKeepLabelsApart`), from `ChronologicalKeepsApart` and
`DevelopmentKeepsApart` for one split each. Row numbers are not candles, rows
having been dropped in between, so a purge of so many rows is at least so many
candles: rising numbers lie at least as far apart as their positions
(`RowsApart`). That is an induction, done by the least counterexample.

Fusion, for any finite set of specialists, evidence and policy: `NoSideFavoured`
(`NoSideIsFavoured`). The community modules define a sum as a fold, about which
no library fact can be cited without an operator as a parameter. `SumIsTabled`
therefore gives the fold a table of its value on every subset, and what is needed (a sum is a natural number, equal summands have equal sums) is
told of the table. Exchanging bulls and bears leaves every sum but the two sides'
alone and exchanges those (`MirroredSums`), so that the thresholds answer the same
and the sides change places (`MirroredActs`).

Market data, for any candles, pauses, timeframe, swing widths, channel and
barriers: `DatasetsReproduce` (`Reproducible`), `RowsLookBack` (`NoLookAhead`) and
`LabelsMirror` (`LongAndShortMirror`). `MarketInv` says that candles are in the
order of time and that the dataset is what its cutoff gives of the history at
hand. That survives a new candle, and a forming one at the end of an export,
because everything in a row is a function of a stretch of candles two exports
share: each feature has a lemma of its own (`SwingSame`, `LevelSame`,
`BreaksSame`, `AboveSame`, `BiasSame`, `ContextSame`), `FeaturesSame` and
`AssembleSame` join them. `NoLookAhead` then compares a row with the same features
computed on the shorter stretch that had closed when it was decided on. The
labels' theorem assumes nothing of the market but that prices are numbers.

Every safety invariant and action property the passing runs check is stated by a
theorem. Model-checked only: the liveness properties (`StopEnds`, `OrphanEnds`,
`RetryCompletes`, `Settles`), as liveness under fairness and ENABLED are out of
the provers' reach. So is induction over data with an operator as its parameter;
where a theorem above needs an induction it goes by the least counterexample or
by a table.

Definitions that hold and are in no run: the type invariants that no theorem
states and, all of them proved, `Reproducible` and `LongAndShortMirror` (MarketData), `LifecycleRespected` and `PlansFollowCandidacy`
(Governance). Added to `research` and `governance` TLC finds them to hold there.

## 5. What the models leave out

Execution boundary. Checkpoints; statuses the MT5 transport never produces
(SUBMITTED, CANCELLED). An answer that says placed, done or partially done is
taken to be true of the order, an order is filled within `order_send` or not at
all, and a deal's ticket is never the ticket of an order or a position. Prices,
spreads, volume grids and expiry are the environment's verdicts.

Orchestrator. The decision plan is arbitrary, so what Master, Discipline and
Risk decide is not trusted for any property there. Configuration is fixed over
a restart and the account over a behaviour (both vary in `ExecutionBoundary`).
DISABLED and REPLAY are one mode, STOPPING and STOPPED one phase,
`shutdown_requested` one with the execution gate. Controls change between
cycles, as everything is on one thread. Statuses of a position action taken
from an acknowledgement are one ("ANSWERED"). A missing adapter is left out. A
plan has two position actions at most.

Runtime stream. The facts of a snapshot are delivered singly and interleave
with other events, which allows more than the code. Feature snapshots, the
retention filter and the virtual clock of a replay are left out. The two
feedback sources are one, the five specialists two. The clock is monotonic and
moves between cycles. The phase is not consulted: events are taken that a
BLOCKED runtime would not take.

Shadow runtime. In `LiveShadow` a crash inside `process` happens between the
steps of the loop and within a refresh; the market may yield no bar at any
poll. In `ShadowFunnel` the phase is SAFE, one side stands for both (with no
position and no exit the Discipline Guard does not tell them apart), what
`runner.process` journals is `RuntimeStream`'s, and `record_availability` and the
performance records are left out. In `BrokerClock` offsets are whole hours.
`ShadowControl` leaves out log files and the cleanup of old output.

Deciding. The other specialists' evidence is a free choice; confidence is
whether it reaches 0.7 and which way it moved; prices, volumes and fractions are
small integers; of several reasons found together only the result is kept. One
session a day in the replay.

Reflection and research. Time stamps, contents and statistics are values: a
finding is what the majority of a day's trades says. What an engine or a
training run computes is a value or nothing at all. One command at a time writes
the registry and the suites' files: two at once are outside what they are
designed for (`docs/project_status.md:302`). A `model_id` found in the registry
under another directory is left out. Features without memory or
delay are left out, as is cleaning, which only drops and reports rows.

Not modelled: the specialists other than the chart's (fixed weights over
features), experience analytics and the retrieval contracts (counts, and
contracts without an implementation), the dashboard's readers and views and the
command lines (read-only projections), and the tool catalogue (static tables;
`model_registry.py` only re-exports the registry that `QuantRuns` models).

## 6. What could be added

1. The broker facts of `mt5/position.py` in `Orchestrator`, in place of the
   abbreviated acknowledgement of a position action.
2. Discipline's session cap apart from its daily cap, in `SystemReplay`.
3. The dashboard's view of a journal that is being written.
