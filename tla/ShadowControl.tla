--------------------------- MODULE ShadowControl ---------------------------
(***************************************************************************)
(* The processes around the live shadow runtime: the dashboard sessions    *)
(* that start, stop and restart it, the control store they share with it,  *)
(* and the runtime process itself with its guard.                          *)
(*                                                                         *)
(* A command of a session runs under the command lock, a status request    *)
(* does not:                                                               *)
(*   idle -> seen -> judged -> spawned -> registered -> idle      (start)  *)
(*                          -> asked -> waiting -> left | forced  (stop)   *)
(* The process of an instance:                                             *)
(*   none -> spawned -> boot -> top -> turn -> top ...             *)
(*   top -> closing -> done -> gone, from anywhere -> failed -> gone       *)
(* The store is durable; everything else belongs to a process that may be  *)
(* killed at any point.                                                    *)
(***************************************************************************)
EXTENDS Naturals, Sequences, SequencesExt

CONSTANTS
  Sessions,       (* dashboard sessions, each with a controller            *)
  Operators,      (* bound: the sessions that give commands                *)
  MaxInstances    (* bound: instances the controllers may spawn            *)

ASSUME OperatorsAssumption == Operators \subseteq Sessions
ASSUME InstancesAssumption == MaxInstances \in Nat

Instances == 1..MaxInstances

VARIABLES
  registry,   (* store: registered instances in order                      *)
  latest,     (* store: the last lifecycle event of each instance          *)
  stops,      (* store: instances asked to stop                            *)
  proc,       (* the process of each instance, as the OS has it            *)
  session     (* what each session is at                                   *)

store == <<registry, latest, stops>>
controlVars == <<store, proc, session>>

(* An event is its status; of the reasons only MISSING_LIFECYCLE_STATE, an *)
(* ERROR, is kept apart.  RUNNING is also WAITING_FOR_MARKET: the poll      *)
(* chooses one of them and no one tells them apart.                        *)
Terminal == {"STOPPED", "ERROR", "MISSING_LIFECYCLE_STATE"}
NoEvent == "NONE"
Events == Terminal \cup {NoEvent, "STARTING", "RUNNING", "STOPPING"}

Guarded == {"boot", "top", "turn", "closing", "hung"}
Alive == Guarded \cup {"spawned", "done", "failed"}
Ended == {"gone", "reused"}

Commands == {"status", "start", "stop", "restart"}
Idle == [op |-> "idle", command |-> "status", instance |-> 0, seen |-> NoEvent]

Registered(i) == Contains(registry, i)
Locked == \E s \in Sessions : session[s].op \notin {"idle", "dead"} /\ session[s].command # "status"

ControlTypeOK ==
  /\ registry \in Seq(Instances) /\ IsInjective(registry)
  /\ \A i \in Instances : latest[i] \in Events
  /\ stops \subseteq {registry[k] : k \in DOMAIN registry}
  /\ proc \in [Instances -> Alive \cup Ended \cup {"none"}]
  /\ \A s \in Sessions :
       /\ session[s].op \in {"idle", "dead", "seen", "judged", "spawned", "registered",
                             "asked", "waiting", "left", "forced"}
       /\ session[s].command \in Commands

ControlInit ==
  /\ registry = <<>> /\ latest = [i \in Instances |-> NoEvent] /\ stops = {}
  /\ proc = [i \in Instances |-> "none"]
  /\ session = [s \in Sessions |-> Idle]

Become(i, state) == proc' = [proc EXCEPT ![i] = state]

(* append_event; its instance must be registered.                          *)
Log(i, event) == latest' = [latest EXCEPT ![i] = event]

-----------------------------------------------------------------------------
(* THE RUNTIME PROCESS                                                     *)

(* Mutant: the lock file is opened and never locked.                       *)
AcquireMutant(i) ==
  /\ proc[i] = "spawned"
  /\ Become(i, "boot")
  /\ UNCHANGED <<store, session>>

(* The guard is taken without waiting.                                     *)
Acquire(i) ==
  /\ proc[i] = "spawned"
  /\ Become(i, IF \E j \in Instances : proc[j] \in Guarded THEN "failed" ELSE "boot")
  /\ UNCHANGED <<store, session>>

(* Mutant: the events do not refer to the instances (no foreign key).      *)
RecordableMutant(i) == TRUE

Recordable(i) == Registered(i)

(* startup() and the record RUNTIME_READY: it fails for an instance the    *)
(* controller has not registered.                                          *)
Ready(i) ==
  /\ proc[i] = "boot"
  /\ \/ Recordable(i) /\ Become(i, "top") /\ Log(i, "RUNNING")
     \/ ~Recordable(i) /\ Become(i, "failed") /\ UNCHANGED latest
  /\ UNCHANGED <<registry, stops, session>>

(* Mutant: the request is looked at only when there is no bar to process.  *)
TopMutant(i) ==
  /\ proc[i] = "top"
  /\ \/ i \in stops /\ Become(i, "closing") /\ Log(i, "STOPPING")
     \/ Become(i, "turn") /\ UNCHANGED latest
  /\ UNCHANGED <<registry, stops, session>>

(* The top of the loop: a stop request addressed to this instance ends it. *)
Top(i) ==
  /\ proc[i] = "top"
  /\ IF i \in stops
     THEN Become(i, "closing") /\ Log(i, "STOPPING")
     ELSE Become(i, "turn") /\ UNCHANGED latest
  /\ UNCHANGED <<registry, stops, session>>

(* The poll and its heartbeat, then the bar and the sleep, which a stop    *)
(* request cuts short.                                                     *)
Turn(i) ==
  /\ proc[i] = "turn" /\ Become(i, "top")
  /\ Log(i, "RUNNING")
  /\ UNCHANGED <<registry, stops, session>>

(* Mutant: the record is written before the guard is given up.             *)
CloseMutant(i) ==
  /\ proc[i] = "closing"
  /\ IF latest[i] = "STOPPED" THEN Become(i, "gone") /\ UNCHANGED latest
     ELSE Log(i, "STOPPED") /\ UNCHANGED proc
  /\ UNCHANGED <<registry, stops, session>>

(* shutdown(), the guard given up, the last record.                        *)
Close(i) ==
  \/ proc[i] = "closing" /\ Become(i, "done") /\ UNCHANGED <<store, session>>
  \/ /\ proc[i] = "done" /\ Become(i, "gone")
     /\ Log(i, "STOPPED")
     /\ UNCHANGED <<registry, stops, session>>

(* An exception has left the guard; recording it may itself be refused.    *)
Fail(i) ==
  /\ proc[i] = "failed" /\ Become(i, "gone")
  /\ IF Recordable(i) THEN Log(i, "ERROR")
     ELSE UNCHANGED latest
  /\ UNCHANGED <<registry, stops, session>>

RuntimeStep(i) ==
  Acquire(i) \/ Ready(i) \/ Top(i) \/ Turn(i) \/ Close(i) \/ Fail(i)

(* What befalls a process: an exception, a call into the terminal that     *)
(* never returns, its death, and its pid given to another process.         *)
Befall(i) ==
  /\ \/ proc[i] \in Guarded \ {"hung"} /\ Become(i, "failed")
     \/ proc[i] \in {"boot", "turn"} /\ Become(i, "hung")
     \/ proc[i] \in Alive /\ Become(i, "gone")
     \/ proc[i] = "gone" /\ Become(i, "reused")
  /\ UNCHANGED <<store, session>>

-----------------------------------------------------------------------------
(* THE CONTROLLER                                                          *)

At(s, op) == session[s].op = op
Continue(s, op) == session' = [session EXCEPT ![s].op = op]
Return(s) == session' = [session EXCEPT ![s] = Idle]

(* A command takes the lock or raises; status() reads the last event of    *)
(* the last instance.  With no instance there is nothing to stop.          *)
Command(s, command) ==
  /\ At(s, "idle")
  /\ command # "status" => s \in Operators /\ ~Locked
  /\ registry # <<>> \/ command \in {"start", "restart"}
  /\ session' = [session EXCEPT ![s] =
       IF registry = <<>>
       THEN [op |-> "judged", command |-> "start", instance |-> 0,
             seen |-> "STOPPED"]
       ELSE [op |-> "seen", command |-> command, instance |-> Last(registry),
             seen |-> latest[Last(registry)]]]
  /\ UNCHANGED <<store, proc>>

(* What status() makes of the event it saw and of the process it finds.    *)
Judgement(i, seen) ==
  CASE seen = NoEvent -> "MISSING_LIFECYCLE_STATE"
    [] seen # NoEvent /\ proc[i] = "gone" /\ seen \notin Terminal ->
         IF seen = "STOPPING" /\ i \in stops
         THEN "STOPPED"
         ELSE "ERROR"
    [] seen # NoEvent /\ proc[i] = "reused" -> "ERROR"
    [] OTHER -> seen

Judge(s) ==
  LET i == session[s].instance  verdict == Judgement(i, session[s].seen) IN
  /\ At(s, "seen")
  /\ IF verdict # session[s].seen THEN Log(i, verdict) ELSE UNCHANGED latest
  /\ IF session[s].command = "status" THEN Return(s)
     ELSE session' = [session EXCEPT ![s].op = "judged", ![s].seen = verdict]
  /\ UNCHANGED <<registry, stops, proc>>

(* start(): not while the instance's exact process lives.                  *)
MayStart(s) ==
  /\ session[s].instance # 0 => proc[session[s].instance] \notin Alive
  /\ session[s].seen \in Terminal

Spawn(s) ==
  /\ At(s, "judged") /\ session[s].command = "start"
  /\ IF MayStart(s)
     THEN \E i \in Instances :
            /\ \A j \in Instances : proc[j] = "none" <=> j >= i
            /\ Become(i, "spawned")
            /\ session' = [session EXCEPT ![s].op = "spawned", ![s].instance = i]
     ELSE Return(s) /\ UNCHANGED proc
  /\ UNCHANGED store

(* register_instance, then the event STARTING.                             *)
Register(s) ==
  LET i == session[s].instance IN
  \/ /\ At(s, "spawned")
     /\ registry' = registry \o <<i>> /\ Continue(s, "registered")
     /\ UNCHANGED <<latest, stops, proc>>
  \/ /\ At(s, "registered")
     /\ Log(i, "STARTING") /\ Return(s)
     /\ UNCHANGED <<registry, stops, proc>>

(* The store refuses one of the two: the exact process is terminated.      *)
RegisterFails(s) ==
  /\ session[s].op \in {"spawned", "registered"}
  /\ IF proc[session[s].instance] \in Alive THEN Become(session[s].instance, "gone") ELSE UNCHANGED proc
  /\ Return(s)
  /\ UNCHANGED store

(* What restart() does with the snapshot stop() returns.                   *)
Conclude(s, status) ==
  IF session[s].command = "restart" /\ status = "STOPPED"
  THEN session' = [session EXCEPT ![s] =
         [op |-> "seen", command |-> "start", instance |-> Last(registry),
          seen |-> latest'[Last(registry)]]]
  ELSE Return(s)

(* stop() up to the request, which is durable before anything else is.     *)
AskStop(s) ==
  LET i == session[s].instance IN
  /\ At(s, "judged") /\ session[s].command \in {"stop", "restart"}
  /\ \/ /\ session[s].seen \in Terminal
        /\ UNCHANGED <<latest, stops>> /\ Conclude(s, session[s].seen)
     \/ /\ session[s].seen \notin Terminal /\ proc[i] \notin Alive
        /\ Log(i, "ERROR")
        /\ Return(s) /\ UNCHANGED stops
     \/ /\ session[s].seen \notin Terminal /\ proc[i] \in Alive
        /\ stops' = stops \cup {i} /\ Continue(s, "asked") /\ UNCHANGED latest
  /\ UNCHANGED <<registry, proc>>

Stopping(s) ==
  /\ At(s, "asked")
  /\ Log(session[s].instance, "STOPPING")
  /\ Continue(s, "waiting")
  /\ UNCHANGED <<registry, stops, proc>>

(* The process is seen to leave, or the grace is over: then the exact      *)
(* process is terminated, and no other.                                    *)
Wait(s) ==
  LET i == session[s].instance IN
  /\ At(s, "waiting")
  /\ \/ proc[i] = "gone" /\ Continue(s, "left") /\ UNCHANGED <<latest, proc>>
     \/ proc[i] \in Alive /\ Become(i, "gone") /\ Continue(s, "forced") /\ UNCHANGED latest
     \/ /\ proc[i] \in Ended /\ Log(i, "ERROR")
        /\ Return(s) /\ UNCHANGED proc
  /\ UNCHANGED <<registry, stops>>

Stopped(s) ==
  LET i == session[s].instance IN
  /\ \/ At(s, "left") /\ Log(i, "STOPPED") /\ Conclude(s, "STOPPED")
     \/ At(s, "forced") /\ Log(i, "ERROR") /\ Conclude(s, "ERROR")
  /\ UNCHANGED <<registry, stops, proc>>

(* The process of the session ends, its lock with it; it may be reopened.  *)
(* A request for the status that ends so has done nothing.                 *)
Crash(s) ==
  /\ s \in Operators /\ session[s].op \notin {"idle", "dead"}
  /\ session' = [session EXCEPT ![s] = [Idle EXCEPT !.op = "dead"]]
  /\ UNCHANGED <<store, proc>>

Reopen(s) == At(s, "dead") /\ Return(s) /\ UNCHANGED <<store, proc>>

ControllerStep(s) ==
  \/ Judge(s) \/ Spawn(s) \/ Register(s) \/ AskStop(s) \/ Stopping(s) \/ Wait(s) \/ Stopped(s)

-----------------------------------------------------------------------------
ControlNext ==
  \/ \E i \in Instances : RuntimeStep(i) \/ Befall(i)
  \/ \E s \in Sessions : \/ \E command \in Commands : Command(s, command)
                         \/ ControllerStep(s) \/ RegisterFails(s) \/ Crash(s) \/ Reopen(s)

(* A process that was given something to do does it; that it hangs, dies   *)
(* or is asked for something is never assumed.                             *)
ControlFairness ==
  /\ \A i \in Instances : WF_controlVars(RuntimeStep(i))
  /\ \A s \in Sessions : WF_controlVars(ControllerStep(s))

ControlSpec == ControlInit /\ [][ControlNext]_controlVars /\ ControlFairness

-----------------------------------------------------------------------------
(* PROPERTIES                                                              *)

Running == {"top", "turn", "closing"}

(* docs/live_shadow_runtime.md: "one process per resolved output           *)
(* directory", whatever the store says of either, when a start overtakes a *)
(* process that was spawned and never registered.                          *)
OneRuns ==
  \A i, j \in Instances : proc[i] \in Guarded /\ proc[j] \in Guarded => i = j

(* A managed runtime that takes turns is the instance registered last, the *)
(* one that stop() addresses: a controller that dies between the spawn and *)
(* the registration leaves no runtime behind that nobody can stop.         *)
RunnerIsAddressed ==
  \A i \in Instances : proc[i] \in Running => registry # <<>> /\ Last(registry) = i

(* At any time one runtime at most, and it is the one that can be stopped. *)
OneRunsAddressed == OneRuns /\ RunnerIsAddressed

(* An instance recorded as stopped, or as failed for a reason that its     *)
(* process gave, holds the guard no more, though the session, the runtime  *)
(* and a concurrent status request all write that record.                  *)
RecordedEndIsReal ==
  \A i \in Instances :
    latest[i] \in Terminal \ {"MISSING_LIFECYCLE_STATE"} => proc[i] \notin Guarded

(* A stop request ends its instance even if the session that made it is    *)
(* gone: the runtime polls it between any two turns.  A call into the       *)
(* terminal that never returns escapes the request, but not the command     *)
(* that waits for its end, unless the process of that session dies.         *)
StopEnds ==
  \A i \in Instances :
    /\ (i \in stops) ~> (proc[i] \in Ended \cup {"hung"})
    /\ (\E s \in Sessions : At(s, "waiting") /\ session[s].instance = i)
         ~> (proc[i] \in Ended \/ \E s \in Sessions : At(s, "dead"))

(* A spawned process that is never registered ends by itself.              *)
Abandoned(i) ==
  /\ proc[i] \in Alive /\ ~Registered(i)
  /\ \A s \in Sessions : session[s].op = "spawned" => session[s].instance # i

OrphanEnds == \A i \in Instances : Abandoned(i) ~> (proc[i] \in Ended \cup {"hung"})

=============================================================================
