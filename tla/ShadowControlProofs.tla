------------------------ MODULE ShadowControlProofs ------------------------
(***************************************************************************)
(* Proofs about the control of the shadow runtime, for any number of       *)
(* sessions, of operators among them and of instances.  A process never    *)
(* comes back from its end, and an instance is registered only when those  *)
(* registered before it have come to theirs.                               *)
(***************************************************************************)
EXTENDS ShadowControl, TLAPS

Ops == {"idle", "dead", "seen", "judged", "spawned", "registered",
        "asked", "waiting", "left", "forced"}
Session == [op : Ops, command : Commands, instance : 0..MaxInstances, seen : Events]

WellTyped ==
  /\ registry \in Seq(Instances)
  /\ latest \in [Instances -> Events]
  /\ stops \subseteq Instances
  /\ proc \in [Instances -> Alive \cup Ended \cup {"none"}]
  /\ session \in [Sessions -> Session]

(* The session holds the command lock.                                     *)
Holds(s) == session[s].op \notin {"idle", "dead"} /\ session[s].command # "status"

OneHolds == \A s, v \in Sessions : Holds(s) /\ Holds(v) => s = v

(* All that were registered have a process, and all but the last had one.  *)
RegistryKept ==
  /\ \A k \in DOMAIN registry : proc[registry[k]] # "none"
  /\ \A k \in DOMAIN registry : k # Len(registry) => proc[registry[k]] \in Ended

RunnersRegistered == \A i \in Instances : proc[i] \in Running => Registered(i)

EndsKept == \A i \in Instances : latest[i] \in {"STOPPED", "ERROR"} => proc[i] \in Ended

OfLast(s) == registry # <<>> /\ session[s].instance = Last(registry)

(* What a session has made sure of at each of its steps.                   *)
SessionKept(s) ==
  /\ At(s, "seen") => Registered(session[s].instance) /\ (Holds(s) => OfLast(s))
  /\ At(s, "judged") =>
       /\ Holds(s)
       /\ \/ session[s].instance = 0 /\ registry = <<>> /\ session[s].command = "start"
          \/ OfLast(s)
  /\ At(s, "spawned") =>
       /\ Holds(s) /\ session[s].instance \in Instances /\ ~Registered(session[s].instance)
       /\ proc[session[s].instance] # "none"
       /\ \A k \in DOMAIN registry : proc[registry[k]] \in Ended
  /\ session[s].op \in {"registered", "asked", "waiting", "left", "forced"} => Holds(s) /\ OfLast(s)
  /\ session[s].op \in {"left", "forced"} => proc[session[s].instance] \in Ended

ControlInv ==
  /\ WellTyped /\ OneRuns /\ OneHolds
  /\ RegistryKept /\ RunnersRegistered /\ EndsKept
  /\ \A s \in Sessions : SessionKept(s)

-----------------------------------------------------------------------------
LEMMA InitControlInv == ControlInit => ControlInv
<1> SUFFICES ASSUME ControlInit PROVE ControlInv
  OBVIOUS
<1> USE DEF ControlInit
<1>1. Idle \in Session /\ Idle.op = "idle"
  BY InstancesAssumption DEF Idle, Session, Ops, Commands, Events
<1>2. \A s \in Sessions : session[s] = Idle /\ session[s].op = "idle"
  BY <1>1
<1>3. WellTyped
  BY <1>1 DEF WellTyped, Events
<1>4. \A s \in Sessions : SessionKept(s) /\ ~Holds(s)
  BY <1>2 DEF SessionKept, Holds, At
<1>5. OneRuns /\ RegistryKept /\ RunnersRegistered /\ EndsKept
  BY DEF OneRuns, RegistryKept, RunnersRegistered, EndsKept, Guarded, Running, NoEvent
<1> QED
  BY <1>3, <1>4, <1>5 DEF ControlInv, OneHolds

(* The instance registered last.                                           *)
LEMMA LastRegistered ==
  ASSUME registry \in Seq(Instances), registry # <<>>
  PROVE  /\ Last(registry) \in Instances
         /\ Len(registry) \in DOMAIN registry
         /\ registry[Len(registry)] = Last(registry)
         /\ Registered(Last(registry))
  BY DEF Last, Registered, Contains

(* The instances that were registered are those of the sequence.           *)
LEMMA RegisteredAt ==
  ASSUME registry \in Seq(Instances), NEW i, Registered(i)
  PROVE  i \in Instances /\ \E k \in DOMAIN registry : registry[k] = i
  BY DEF Registered, Contains

(* Only the last of the registered instances can run.                      *)
LEMMA OthersEnded ==
  ASSUME WellTyped, RegistryKept, NEW i, Registered(i), i # Last(registry)
  PROVE  proc[i] \in Ended
<1>1. PICK k \in DOMAIN registry : registry[k] = i
  BY RegisteredAt DEF WellTyped
<1>2. registry # <<>>
  BY <1>1 DEF WellTyped
<1>3. k # Len(registry)
  BY <1>1, <1>2, LastRegistered DEF WellTyped
<1> QED
  BY <1>1, <1>3 DEF RegistryKept

-----------------------------------------------------------------------------
(* Processes only go on: none that was given comes back from its end.      *)
Onward ==
  \A i \in Instances : /\ proc[i] # "none" => proc'[i] # "none"
                       /\ proc[i] \in Ended => proc'[i] \in Ended

(* What the registry promises of the processes survives that.              *)
LEMMA OnwardRegistry ==
  ASSUME WellTyped, RegistryKept, Onward, UNCHANGED registry
  PROVE  RegistryKept'
<1>1. \A k \in DOMAIN registry : registry[k] \in Instances
  BY DEF WellTyped
<1> QED
  BY <1>1 DEF RegistryKept, Onward

(* So does what a session that stays where it is has made sure of.         *)
LEMMA OnwardSession ==
  ASSUME WellTyped, Onward, UNCHANGED registry, NEW v \in Sessions,
         SessionKept(v), session'[v] = session[v]
  PROVE  SessionKept(v)'
<1>1. \A k \in DOMAIN registry : registry[k] \in Instances
  BY DEF WellTyped
<1>2. session[v].op \in {"left", "forced"} => session[v].instance \in Instances
  BY LastRegistered DEF WellTyped, SessionKept, OfLast
<1>3. /\ session[v].op \in {"left", "forced"} => proc'[session[v].instance] \in Ended
      /\ At(v, "spawned") => /\ proc'[session[v].instance] # "none"
                             /\ \A k \in DOMAIN registry : proc'[registry[k]] \in Ended
  BY <1>1, <1>2 DEF SessionKept, Onward
<1> QED
  BY <1>3 DEF SessionKept, At, Holds, OfLast, Registered

(* A step of one process, which may log an event of its instance.          *)
LEMMA ProcessMoves ==
  ASSUME ControlInv, NEW i \in Instances, NEW x \in Alive \cup Ended, NEW e \in Events,
         proc[i] # "none", proc[i] \in Ended => x \in Ended,
         x \in Guarded => proc[i] \in Guarded \/ \A j \in Instances : proc[j] \notin Guarded,
         x \in Running => Registered(i),
         e \in {"STOPPED", "ERROR"} => x \in Ended,
         Become(i, x), Log(i, e), UNCHANGED <<registry, stops, session>>
  PROVE  ControlInv'
<1>1. /\ proc' \in [Instances -> Alive \cup Ended \cup {"none"}] /\ proc'[i] = x
      /\ \A j \in Instances \ {i} : proc'[j] = proc[j]
  BY DEF ControlInv, WellTyped, Become
<1>2. /\ latest' \in [Instances -> Events] /\ latest'[i] = e
      /\ \A j \in Instances \ {i} : latest'[j] = latest[j]
  BY DEF ControlInv, WellTyped, Log
<1>3. Onward
  BY <1>1 DEF Onward, Alive, Ended, Guarded
<1>4. WellTyped'
  BY <1>1, <1>2 DEF ControlInv, WellTyped
<1>5. OneRuns'
  BY <1>1 DEF ControlInv, OneRuns
<1>6. RunnersRegistered' /\ EndsKept'
  BY <1>1, <1>2 DEF ControlInv, RunnersRegistered, EndsKept, Registered
<1>7. RegistryKept' /\ \A v \in Sessions : SessionKept(v)'
  BY <1>3, OnwardRegistry, OnwardSession DEF ControlInv
<1>8. OneHolds'
  BY DEF ControlInv, OneHolds, Holds
<1> QED
  BY <1>4, <1>5, <1>6, <1>7, <1>8 DEF ControlInv

(* Such a step when it logs nothing.                                       *)
LEMMA ProcessMovesSilently ==
  ASSUME ControlInv, NEW i \in Instances, NEW x \in Alive \cup Ended,
         proc[i] # "none", proc[i] \in Ended => x \in Ended,
         x \in Guarded => proc[i] \in Guarded \/ \A j \in Instances : proc[j] \notin Guarded,
         x \in Running => Registered(i),
         Become(i, x), UNCHANGED <<store, session>>
  PROVE  ControlInv'
<1>1. latest[i] \in Events /\ Log(i, latest[i])
  BY DEF ControlInv, WellTyped, store, Log
<1>2. latest[i] \in {"STOPPED", "ERROR"} => x \in Ended
  BY DEF ControlInv, EndsKept
<1> QED
  BY <1>1, <1>2, ProcessMoves DEF store

LEMMA RuntimeControlInv ==
  ASSUME ControlInv, NEW i \in Instances, RuntimeStep(i) PROVE ControlInv'
<1> USE DEF Alive, Ended, Guarded, Running, Events, Terminal
<1>1. CASE Acquire(i)
  <2>1. CASE \E j \in Instances : proc[j] \in Guarded
    BY <1>1, <2>1, ProcessMovesSilently DEF Acquire
  <2>2. CASE ~\E j \in Instances : proc[j] \in Guarded
    BY <1>1, <2>2, ProcessMovesSilently DEF Acquire
  <2> QED
    BY <2>1, <2>2
<1>2. CASE Ready(i)
  <2>1. CASE Recordable(i) /\ Become(i, "top") /\ Log(i, "RUNNING")
    BY <1>2, <2>1, ProcessMoves DEF Ready, Recordable
  <2>2. CASE Become(i, "failed") /\ UNCHANGED latest
    BY <1>2, <2>2, ProcessMovesSilently DEF Ready, store
  <2> QED
    BY <1>2, <2>1, <2>2 DEF Ready
<1>3. CASE Top(i)
  <2>1. Registered(i)
    BY <1>3 DEF Top, ControlInv, RunnersRegistered
  <2>2. CASE Become(i, "closing") /\ Log(i, "STOPPING")
    BY <1>3, <2>1, <2>2, ProcessMoves DEF Top
  <2>3. CASE Become(i, "turn") /\ UNCHANGED latest
    BY <1>3, <2>1, <2>3, ProcessMovesSilently DEF Top, store
  <2> QED
    BY <1>3, <2>2, <2>3 DEF Top
<1>4. CASE Turn(i)
  <2>1. Registered(i)
    BY <1>4 DEF Turn, ControlInv, RunnersRegistered
  <2> QED
    BY <1>4, <2>1, ProcessMoves DEF Turn
<1>5. CASE Close(i)
  <2>1. CASE proc[i] = "closing" /\ Become(i, "done") /\ UNCHANGED <<store, session>>
    BY <2>1, ProcessMovesSilently
  <2>2. CASE /\ proc[i] = "done" /\ Become(i, "gone") /\ Log(i, "STOPPED")
             /\ UNCHANGED <<registry, stops, session>>
    BY <2>2, ProcessMoves
  <2> QED
    BY <1>5, <2>1, <2>2 DEF Close
<1>6. CASE Fail(i)
  <2>1. CASE Log(i, "ERROR")
    BY <1>6, <2>1, ProcessMoves DEF Fail
  <2>2. CASE UNCHANGED latest
    BY <1>6, <2>2, ProcessMovesSilently DEF Fail, store
  <2> QED
    BY <1>6, <2>1, <2>2 DEF Fail
<1> QED
  BY <1>1, <1>2, <1>3, <1>4, <1>5, <1>6 DEF RuntimeStep

LEMMA BefallControlInv ==
  ASSUME ControlInv, NEW i \in Instances, Befall(i) PROVE ControlInv'
<1> USE DEF Alive, Ended, Guarded, Running
<1>1. UNCHANGED <<store, session>>
  BY DEF Befall
<1>2. CASE proc[i] \in Guarded \ {"hung"} /\ Become(i, "failed")
  BY <1>1, <1>2, ProcessMovesSilently
<1>3. CASE proc[i] \in {"boot", "turn"} /\ Become(i, "hung")
  BY <1>1, <1>3, ProcessMovesSilently
<1>4. CASE proc[i] \in Alive /\ Become(i, "gone")
  BY <1>1, <1>4, ProcessMovesSilently
<1>5. CASE proc[i] = "gone" /\ Become(i, "reused")
  BY <1>1, <1>5, ProcessMovesSilently
<1> QED
  BY <1>2, <1>3, <1>4, <1>5 DEF Befall

-----------------------------------------------------------------------------
(* A step of one session under its lock: the others keep what they have.   *)
LEMMA SessionMoves ==
  ASSUME ControlInv, NEW s \in Sessions, NEW x \in Session,
         session' = [session EXCEPT ![s] = x], UNCHANGED registry,
         WellTyped', Onward, OneRuns', RunnersRegistered', EndsKept',
         Holds(s)' => \A v \in Sessions \ {s} : ~Holds(v),
         SessionKept(s)'
  PROVE  ControlInv'
<1>1. session'[s] = x /\ \A v \in Sessions \ {s} : session'[v] = session[v]
  BY DEF ControlInv, WellTyped
<1>2. RegistryKept' /\ \A v \in Sessions : SessionKept(v)'
  BY <1>1, OnwardRegistry, OnwardSession DEF ControlInv
<1>3. \A v \in Sessions \ {s} : Holds(v)' <=> Holds(v)
  BY <1>1 DEF Holds
<1>4. OneHolds'
  BY <1>3 DEF ControlInv, OneHolds
<1> QED
  BY <1>2, <1>4 DEF ControlInv

(* Where it logs, an end only of a process that has come to it.            *)
LEMMA SessionLogs ==
  ASSUME ControlInv, NEW s \in Sessions, NEW x \in Session,
         session' = [session EXCEPT ![s] = x],
         NEW i \in Instances, NEW e \in Events, Log(i, e),
         e \in {"STOPPED", "ERROR"} => proc[i] \in Ended,
         UNCHANGED <<registry, stops, proc>>,
         Holds(s)' => \A v \in Sessions \ {s} : ~Holds(v),
         SessionKept(s)'
  PROVE  ControlInv'
<1>1. /\ latest' \in [Instances -> Events] /\ latest'[i] = e
      /\ \A j \in Instances \ {i} : latest'[j] = latest[j]
  BY DEF ControlInv, WellTyped, Log
<1>2. WellTyped'
  BY <1>1 DEF ControlInv, WellTyped
<1>3. Onward /\ OneRuns' /\ RunnersRegistered' /\ EndsKept'
  BY <1>1 DEF ControlInv, Onward, OneRuns, RunnersRegistered, EndsKept, Registered
<1> QED
  BY <1>2, <1>3, SessionMoves

(* Where it only goes on.                                                  *)
LEMMA SessionGoesOn ==
  ASSUME ControlInv, NEW s \in Sessions, NEW x \in Session,
         session' = [session EXCEPT ![s] = x],
         UNCHANGED <<registry, latest, proc>>, stops' \subseteq Instances,
         Holds(s)' => \A v \in Sessions \ {s} : ~Holds(v),
         SessionKept(s)'
  PROVE  ControlInv'
<1>1. WellTyped'
  BY DEF ControlInv, WellTyped
<1>2. Onward /\ OneRuns' /\ RunnersRegistered' /\ EndsKept'
  BY DEF ControlInv, Onward, OneRuns, RunnersRegistered, EndsKept, Registered
<1> QED
  BY <1>1, <1>2, SessionMoves

(* Where it gives a process its end, or an instance that had none a        *)
(* process, which has not taken the guard.                                 *)
LEMMA SessionEndsOrSpawns ==
  ASSUME ControlInv, NEW s \in Sessions, NEW x \in Session,
         session' = [session EXCEPT ![s] = x],
         NEW i \in Instances, NEW state,
         \/ state = "gone" /\ proc[i] # "none"
         \/ state = "spawned" /\ proc[i] = "none",
         Become(i, state), UNCHANGED store,
         Holds(s)' => \A v \in Sessions \ {s} : ~Holds(v),
         SessionKept(s)'
  PROVE  ControlInv'
<1> USE DEF Alive, Ended, Guarded, Running
<1>1. /\ proc' \in [Instances -> Alive \cup Ended \cup {"none"}] /\ proc'[i] = state
      /\ \A j \in Instances \ {i} : proc'[j] = proc[j]
  BY DEF ControlInv, WellTyped, Become
<1>2. WellTyped'
  BY <1>1 DEF ControlInv, WellTyped, store
<1>3. Onward /\ OneRuns' /\ RunnersRegistered' /\ EndsKept'
  BY <1>1 DEF ControlInv, Onward, OneRuns, RunnersRegistered, EndsKept, Registered, store
<1> QED
  BY <1>2, <1>3, SessionMoves DEF store

(* A session that has come to rest has nothing to keep.                    *)
LEMMA Resting ==
  ASSUME WellTyped, NEW s \in Sessions, NEW op \in {"idle", "dead"},
         session' = [session EXCEPT ![s] = [Idle EXCEPT !.op = op]]
  PROVE  SessionKept(s)' /\ ~Holds(s)' /\ [Idle EXCEPT !.op = op] \in Session
<1>1. [Idle EXCEPT !.op = op] \in Session /\ [Idle EXCEPT !.op = op].op = op
  BY InstancesAssumption DEF Idle, Session, Ops, Commands, Events
<1>2. session'[s].op = op
  BY <1>1 DEF WellTyped
<1> QED
  BY <1>1, <1>2 DEF SessionKept, Holds, At

LEMMA Returning ==
  ASSUME WellTyped, NEW s \in Sessions, Return(s)
  PROVE  SessionKept(s)' /\ ~Holds(s)' /\ Idle \in Session
<1>1. Idle = [Idle EXCEPT !.op = "idle"]
  BY DEF Idle
<1> QED
  BY <1>1, Resting DEF Return

(* What the session is after going on to another step of its command.      *)
LEMMA Continuing ==
  ASSUME WellTyped, NEW s \in Sessions, NEW op \in Ops, Continue(s, op)
  PROVE  /\ [session[s] EXCEPT !.op = op] \in Session
         /\ session' = [session EXCEPT ![s] = [session[s] EXCEPT !.op = op]]
         /\ session'[s].op = op
         /\ session'[s].command = session[s].command
         /\ session'[s].instance = session[s].instance
<1>1. session[s] \in Session
  BY DEF WellTyped
<1>2. [session[s] EXCEPT !.op = op] \in Session
  BY <1>1 DEF Session
<1>3. session' = [session EXCEPT ![s] = [session[s] EXCEPT !.op = op]]
  BY DEF Continue
<1> QED
  BY <1>1, <1>2, <1>3 DEF WellTyped, Session

-----------------------------------------------------------------------------
(* The lock is free, or the command is a request for the status.           *)
LEMMA CommandControlInv ==
  ASSUME ControlInv, NEW s \in Sessions, NEW command \in Commands, Command(s, command)
  PROVE  ControlInv'
<1> DEFINE x == IF registry = <<>>
                THEN [op |-> "judged", command |-> "start", instance |-> 0, seen |-> "STOPPED"]
                ELSE [op |-> "seen", command |-> command, instance |-> Last(registry),
                      seen |-> latest[Last(registry)]]
<1>1. /\ session' = [session EXCEPT ![s] = x] /\ UNCHANGED <<store, proc>>
      /\ command # "status" => ~Locked
      /\ registry # <<>> \/ command \in {"start", "restart"}
  BY DEF Command
<1>2. x \in Session
  <2>1. CASE registry = <<>>
    BY <2>1, InstancesAssumption DEF Session, Ops, Commands, Events, Terminal
  <2>2. CASE registry # <<>>
    <3>1. Last(registry) \in Instances /\ latest[Last(registry)] \in Events
      BY <2>2, LastRegistered DEF ControlInv, WellTyped
    <3> QED
      BY <2>2, <3>1 DEF Session, Ops, Instances
  <2> QED
    BY <2>1, <2>2
<1>3. session'[s] = x
  BY <1>1, <1>2 DEF ControlInv, WellTyped
<1>4. Holds(s)' => \A v \in Sessions \ {s} : ~Holds(v)
  BY <1>1, <1>3 DEF Holds, Locked
<1>5. SessionKept(s)'
  BY <1>1, <1>3, LastRegistered
  DEF SessionKept, At, Holds, OfLast, Registered, store, ControlInv, WellTyped
<1>6. stops \subseteq Instances
  BY DEF ControlInv, WellTyped
<1> HIDE DEF x
<1> QED
  BY <1>1, <1>2, <1>4, <1>5, <1>6, SessionGoesOn DEF store

(* What status() takes an event for is an end only of an ended process.    *)
LEMMA JudgementSound ==
  ASSUME ControlInv, NEW i \in Instances, NEW seen \in Events, Judgement(i, seen) # seen
  PROVE  /\ Judgement(i, seen) \in Events
         /\ Judgement(i, seen) \in {"STOPPED", "ERROR"} => proc[i] \in Ended
  BY DEF Judgement, Events, Terminal, NoEvent, Ended

LEMMA JudgeControlInv ==
  ASSUME ControlInv, NEW s \in Sessions, Judge(s) PROVE ControlInv'
<1> DEFINE i == session[s].instance
           verdict == Judgement(i, session[s].seen)
<1>1. /\ At(s, "seen") /\ UNCHANGED <<registry, stops, proc>>
      /\ IF verdict # session[s].seen THEN Log(i, verdict) ELSE UNCHANGED latest
      /\ IF session[s].command = "status" THEN Return(s)
         ELSE session' = [session EXCEPT ![s].op = "judged", ![s].seen = verdict]
  BY DEF Judge
<1>2. session[s] \in Session /\ session[s].seen \in Events /\ SessionKept(s)
  BY DEF ControlInv, WellTyped, Session
<1>3. i \in Instances
  BY <1>1, <1>2, RegisteredAt DEF SessionKept, ControlInv, WellTyped
<1>4. verdict \in Events
  BY <1>2, <1>3, JudgementSound
<1>5. stops \subseteq Instances
  BY DEF ControlInv, WellTyped
<1>6. ASSUME NEW x \in Session, session' = [session EXCEPT ![s] = x],
             Holds(s)' => Holds(s), SessionKept(s)'
      PROVE  ControlInv'
  <2>1. Holds(s)' => \A v \in Sessions \ {s} : ~Holds(v)
    BY <1>6 DEF ControlInv, OneHolds
  <2>2. CASE verdict # session[s].seen
    BY <1>1, <1>2, <1>3, <1>4, <1>6, <2>1, <2>2, JudgementSound, SessionLogs
  <2>3. CASE verdict = session[s].seen
    BY <1>1, <1>5, <1>6, <2>1, <2>3, SessionGoesOn
  <2> QED
    BY <2>2, <2>3
<1>7. CASE session[s].command = "status"
  BY <1>1, <1>6, <1>7, Returning DEF Return, ControlInv
<1>8. CASE session[s].command # "status"
  <2> DEFINE x == [session[s] EXCEPT !.op = "judged", !.seen = verdict]
  <2>1. /\ x \in Session /\ x.op = "judged"
        /\ x.command = session[s].command /\ x.instance = i
    BY <1>2, <1>4 DEF Session, Ops
  <2>2. session' = [session EXCEPT ![s] = x]
    BY <1>1, <1>8
  <2> HIDE DEF x
  <2>3. session'[s] = x
    BY <2>1, <2>2 DEF ControlInv, WellTyped
  <2>4. Holds(s)
    BY <1>1, <1>8 DEF Holds, At
  <2>5. SessionKept(s)'
    BY <1>1, <1>2, <1>8, <2>1, <2>3, <2>4 DEF SessionKept, At, Holds, OfLast
  <2> QED
    BY <1>6, <2>1, <2>2, <2>4, <2>5
<1> QED
  BY <1>7, <1>8

(* A start finds every registered process at its end.                      *)
LEMMA SpawnControlInv ==
  ASSUME ControlInv, NEW s \in Sessions, Spawn(s) PROVE ControlInv'
<1>1. /\ At(s, "judged") /\ UNCHANGED store /\ session[s] \in Session /\ SessionKept(s)
      /\ \A v \in Sessions \ {s} : ~Holds(v)
  BY DEF Spawn, ControlInv, WellTyped, SessionKept, OneHolds
<1>2. CASE MayStart(s)
  <2>1. PICK i \in Instances :
          /\ \A j \in Instances : proc[j] = "none" <=> j >= i
          /\ Become(i, "spawned")
          /\ session' = [session EXCEPT ![s].op = "spawned", ![s].instance = i]
    BY <1>2 DEF Spawn
  <2>2. proc[i] = "none"
    BY <2>1, InstancesAssumption DEF Instances
  <2> DEFINE x == [session[s] EXCEPT !.op = "spawned", !.instance = i]
  <2>3. /\ x \in Session /\ x.op = "spawned"
        /\ x.command = session[s].command /\ x.instance = i
    <3>1. i \in 0..MaxInstances /\ "spawned" \in Ops
      BY InstancesAssumption DEF Instances, Ops
    <3> QED
      BY <1>1, <3>1 DEF Session
  <2>4. session' = [session EXCEPT ![s] = x]
    BY <2>1
  <2> HIDE DEF x
  <2>5. session'[s] = x
    BY <2>3, <2>4 DEF ControlInv, WellTyped
  <2>6. ~Registered(i)
    BY <2>2, RegisteredAt DEF ControlInv, WellTyped, RegistryKept
  <2>7. ASSUME NEW k \in DOMAIN registry PROVE proc[registry[k]] \in Ended
    <3>1. registry # <<>> /\ session[s].instance = Last(registry)
      BY <1>1, <2>7 DEF SessionKept, OfLast
    <3>2. Last(registry) \in Instances /\ Last(registry) = registry[Len(registry)]
          /\ Len(registry) \in DOMAIN registry
      BY <3>1, LastRegistered DEF ControlInv, WellTyped
    <3>3. session[s].instance # 0
      BY <3>1, <3>2 DEF Instances
    <3>4. proc[Last(registry)] \notin Alive
      BY <1>2, <3>1, <3>3 DEF MayStart
    <3>5. proc[Last(registry)] \in Ended
      BY <3>2, <3>4 DEF ControlInv, WellTyped, RegistryKept
    <3> QED
      BY <3>2, <3>5 DEF ControlInv, RegistryKept
  <2>8. /\ proc'[i] = "spawned"
        /\ \A k \in DOMAIN registry : proc'[registry[k]] \in Ended
    BY <2>1, <2>6, <2>7 DEF Become, ControlInv, WellTyped, Registered, Contains
  <2>9. SessionKept(s)'
    BY <1>1, <2>3, <2>5, <2>6, <2>8 DEF SessionKept, At, Holds, Registered, store
  <2> QED
    BY <1>1, <2>1, <2>2, <2>3, <2>4, <2>9, SessionEndsOrSpawns
<1>3. CASE ~MayStart(s)
  <2>1. Return(s) /\ UNCHANGED <<registry, latest, stops, proc>>
    BY <1>1, <1>3 DEF Spawn, store
  <2> QED
    BY <1>1, <2>1, Returning, SessionGoesOn DEF Return, ControlInv, WellTyped
<1> QED
  BY <1>2, <1>3

(* The one instance that enters the registry follows ended ones.           *)
LEMMA RegisterControlInv ==
  ASSUME ControlInv, NEW s \in Sessions, Register(s) PROVE ControlInv'
<1> DEFINE i == session[s].instance
<1>1. /\ session[s] \in Session /\ SessionKept(s) /\ Holds(s)
      /\ \A v \in Sessions \ {s} : ~Holds(v)
      /\ UNCHANGED <<stops, proc>>
  BY DEF Register, ControlInv, WellTyped, SessionKept, OneHolds, At
<1>2. CASE /\ At(s, "spawned") /\ registry' = registry \o <<i>> /\ Continue(s, "registered")
           /\ UNCHANGED <<latest, stops, proc>>
  <2>1. /\ i \in Instances /\ ~Registered(i) /\ proc[i] # "none"
        /\ \A k \in DOMAIN registry : proc[registry[k]] \in Ended
    BY <1>1, <1>2 DEF SessionKept
  <2>2. /\ session' \in [Sessions -> Session]
        /\ session'[s].op = "registered" /\ session'[s].command = session[s].command
        /\ session'[s].instance = i
        /\ \A v \in Sessions \ {s} : session'[v] = session[v]
    <3>1. "registered" \in Ops
      BY DEF Ops
    <3> QED
      BY <1>2, <3>1, Continuing DEF ControlInv, WellTyped
  <2>3. /\ registry' \in Seq(Instances) /\ Len(registry') = Len(registry) + 1
        /\ registry'[Len(registry')] = i /\ registry' # <<>>
        /\ \A k \in DOMAIN registry : registry'[k] = registry[k]
        /\ DOMAIN registry' = DOMAIN registry \cup {Len(registry')}
    BY <1>2, <2>1 DEF ControlInv, WellTyped
  <2>4. WellTyped'
    BY <1>2, <2>2, <2>3 DEF ControlInv, WellTyped
  <2>5. OneRuns' /\ EndsKept'
    BY <1>2 DEF ControlInv, OneRuns, EndsKept
  <2>6. \A j \in Instances : Registered(j) => Registered(j)'
    BY <1>2, <2>3 DEF ControlInv, WellTyped, Registered, Contains
  <2>7. RunnersRegistered'
    BY <1>2, <2>6 DEF ControlInv, RunnersRegistered
  <2>8. RegistryKept'
    BY <1>2, <2>1, <2>3 DEF ControlInv, RegistryKept
  <2>9. \A v \in Sessions \ {s} : ~Holds(v)'
    BY <1>1, <2>2 DEF Holds
  <2>10. OneHolds'
    BY <2>9 DEF OneHolds
  <2>11. ASSUME NEW v \in Sessions PROVE SessionKept(v)'
    <3>1. CASE v = s
      BY <1>1, <2>2, <2>3, <3>1 DEF SessionKept, At, Holds, OfLast, Last
    <3>2. CASE v # s
      <4>1. session'[v] = session[v] /\ ~Holds(v) /\ ~Holds(v)' /\ SessionKept(v)
        BY <1>1, <2>2, <2>9, <3>2 DEF ControlInv
      <4>2. At(v, "seen") => Registered(session[v].instance)'
        BY <2>6, <4>1, RegisteredAt DEF SessionKept, ControlInv, WellTyped
      <4> QED
        BY <4>1, <4>2 DEF SessionKept, At
    <3> QED
      BY <3>1, <3>2
  <2> QED
    BY <2>4, <2>5, <2>7, <2>8, <2>10, <2>11 DEF ControlInv
<1>3. CASE At(s, "registered") /\ Log(i, "STARTING") /\ Return(s) /\ UNCHANGED <<registry, stops, proc>>
  <2>1. i \in Instances
    BY <1>1, <1>3, LastRegistered DEF SessionKept, OfLast, At, ControlInv, WellTyped
  <2> QED
    BY <1>3, <2>1, Returning, SessionLogs DEF Return, ControlInv, Events
<1> QED
  BY <1>2, <1>3 DEF Register

LEMMA RegisterFailsControlInv ==
  ASSUME ControlInv, NEW s \in Sessions, RegisterFails(s) PROVE ControlInv'
<1> DEFINE i == session[s].instance
<1>1. Return(s) /\ UNCHANGED store /\ SessionKept(s) /\ i \in Instances
  BY LastRegistered DEF RegisterFails, SessionKept, OfLast, At, ControlInv, WellTyped
<1>2. CASE proc[i] \in Alive
  BY <1>1, <1>2, Returning, SessionEndsOrSpawns
  DEF RegisterFails, Return, ControlInv, Alive, Guarded
<1>3. CASE proc[i] \notin Alive
  BY <1>1, <1>3, Returning, SessionGoesOn
  DEF RegisterFails, Return, ControlInv, WellTyped, store
<1> QED
  BY <1>2, <1>3

(* What a restart starts is the instance registered last.                  *)
LEMMA ConcludeKept ==
  ASSUME ControlInv, NEW s \in Sessions, NEW status, Conclude(s, status), Holds(s), OfLast(s),
         latest' \in [Instances -> Events], UNCHANGED registry
  PROVE  \E x \in Session : /\ session' = [session EXCEPT ![s] = x]
                            /\ SessionKept(s)'
<1>1. CASE Return(s)
  BY <1>1, Returning DEF Return, ControlInv
<1>2. CASE ~Return(s)
  <2> DEFINE x == [op |-> "seen", command |-> "start", instance |-> Last(registry),
                   seen |-> latest'[Last(registry)]]
  <2>1. session' = [session EXCEPT ![s] = x]
    BY <1>2 DEF Conclude
  <2>2. Last(registry) \in Instances /\ Registered(Last(registry))
    BY LastRegistered DEF OfLast, ControlInv, WellTyped
  <2>3. x \in Session
    BY <2>2 DEF Session, Ops, Commands, Instances
  <2>4. session'[s] = x
    BY <2>1, <2>3 DEF ControlInv, WellTyped
  <2>5. SessionKept(s)'
    BY <2>2, <2>4 DEF SessionKept, At, OfLast, Registered, Holds
  <2> QED
    BY <2>1, <2>3, <2>5
<1> QED
  BY <1>1, <1>2

(* A session under its lock has it alone.                                  *)
LEMMA HoldsAlone ==
  ASSUME ControlInv, NEW s \in Sessions, Holds(s)
  PROVE  \A v \in Sessions \ {s} : ~Holds(v)
  BY DEF ControlInv, OneHolds

(* A process that was registered and lives no more has come to its end.    *)
LEMMA LastEnded ==
  ASSUME ControlInv, NEW s \in Sessions, OfLast(s)
  PROVE  /\ session[s].instance \in Instances
         /\ proc[session[s].instance] \notin Alive => proc[session[s].instance] \in Ended
<1>1. /\ session[s].instance \in Instances
      /\ \E k \in DOMAIN registry : registry[k] = session[s].instance
  BY LastRegistered DEF OfLast, ControlInv, WellTyped
<1> QED
  BY <1>1 DEF ControlInv, WellTyped, RegistryKept

LEMMA AskStopControlInv ==
  ASSUME ControlInv, NEW s \in Sessions, AskStop(s) PROVE ControlInv'
<1> DEFINE i == session[s].instance
<1>1. /\ Holds(s) /\ OfLast(s) /\ i \in Instances /\ UNCHANGED <<registry, proc>>
      /\ latest \in [Instances -> Events] /\ stops \subseteq Instances
      /\ \A v \in Sessions \ {s} : ~Holds(v)
  <2>1. Holds(s) /\ OfLast(s)
    BY DEF AskStop, ControlInv, SessionKept
  <2> QED
    BY <2>1, HoldsAlone, LastEnded DEF AskStop, ControlInv, WellTyped
<1>2. CASE UNCHANGED <<latest, stops>> /\ Conclude(s, session[s].seen)
  BY <1>1, <1>2, ConcludeKept, SessionGoesOn
<1>3. CASE proc[i] \notin Alive /\ Log(i, "ERROR") /\ Return(s) /\ UNCHANGED stops
  BY <1>1, <1>3, LastEnded, Returning, SessionLogs DEF Return, ControlInv, Events, Terminal
<1>4. CASE stops' = stops \cup {i} /\ Continue(s, "asked") /\ UNCHANGED latest
  <2>1. "asked" \in Ops
    BY DEF Ops
  <2>2. SessionKept(s)'
    BY <1>1, <1>4, <2>1, Continuing DEF SessionKept, At, Holds, OfLast, ControlInv
  <2>3. stops' \subseteq Instances
    BY <1>1, <1>4
  <2> QED
    BY <1>1, <1>4, <2>1, <2>2, <2>3, Continuing, SessionGoesOn DEF ControlInv
<1> QED
  BY <1>2, <1>3, <1>4 DEF AskStop

LEMMA StoppingControlInv ==
  ASSUME ControlInv, NEW s \in Sessions, Stopping(s) PROVE ControlInv'
<1> DEFINE i == session[s].instance
<1>1. /\ Holds(s) /\ OfLast(s) /\ i \in Instances /\ UNCHANGED <<registry, stops, proc>>
      /\ \A v \in Sessions \ {s} : ~Holds(v)
  <2>1. Holds(s) /\ OfLast(s)
    BY DEF Stopping, At, ControlInv, SessionKept
  <2> QED
    BY <2>1, HoldsAlone, LastEnded DEF Stopping
<1>2. "waiting" \in Ops /\ "STOPPING" \in Events
  BY DEF Ops, Events
<1>3. SessionKept(s)'
  BY <1>1, <1>2, Continuing DEF Stopping, SessionKept, At, Holds, OfLast, ControlInv
<1> QED
  BY <1>1, <1>2, <1>3, Continuing, SessionLogs DEF Stopping, ControlInv

LEMMA WaitControlInv ==
  ASSUME ControlInv, NEW s \in Sessions, Wait(s) PROVE ControlInv'
<1> DEFINE i == session[s].instance
<1>1. /\ Holds(s) /\ OfLast(s) /\ i \in Instances /\ UNCHANGED <<registry, stops>>
      /\ \A v \in Sessions \ {s} : ~Holds(v)
  <2>1. Holds(s) /\ OfLast(s)
    BY DEF Wait, At, ControlInv, SessionKept
  <2> QED
    BY <2>1, HoldsAlone, LastEnded DEF Wait
<1>2. {"left", "forced"} \subseteq Ops
  BY DEF Ops
<1>3. CASE proc[i] = "gone" /\ Continue(s, "left") /\ UNCHANGED <<latest, proc>>
  <2>1. SessionKept(s)'
    BY <1>1, <1>2, <1>3, Continuing DEF SessionKept, At, Holds, OfLast, Ended, ControlInv
  <2> QED
    BY <1>1, <1>2, <1>3, <2>1, Continuing, SessionGoesOn DEF ControlInv, WellTyped
<1>4. CASE proc[i] \in Alive /\ Become(i, "gone") /\ Continue(s, "forced") /\ UNCHANGED latest
  <2>1. proc'[i] = "gone" /\ proc[i] # "none"
    BY <1>1, <1>4 DEF Become, ControlInv, WellTyped, Alive, Guarded
  <2>2. SessionKept(s)'
    BY <1>1, <1>2, <1>4, <2>1, Continuing
    DEF SessionKept, At, Holds, OfLast, Ended, ControlInv
  <2> QED
    BY <1>1, <1>2, <1>4, <2>1, <2>2, Continuing, SessionEndsOrSpawns DEF ControlInv, store
<1>5. CASE proc[i] \in Ended /\ Log(i, "ERROR") /\ Return(s) /\ UNCHANGED proc
  BY <1>1, <1>5, Returning, SessionLogs DEF Return, ControlInv, Events, Terminal
<1> QED
  BY <1>3, <1>4, <1>5 DEF Wait

LEMMA StoppedControlInv ==
  ASSUME ControlInv, NEW s \in Sessions, Stopped(s) PROVE ControlInv'
<1> DEFINE i == session[s].instance
<1>1. /\ Holds(s) /\ OfLast(s) /\ i \in Instances /\ proc[i] \in Ended
      /\ UNCHANGED <<registry, stops, proc>>
      /\ \A v \in Sessions \ {s} : ~Holds(v)
  <2>1. Holds(s) /\ OfLast(s) /\ proc[i] \in Ended
    BY DEF Stopped, At, ControlInv, SessionKept
  <2> QED
    BY <2>1, HoldsAlone, LastEnded DEF Stopped
<1>2. ASSUME NEW status \in {"STOPPED", "ERROR"}, Log(i, status), Conclude(s, status)
      PROVE  ControlInv'
  <2>1. status \in Events
    BY DEF Events, Terminal
  <2>2. latest' \in [Instances -> Events]
    BY <1>1, <1>2, <2>1 DEF Log, ControlInv, WellTyped
  <2>3. PICK x \in Session : session' = [session EXCEPT ![s] = x] /\ SessionKept(s)'
    BY <1>1, <1>2, <2>2, ConcludeKept
  <2> QED
    BY <1>1, <1>2, <2>1, <2>3, SessionLogs
<1> QED
  BY <1>2 DEF Stopped

LEMMA CrashControlInv ==
  ASSUME ControlInv, NEW s \in Sessions, Crash(s) \/ Reopen(s) PROVE ControlInv'
<1>1. UNCHANGED <<registry, latest, stops, proc>> /\ stops \subseteq Instances
  BY DEF Crash, Reopen, store, ControlInv, WellTyped
<1>2. CASE Crash(s)
  BY <1>1, <1>2, Resting, SessionGoesOn DEF Crash, ControlInv
<1>3. CASE Reopen(s)
  BY <1>1, <1>3, Returning, SessionGoesOn DEF Reopen, Return, ControlInv
<1> QED
  BY <1>2, <1>3

LEMMA NextControlInv == ControlInv /\ [ControlNext]_controlVars => ControlInv'
<1> SUFFICES ASSUME ControlInv, [ControlNext]_controlVars PROVE ControlInv'
  OBVIOUS
<1>1. CASE UNCHANGED controlVars
  BY <1>1 DEF controlVars, store, ControlInv, WellTyped, OneRuns, OneHolds, Holds, RegistryKept,
     RunnersRegistered, Registered, EndsKept, SessionKept, At, OfLast
<1>2. ASSUME NEW i \in Instances, RuntimeStep(i) \/ Befall(i) PROVE ControlInv'
  BY <1>2, RuntimeControlInv, BefallControlInv
<1>3. ASSUME NEW s \in Sessions, ControllerStep(s) PROVE ControlInv'
  BY <1>3, JudgeControlInv, SpawnControlInv, RegisterControlInv, AskStopControlInv,
     StoppingControlInv, WaitControlInv, StoppedControlInv DEF ControllerStep
<1>4. ASSUME NEW s \in Sessions,
             \/ \E command \in Commands : Command(s, command)
             \/ RegisterFails(s) \/ Crash(s) \/ Reopen(s)
      PROVE  ControlInv'
  BY <1>4, CommandControlInv, RegisterFailsControlInv, CrashControlInv
<1> QED
  BY <1>1, <1>2, <1>3, <1>4 DEF ControlNext

(* The invariant of the control: one guard, one lock, one instance at most *)
(* that has not come to its end among those that were registered.          *)
THEOREM ControlSafe == ControlSpec => []ControlInv
<1>1. ControlInv /\ [ControlNext]_controlVars => ControlInv'
  BY NextControlInv
<1> QED
  BY InitControlInv, <1>1, PTL DEF ControlSpec

-----------------------------------------------------------------------------
(* At any time one runtime runs at most, and stop() addresses that one.    *)
THEOREM RunsAddressed == ControlSpec => []OneRunsAddressed
<1>1. ControlInv => OneRunsAddressed
  <2> SUFFICES ASSUME ControlInv PROVE OneRunsAddressed
    OBVIOUS
  <2>1. ASSUME NEW i \in Instances, proc[i] \in Running
        PROVE  registry # <<>> /\ Last(registry) = i
    <3>1. Registered(i) /\ proc[i] \notin Ended
      BY <2>1 DEF ControlInv, RunnersRegistered, Running, Ended
    <3>2. Last(registry) = i
      BY <3>1, OthersEnded DEF ControlInv
    <3>3. registry # <<>>
      BY <3>1, RegisteredAt DEF ControlInv, WellTyped
    <3> QED
      BY <3>2, <3>3
  <2> QED
    BY <2>1 DEF OneRunsAddressed, RunnerIsAddressed, ControlInv
<1> QED
  BY ControlSafe, <1>1, PTL

(* An instance with the record of its end holds the guard no more.         *)
THEOREM EndsAreReal == ControlSpec => []RecordedEndIsReal
<1>1. ControlInv => RecordedEndIsReal
  BY DEF ControlInv, EndsKept, RecordedEndIsReal, Terminal, Ended, Guarded
<1> QED
  BY ControlSafe, <1>1, PTL

-----------------------------------------------------------------------------
(* No instance is registered twice, and none is asked to stop before.      *)
RegistryTyped ==
  /\ IsInjective(registry)
  /\ stops \subseteq {registry[k] : k \in DOMAIN registry}

(* All that a step does to either.                                         *)
LEMMA RegistryStep ==
  ASSUME ControlInv, [ControlNext]_controlVars
  PROVE  \/ UNCHANGED <<registry, stops>>
         \/ UNCHANGED registry /\ registry # <<>> /\ stops' = stops \cup {Last(registry)}
         \/ UNCHANGED stops /\ \E i \in Instances : ~Registered(i) /\ registry' = registry \o <<i>>
<1>1. CASE UNCHANGED controlVars
  BY <1>1 DEF controlVars, store
<1>2. ASSUME NEW i \in Instances, RuntimeStep(i) \/ Befall(i) PROVE UNCHANGED <<registry, stops>>
  BY <1>2 DEF RuntimeStep, Befall, Acquire, Ready, Top, Turn, Close, Fail, store
<1>3. ASSUME NEW s \in Sessions,
             \/ \E command \in Commands : Command(s, command)
             \/ RegisterFails(s) \/ Crash(s) \/ Reopen(s)
             \/ Judge(s) \/ Spawn(s) \/ Stopping(s) \/ Wait(s) \/ Stopped(s)
      PROVE  UNCHANGED <<registry, stops>>
  BY <1>3 DEF Command, RegisterFails, Crash, Reopen, Judge, Spawn, Stopping, Wait, Stopped, store
<1>4. ASSUME NEW s \in Sessions, AskStop(s)
      PROVE  /\ UNCHANGED registry
             /\ UNCHANGED stops \/ (registry # <<>> /\ stops' = stops \cup {Last(registry)})
  <2>1. OfLast(s)
    BY <1>4 DEF AskStop, ControlInv, SessionKept
  <2> QED
    BY <1>4, <2>1 DEF AskStop, OfLast
<1>5. ASSUME NEW s \in Sessions, Register(s)
      PROVE  /\ UNCHANGED stops
             /\ \/ UNCHANGED registry
                \/ \E i \in Instances : ~Registered(i) /\ registry' = registry \o <<i>>
  <2>1. At(s, "spawned") => /\ session[s].instance \in Instances
                            /\ ~Registered(session[s].instance)
    BY DEF ControlInv, SessionKept
  <2> QED
    BY <1>5, <2>1 DEF Register
<1> QED
  BY <1>1, <1>2, <1>3, <1>4, <1>5 DEF ControlNext, ControllerStep

(* Every variable of the control keeps its type.                           *)
THEOREM ControlTypeCorrect == ControlSpec => []ControlTypeOK
<1>1. ControlInit => RegistryTyped
  BY DEF ControlInit, RegistryTyped, IsInjective
<1>2. ControlInv /\ RegistryTyped /\ [ControlNext]_controlVars => RegistryTyped'
  <2> SUFFICES ASSUME ControlInv, RegistryTyped, [ControlNext]_controlVars PROVE RegistryTyped'
    OBVIOUS
  <2>1. CASE UNCHANGED <<registry, stops>>
    BY <2>1 DEF RegistryTyped, IsInjective
  <2>2. CASE UNCHANGED registry /\ registry # <<>> /\ stops' = stops \cup {Last(registry)}
    BY <2>2, LastRegistered DEF RegistryTyped, IsInjective, ControlInv, WellTyped
  <2>3. ASSUME NEW i \in Instances, ~Registered(i), registry' = registry \o <<i>>, UNCHANGED stops
        PROVE  RegistryTyped'
    <3>1. /\ Len(registry') = Len(registry) + 1 /\ registry'[Len(registry')] = i
          /\ \A k \in DOMAIN registry : registry'[k] = registry[k] /\ registry[k] # i
          /\ DOMAIN registry' = DOMAIN registry \cup {Len(registry')}
      BY <2>3 DEF ControlInv, WellTyped, Registered, Contains
    <3> QED
      BY <2>3, <3>1 DEF RegistryTyped, IsInjective
  <2> QED
    BY <2>1, <2>2, <2>3, RegistryStep
<1>3. ControlInv /\ RegistryTyped => ControlTypeOK
  BY DEF ControlInv, WellTyped, RegistryTyped, ControlTypeOK, Session, Ops
<1> QED
  BY InitControlInv, <1>1, <1>2, <1>3, ControlSafe, PTL DEF ControlSpec
=============================================================================
