-------------------------- MODULE GovernanceProofs --------------------------
(***************************************************************************)
(* Proofs about what a trading day leaves behind, in three parts.          *)
(* STORES, for any number of writers, any contents and any families: a     *)
(* history is sound while no two appends to it overlapped, that is, it is  *)
(* linear, and the one writer between its check and its insert names the   *)
(* latest record.  A draft that was legal when it was made stays so, since *)
(* histories only grow.                                                    *)
(* REFLECTIONS, for any facts, calendar, policies and number of commands:  *)
(* a record names only what is there, stores only grow, and a command      *)
(* reads the sources of a record after the record.                         *)
(* EXPLANATIONS, for any number of callers and requests: what is reused is *)
(* the first attempt that completed.                                       *)
(***************************************************************************)
EXTENDS Governance, Reflections, Reasoning, TLAPS

-----------------------------------------------------------------------------
(* STORES                                                                  *)

(* The one writer that may insert into a store follows its latest record.  *)
Sound(k) ==
  /\ Replayable(log[k])
  /\ \A w \in Writers : At(w, "checked") /\ writer[w].store = k => NamesLatest(w)
  /\ \A v, w \in Writers :
       At(v, "checked") /\ At(w, "checked") /\ writer[v].store = k /\ writer[w].store = k => v = w

(* Authorisations are never between a check and an insert.                 *)
LockHeld ==
  /\ "AUTHORIZATION" \notin overlapped
  /\ \A w \in Writers : /\ At(w, "checked") => writer[w].store # "AUTHORIZATION"
                        /\ At(w, "validated") => writer[w].store = "PLAN"

GInv == WellTyped /\ (\A k \in Stores \ overlapped : Sound(k)) /\ LockHeld

-----------------------------------------------------------------------------
(* Every variable keeps its type and the invariant holds at the start.     *)
LEMMA InitGInv == GovernanceInit => GInv
<1> SUFFICES ASSUME GovernanceInit PROVE GInv
  OBVIOUS
<1> USE DEF GovernanceInit
<1>1. Idle \in Writer /\ Idle.step = "idle"
  BY DEF Idle, Writer, Stores
<1>2. \A w \in Writers : writer[w] = Idle /\ writer[w].step = "idle"
  BY <1>1
<1>3. WellTyped
  BY <1>1, <1>2 DEF WellTyped, At
<1>4. \A k \in Stores : Sound(k)
  BY <1>2 DEF Sound, At, Replayable
<1>5. LockHeld
  BY <1>2 DEF LockHeld, At
<1> QED
  BY <1>3, <1>4, <1>5 DEF GInv

(* What a record appended to a linear history makes of it.                 *)
LEMMA AppendReplayable ==
  ASSUME NEW h \in Seq(Record), NEW r \in Record, Replayable(h), r.prev = Len(h)
  PROVE  Replayable(Append(h, r))
  BY DEF Replayable

(* What a writer is after it went on, or came to rest; the others stay.    *)
LEMMA GoWriter ==
  ASSUME writer \in [Writers -> Writer], NEW w \in Writers,
         NEW step \in {"drafted", "validated", "checked"}, Go(w, step)
  PROVE  /\ writer' \in [Writers -> Writer]
         /\ writer'[w].step = step
         /\ writer'[w].store = writer[w].store
         /\ writer'[w].record = writer[w].record
         /\ \A v \in Writers \ {w} : writer'[v] = writer[v]
<1>1. writer[w] \in Writer
  OBVIOUS
<1>2. [writer[w] EXCEPT !.step = step] \in Writer
  BY <1>1 DEF Writer
<1>3. writer' = [writer EXCEPT ![w] = [writer[w] EXCEPT !.step = step]]
  BY DEF Go
<1> QED
  BY <1>1, <1>2, <1>3 DEF Writer

LEMMA RestWriter ==
  ASSUME writer \in [Writers -> Writer], NEW w \in Writers, Rest(w)
  PROVE  /\ writer' \in [Writers -> Writer]
         /\ writer'[w].step = "idle"
         /\ \A v \in Writers \ {w} : writer'[v] = writer[v]
<1>1. Idle \in Writer /\ Idle.step = "idle"
  BY DEF Idle, Writer, Stores
<1> QED
  BY <1>1 DEF Rest

(* A writer that goes on within its record or rests leaves the types alone.*)
LEMMA GoType ==
  ASSUME WellTyped, NEW w \in Writers, ~At(w, "idle"),
         NEW step \in {"drafted", "validated", "checked"},
         Rest(w) \/ Go(w, step), UNCHANGED <<family, log>>, overlapped' \subseteq Stores
  PROVE  WellTyped'
<1>1. CASE Rest(w)
  BY <1>1, RestWriter DEF WellTyped, At
<1>2. CASE Go(w, step)
  BY <1>2, GoWriter DEF WellTyped, At
<1> QED
  BY <1>1, <1>2

(* When nothing but a writer changes, and it does not come to "checked",   *)
(* what was sound stays so.                                                *)
LEMMA AsideSound ==
  ASSUME GInv, NEW w \in Writers, UNCHANGED <<log, overlapped>>,
         ~At(w, "checked")', \A v \in Writers \ {w} : writer'[v] = writer[v]
  PROVE  \A k \in Stores \ overlapped' : Sound(k)'
  BY DEF GInv, Sound, At, Replayable, NamesLatest, Latest

-----------------------------------------------------------------------------
LEMMA DraftGInv == ASSUME GInv, NEW w \in Writers, Draft(w) PROVE GInv'
<1>0. PICK k \in family : \E prev \in 0..Latest(k), what \in Content(k) :
        writer' = [writer EXCEPT ![w] =
          [step |-> "drafted", store |-> k, record |-> [prev |-> prev, what |-> what]]]
  BY DEF Draft
<1>1. PICK prev \in 0..Latest(k), what \in Content(k) :
        writer' = [writer EXCEPT ![w] =
          [step |-> "drafted", store |-> k, record |-> [prev |-> prev, what |-> what]]]
  BY <1>0
<1>2. k \in Stores /\ Latest(k) \in Nat
  BY FamiliesAssumption DEF GInv, WellTyped, Latest
<1>3. prev \in Nat /\ what \in Contents
  BY <1>2 DEF Contents
<1> DEFINE new == [step |-> "drafted", store |-> k, record |-> [prev |-> prev, what |-> what]]
<1>4. new \in Writer /\ new.step = "drafted" /\ new.store = k /\ new.record.what = what
  BY <1>2, <1>3 DEF Writer
<1> HIDE DEF new
<1>5. /\ writer' \in [Writers -> Writer] /\ writer'[w] = new
      /\ \A v \in Writers \ {w} : writer'[v] = writer[v]
  BY <1>1, <1>4 DEF GInv, WellTyped, new
<1>6. UNCHANGED <<family, log, overlapped>>
  BY DEF Draft
<1>7. WellTyped'
  BY <1>4, <1>5, <1>6 DEF GInv, WellTyped, At
<1>8. \A j \in Stores \ overlapped' : Sound(j)'
  BY <1>4, <1>5, <1>6, AsideSound DEF At
<1>9. LockHeld'
  BY <1>4, <1>5, <1>6 DEF GInv, LockHeld, At
<1> QED
  BY <1>7, <1>8, <1>9 DEF GInv

LEMMA ValidateGInv == ASSUME GInv, NEW w \in Writers, ValidatePlan(w) PROVE GInv'
<1>1. /\ At(w, "drafted") /\ writer[w].store = "PLAN" /\ UNCHANGED <<family, log, overlapped>>
      /\ Rest(w) \/ Go(w, "validated")
  BY DEF ValidatePlan
<1>2. WellTyped'
  BY <1>1, GoType DEF GInv, WellTyped, At
<1>3. /\ ~At(w, "checked")'
      /\ At(w, "validated")' => writer'[w].store = "PLAN"
      /\ \A v \in Writers \ {w} : writer'[v] = writer[v]
  BY <1>1, GoWriter, RestWriter DEF GInv, WellTyped, At
<1>4. \A k \in Stores \ overlapped' : Sound(k)'
  BY <1>1, <1>3, AsideSound
<1>5. LockHeld'
  BY <1>1, <1>3 DEF GInv, LockHeld, At
<1> QED
  BY <1>2, <1>4, <1>5 DEF GInv

LEMMA CrashGInv == ASSUME GInv, NEW w \in Writers, Crash(w) PROVE GInv'
<1>1. ~At(w, "idle") /\ Rest(w) /\ UNCHANGED <<family, log, overlapped>>
  BY DEF Crash
<1>2. WellTyped'
  BY <1>1, GoType DEF GInv, WellTyped
<1>3. /\ ~At(w, "checked")' /\ ~At(w, "validated")'
      /\ \A v \in Writers \ {w} : writer'[v] = writer[v]
  BY <1>1, RestWriter DEF GInv, WellTyped, At
<1>4. \A k \in Stores \ overlapped' : Sound(k)'
  BY <1>1, <1>3, AsideSound
<1>5. LockHeld'
  BY <1>1, <1>3 DEF GInv, LockHeld, At
<1> QED
  BY <1>2, <1>4, <1>5 DEF GInv

(* Whichever append it is, a check looks at the history of its store; the  *)
(* authorisations have none.                                               *)
LEMMA CheckLooks ==
  ASSUME GInv, NEW w \in Writers, Check(w)
  PROVE  /\ Look(w)
         /\ At(w, "drafted") \/ At(w, "validated")
         /\ writer[w].store # "AUTHORIZATION"
<1>1. CASE AppendPlan(w)
  BY <1>1 DEF AppendPlan, GInv, LockHeld
<1>2. CASE \E k \in Stores \ {"AUTHORIZATION", "PLAN"} : Submit(w, k)
  BY <1>2 DEF Submit
<1> QED
  BY <1>1, <1>2 DEF Check, AppendReflection, AppendWeekly, TransitionPattern, AppendProposal,
     TransitionProposal, AppendResult, AppendDecision, AppendReview, Stores

(* A check that finds another writer of the store between its check and    *)
(* its insert marks the store; otherwise it is the only one there.         *)
LEMMA CheckGInv == ASSUME GInv, NEW w \in Writers, Check(w) PROVE GInv'
<1> DEFINE k == writer[w].store
<1>1. /\ UNCHANGED <<family, log>>
      /\ ~At(w, "idle") /\ ~At(w, "checked")
      /\ k # "AUTHORIZATION"
  BY CheckLooks DEF Look, At
<1>t. writer \in [Writers -> Writer] /\ k \in Stores /\ overlapped \subseteq Stores
  BY DEF GInv, WellTyped, Writer
<1>2. CASE Rest(w) /\ UNCHANGED overlapped
  <2>1. WellTyped'
    BY <1>1, <1>2, <1>t, GoType DEF GInv
  <2>2. /\ ~At(w, "checked")' /\ ~At(w, "validated")'
        /\ \A v \in Writers \ {w} : writer'[v] = writer[v]
    BY <1>2, <1>t, RestWriter DEF At
  <2>3. \A j \in Stores \ overlapped' : Sound(j)'
    BY <1>1, <1>2, <2>2, AsideSound
  <2>4. LockHeld'
    BY <1>1, <1>2, <2>2 DEF GInv, LockHeld, At
  <2> QED
    BY <2>1, <2>3, <2>4 DEF GInv
<1>3. CASE /\ NamesLatest(w) /\ Go(w, "checked")
           /\ overlapped' = IF \E v \in Writers : At(v, "checked") /\ writer[v].store = k
                            THEN overlapped \cup {k} ELSE overlapped
  <2>1. WellTyped'
    BY <1>1, <1>3, <1>t, GoType DEF GInv
  <2>2. /\ writer'[w].step = "checked" /\ writer'[w].store = k
        /\ writer'[w].record = writer[w].record
        /\ \A v \in Writers \ {w} : writer'[v] = writer[v]
    BY <1>3, <1>t, GoWriter
  <2>3. ASSUME NEW j \in Stores \ overlapped' PROVE Sound(j)'
    <3>1. j \in Stores \ overlapped /\ Sound(j)
      BY <1>3, <2>3 DEF GInv
    <3>2. Replayable(log[j])'
      BY <1>1, <3>1 DEF Sound, Replayable
    <3>3. ASSUME NEW v \in Writers, At(v, "checked")', writer'[v].store = j
          PROVE  NamesLatest(v)'
      BY <1>1, <1>3, <2>2, <3>1, <3>3 DEF Sound, NamesLatest, Latest, At
    <3>4. ASSUME NEW u \in Writers, NEW v \in Writers, At(u, "checked")', At(v, "checked")',
                 writer'[u].store = j, writer'[v].store = j
          PROVE  u = v
      <4>1. CASE u # w /\ v # w
        BY <2>2, <3>1, <3>4, <4>1 DEF Sound, At
      <4>2. CASE u = w /\ v # w
        BY <1>3, <2>2, <2>3, <3>4, <4>2 DEF At
      <4>3. CASE u # w /\ v = w
        BY <1>3, <2>2, <2>3, <3>4, <4>3 DEF At
      <4> QED
        BY <4>1, <4>2, <4>3
    <3> QED
      BY <3>2, <3>3, <3>4 DEF Sound
  <2>4. LockHeld'
    BY <1>1, <1>3, <2>2 DEF GInv, LockHeld, At
  <2> QED
    BY <2>1, <2>3, <2>4 DEF GInv
<1> QED
  BY <1>2, <1>3, CheckLooks DEF Look

(* The one writer of a store that nobody overlapped appends to its end; in *)
(* the others, and when the record is there already, nothing is appended.  *)
LEMMA InsertGInv == ASSUME GInv, NEW w \in Writers, Insert(w) PROVE GInv'
<1> DEFINE k == writer[w].store
<1>1. /\ At(w, "checked") /\ UNCHANGED <<family, overlapped>>
      /\ log' = IF Exists(w) THEN log ELSE [log EXCEPT ![k] = Append(@, writer[w].record)]
      /\ Rest(w) \/ Go(w, "drafted")
  BY DEF Insert
<1>t. /\ writer \in [Writers -> Writer] /\ k \in Stores /\ overlapped \subseteq Stores
      /\ log \in [Stores -> Seq(Record)] /\ k # "AUTHORIZATION"
      /\ writer[w].record \in Record
  BY <1>1 DEF GInv, WellTyped, Writer, Record, Contents, LockHeld, At
<1>2. /\ writer' \in [Writers -> Writer] /\ ~At(w, "checked")' /\ ~At(w, "validated")'
      /\ \A v \in Writers \ {w} : writer'[v] = writer[v]
      /\ At(w, "idle")' \/ (writer'[w].store = k /\ writer'[w].record = writer[w].record)
  BY <1>1, <1>t, RestWriter, GoWriter DEF At
<1>3. /\ log' \in [Stores -> Seq(Record)]
      /\ \A j \in Stores \ {k} : log'[j] = log[j]
      /\ log'[k] = log[k] \/ log'[k] = Append(log[k], writer[w].record)
  BY <1>1, <1>t
<1>4. WellTyped'
  BY <1>1, <1>2, <1>3 DEF GInv, WellTyped, At
<1>5. ASSUME NEW j \in Stores \ overlapped' PROVE Sound(j)'
  <2>1. Sound(j)
    BY <1>1, <1>5 DEF GInv
  <2>2. CASE j # k
    <3>1. log'[j] = log[j]
      BY <1>3, <2>2
    <3>2. ASSUME NEW v \in Writers, At(v, "checked")'
          PROVE  writer'[v] = writer[v] /\ At(v, "checked")
      <4>1. v # w
        BY <1>2, <3>2
      <4>2. writer'[v] = writer[v]
        BY <1>2, <4>1
      <4> QED
        BY <3>2, <4>2 DEF At
    <3>3. Replayable(log'[j])
      BY <2>1, <3>1 DEF Sound
    <3>4. ASSUME NEW v \in Writers, At(v, "checked")', writer'[v].store = j
          PROVE  NamesLatest(v)'
      BY <2>1, <3>1, <3>2, <3>4 DEF Sound, NamesLatest, Latest
    <3>5. ASSUME NEW u \in Writers, NEW v \in Writers, At(u, "checked")', At(v, "checked")',
                 writer'[u].store = j, writer'[v].store = j
          PROVE  u = v
      BY <2>1, <3>2, <3>5 DEF Sound
    <3> QED
      BY <3>3, <3>4, <3>5 DEF Sound
  <2>3. CASE j = k
    <3>1. \A v \in Writers : ~(At(v, "checked")' /\ writer'[v].store = k)
      BY <1>1, <1>2, <2>1, <2>3 DEF Sound, At
    <3>2. writer[w].record.prev = Len(log[k]) /\ Replayable(log[k])
      BY <1>1, <2>1, <2>3 DEF Sound, NamesLatest, Latest
    <3>3. Replayable(log'[k])
      <4> DEFINE r == writer[w].record
      <4>1. log[k] \in Seq(Record) /\ r \in Record
        BY <1>t
      <4> HIDE DEF r
      <4>2. Replayable(Append(log[k], r))
        BY <3>2, <4>1, AppendReplayable DEF r
      <4> QED
        BY <1>3, <3>2, <4>2 DEF r
    <3> QED
      BY <2>3, <3>1, <3>3 DEF Sound, Replayable
  <2> QED
    BY <2>2, <2>3
<1>6. LockHeld'
  BY <1>1, <1>2 DEF GInv, LockHeld, At
<1> QED
  BY <1>4, <1>5, <1>6 DEF GInv

(* What an authorisation does: nothing, or it extends its linear history   *)
(* while the proposal is a candidate and the review accepts the evidence.  *)
LEMMA AuthorizeStep ==
  ASSUME GInv, NEW w \in Writers, Authorize(w)
  PROVE  /\ UNCHANGED <<family, overlapped>> /\ ~At(w, "idle") /\ ~At(w, "checked") /\ Rest(w)
         /\ log' \in [Stores -> Seq(Record)]
         /\ \A k \in Stores \ {"AUTHORIZATION"} : log'[k] = log[k]
         /\ \/ log' = log
            \/ /\ IsCandidate /\ Accepted /\ NamesLatest(w)
               /\ writer[w].record \in Record /\ writer[w].record.what \in Versions
               /\ log'["AUTHORIZATION"] = Append(log["AUTHORIZATION"], writer[w].record)
               /\ writer[w].store = "AUTHORIZATION"
<1>1. /\ At(w, "drafted") /\ writer[w].store = "AUTHORIZATION" /\ Rest(w)
      /\ UNCHANGED <<family, overlapped>>
      /\ log' = IF ~Exists(w) /\ IsCandidate /\ Accepted /\ NamesLatest(w)
                THEN [log EXCEPT !["AUTHORIZATION"] = Append(@, writer[w].record)] ELSE log
  BY DEF Authorize
<1>2. /\ log \in [Stores -> Seq(Record)] /\ "AUTHORIZATION" \in Stores
      /\ writer[w].record \in Record /\ writer[w].record.what \in Content("AUTHORIZATION")
  <2>1. /\ log \in [Stores -> Seq(Record)] /\ writer \in [Writers -> Writer]
        /\ writer[w].step # "idle" => writer[w].record.what \in Content(writer[w].store)
    BY DEF GInv, WellTyped, At
  <2>2. "AUTHORIZATION" \in Stores
    BY DEF Stores
  <2>3. writer[w].record.what \in Content("AUTHORIZATION")
    BY <1>1, <2>1 DEF At
  <2>4. writer[w].record \in [prev : Nat, what : Contents \cup {"NONE"}]
    BY <2>1 DEF Writer
  <2>5. writer[w].record.what \in Contents
    BY <2>2, <2>3 DEF Contents
  <2>6. writer[w].record \in Record
    BY <2>4, <2>5 DEF Record
  <2> QED
    BY <2>1, <2>2, <2>3, <2>6
<1>3. Content("AUTHORIZATION") = Versions
  BY DEF Content, Transitions
<1>4. ~At(w, "idle") /\ ~At(w, "checked")
  BY <1>1 DEF At
<1>5. /\ log' \in [Stores -> Seq(Record)]
      /\ \A k \in Stores \ {"AUTHORIZATION"} : log'[k] = log[k]
  BY <1>1, <1>2
<1> QED
  BY <1>1, <1>2, <1>3, <1>4, <1>5

LEMMA AuthorizeGInv == ASSUME GInv, NEW w \in Writers, Authorize(w) PROVE GInv'
<1>1. /\ UNCHANGED <<family, overlapped>> /\ Rest(w) /\ log' \in [Stores -> Seq(Record)]
      /\ \A k \in Stores \ {"AUTHORIZATION"} : log'[k] = log[k]
      /\ \/ log' = log
         \/ /\ NamesLatest(w) /\ writer[w].record \in Record /\ writer[w].store = "AUTHORIZATION"
            /\ log'["AUTHORIZATION"] = Append(log["AUTHORIZATION"], writer[w].record)
  BY AuthorizeStep
<1>2. /\ writer' \in [Writers -> Writer] /\ ~At(w, "checked")' /\ ~At(w, "validated")'
      /\ At(w, "idle")' /\ \A v \in Writers \ {w} : writer'[v] = writer[v]
  BY <1>1, RestWriter DEF GInv, WellTyped, At
<1>3. WellTyped'
  BY <1>1, <1>2 DEF GInv, WellTyped, At
<1>4. ASSUME NEW j \in Stores \ overlapped' PROVE Sound(j)'
  <2>1. Sound(j)
    BY <1>1, <1>4 DEF GInv
  <2>2. CASE log'[j] = log[j]
    BY <1>2, <2>1, <2>2 DEF Sound, At, Replayable, NamesLatest, Latest
  <2>3. CASE log'[j] # log[j]
    <3>1. /\ j = "AUTHORIZATION" /\ writer[w].record.prev = Len(log[j])
          /\ writer[w].record \in Record /\ log[j] \in Seq(Record)
          /\ log'[j] = Append(log[j], writer[w].record)
      BY <1>1, <2>3 DEF NamesLatest, Latest, GInv, WellTyped
    <3>2. Replayable(log'[j])
      BY <2>1, <3>1, AppendReplayable DEF Sound
    <3>3. \A v \in Writers : ~(At(v, "checked")' /\ writer'[v].store = j)
      BY <1>2, <3>1 DEF GInv, LockHeld, At
    <3> QED
      BY <3>2, <3>3 DEF Sound, Replayable
  <2> QED
    BY <2>2, <2>3
<1>5. LockHeld'
  BY <1>1, <1>2 DEF GInv, LockHeld, At
<1> QED
  BY <1>3, <1>4, <1>5 DEF GInv

LEMMA NextGInv == GInv /\ [GovernanceNext]_governanceVars => GInv'
<1> SUFFICES ASSUME GInv, [GovernanceNext]_governanceVars PROVE GInv'
  OBVIOUS
<1>1. CASE UNCHANGED governanceVars
  BY <1>1 DEF governanceVars, GInv, WellTyped, Sound, LockHeld, Replayable, NamesLatest,
     Latest, At
<1>2. ASSUME NEW w \in Writers,
             \/ Draft(w) \/ ValidatePlan(w) \/ Check(w) \/ Crash(w)
             \/ Bounded(w) /\ (Insert(w) \/ Authorize(w))
      PROVE  GInv'
  BY <1>2, DraftGInv, ValidateGInv, CheckGInv, CrashGInv, InsertGInv, AuthorizeGInv
<1> QED
  BY <1>1, <1>2 DEF GovernanceNext

THEOREM GovernanceSafe == GovernanceSpec => []GInv
<1>1. GInv /\ [GovernanceNext]_governanceVars => GInv'
  BY NextGInv
<1> QED
  BY InitGInv, <1>1, PTL DEF GovernanceSpec

-----------------------------------------------------------------------------
(* Every store holds well-formed records, and so does every draft.         *)
THEOREM GovernanceTypeCorrect == GovernanceSpec => []GovernanceTypeOK
<1>1. GInv => GovernanceTypeOK
  BY DEF GInv, LockHeld, GovernanceTypeOK
<1> QED
  BY GovernanceSafe, <1>1, PTL

(* No store has a forked history unless two appends to it overlapped.      *)
THEOREM ForksNeedOverlap == GovernanceSpec => []ForksOnlyByOverlap
<1>1. GInv => ForksOnlyByOverlap
  BY DEF GInv, Sound, ForksOnlyByOverlap
<1> QED
  BY GovernanceSafe, <1>1, PTL

(* The log of authorisations changes only in Authorize.                    *)
LEMMA OnlyAuthorizeAuthorizes ==
  ASSUME GInv, [GovernanceNext]_governanceVars, log'["AUTHORIZATION"] # log["AUTHORIZATION"]
  PROVE  \E w \in Writers : Authorize(w)
<1>1. PICK w \in Writers : \/ Draft(w) \/ ValidatePlan(w) \/ Check(w) \/ Crash(w)
                           \/ Bounded(w) /\ (Insert(w) \/ Authorize(w))
  BY DEF GovernanceNext, governanceVars
<1>2. CASE Draft(w) \/ ValidatePlan(w) \/ Check(w) \/ Crash(w)
  BY <1>2, CheckLooks DEF Draft, ValidatePlan, Look, Crash
<1>3. CASE Insert(w)
  <2>1. writer[w].store # "AUTHORIZATION" /\ log \in [Stores -> Seq(Record)]
        /\ "AUTHORIZATION" \in Stores
    BY <1>3 DEF Insert, GInv, LockHeld, WellTyped, Stores
  <2>2. log' = log \/ log' = [log EXCEPT ![writer[w].store] = Append(@, writer[w].record)]
    BY <1>3 DEF Insert
  <2> QED
    BY <2>1, <2>2
<1> QED
  BY <1>1, <1>2, <1>3

(* The authorisations of a proposal are an append-only linear history.     *)
THEOREM AuthorizationsLinear == GovernanceSpec => AuthorizationsAppendLinearly
<1>1. GovernanceInit => Authorizations!HistoryInit
  BY DEF GovernanceInit, Authorizations!HistoryInit, Stores
<1>2. GInv /\ [GovernanceNext]_governanceVars
        => [Authorizations!HistoryNext]_(log["AUTHORIZATION"])
  <2> SUFFICES ASSUME GInv, [GovernanceNext]_governanceVars,
                      log'["AUTHORIZATION"] # log["AUTHORIZATION"]
               PROVE  Authorizations!HistoryNext
    OBVIOUS
  <2>1. PICK w \in Writers : Authorize(w)
    BY OnlyAuthorizeAuthorizes
  <2>2. /\ writer[w].record \in Record /\ writer[w].record.what \in Versions
        /\ writer[w].record.prev = Len(log["AUTHORIZATION"])
        /\ log'["AUTHORIZATION"] = Append(log["AUTHORIZATION"], writer[w].record)
    BY <2>1, AuthorizeStep DEF NamesLatest, Latest
  <2>3. writer[w].record = [prev |-> Len(log["AUTHORIZATION"]), what |-> writer[w].record.what]
    BY <2>2 DEF Record
  <2>4. Authorizations!Extend(writer[w].record.what)
    BY <2>2, <2>3 DEF Authorizations!Extend
  <2> QED
    BY <2>2, <2>4 DEF Authorizations!HistoryNext
<1> QED
  BY GovernanceSafe, <1>1, <1>2, PTL DEF GovernanceSpec, AuthorizationsAppendLinearly,
     Authorizations!HistorySpec

(* An authorisation is recorded only on a candidate with accepted evidence.*)
THEOREM AuthorizedSafely == GovernanceSpec => AuthorizedOnEvidence
<1>1. GInv /\ [GovernanceNext]_governanceVars =>
        [log'["AUTHORIZATION"] # log["AUTHORIZATION"] => IsCandidate /\ Accepted]_governanceVars
  <2> SUFFICES ASSUME GInv, [GovernanceNext]_governanceVars,
                      log'["AUTHORIZATION"] # log["AUTHORIZATION"]
               PROVE  IsCandidate /\ Accepted
    OBVIOUS
  <2>1. PICK w \in Writers : Authorize(w)
    BY OnlyAuthorizeAuthorizes
  <2> QED
    BY <2>1, AuthorizeStep
<1> QED
  BY GovernanceSafe, <1>1, PTL DEF GovernanceSpec, AuthorizedOnEvidence

-----------------------------------------------------------------------------
(* A history of statuses keeps to the allowed transitions: of a record in  *)
(* it, and of a draft for it, the status was a legal next one after the    *)
(* record it names, be that the latest or not.                             *)
Follows(h, r, n) ==
  /\ r.prev \in 0..n
  /\ r.what \in ProposalStatuses /\ r.what \in AllowedTransitions[StatusAfter(h, r.prev)]

LegalHistory(h) == \A n \in DOMAIN h : Follows(h, h[n], n - 1)

TransitionsLegal ==
  /\ \A k \in Transitions : LegalHistory(log[k])
  /\ \A w \in Writers :
       ~At(w, "idle") /\ writer[w].store \in Transitions
         => Follows(log[writer[w].store], writer[w].record, Latest(writer[w].store))

(* A plan is recorded, or its registration is beyond its look at the       *)
(* proposal, only when the proposal has been a candidate.                  *)
Registering(w) == At(w, "validated") \/ (At(w, "checked") /\ writer[w].store = "PLAN")

Nominated(h) == \E n \in DOMAIN h : h[n].what = "CANDIDATE"

PlansNominated ==
  log["PLAN"] # <<>> \/ (\E w \in Writers : Registering(w))
    => Nominated(log["PROPOSAL_TRANSITION"])

(* A record that followed another still does so in a longer history.       *)
LEMMA FollowsOn ==
  ASSUME NEW h \in Seq(Record), NEW r \in Record, NEW s, NEW n \in 0..Len(h), Follows(h, s, n)
  PROVE  Follows(Append(h, r), s, n) /\ Follows(Append(h, r), s, Len(h) + 1)
<1>1. /\ s.prev \in 0..n
      /\ s.what \in ProposalStatuses /\ s.what \in AllowedTransitions[StatusAfter(h, s.prev)]
  BY DEF Follows
<1>2. StatusAfter(Append(h, r), s.prev) = StatusAfter(h, s.prev)
  BY <1>1 DEF StatusAfter
<1> QED
  BY <1>1, <1>2 DEF Follows

(* What was legal when drafted is legal when it is appended.               *)
LEMMA LegalAppend ==
  ASSUME NEW h \in Seq(Record), NEW r \in Record, LegalHistory(h), Follows(h, r, Len(h))
  PROVE  LegalHistory(Append(h, r))
<1> SUFFICES ASSUME NEW n \in DOMAIN Append(h, r)
             PROVE  Follows(Append(h, r), Append(h, r)[n], n - 1)
  BY DEF LegalHistory
<1>1. CASE n \in DOMAIN h
  <2>1. Append(h, r)[n] = h[n] /\ n - 1 \in 0..Len(h) /\ Follows(h, h[n], n - 1)
    BY <1>1 DEF LegalHistory
  <2> QED
    BY <2>1, FollowsOn
<1>2. CASE n = Len(h) + 1
  <2>1. Append(h, r)[n] = r /\ n - 1 = Len(h)
    BY <1>2
  <2> QED
    BY <2>1, FollowsOn
<1> QED
  BY <1>1, <1>2

(* What a step does to the histories: nothing, or a writer that is not at  *)
(* rest, and past its checks, has its record appended to its history.      *)
Appends(w) ==
  /\ ~At(w, "idle") /\ writer[w].record \in Record
  /\ At(w, "checked") \/ writer[w].store = "AUTHORIZATION"
  /\ log' = [log EXCEPT ![writer[w].store] = Append(@, writer[w].record)]

LEMMA LogStep ==
  ASSUME GInv, [GovernanceNext]_governanceVars
  PROVE  log' = log \/ \E w \in Writers : Appends(w)
<1>1. CASE UNCHANGED governanceVars
  BY <1>1 DEF governanceVars
<1>2. ASSUME NEW w \in Writers, Draft(w) \/ ValidatePlan(w) \/ Check(w) \/ Crash(w)
      PROVE  log' = log
  BY <1>2, CheckLooks DEF Draft, ValidatePlan, Look, Crash
<1>3. ASSUME NEW w \in Writers, At(w, "checked") \/ At(w, "drafted")
      PROVE  writer[w].record \in Record
  BY <1>3 DEF GInv, WellTyped, Writer, Record, Contents, At
<1>4. ASSUME NEW w \in Writers, Insert(w)
      PROVE  log' = log \/ Appends(w)
  BY <1>3, <1>4 DEF Insert, Appends, At
<1>5. ASSUME NEW w \in Writers, Authorize(w)
      PROVE  log' = log \/ Appends(w)
  BY <1>3, <1>5 DEF Authorize, Appends, At
<1> QED
  BY <1>1, <1>2, <1>4, <1>5 DEF GovernanceNext

(* What a step does to a writer: it comes to rest, keeps its record, or    *)
(* drafts one that is legal then.                                          *)
Drafts(v) ==
  /\ writer'[v].step = "drafted" /\ log' = log
  /\ writer'[v].record.prev \in 0..Latest(writer'[v].store)
  /\ writer'[v].record.what \in Content(writer'[v].store)
  /\ Draftable(writer'[v].store, writer'[v].record)

Keeps(v) ==
  /\ ~At(v, "idle") /\ writer'[v].store = writer[v].store /\ writer'[v].record = writer[v].record

(* and is registering a plan only if it was, or looked at the proposal.    *)
Registers(v) ==
  Registering(v)' => Registering(v) \/ (log' = log /\ IsCandidate)

WriterStep(v) ==
  /\ writer'[v] = writer[v] \/ writer'[v].step = "idle" \/ Keeps(v) \/ Drafts(v)
  /\ Registers(v)

LEMMA WritersStep ==
  ASSUME GInv, [GovernanceNext]_governanceVars
  PROVE  \A v \in Writers : WriterStep(v)
<1> USE DEF WriterStep, Registers
<1>t. writer \in [Writers -> Writer]
  BY DEF GInv, WellTyped
<1>1. CASE UNCHANGED governanceVars
  BY <1>1 DEF governanceVars, Registering, At
<1>o. ASSUME NEW w \in Writers, WriterStep(w), \A v \in Writers \ {w} : writer'[v] = writer[v]
      PROVE  \A v \in Writers : WriterStep(v)
  BY <1>o DEF Registering, At
<1>2. ASSUME NEW w \in Writers, Draft(w)
      PROVE  WriterStep(w) /\ \A v \in Writers \ {w} : writer'[v] = writer[v]
  <2>1. PICK k \in family : \E prev \in 0..Latest(k), what \in Content(k) :
          /\ Draftable(k, [prev |-> prev, what |-> what])
          /\ writer' = [writer EXCEPT ![w] =
               [step |-> "drafted", store |-> k, record |-> [prev |-> prev, what |-> what]]]
    BY <1>2 DEF Draft
  <2>2. PICK prev \in 0..Latest(k), what \in Content(k) :
          /\ Draftable(k, [prev |-> prev, what |-> what])
          /\ writer' = [writer EXCEPT ![w] =
               [step |-> "drafted", store |-> k, record |-> [prev |-> prev, what |-> what]]]
    BY <2>1
  <2>3. log' = log
    BY <1>2 DEF Draft
  <2> QED
    BY <1>t, <2>2, <2>3 DEF Drafts, Registering, At
<1>3. ASSUME NEW w \in Writers, Rest(w)
      PROVE  WriterStep(w) /\ \A v \in Writers \ {w} : writer'[v] = writer[v]
  BY <1>t, <1>3, RestWriter DEF Registering, At
<1>4. ASSUME NEW w \in Writers, ValidatePlan(w), Go(w, "validated"), IsCandidate
      PROVE  WriterStep(w) /\ \A v \in Writers \ {w} : writer'[v] = writer[v]
  BY <1>t, <1>4, GoWriter DEF ValidatePlan, Keeps, At
<1>5. ASSUME NEW w \in Writers, Check(w), Go(w, "checked")
      PROVE  WriterStep(w) /\ \A v \in Writers \ {w} : writer'[v] = writer[v]
  <2>1. CASE AppendPlan(w)
    BY <1>t, <1>5, <2>1, GoWriter DEF AppendPlan, Keeps, Registering, At
  <2>2. CASE \E k \in Stores \ {"PLAN"} : Submit(w, k)
    BY <1>t, <1>5, <2>2, GoWriter DEF Submit, Keeps, Registering, At
  <2> QED
    BY <1>5, <2>1, <2>2 DEF Check, AppendReflection, AppendWeekly, TransitionPattern,
       AppendProposal, TransitionProposal, AppendResult, AppendDecision, AppendReview, Stores
<1>6. ASSUME NEW w \in Writers, Insert(w), Go(w, "drafted")
      PROVE  WriterStep(w) /\ \A v \in Writers \ {w} : writer'[v] = writer[v]
  BY <1>t, <1>6, GoWriter DEF Insert, Keeps, Registering, At
<1>7. ASSUME NEW w \in Writers, \/ Draft(w) \/ ValidatePlan(w) \/ Check(w) \/ Crash(w)
                                \/ Insert(w) \/ Authorize(w)
      PROVE  WriterStep(w) /\ \A v \in Writers \ {w} : writer'[v] = writer[v]
  <2>1. CASE ValidatePlan(w)
    BY <1>3, <1>4, <2>1 DEF ValidatePlan
  <2>2. CASE Check(w)
    BY <1>3, <1>5, <2>2, CheckLooks DEF Look
  <2>3. CASE Insert(w)
    BY <1>3, <1>6, <2>3 DEF Insert
  <2>4. CASE Crash(w) \/ Authorize(w)
    BY <1>3, <2>4 DEF Crash, Authorize
  <2> QED
    BY <1>2, <1>7, <2>1, <2>2, <2>3, <2>4
<1>8. CASE GovernanceNext
  <2>1. PICK w \in Writers : \/ Draft(w) \/ ValidatePlan(w) \/ Check(w) \/ Crash(w)
                             \/ Insert(w) \/ Authorize(w)
    BY <1>8 DEF GovernanceNext
  <2> QED
    BY <1>7, <1>o, <2>1
<1> QED
  BY <1>1, <1>8

(* A candidate is one by a record of its history.                          *)
LEMMA CandidateNominated ==
  ASSUME GInv, IsCandidate
  PROVE  Nominated(log["PROPOSAL_TRANSITION"])
<1>1. log["PROPOSAL_TRANSITION"] \in Seq(Record)
  BY DEF GInv, WellTyped, Stores
<1>2. Latest("PROPOSAL_TRANSITION") \in DOMAIN log["PROPOSAL_TRANSITION"]
  BY <1>1 DEF IsCandidate, Current, StatusAfter, Latest
<1> QED
  BY <1>2 DEF IsCandidate, Current, StatusAfter, Nominated

(* A history stays, or grows by a record that was legal when it was drafted *)
(* and is so still.                                                        *)
Grows(k) ==
  \/ log'[k] = log[k]
  \/ \E r \in Record : log'[k] = Append(log[k], r) /\ Follows(log[k], r, Len(log[k]))

LEMMA LegalKept ==
  ASSUME GInv, TransitionsLegal, [GovernanceNext]_governanceVars
  PROVE  TransitionsLegal'
<1>1. log \in [Stores -> Seq(Record)] /\ Transitions \subseteq Stores
  BY DEF GInv, WellTyped, Transitions, Stores
<1>2. ASSUME NEW k \in Transitions
      PROVE  Grows(k)
  <2>1. CASE log' = log
    BY <2>1 DEF Grows
  <2>2. ASSUME NEW w \in Writers, Appends(w) PROVE Grows(k)
    BY <1>1, <2>2 DEF Appends, TransitionsLegal, Latest, Grows
  <2> QED
    BY <2>1, <2>2, LogStep
<1>3. ASSUME NEW k \in Transitions
      PROVE  LegalHistory(log'[k])
  <2>1. LegalHistory(log[k]) /\ log[k] \in Seq(Record)
    BY <1>1 DEF TransitionsLegal
  <2>2. ASSUME NEW r \in Record, log'[k] = Append(log[k], r), Follows(log[k], r, Len(log[k]))
        PROVE  LegalHistory(log'[k])
    BY <2>1, <2>2, LegalAppend
  <2> QED
    BY <1>2, <2>1, <2>2 DEF Grows
<1>4. ASSUME NEW k \in Transitions, NEW r, Follows(log[k], r, Len(log[k]))
      PROVE  Follows(log'[k], r, Len(log'[k]))
  <2>1. log[k] \in Seq(Record) /\ Len(log[k]) \in 0..Len(log[k])
    BY <1>1
  <2>2. CASE log'[k] = log[k]
    BY <1>4, <2>2
  <2>3. ASSUME NEW t \in Record, log'[k] = Append(log[k], t)
        PROVE  Follows(log'[k], r, Len(log'[k]))
    BY <1>4, <2>1, <2>3, FollowsOn
  <2> QED
    BY <1>2, <2>2, <2>3 DEF Grows
<1>5. ASSUME NEW v \in Writers, writer'[v].step # "idle", writer'[v].store \in Transitions
      PROVE  Follows(log'[writer'[v].store], writer'[v].record, Len(log'[writer'[v].store]))
  <2>1. WriterStep(v)
    BY WritersStep
  <2>2. CASE Drafts(v)
    <3> DEFINE k == writer'[v].store
               r == writer'[v].record
    <3>1. k \in Transitions /\ log' = log
      BY <1>5, <2>2 DEF Drafts
    <3>2. Content(k) = ProposalStatuses
      BY <3>1 DEF Content, Transitions
    <3>3. r.prev \in 0..Len(log[k]) /\ r.what \in Content(k) /\ Draftable(k, r)
      BY <2>2 DEF Drafts, Latest
    <3> HIDE DEF k, r
    <3>4. Follows(log[k], r, Len(log[k]))
      BY <3>1, <3>2, <3>3 DEF Draftable, Follows
    <3> QED
      BY <3>1, <3>4 DEF k, r
  <2>3. CASE ~At(v, "idle") /\ writer'[v].store = writer[v].store
                            /\ writer'[v].record = writer[v].record
    BY <1>4, <1>5, <2>3 DEF TransitionsLegal, Latest
  <2> QED
    BY <1>5, <2>1, <2>2, <2>3 DEF WriterStep, Keeps, At
<1> QED
  BY <1>3, <1>5 DEF TransitionsLegal, At, Latest

LEMMA PlansKept ==
  ASSUME GInv, PlansNominated, [GovernanceNext]_governanceVars
  PROVE  PlansNominated'
<1>1. /\ log \in [Stores -> Seq(Record)]
      /\ "PLAN" \in Stores /\ "PROPOSAL_TRANSITION" \in Stores
  BY DEF GInv, WellTyped, Stores
<1>2. ASSUME Nominated(log["PROPOSAL_TRANSITION"])
      PROVE  Nominated(log'["PROPOSAL_TRANSITION"])
  <2>1. PICK n \in DOMAIN log["PROPOSAL_TRANSITION"] :
          log["PROPOSAL_TRANSITION"][n].what = "CANDIDATE"
    BY <1>2 DEF Nominated
  <2>2. CASE log' = log
    BY <1>2, <2>2
  <2>3. ASSUME NEW w \in Writers, Appends(w) PROVE Nominated(log'["PROPOSAL_TRANSITION"])
    <3>1. /\ n \in DOMAIN log'["PROPOSAL_TRANSITION"]
          /\ log'["PROPOSAL_TRANSITION"][n] = log["PROPOSAL_TRANSITION"][n]
      BY <1>1, <2>3 DEF Appends
    <3> QED
      BY <2>1, <3>1 DEF Nominated
  <2> QED
    BY <2>2, <2>3, LogStep
<1>3. ASSUME NEW v \in Writers, Registering(v)'
      PROVE  Nominated(log'["PROPOSAL_TRANSITION"])
  <2>1. Registering(v) \/ IsCandidate
    BY <1>3, WritersStep DEF WriterStep, Registers
  <2> QED
    BY <1>2, <2>1, CandidateNominated DEF PlansNominated
<1>4. ASSUME log'["PLAN"] # <<>>
      PROVE  Nominated(log'["PROPOSAL_TRANSITION"])
  <2>1. CASE log["PLAN"] # <<>>
    BY <1>2, <2>1 DEF PlansNominated
  <2>2. CASE log["PLAN"] = <<>>
    <3>1. PICK w \in Writers : Appends(w)
      BY <1>4, <2>2, LogStep
    <3>2. writer[w].store = "PLAN"
      BY <1>1, <1>4, <2>2, <3>1 DEF Appends
    <3>3. Registering(w)
      BY <3>1, <3>2 DEF Appends, Registering
    <3> QED
      BY <1>2, <3>3 DEF PlansNominated
  <2> QED
    BY <2>1, <2>2
<1> QED
  BY <1>3, <1>4 DEF PlansNominated

(* Nothing follows a rejection or a deprecation, and only a candidate is   *)
(* validated.                                                              *)
LEMMA AllowedFrom ==
  /\ AllowedTransitions["REJECTED"] = {} /\ AllowedTransitions["DEPRECATED"] = {}
  /\ \A status \in ProposalStatuses :
       "VALIDATED" \in AllowedTransitions[status] => status = "CANDIDATE"
  BY DEF AllowedTransitions, ProposalStatuses

(* The transitions of patterns and of proposals, for any operators that    *)
(* draft from whatever they saw last: where no two appends overlapped, a   *)
(* rejected or deprecated one stays so, and what is validated was a        *)
(* candidate just before.                                                  *)
THEOREM StatusesFollow == GovernanceSpec => []LifecycleRespected
<1>1. GovernanceInit => TransitionsLegal
  <2> SUFFICES ASSUME GovernanceInit PROVE TransitionsLegal
    OBVIOUS
  <2>1. \A k \in Transitions : log[k] = <<>>
    BY DEF GovernanceInit, Transitions, Stores
  <2>2. \A w \in Writers : At(w, "idle")
    BY DEF GovernanceInit, Idle, At
  <2> QED
    BY <2>1, <2>2 DEF TransitionsLegal, LegalHistory
<1>2. GInv /\ TransitionsLegal /\ [GovernanceNext]_governanceVars => TransitionsLegal'
  BY LegalKept
<1>3. GInv /\ TransitionsLegal => LifecycleRespected
  <2> SUFFICES ASSUME GInv, TransitionsLegal,
                      NEW k \in Transitions \ overlapped, NEW n \in DOMAIN log[k]
               PROVE  /\ StatusAfter(log[k], n - 1) \notin {"REJECTED", "DEPRECATED"}
                      /\ log[k][n].what = "VALIDATED" => StatusAfter(log[k], n - 1) = "CANDIDATE"
    BY DEF LifecycleRespected
  <2>1. k \in Stores /\ log[k] \in Seq(Record)
    BY DEF GInv, WellTyped, Transitions, Stores
  <2>2. log[k][n].prev = n - 1
    BY <2>1 DEF GInv, Sound, Replayable
  <2>3. log[k][n].what \in AllowedTransitions[StatusAfter(log[k], n - 1)]
    BY <2>2 DEF TransitionsLegal, LegalHistory, Follows
  <2>4. StatusAfter(log[k], n - 1) \in ProposalStatuses
    <3>1. n = 1 \/ n - 1 \in DOMAIN log[k]
      BY <2>1
    <3> QED
      BY <3>1 DEF TransitionsLegal, LegalHistory, Follows, StatusAfter, ProposalStatuses
  <2> QED
    BY <2>3, <2>4, AllowedFrom
<1> QED
  BY GovernanceSafe, <1>1, <1>2, <1>3, PTL DEF GovernanceSpec

(* append_plan, over any writers and crashes: a plan is recorded only of a *)
(* proposal that has been a candidate, though between its look at the      *)
(* proposal and its insert it may have ceased to be one.                   *)
THEOREM PlansAreNominated == GovernanceSpec => []PlansFollowCandidacy
<1>1. GovernanceInit => PlansNominated
  <2> SUFFICES ASSUME GovernanceInit PROVE PlansNominated
    OBVIOUS
  <2>1. log["PLAN"] = <<>>
    BY DEF GovernanceInit, Stores
  <2>2. \A w \in Writers : ~Registering(w)
    BY DEF GovernanceInit, Idle, At, Registering
  <2> QED
    BY <2>1, <2>2 DEF PlansNominated
<1>2. GInv /\ PlansNominated /\ [GovernanceNext]_governanceVars => PlansNominated'
  BY PlansKept
<1>3. PlansNominated => PlansFollowCandidacy
  BY DEF PlansNominated, Nominated, PlansFollowCandidacy
<1> QED
  BY GovernanceSafe, <1>1, <1>2, <1>3, PTL DEF GovernanceSpec

-----------------------------------------------------------------------------
(* REFLECTIONS                                                             *)

SeenRecords == [DAILY : [Days -> Nat], WEEKLY : [1..Weeks -> Nat], EXPERIENCE : SUBSET Facts]

ReadLists == {<<>>, <<"EXPERIENCE">>, <<"DAILY", "EXPERIENCE">>}

ReflectionTyped ==
  /\ experiences \subseteq Facts
  /\ dailies \in [Days -> Seq(SUBSET Facts)]
  /\ DOMAIN weeklies = 1..Weeks /\ \A w \in 1..Weeks : weeklies[w] \in Seq([DaysOf(w) -> Nat])
  /\ proposals \in [Keys -> Seq([1..Weeks -> Nat])]
  /\ DOMAIN builder = Builders
  /\ \A b \in Builders :
       /\ builder[b].kind \in {"NONE", "DAILY", "WEEKLY", "PROPOSAL"}
       /\ builder[b].reads \in ReadLists /\ builder[b].seen \in SeenRecords
       /\ builder[b] = [kind |-> builder[b].kind, reads |-> builder[b].reads,
                        seen |-> builder[b].seen, todo |-> builder[b].todo]

(* A daily is of experiences of its day, a weekly of dailies of its days.  *)
Daylong == \A d \in Days : \A n \in 1..Len(dailies[d]) :
             dailies[d][n] \subseteq experiences /\ \A x \in dailies[d][n] : x.day = d

Weeklong == \A w \in 1..Weeks : \A n \in 1..Len(weeklies[w]) : \A d \in DaysOf(w) :
              weeklies[w][n][d] <= Len(dailies[d])

(* Nobody has seen what is not there.                                      *)
SeenThere(s) ==
  /\ \A d \in Days : s.DAILY[d] <= Len(dailies[d])
  /\ \A w \in 1..Weeks : s.WEEKLY[w] <= Len(weeklies[w])
  /\ s.EXPERIENCE \subseteq experiences

(* All that the dailies in sight, or the weeklies in sight, are made of.   *)
DailiesCovered(s) ==
  \A d \in Days : \A n \in 1..s.DAILY[d] : dailies[d][n] \subseteq s.EXPERIENCE

WeekliesCovered(s) ==
  \A w \in 1..Weeks : \A n \in 1..s.WEEKLY[w] : \A d \in DaysOf(w) : weeklies[w][n][d] <= s.DAILY[d]

(* Sources are read after the records that name them.                      *)
BuilderKept(b) ==
  /\ SeenThere(builder[b].seen)
  /\ builder[b].kind \in {"WEEKLY", "PROPOSAL"} /\ builder[b].reads = <<>> =>
       DailiesCovered(builder[b].seen)
  /\ builder[b].kind = "PROPOSAL" /\ builder[b].reads # <<"DAILY", "EXPERIENCE">> =>
       WeekliesCovered(builder[b].seen)
  /\ builder[b].kind = "WEEKLY" => builder[b].todo \subseteq 1..Weeks

(* One proposal, and one of its weeks, as ProposalsStandOnEvidence has it. *)
WeekStands(w, weekly, key) ==
  LET days   == {d \in DaysOf(w) : weekly[d] \in DOMAIN dailies[d]}
      agree  == {d \in days : Finding(dailies[d][weekly[d]]) = key}
      trades == UNION {dailies[d][weekly[d]] : d \in agree}
  IN /\ days = DaysOf(w) /\ Cardinality(agree) >= MinDays
     /\ trades \subseteq experiences /\ Cardinality(trades) >= MinExperiences
     /\ \A x \in trades : x.day \in agree

Stands(proposal, key) ==
  LET weeks == {w \in 1..Weeks : proposal[w] > 0} IN
  /\ Cardinality(weeks) >= MinWeeks
  /\ \A w \in weeks : proposal[w] \in DOMAIN weeklies[w] /\ WeekStands(w, weeklies[w][proposal[w]], key)

ReflectionInv ==
  /\ ReflectionTyped /\ Daylong /\ Weeklong
  /\ \A b \in Builders : BuilderKept(b)
  /\ \A key \in Keys : \A n \in DOMAIN proposals[key] : Stands(proposals[key][n], key)

(* Stores only grow.                                                       *)
Grown ==
  /\ experiences \subseteq experiences'
  /\ \A d \in Days : /\ Len(dailies[d]) <= Len(dailies'[d])
                     /\ \A n \in 1..Len(dailies[d]) : dailies'[d][n] = dailies[d][n]
  /\ \A w \in 1..Weeks : /\ Len(weeklies[w]) <= Len(weeklies'[w])
                         /\ \A n \in 1..Len(weeklies[w]) : weeklies'[w][n] = weeklies[w][n]

LEMMA DaysInRange == \A w \in 1..Weeks : DaysOf(w) \subseteq Days
<1> SUFFICES ASSUME NEW w \in 1..Weeks, NEW d \in DaysOf(w) PROVE d \in Days
  OBVIOUS
<1>1. Weeks \in Nat /\ WeekLength \in Nat
  BY ReflectionRangesAssumption
<1>2. d \in Int /\ (w - 1) * WeekLength + 1 <= d /\ d <= w * WeekLength
  BY <1>1 DEF DaysOf
<1>3. (w - 1) * WeekLength >= 0 /\ (Weeks - w) * WeekLength >= 0
  BY <1>1
<1>4. Weeks * WeekLength = w * WeekLength + (Weeks - w) * WeekLength
  BY <1>1
<1> QED
  BY <1>1, <1>2, <1>3, <1>4 DEF Days

LEMMA WeekStandsOn ==
  ASSUME ReflectionTyped, ReflectionTyped', Grown, NEW w \in 1..Weeks, NEW weekly \in [DaysOf(w) -> Nat],
         NEW key, WeekStands(w, weekly, key)
  PROVE  WeekStands(w, weekly, key)'
<1> DEFINE days == {d \in DaysOf(w) : weekly[d] \in DOMAIN dailies[d]}
           agree == {d \in days : Finding(dailies[d][weekly[d]]) = key}
           trades == UNION {dailies[d][weekly[d]] : d \in agree}
           daysN == {d \in DaysOf(w) : weekly[d] \in DOMAIN dailies'[d]}
           agreeN == {d \in daysN : Finding(dailies'[d][weekly[d]]) = key}
           tradesN == UNION {dailies'[d][weekly[d]] : d \in agreeN}
<1>1. days = DaysOf(w) /\ Cardinality(agree) >= MinDays /\ trades \subseteq experiences
      /\ Cardinality(trades) >= MinExperiences /\ \A x \in trades : x.day \in agree
  BY DEF WeekStands
<1>2. \A d \in DaysOf(w) : d \in Days /\ weekly[d] \in 1..Len(dailies[d])
  BY <1>1, DaysInRange DEF ReflectionTyped
<1>3. \A d \in DaysOf(w) : weekly[d] \in DOMAIN dailies'[d] /\ dailies'[d][weekly[d]] = dailies[d][weekly[d]]
  BY <1>2 DEF ReflectionTyped, Grown
<1>4. daysN = DaysOf(w)
  BY <1>3
<1>5. agreeN = agree
  BY <1>1, <1>3, <1>4
<1>6. tradesN = trades
  BY <1>1, <1>3, <1>4, <1>5
<1> HIDE DEF days, trades
<1>7. /\ daysN = DaysOf(w) /\ Cardinality(agreeN) >= MinDays
      /\ tradesN \subseteq experiences' /\ Cardinality(tradesN) >= MinExperiences
      /\ \A x \in tradesN : x.day \in agreeN
  BY <1>1, <1>4, <1>5, <1>6 DEF Grown
<1> QED
  BY <1>7 DEF WeekStands

LEMMA StandsOn ==
  ASSUME ReflectionTyped, ReflectionTyped', Grown, NEW proposal \in [1..Weeks -> Nat],
         NEW key, Stands(proposal, key)
  PROVE  Stands(proposal, key)'
<1> DEFINE weeks == {w \in 1..Weeks : proposal[w] > 0}
<1>1. /\ Cardinality(weeks) >= MinWeeks
      /\ \A w \in weeks : proposal[w] \in DOMAIN weeklies[w] /\ WeekStands(w, weeklies[w][proposal[w]], key)
  BY DEF Stands
<1>2. ASSUME NEW w \in weeks
      PROVE  proposal[w] \in DOMAIN weeklies'[w] /\ WeekStands(w, weeklies[w][proposal[w]], key)'
  <2>0. w \in 1..Weeks /\ proposal[w] \in DOMAIN weeklies[w]
    BY <1>1
  <2>5. weeklies[w] \in Seq([DaysOf(w) -> Nat])
    BY <2>0 DEF ReflectionTyped
  <2>1. proposal[w] \in 1..Len(weeklies[w])
    BY <2>0, <2>5
  <2>2. proposal[w] \in DOMAIN weeklies'[w] /\ weeklies'[w][proposal[w]] = weeklies[w][proposal[w]]
    BY <2>1 DEF ReflectionTyped, Grown
  <2>3. PICK weekly \in [DaysOf(w) -> Nat] : weekly = weeklies[w][proposal[w]]
    BY <2>1, <2>5
  <2>4. WeekStands(w, weekly, key)'
    BY <1>1, <2>3, WeekStandsOn
  <2> QED
    BY <2>2, <2>3, <2>4
<1> QED
  BY <1>1, <1>2 DEF Stands

(* What a builder that stays where it is has seen stays true.              *)
LEMMA BuilderOn ==
  ASSUME ReflectionTyped, ReflectionTyped', Grown, NEW b \in Builders, BuilderKept(b),
         builder'[b].kind = builder[b].kind, builder'[b].reads = builder[b].reads,
         builder'[b].seen = builder[b].seen, builder'[b].todo \subseteq builder[b].todo
  PROVE  BuilderKept(b)'
<1>1. PICK s \in SeenRecords : s = builder[b].seen
  BY DEF ReflectionTyped
<1>2. /\ \A d \in Days : s.DAILY[d] \in Nat
      /\ \A w \in 1..Weeks : s.WEEKLY[w] \in Nat
  BY DEF SeenRecords
<1>3. SeenThere(s)
  BY <1>1 DEF BuilderKept
<1>4. SeenThere(s)'
  <2>1. \A d \in Days : Len(dailies[d]) \in Nat /\ Len(dailies'[d]) \in Nat
    BY DEF ReflectionTyped
  <2>2. \A w \in 1..Weeks : Len(weeklies[w]) \in Nat /\ Len(weeklies'[w]) \in Nat
    BY DEF ReflectionTyped
  <2> QED
    BY <1>2, <1>3, <2>1, <2>2 DEF SeenThere, Grown
<1>5. DailiesCovered(s) => DailiesCovered(s)'
  <2> SUFFICES ASSUME DailiesCovered(s), NEW d \in Days, NEW n \in 1..s.DAILY[d]
               PROVE  dailies'[d][n] \subseteq s.EXPERIENCE
    BY DEF DailiesCovered
  <2>1. n \in 1..Len(dailies[d])
    BY <1>2, <1>3 DEF SeenThere, ReflectionTyped
  <2> QED
    BY <2>1 DEF DailiesCovered, Grown
<1>6. WeekliesCovered(s) => WeekliesCovered(s)'
  <2> SUFFICES ASSUME WeekliesCovered(s), NEW w \in 1..Weeks, NEW n \in 1..s.WEEKLY[w], NEW d \in DaysOf(w)
               PROVE  weeklies'[w][n][d] <= s.DAILY[d]
    BY DEF WeekliesCovered
  <2>1. n \in 1..Len(weeklies[w])
    BY <1>2, <1>3 DEF SeenThere, ReflectionTyped
  <2> QED
    BY <2>1 DEF WeekliesCovered, Grown
<1> QED
  BY <1>1, <1>4, <1>5, <1>6 DEF BuilderKept

(* What was read and written stays sound where stores grow by sound parts. *)
LEMMA DaylongOn ==
  ASSUME ReflectionTyped, ReflectionTyped', Grown, Daylong,
         \A d \in Days : \A n \in (Len(dailies[d]) + 1)..Len(dailies'[d]) :
            dailies'[d][n] \subseteq experiences' /\ \A x \in dailies'[d][n] : x.day = d
  PROVE  Daylong'
<1> SUFFICES ASSUME NEW d \in Days, NEW n \in 1..Len(dailies'[d])
             PROVE  dailies'[d][n] \subseteq experiences' /\ \A x \in dailies'[d][n] : x.day = d
  BY DEF Daylong
<1>1. Len(dailies[d]) \in Nat /\ Len(dailies'[d]) \in Nat
  BY DEF ReflectionTyped
<1>2. CASE n \in 1..Len(dailies[d])
  BY <1>2 DEF Daylong, Grown
<1>3. CASE n \in (Len(dailies[d]) + 1)..Len(dailies'[d])
  BY <1>3
<1> QED
  BY <1>1, <1>2, <1>3

LEMMA WeeklongOn ==
  ASSUME ReflectionTyped, ReflectionTyped', Grown, Weeklong,
         \A w \in 1..Weeks : \A n \in (Len(weeklies[w]) + 1)..Len(weeklies'[w]) : \A d \in DaysOf(w) :
            weeklies'[w][n][d] <= Len(dailies'[d])
  PROVE  Weeklong'
<1> SUFFICES ASSUME NEW w \in 1..Weeks, NEW n \in 1..Len(weeklies'[w]), NEW d \in DaysOf(w)
             PROVE  weeklies'[w][n][d] <= Len(dailies'[d])
  BY DEF Weeklong
<1>1. Len(weeklies[w]) \in Nat /\ Len(weeklies'[w]) \in Nat
  BY DEF ReflectionTyped
<1>2. CASE n \in 1..Len(weeklies[w])
  <2>1. d \in Days /\ Len(dailies[d]) <= Len(dailies'[d]) /\ Len(dailies[d]) \in Nat /\ Len(dailies'[d]) \in Nat
    BY DaysInRange DEF Grown, ReflectionTyped
  <2>2. weeklies'[w][n] = weeklies[w][n] /\ weeklies[w][n][d] <= Len(dailies[d])
    BY <1>2 DEF Weeklong, Grown
  <2>3. weeklies[w] \in Seq([DaysOf(w) -> Nat])
    BY DEF ReflectionTyped
  <2>5. weeklies[w][n] \in [DaysOf(w) -> Nat]
    BY <1>2, <2>3
  <2>4. weeklies[w][n][d] \in Nat
    BY <2>5
  <2> QED
    BY <2>1, <2>2, <2>4
<1>3. CASE n \in (Len(weeklies[w]) + 1)..Len(weeklies'[w])
  BY <1>3
<1> QED
  BY <1>1, <1>2, <1>3

LEMMA ProposalsOn ==
  ASSUME ReflectionInv, ReflectionTyped', Grown,
         \A key \in Keys : \A n \in (Len(proposals[key]) + 1)..Len(proposals'[key]) :
            Stands(proposals[key][n], key)',
         \A key \in Keys : \A n \in 1..Len(proposals[key]) : proposals'[key][n] = proposals[key][n]
  PROVE  \A key \in Keys : \A n \in DOMAIN proposals'[key] : Stands(proposals[key][n], key)'
<1> SUFFICES ASSUME NEW key \in Keys, NEW n \in DOMAIN proposals'[key]
             PROVE  Stands(proposals[key][n], key)'
  OBVIOUS
<1>1. /\ ReflectionTyped /\ proposals[key] \in Seq([1..Weeks -> Nat]) /\ proposals'[key] \in Seq([1..Weeks -> Nat])
  BY DEF ReflectionInv, ReflectionTyped
<1>2. CASE n \in 1..Len(proposals[key])
  <2>1. PICK p \in [1..Weeks -> Nat] : p = proposals[key][n]
    BY <1>1, <1>2
  <2>2. Stands(p, key)
    BY <1>1, <1>2, <2>1 DEF ReflectionInv
  <2>3. Stands(p, key)'
    BY <1>1, <2>2, StandsOn
  <2>4. proposals'[key][n] = p
    BY <1>2, <2>1
  <2> QED
    BY <2>3, <2>4
<1>3. CASE n \in (Len(proposals[key]) + 1)..Len(proposals'[key])
  BY <1>3
<1> QED
  BY <1>1, <1>2, <1>3

LEMMA UnseenIn ==
  /\ Unseen \in SeenRecords
  /\ \A d \in Days : Unseen.DAILY[d] = 0
  /\ \A w \in 1..Weeks : Unseen.WEEKLY[w] = 0
  /\ Unseen.EXPERIENCE = {}
<1>1. [d \in Days |-> 0] \in [Days -> Nat] /\ [w \in 1..Weeks |-> 0] \in [1..Weeks -> Nat]
  OBVIOUS
<1> QED
  BY <1>1 DEF Unseen, SeenRecords

LEMMA RestingKept ==
  ASSUME ReflectionTyped', NEW b \in Builders, builder'[b] = Resting
  PROVE  BuilderKept(b)'
<1>1. builder'[b].kind = "NONE" /\ builder'[b].seen = Unseen
  BY DEF Resting
<1>2. \A d \in Days : Len(dailies'[d]) \in Nat
  BY DEF ReflectionTyped
<1>3. \A w \in 1..Weeks : Len(weeklies'[w]) \in Nat
  BY DEF ReflectionTyped
<1>4. SeenThere(Unseen)'
  BY <1>2, <1>3, UnseenIn DEF SeenThere
<1> QED
  BY <1>1, <1>4 DEF BuilderKept

(* A builder's part of the type.                                           *)
IsBuilder(r) ==
  /\ r.kind \in {"NONE", "DAILY", "WEEKLY", "PROPOSAL"}
  /\ r.reads \in ReadLists /\ r.seen \in SeenRecords
  /\ r = [kind |-> r.kind, reads |-> r.reads, seen |-> r.seen, todo |-> r.todo]

LEMMA RestingIs == IsBuilder(Resting)
  BY UnseenIn DEF IsBuilder, Resting, ReadLists

LEMMA DoneTyped ==
  ASSUME ReflectionTyped, NEW b \in Builders, NEW subject, Done(b, subject)
  PROVE  /\ DOMAIN builder' = Builders
         /\ \A c \in Builders : IsBuilder(builder'[c])
         /\ \A c \in Builders \ {b} : builder'[c] = builder[c]
         /\ \/ builder'[b] = Resting
            \/ /\ builder'[b].kind = builder[b].kind /\ builder'[b].reads = builder[b].reads
               /\ builder'[b].seen = builder[b].seen /\ builder'[b].todo \subseteq builder[b].todo
<1>1. \A c \in Builders : IsBuilder(builder[c])
  BY DEF ReflectionTyped, IsBuilder
<1>2. /\ DOMAIN builder' = Builders
      /\ \A c \in Builders \ {b} : builder'[c] = builder[c]
      /\ \/ builder'[b] = Resting
         \/ builder'[b] = [builder[b] EXCEPT !.todo = builder[b].todo \ {subject}]
  BY DEF Done, ReflectionTyped
<1>3. PICK r : r = builder[b]
  OBVIOUS
<1>4. r = [kind |-> r.kind, reads |-> r.reads, seen |-> r.seen, todo |-> r.todo]
      /\ r.kind \in {"NONE", "DAILY", "WEEKLY", "PROPOSAL"} /\ r.reads \in ReadLists /\ r.seen \in SeenRecords
  BY <1>1, <1>3 DEF IsBuilder
<1>5. PICK q : q = [r EXCEPT !.todo = r.todo \ {subject}]
  OBVIOUS
<1>6. q = [kind |-> r.kind, reads |-> r.reads, seen |-> r.seen, todo |-> r.todo \ {subject}]
  BY <1>4, <1>5
<1>7. IsBuilder(q) /\ q.kind = r.kind /\ q.reads = r.reads /\ q.seen = r.seen /\ q.todo \subseteq r.todo
  BY <1>4, <1>6 DEF IsBuilder
<1>8. builder'[b] = Resting \/ builder'[b] = q
  BY <1>2, <1>3, <1>5
<1>9. IsBuilder(builder'[b])
  BY <1>7, <1>8, RestingIs
<1>10. \A c \in Builders : IsBuilder(builder'[c])
  BY <1>1, <1>2, <1>9
<1> QED
  BY <1>2, <1>3, <1>7, <1>8, <1>10

LEMMA DoneKept ==
  ASSUME ReflectionInv, ReflectionTyped', Grown, NEW b \in Builders, NEW subject, Done(b, subject)
  PROVE  \A c \in Builders : BuilderKept(c)'
<1> SUFFICES ASSUME NEW c \in Builders PROVE BuilderKept(c)'
  OBVIOUS
<1>1. ReflectionTyped /\ BuilderKept(c)
  BY DEF ReflectionInv
<1>2. CASE c # b
  <2>1. builder'[c] = builder[c]
    BY <1>1, <1>2, DoneTyped
  <2> QED
    BY <1>1, <2>1, BuilderOn
<1>3. CASE c = b /\ builder'[b] = Resting
  BY <1>3, RestingKept
<1>4. CASE c = b /\ builder'[b] # Resting
  <2>1. /\ builder'[b].kind = builder[b].kind /\ builder'[b].reads = builder[b].reads
        /\ builder'[b].seen = builder[b].seen /\ builder'[b].todo \subseteq builder[b].todo
    BY <1>1, <1>4, DoneTyped
  <2> QED
    BY <1>1, <1>4, <2>1, BuilderOn
<1> QED
  BY <1>2, <1>3, <1>4

LEMMA ReflectionInitInv == ReflectionInit => ReflectionInv
<1> SUFFICES ASSUME ReflectionInit PROVE ReflectionInv
  OBVIOUS
<1> USE DEF ReflectionInit
<1>1. \A b \in Builders : builder[b] = Resting /\ IsBuilder(builder[b])
  BY RestingIs
<1>2. ReflectionTyped
  <2>1. \A b \in Builders :
          /\ builder[b].kind \in {"NONE", "DAILY", "WEEKLY", "PROPOSAL"}
       /\ builder[b].reads \in ReadLists /\ builder[b].seen \in SeenRecords
          /\ builder[b] = [kind |-> builder[b].kind, reads |-> builder[b].reads,
                           seen |-> builder[b].seen, todo |-> builder[b].todo]
    BY <1>1 DEF IsBuilder
  <2>2. \A w \in 1..Weeks : weeklies[w] \in Seq([DaysOf(w) -> Nat])
    OBVIOUS
  <2>3. dailies \in [Days -> Seq(SUBSET Facts)] /\ proposals \in [Keys -> Seq([1..Weeks -> Nat])]
    OBVIOUS
  <2> QED
    BY <2>1, <2>2, <2>3, ReflectionRangesAssumption DEF ReflectionTyped
<1>3. Daylong /\ Weeklong
  BY DEF Daylong, Weeklong
<1>4. SeenThere(Unseen)
  BY UnseenIn DEF SeenThere
<1>5. \A b \in Builders : BuilderKept(b)
  <2> SUFFICES ASSUME NEW b \in Builders PROVE BuilderKept(b)
    OBVIOUS
  <2>1. builder[b].kind = "NONE" /\ builder[b].seen = Unseen
    BY <1>1 DEF Resting
  <2> QED
    BY <1>4, <2>1 DEF BuilderKept
<1>6. \A key \in Keys : DOMAIN proposals[key] = {}
  OBVIOUS
<1> QED
  BY <1>2, <1>3, <1>5, <1>6 DEF ReflectionInv

LEMMA SupersedingIs ==
  ASSUME NEW S, NEW chain \in Seq(S), NEW record \in S, NEW next \in Superseding(chain, record)
  PROVE  /\ next \in Seq(S) /\ Len(chain) <= Len(next)
         /\ \A n \in 1..Len(chain) : next[n] = chain[n]
         /\ \A n \in (Len(chain) + 1)..Len(next) : next[n] = record
<1>1. next = chain \/ next = Append(chain, record)
  BY DEF Superseding
<1>2. CASE next = chain
  BY <1>2
<1>3. CASE next = Append(chain, record)
  BY <1>3
<1> QED
  BY <1>1, <1>2, <1>3

(* A step of builders only, or of an experience.                           *)
LEMMA StoresStay ==
  ASSUME ReflectionInv, ReflectionTyped', experiences \subseteq experiences',
         UNCHANGED <<dailies, weeklies, proposals>>, \A b \in Builders : BuilderKept(b)'
  PROVE  ReflectionInv'
<1>1. ReflectionTyped /\ Daylong /\ Weeklong
  BY DEF ReflectionInv
<1>2. /\ \A d \in Days : Len(dailies[d]) \in Nat
      /\ \A w \in 1..Weeks : Len(weeklies[w]) \in Nat
      /\ \A key \in Keys : Len(proposals[key]) \in Nat
  BY <1>1 DEF ReflectionTyped
<1>3. Grown
  BY <1>2 DEF Grown
<1>4. Daylong'
  BY <1>1, <1>2, <1>3, DaylongOn
<1>5. Weeklong'
  BY <1>1, <1>2, <1>3, WeeklongOn
<1>6. \A key \in Keys : \A n \in DOMAIN proposals'[key] : Stands(proposals[key][n], key)'
  BY <1>2, <1>3, ProposalsOn
<1> QED
  BY <1>4, <1>5, <1>6 DEF ReflectionInv

LEMMA ExperienceStep == ASSUME ReflectionInv, Experience PROVE ReflectionInv'
<1> USE DEF Experience
<1>1. ReflectionTyped
  BY DEF ReflectionInv
<1>2. ReflectionTyped'
  BY <1>1 DEF ReflectionTyped
<1>3. experiences \subseteq experiences'
  OBVIOUS
<1>4. Grown
  <2>1. \A d \in Days : Len(dailies[d]) \in Nat
    BY <1>1 DEF ReflectionTyped
  <2>2. \A w \in 1..Weeks : Len(weeklies[w]) \in Nat
    BY <1>1 DEF ReflectionTyped
  <2> QED
    BY <1>3, <2>1, <2>2 DEF Grown
<1>5. \A b \in Builders : builder'[b] = builder[b] /\ BuilderKept(b)
  BY DEF ReflectionInv
<1>6. \A b \in Builders : BuilderKept(b)'
  <2> SUFFICES ASSUME NEW b \in Builders PROVE BuilderKept(b)'
    OBVIOUS
  <2> QED
    BY <1>1, <1>2, <1>4, <1>5, BuilderOn
<1> QED
  BY <1>2, <1>3, <1>6, StoresStay

(* One builder moves and no store.                                         *)
LEMMA BuilderStep ==
  ASSUME ReflectionInv, UNCHANGED <<experiences, dailies, weeklies, proposals>>, NEW b \in Builders,
         NEW r, IsBuilder(r), builder' = [builder EXCEPT ![b] = r],
         ReflectionTyped' => BuilderKept(b)'
  PROVE  ReflectionInv'
<1>1. ReflectionTyped
  BY DEF ReflectionInv
<1>2. DOMAIN builder' = Builders /\ builder'[b] = r /\ \A c \in Builders \ {b} : builder'[c] = builder[c]
  BY <1>1 DEF ReflectionTyped
<1>3. \A c \in Builders : IsBuilder(builder[c])
  BY <1>1 DEF ReflectionTyped, IsBuilder
<1>4. \A c \in Builders : IsBuilder(builder'[c])
  BY <1>2, <1>3
<1>5. ReflectionTyped'
  BY <1>1, <1>2, <1>4 DEF ReflectionTyped, IsBuilder
<1>6. Grown
  <2>1. \A d \in Days : Len(dailies[d]) \in Nat
    BY <1>1 DEF ReflectionTyped
  <2>2. \A w \in 1..Weeks : Len(weeklies[w]) \in Nat
    BY <1>1 DEF ReflectionTyped
  <2> QED
    BY <2>1, <2>2 DEF Grown
<1>7. \A c \in Builders : BuilderKept(c)'
  <2> SUFFICES ASSUME NEW c \in Builders PROVE BuilderKept(c)'
    OBVIOUS
  <2>1. CASE c = b
    BY <1>5, <2>1
  <2>2. CASE c # b
    <3>1. builder'[c] = builder[c] /\ BuilderKept(c)
      BY <1>2, <2>2 DEF ReflectionInv
    <3> QED
      BY <1>1, <1>5, <1>6, <3>1, BuilderOn
  <2> QED
    BY <2>1, <2>2
<1> QED
  BY <1>5, <1>7, StoresStay

LEMMA AbandonStep == ASSUME ReflectionInv, NEW b \in Builders, Abandon(b) PROVE ReflectionInv'
<1> USE DEF Abandon
<1>1. builder'[b] = Resting
  BY DEF ReflectionInv, ReflectionTyped
<1>2. ReflectionTyped' => BuilderKept(b)'
  BY <1>1, RestingKept
<1> QED
  BY <1>2, RestingIs, BuilderStep

(* What a store holds, and a reader that takes note of it.                 *)
LEMMA StoredTyped ==
  ASSUME ReflectionTyped
  PROVE  /\ Stored("EXPERIENCE") = experiences /\ experiences \in SUBSET Facts
         /\ Stored("DAILY") \in [Days -> Nat] /\ \A d \in Days : Stored("DAILY")[d] = Len(dailies[d])
         /\ Stored("WEEKLY") \in [1..Weeks -> Nat]
         /\ \A w \in 1..Weeks : Stored("WEEKLY")[w] = Len(weeklies[w])
<1>1. \A d \in Days : Len(dailies[d]) \in Nat
  BY DEF ReflectionTyped
<1>2. \A w \in 1..Weeks : Len(weeklies[w]) \in Nat
  BY DEF ReflectionTyped
<1> QED
  BY <1>1, <1>2 DEF Stored, ReflectionTyped

(* What a command has seen, taken apart and put together again.            *)
LEMMA SeenParts ==
  ASSUME NEW seen \in SeenRecords
  PROVE  /\ seen = [DAILY |-> seen.DAILY, WEEKLY |-> seen.WEEKLY, EXPERIENCE |-> seen.EXPERIENCE]
         /\ seen.DAILY \in [Days -> Nat] /\ seen.WEEKLY \in [1..Weeks -> Nat]
         /\ seen.EXPERIENCE \in SUBSET Facts
  BY DEF SeenRecords

LEMMA SeenBuilt ==
  ASSUME NEW daily \in [Days -> Nat], NEW weekly \in [1..Weeks -> Nat],
         NEW facts \in SUBSET Facts
  PROVE  [DAILY |-> daily, WEEKLY |-> weekly, EXPERIENCE |-> facts] \in SeenRecords
  BY DEF SeenRecords

LEMMA SeenNext ==
  ASSUME ReflectionInv, NEW seen \in SeenRecords, SeenThere(seen),
         NEW store \in {"EXPERIENCE", "DAILY", "WEEKLY"}, NEW next,
         next = [seen EXCEPT ![store] = Stored(store)]
  PROVE  /\ next \in SeenRecords /\ SeenThere(next)
         /\ store = "EXPERIENCE" => DailiesCovered(next)
         /\ store = "EXPERIENCE" /\ WeekliesCovered(seen) => WeekliesCovered(next)
         /\ store = "DAILY" => WeekliesCovered(next)
<1>1. ReflectionTyped /\ Daylong /\ Weeklong
  BY DEF ReflectionInv
<1>2. seen = [DAILY |-> seen.DAILY, WEEKLY |-> seen.WEEKLY, EXPERIENCE |-> seen.EXPERIENCE]
      /\ seen.DAILY \in [Days -> Nat] /\ seen.WEEKLY \in [1..Weeks -> Nat] /\ seen.EXPERIENCE \in SUBSET Facts
  BY SeenParts
<1>3. /\ \A d \in Days : Len(dailies[d]) \in Nat
      /\ \A w \in 1..Weeks : Len(weeklies[w]) \in Nat
  BY <1>1 DEF ReflectionTyped
<1>4. CASE store = "EXPERIENCE"
  <2>1. next = [DAILY |-> seen.DAILY, WEEKLY |-> seen.WEEKLY, EXPERIENCE |-> experiences]
    BY <1>1, <1>2, <1>4, StoredTyped
  <2>2. next \in SeenRecords
    <3>1. experiences \in SUBSET Facts
      BY <1>1 DEF ReflectionTyped
    <3>2. [DAILY |-> seen.DAILY, WEEKLY |-> seen.WEEKLY, EXPERIENCE |-> experiences]
            \in SeenRecords
      BY <1>2, <3>1, SeenBuilt, Zenon
    <3> QED
      BY <2>1, <3>2, Zenon
  <2>3. SeenThere(next)
    BY <2>1 DEF SeenThere
  <2>4. DailiesCovered(next)
    <3> SUFFICES ASSUME NEW d \in Days, NEW n \in 1..next.DAILY[d] PROVE dailies[d][n] \subseteq next.EXPERIENCE
      BY DEF DailiesCovered
    <3>1. seen.DAILY[d] \in Nat /\ seen.DAILY[d] <= Len(dailies[d])
      BY <1>2 DEF SeenThere
    <3>2. n \in 1..Len(dailies[d])
      BY <1>3, <2>1, <3>1
    <3> QED
      BY <1>1, <2>1, <3>2 DEF Daylong
  <2>5. WeekliesCovered(seen) => WeekliesCovered(next)
    BY <2>1 DEF WeekliesCovered
  <2> QED
    BY <1>4, <2>2, <2>3, <2>4, <2>5
<1>5. CASE store = "DAILY"
  <2> DEFINE lengths == Stored("DAILY")
  <2>1. next = [DAILY |-> lengths, WEEKLY |-> seen.WEEKLY, EXPERIENCE |-> seen.EXPERIENCE]
    BY <1>2, <1>5
  <2>2. lengths \in [Days -> Nat] /\ \A d \in Days : lengths[d] = Len(dailies[d])
    BY <1>1, StoredTyped
  <2> HIDE DEF lengths
  <2>3. next \in SeenRecords
    <3>1. [DAILY |-> lengths, WEEKLY |-> seen.WEEKLY, EXPERIENCE |-> seen.EXPERIENCE]
            \in SeenRecords
      BY <1>2, <2>2, SeenBuilt, Zenon
    <3> QED
      BY <2>1, <3>1, Zenon
  <2>4. SeenThere(next)
    BY <1>2, <1>3, <2>1, <2>2 DEF SeenThere
  <2>5. WeekliesCovered(next)
    <3> SUFFICES ASSUME NEW w \in 1..Weeks, NEW n \in 1..next.WEEKLY[w], NEW d \in DaysOf(w)
                 PROVE  weeklies[w][n][d] <= next.DAILY[d]
      BY DEF WeekliesCovered
    <3>1. seen.WEEKLY[w] \in Nat /\ seen.WEEKLY[w] <= Len(weeklies[w])
      BY <1>2 DEF SeenThere
    <3>2. n \in 1..Len(weeklies[w]) /\ d \in Days
      BY <1>3, <2>1, <3>1, DaysInRange
    <3> QED
      BY <1>1, <2>1, <2>2, <3>2 DEF Weeklong
  <2> QED
    BY <1>5, <2>3, <2>4, <2>5
<1>6. CASE store = "WEEKLY"
  <2> DEFINE lengths == Stored("WEEKLY")
  <2>1. next = [DAILY |-> seen.DAILY, WEEKLY |-> lengths, EXPERIENCE |-> seen.EXPERIENCE]
    BY <1>2, <1>6
  <2>2. lengths \in [1..Weeks -> Nat] /\ \A w \in 1..Weeks : lengths[w] = Len(weeklies[w])
    BY <1>1, StoredTyped
  <2> HIDE DEF lengths
  <2>3. next \in SeenRecords
    <3>1. [DAILY |-> seen.DAILY, WEEKLY |-> lengths, EXPERIENCE |-> seen.EXPERIENCE]
            \in SeenRecords
      BY <1>2, <2>2, SeenBuilt, Zenon
    <3> QED
      BY <2>1, <3>1, Zenon
  <2>4. SeenThere(next)
    <3>1. \A w \in 1..Weeks : next.WEEKLY[w] <= Len(weeklies[w])
      <4> SUFFICES ASSUME NEW w \in 1..Weeks PROVE next.WEEKLY[w] <= Len(weeklies[w])
        OBVIOUS
      <4>1. next.WEEKLY = lengths
        BY <2>1
      <4>2. next.WEEKLY[w] = Len(weeklies[w]) /\ Len(weeklies[w]) \in Nat
        BY <1>3, <2>2, <4>1
      <4> QED
        BY <4>2
    <3>2. next.DAILY = seen.DAILY /\ next.EXPERIENCE = seen.EXPERIENCE
      BY <2>1
    <3> QED
      BY <3>1, <3>2 DEF SeenThere
  <2> QED
    BY <1>6, <2>3, <2>4
<1> QED
  BY <1>4, <1>5, <1>6

LEMMA ReadingOn ==
  /\ Tail(<<"DAILY", "EXPERIENCE">>) = <<"EXPERIENCE">> /\ Head(<<"DAILY", "EXPERIENCE">>) = "DAILY"
  /\ Tail(<<"EXPERIENCE">>) = <<>> /\ Head(<<"EXPERIENCE">>) = "EXPERIENCE"
  /\ <<"EXPERIENCE">> # <<>> /\ <<"DAILY", "EXPERIENCE">> # <<>>
  /\ <<"DAILY", "EXPERIENCE">> # <<"EXPERIENCE">>
<1>1. Len(<<"EXPERIENCE">>) = 1 /\ Len(<<"DAILY", "EXPERIENCE">>) = 2 /\ Len(<<>>) = 0
  OBVIOUS
<1> QED
  BY <1>1

LEMMA CommandStep == ASSUME ReflectionInv, NEW b \in Builders, Command(b) PROVE ReflectionInv'
<1>0. PICK kind \in {"DAILY", "WEEKLY", "PROPOSAL"} : \E subjects \in Ranges[kind] :
        builder' = [builder EXCEPT ![b] =
          [kind |-> kind, reads |-> Tail(Sources(kind)),
           seen |-> [Unseen EXCEPT ![Head(Sources(kind))] = Stored(Head(Sources(kind)))], todo |-> subjects]]
  BY Zenon DEF Command
<1>1. PICK subjects \in Ranges[kind] :
        builder' = [builder EXCEPT ![b] =
          [kind |-> kind, reads |-> Tail(Sources(kind)),
           seen |-> [Unseen EXCEPT ![Head(Sources(kind))] = Stored(Head(Sources(kind)))], todo |-> subjects]]
  BY <1>0
<1>2. UNCHANGED <<experiences, dailies, weeklies, proposals>>
  BY DEF Command
<1>3. /\ Head(Sources(kind)) = IF kind = "DAILY" THEN "EXPERIENCE" ELSE IF kind = "WEEKLY" THEN "DAILY" ELSE "WEEKLY"
      /\ Tail(Sources(kind)) = IF kind = "DAILY" THEN <<>> ELSE IF kind = "WEEKLY" THEN <<"EXPERIENCE">>
                               ELSE <<"DAILY", "EXPERIENCE">>
  BY DEF Sources
<1>4. PICK first : first = Head(Sources(kind))
  OBVIOUS
<1>5. PICK seen : seen = [Unseen EXCEPT ![first] = Stored(first)]
  OBVIOUS
<1>6. PICK r : r = [kind |-> kind, reads |-> Tail(Sources(kind)), seen |-> seen, todo |-> subjects]
  OBVIOUS
<1>7. builder' = [builder EXCEPT ![b] = r]
  BY <1>1, <1>4, <1>5, <1>6, Zenon
<1>8. first \in {"EXPERIENCE", "DAILY", "WEEKLY"}
  BY <1>3, <1>4
<1>9. SeenThere(Unseen)
  <2>1. \A d \in Days : Len(dailies[d]) \in Nat
    BY DEF ReflectionInv, ReflectionTyped
  <2>2. \A w \in 1..Weeks : Len(weeklies[w]) \in Nat
    BY DEF ReflectionInv, ReflectionTyped
  <2> QED
    BY <2>1, <2>2, UnseenIn DEF SeenThere
<1>10. seen \in SeenRecords /\ SeenThere(seen)
  BY <1>5, <1>8, <1>9, UnseenIn, SeenNext
<1>11. r.kind = kind /\ r.seen = seen /\ r.todo = subjects /\ r.reads = Tail(Sources(kind))
  BY <1>6
<1>12. Tail(Sources(kind)) \in ReadLists
  BY <1>3 DEF ReadLists
<1>13. IsBuilder(r)
  BY <1>6, <1>10, <1>11, <1>12 DEF IsBuilder
<1>14. builder'[b] = r
  BY <1>7 DEF ReflectionInv, ReflectionTyped
<1>15. SeenThere(seen)'
  BY <1>2, <1>10 DEF SeenThere
<1>16. kind = "WEEKLY" => subjects \subseteq 1..Weeks
  BY <1>1, ReflectionRangesAssumption
<1>18. /\ r.kind \in {"WEEKLY", "PROPOSAL"} => r.reads # <<>>
       /\ r.kind = "PROPOSAL" => r.reads = <<"DAILY", "EXPERIENCE">>
  BY <1>3, <1>11, ReadingOn
<1>17. BuilderKept(b)'
  BY <1>11, <1>14, <1>15, <1>16, <1>18 DEF BuilderKept
<1> QED
  BY <1>2, <1>7, <1>13, <1>17, BuilderStep

LEMMA ReadStep == ASSUME ReflectionInv, NEW b \in Builders, Read(b) PROVE ReflectionInv'
<1>1. PICK r : r = builder[b]
  OBVIOUS
<1>2. IsBuilder(r) /\ r.reads # <<>>
  BY <1>1 DEF Read, ReflectionInv, ReflectionTyped, IsBuilder
<1>3. UNCHANGED <<experiences, dailies, weeklies, proposals>>
  BY DEF Read
<1>4. PICK store : store = Head(r.reads)
  OBVIOUS
<1>5. PICK seen : seen = [r.seen EXCEPT ![store] = Stored(store)]
  OBVIOUS
<1>6. PICK q : q = [kind |-> r.kind, reads |-> Tail(r.reads), seen |-> seen, todo |-> r.todo]
  OBVIOUS
<1>7. r.reads \in {<<"EXPERIENCE">>, <<"DAILY", "EXPERIENCE">>}
  BY <1>2 DEF IsBuilder, ReadLists
<1>8. store \in {"EXPERIENCE", "DAILY", "WEEKLY"}
  BY <1>4, <1>7
<1>9. builder' = [builder EXCEPT ![b] = q]
  <2>1. builder' = [builder EXCEPT ![b].seen[store] = Stored(store), ![b].reads = Tail(r.reads)]
    BY <1>1, <1>4 DEF Read
  <2>2. b \in DOMAIN builder /\ r = [kind |-> r.kind, reads |-> r.reads, seen |-> r.seen, todo |-> r.todo]
    BY <1>2 DEF IsBuilder, ReflectionInv, ReflectionTyped
  <2>3. builder' = [builder EXCEPT ![b] = [r EXCEPT !.seen = seen, !.reads = Tail(r.reads)]]
    BY <1>1, <1>5, <2>1, <2>2
  <2>4. [r EXCEPT !.seen = seen, !.reads = Tail(r.reads)] = q
    <3>1. PICK k, l, m, s, t : k = r.kind /\ l = r.reads /\ m = Tail(r.reads) /\ s = r.seen /\ t = r.todo
      OBVIOUS
    <3>2. r = [kind |-> k, reads |-> l, seen |-> s, todo |-> t]
      BY <2>2, <3>1
    <3>3. PICK u : u = [r EXCEPT !.seen = seen]
      OBVIOUS
    <3>4. u = [kind |-> k, reads |-> l, seen |-> seen, todo |-> t]
      BY <3>2, <3>3
    <3>5. [u EXCEPT !.reads = m] = [kind |-> k, reads |-> m, seen |-> seen, todo |-> t]
      BY <3>4
    <3>6. [r EXCEPT !.seen = seen, !.reads = m] = [u EXCEPT !.reads = m]
      BY <3>3
    <3> QED
      BY <1>6, <3>1, <3>5, <3>6, Zenon
  <2> QED
    BY <2>3, <2>4
<1>10. BuilderKept(b) /\ r.seen \in SeenRecords
  BY <1>1 DEF ReflectionInv, ReflectionTyped
<1>11. SeenThere(r.seen) /\ (r.kind = "PROPOSAL" /\ r.reads # <<"DAILY", "EXPERIENCE">> => WeekliesCovered(r.seen))
       /\ (r.kind = "WEEKLY" => r.todo \subseteq 1..Weeks)
  BY <1>1, <1>10 DEF BuilderKept
<1>12. /\ seen \in SeenRecords /\ SeenThere(seen)
       /\ store = "EXPERIENCE" => DailiesCovered(seen)
       /\ store = "EXPERIENCE" /\ WeekliesCovered(r.seen) => WeekliesCovered(seen)
       /\ store = "DAILY" => WeekliesCovered(seen)
  BY <1>5, <1>8, <1>10, <1>11, SeenNext
<1>13. /\ q.kind = r.kind /\ q.reads = Tail(r.reads) /\ q.seen = seen /\ q.todo = r.todo
  BY <1>6
<1>14. IsBuilder(q)
  <2>1. Tail(r.reads) \in ReadLists
    BY <1>7, ReadingOn DEF ReadLists
  <2> QED
    BY <1>2, <1>6, <1>12, <1>13, <2>1 DEF IsBuilder
<1>15. builder'[b] = q
  BY <1>9 DEF ReflectionInv, ReflectionTyped
<1>16. BuilderKept(b)'
  <2>1. /\ q.kind = "PROPOSAL" /\ q.reads # <<"DAILY", "EXPERIENCE">> => WeekliesCovered(seen)
        /\ q.reads = <<>> => DailiesCovered(seen)
    <3>1. CASE r.reads = <<"EXPERIENCE">>
      BY <1>4, <1>11, <1>12, <1>13, <3>1, ReadingOn
    <3>2. CASE r.reads = <<"DAILY", "EXPERIENCE">>
      BY <1>4, <1>12, <1>13, <3>2, ReadingOn
    <3> QED
      BY <1>7, <3>1, <3>2
  <2>2. /\ SeenThere(seen)' <=> SeenThere(seen)
        /\ DailiesCovered(seen)' <=> DailiesCovered(seen)
        /\ WeekliesCovered(seen)' <=> WeekliesCovered(seen)
    BY <1>3 DEF SeenThere, DailiesCovered, WeekliesCovered
  <2> QED
    BY <1>11, <1>12, <1>13, <1>15, <2>1, <2>2 DEF BuilderKept
<1> QED
  BY <1>3, <1>9, <1>14, <1>16, BuilderStep

LEMMA BuildDailyStep == ASSUME ReflectionInv, NEW b \in Builders, BuildDaily(b) PROVE ReflectionInv'
<1>1. PICK day : day = Subject(b)
  OBVIOUS
<1>2. PICK seen \in SeenRecords : seen = builder[b].seen
  BY DEF ReflectionInv, ReflectionTyped
<1>3. /\ UNCHANGED <<experiences, weeklies, proposals>> /\ Done(b, day)
      /\ \E chain \in Superseding(dailies[day], Daily(seen, day)) : dailies' = [dailies EXCEPT ![day] = chain]
  BY <1>1, <1>2 DEF BuildDaily
<1>4. ReflectionTyped /\ Daylong /\ Weeklong /\ BuilderKept(b)
  BY DEF ReflectionInv
<1>5. Daily(seen, day) \in SUBSET Facts /\ Daily(seen, day) \subseteq experiences
      /\ \A x \in Daily(seen, day) : x.day = day
  <2>1. seen.EXPERIENCE \subseteq experiences /\ seen.EXPERIENCE \subseteq Facts
    BY <1>2, <1>4 DEF BuilderKept, SeenThere, SeenRecords
  <2> QED
    BY <2>1 DEF Daily
<1>6. dailies \in [Days -> Seq(SUBSET Facts)]
  BY <1>4 DEF ReflectionTyped
<1>7. /\ dailies' \in [Days -> Seq(SUBSET Facts)]
      /\ \A d \in Days : /\ Len(dailies[d]) <= Len(dailies'[d])
                         /\ \A n \in 1..Len(dailies[d]) : dailies'[d][n] = dailies[d][n]
                         /\ \A n \in (Len(dailies[d]) + 1)..Len(dailies'[d]) :
                              d = day /\ dailies'[d][n] = Daily(seen, day)
  <2>1. CASE day \in Days
    <3>1. PICK chain \in Superseding(dailies[day], Daily(seen, day)) : dailies' = [dailies EXCEPT ![day] = chain]
      BY <1>3
    <3>2. dailies[day] \in Seq(SUBSET Facts)
      BY <1>6, <2>1
    <3>3. /\ chain \in Seq(SUBSET Facts) /\ Len(dailies[day]) <= Len(chain)
          /\ \A n \in 1..Len(dailies[day]) : chain[n] = dailies[day][n]
          /\ \A n \in (Len(dailies[day]) + 1)..Len(chain) : chain[n] = Daily(seen, day)
      BY <1>5, <3>1, <3>2, SupersedingIs
    <3>4. dailies'[day] = chain /\ \A d \in Days \ {day} : dailies'[d] = dailies[d]
      BY <1>6, <2>1, <3>1
    <3>5. \A d \in Days \ {day} : dailies[d] \in Seq(SUBSET Facts) /\ Len(dailies[d]) \in Nat
      BY <1>6
    <3>6. dailies' \in [Days -> Seq(SUBSET Facts)]
      BY <1>6, <3>1, <3>3
    <3>7. \A d \in Days \ {day} : (Len(dailies[d]) + 1)..Len(dailies'[d]) = {}
      BY <3>4, <3>5
    <3> QED
      BY <3>3, <3>4, <3>5, <3>6, <3>7
  <2>2. CASE day \notin Days
    <3>1. dailies' = dailies
      BY <1>3, <1>6, <2>2
    <3>2. \A d \in Days : Len(dailies[d]) \in Nat
      BY <1>6
    <3> QED
      BY <1>6, <3>1, <3>2
  <2> QED
    BY <2>1, <2>2
<1>8. DOMAIN builder' = Builders /\ \A c \in Builders : IsBuilder(builder'[c])
  BY <1>3, <1>4, DoneTyped
<1>9. ReflectionTyped'
  BY <1>3, <1>4, <1>7, <1>8 DEF ReflectionTyped, IsBuilder
<1>10. Grown
  <2>1. \A w \in 1..Weeks : Len(weeklies[w]) \in Nat
    BY <1>4 DEF ReflectionTyped
  <2> QED
    BY <1>3, <1>7, <2>1 DEF Grown
<1>11. Daylong'
  <2>1. \A d \in Days : \A n \in (Len(dailies[d]) + 1)..Len(dailies'[d]) :
          dailies'[d][n] \subseteq experiences' /\ \A x \in dailies'[d][n] : x.day = d
    BY <1>3, <1>5, <1>7
  <2> QED
    BY <1>4, <1>9, <1>10, <2>1, DaylongOn
<1>12. Weeklong'
  <2>1. \A w \in 1..Weeks : (Len(weeklies[w]) + 1)..Len(weeklies'[w]) = {}
    BY <1>3, <1>4 DEF ReflectionTyped
  <2> QED
    BY <1>4, <1>9, <1>10, <2>1, WeeklongOn
<1>13. \A c \in Builders : BuilderKept(c)'
  BY <1>3, <1>9, <1>10, DoneKept
<1>14. \A key \in Keys : \A n \in DOMAIN proposals'[key] : Stands(proposals[key][n], key)'
  <2>1. \A key \in Keys : (Len(proposals[key]) + 1)..Len(proposals'[key]) = {}
    BY <1>3, <1>4 DEF ReflectionTyped
  <2> QED
    BY <1>3, <1>9, <1>10, <2>1, ProposalsOn
<1> QED
  BY <1>9, <1>11, <1>12, <1>13, <1>14 DEF ReflectionInv

LEMMA BuildWeeklyStep == ASSUME ReflectionInv, NEW b \in Builders, BuildWeekly(b) PROVE ReflectionInv'
<1>1. PICK week : week = Subject(b)
  OBVIOUS
<1>2. PICK seen \in SeenRecords : seen = builder[b].seen
  BY DEF ReflectionInv, ReflectionTyped
<1>3. /\ UNCHANGED <<experiences, dailies, proposals>> /\ Done(b, week)
      /\ \E chain \in Superseding(weeklies[week], Weekly(seen, week)) : weeklies' = [weeklies EXCEPT ![week] = chain]
  BY <1>1, <1>2 DEF BuildWeekly
<1>4. ReflectionTyped /\ Daylong /\ Weeklong /\ BuilderKept(b)
  BY DEF ReflectionInv
<1>5. ASSUME week \in 1..Weeks
      PROVE  /\ Weekly(seen, week) \in [DaysOf(week) -> Nat]
             /\ \A d \in DaysOf(week) : Weekly(seen, week)[d] <= Len(dailies[d])
  <2>1. \A d \in DaysOf(week) : d \in Days
    BY <1>5, DaysInRange
  <2>2. \A d \in Days : seen.DAILY[d] \in Nat /\ seen.DAILY[d] <= Len(dailies[d])
    BY <1>2, <1>4 DEF BuilderKept, SeenThere, SeenRecords
  <2> QED
    BY <2>1, <2>2 DEF Weekly
<1>6. DOMAIN weeklies = 1..Weeks /\ \A w \in 1..Weeks : weeklies[w] \in Seq([DaysOf(w) -> Nat])
  BY <1>4 DEF ReflectionTyped
<1>7. /\ DOMAIN weeklies' = 1..Weeks
      /\ \A w \in 1..Weeks :
           /\ weeklies'[w] \in Seq([DaysOf(w) -> Nat]) /\ Len(weeklies[w]) <= Len(weeklies'[w])
           /\ \A n \in 1..Len(weeklies[w]) : weeklies'[w][n] = weeklies[w][n]
           /\ \A n \in (Len(weeklies[w]) + 1)..Len(weeklies'[w]) :
                w = week /\ weeklies'[w][n] = Weekly(seen, week)
  <2>1. PICK chain \in Superseding(weeklies[week], Weekly(seen, week)) : weeklies' = [weeklies EXCEPT ![week] = chain]
    BY <1>3
  <2>2. DOMAIN weeklies' = 1..Weeks /\ \A w \in (1..Weeks) \ {week} : weeklies'[w] = weeklies[w]
    BY <1>6, <2>1
  <2>3. ASSUME NEW w \in 1..Weeks
        PROVE  /\ weeklies'[w] \in Seq([DaysOf(w) -> Nat]) /\ Len(weeklies[w]) <= Len(weeklies'[w])
               /\ \A n \in 1..Len(weeklies[w]) : weeklies'[w][n] = weeklies[w][n]
               /\ \A n \in (Len(weeklies[w]) + 1)..Len(weeklies'[w]) :
                    w = week /\ weeklies'[w][n] = Weekly(seen, week)
    <3>1. weeklies[w] \in Seq([DaysOf(w) -> Nat]) /\ Len(weeklies[w]) \in Nat
      BY <1>6
    <3>2. CASE w # week
      <4>1. weeklies'[w] = weeklies[w]
        BY <2>2, <3>2
      <4> QED
        BY <3>1, <4>1
    <3>3. CASE w = week
      <4>1. weeklies'[w] = chain
        BY <1>6, <2>1, <3>3
      <4>2. /\ chain \in Seq([DaysOf(week) -> Nat]) /\ Len(weeklies[week]) <= Len(chain)
            /\ \A n \in 1..Len(weeklies[week]) : chain[n] = weeklies[week][n]
            /\ \A n \in (Len(weeklies[week]) + 1)..Len(chain) : chain[n] = Weekly(seen, week)
        <5>1. weeklies[week] \in Seq([DaysOf(week) -> Nat]) /\ Weekly(seen, week) \in [DaysOf(week) -> Nat]
          BY <1>5, <3>1, <3>3
        <5>2. PICK S, old, record : S = [DaysOf(week) -> Nat] /\ old = weeklies[week] /\ record = Weekly(seen, week)
          OBVIOUS
        <5>3. old \in Seq(S) /\ record \in S /\ chain \in Superseding(old, record)
          BY <2>1, <5>1, <5>2, Zenon
        <5>4. /\ chain \in Seq(S) /\ Len(old) <= Len(chain)
              /\ \A n \in 1..Len(old) : chain[n] = old[n]
              /\ \A n \in (Len(old) + 1)..Len(chain) : chain[n] = record
          BY <5>3, SupersedingIs
        <5> QED
          BY <5>2, <5>4, Zenon
      <4> QED
        BY <3>3, <4>1, <4>2
    <3> QED
      BY <3>2, <3>3
  <2> QED
    BY <2>2, <2>3
<1>8. DOMAIN builder' = Builders /\ \A c \in Builders : IsBuilder(builder'[c])
  BY <1>3, <1>4, DoneTyped
<1>9. ReflectionTyped'
  BY <1>3, <1>4, <1>7, <1>8 DEF ReflectionTyped, IsBuilder
<1>10. Grown
  <2>1. \A d \in Days : Len(dailies[d]) \in Nat
    BY <1>4 DEF ReflectionTyped
  <2>2. \A d \in Days : /\ Len(dailies[d]) <= Len(dailies'[d])
                         /\ \A n \in 1..Len(dailies[d]) : dailies'[d][n] = dailies[d][n]
    BY <1>3, <2>1
  <2>3. \A w \in 1..Weeks : /\ Len(weeklies[w]) <= Len(weeklies'[w])
                             /\ \A n \in 1..Len(weeklies[w]) : weeklies'[w][n] = weeklies[w][n]
    BY <1>7
  <2> QED
    BY <1>3, <2>2, <2>3, Zenon DEF Grown
<1>11. Daylong'
  <2>1. \A d \in Days : (Len(dailies[d]) + 1)..Len(dailies'[d]) = {}
    BY <1>3, <1>4 DEF ReflectionTyped
  <2> QED
    BY <1>4, <1>9, <1>10, <2>1, DaylongOn
<1>12. Weeklong'
  <2>1. \A w \in 1..Weeks : \A n \in (Len(weeklies[w]) + 1)..Len(weeklies'[w]) : \A d \in DaysOf(w) :
          weeklies'[w][n][d] <= Len(dailies'[d])
    BY <1>3, <1>5, <1>7
  <2> QED
    BY <1>4, <1>9, <1>10, <2>1, WeeklongOn
<1>13. \A c \in Builders : BuilderKept(c)'
  BY <1>3, <1>9, <1>10, DoneKept
<1>14. \A key \in Keys : \A n \in DOMAIN proposals'[key] : Stands(proposals[key][n], key)'
  <2>1. \A key \in Keys : (Len(proposals[key]) + 1)..Len(proposals'[key]) = {}
    BY <1>3, <1>4 DEF ReflectionTyped
  <2> QED
    BY <1>3, <1>9, <1>10, <2>1, ProposalsOn
<1> QED
  BY <1>9, <1>11, <1>12, <1>13, <1>14 DEF ReflectionInv

(* What is proposed from what was seen stands.                             *)
LEMMA ProposedStands ==
  ASSUME ReflectionInv, NEW seen \in SeenRecords, SeenThere(seen), NEW key, Eligible(seen, key)
  PROVE  Proposal(seen, key) \in [1..Weeks -> Nat] /\ Stands(Proposal(seen, key), key)
<1>1. ReflectionTyped /\ Daylong /\ Weeklong
  BY DEF ReflectionInv
<1>2. /\ seen.WEEKLY \in [1..Weeks -> Nat]
      /\ \A w \in 1..Weeks : seen.WEEKLY[w] <= Len(weeklies[w])
  BY DEF SeenRecords, SeenThere
<1>3. PICK p : p = Proposal(seen, key)
  OBVIOUS
<1>4. Showing(seen, key) \subseteq 1..Weeks /\ \A w \in Showing(seen, key) : seen.WEEKLY[w] > 0
  BY DEF Showing
<1>5. p \in [1..Weeks -> Nat] /\ \A w \in Showing(seen, key) : p[w] = seen.WEEKLY[w]
  BY <1>2, <1>3, <1>4 DEF Proposal
<1>6. {w \in 1..Weeks : p[w] > 0} = Showing(seen, key)
  BY <1>3, <1>4 DEF Proposal
<1>7. ASSUME NEW w \in Showing(seen, key)
      PROVE  p[w] \in DOMAIN weeklies[w] /\ WeekStands(w, weeklies[w][p[w]], key)
  <2>1. w \in 1..Weeks /\ p[w] = seen.WEEKLY[w] /\ seen.WEEKLY[w] \in Nat /\ seen.WEEKLY[w] > 0
    BY <1>2, <1>4, <1>5
  <2>2. weeklies[w] \in Seq([DaysOf(w) -> Nat])
    BY <1>1, <2>1 DEF ReflectionTyped
  <2>3. p[w] \in 1..Len(weeklies[w])
    BY <1>2, <2>1, <2>2
  <2>4. PICK weekly \in [DaysOf(w) -> Nat] : weekly = weeklies[w][p[w]]
    BY <2>2, <2>3
  <2>5. HasPattern(weekly, key)
    BY <2>1, <2>4 DEF Showing
  <2>6. \A d \in DaysOf(w) : /\ d \in Days /\ weekly[d] \in 1..Len(dailies[d])
                             /\ weekly[d] \in DOMAIN dailies[d]
    <3> SUFFICES ASSUME NEW d \in DaysOf(w)
                 PROVE  d \in Days /\ weekly[d] \in 1..Len(dailies[d]) /\ weekly[d] \in DOMAIN dailies[d]
      OBVIOUS
    <3>1. d \in Days /\ weekly[d] \in Nat /\ weekly[d] > 0
      BY <2>1, <2>5, DaysInRange DEF HasPattern, Complete
    <3>2. weekly[d] <= Len(dailies[d])
      BY <1>1, <2>1, <2>3, <2>4 DEF Weeklong
    <3>3. dailies[d] \in Seq(SUBSET Facts)
      BY <1>1, <3>1 DEF ReflectionTyped
    <3> QED
      BY <3>1, <3>2, <3>3
  <2> DEFINE days == {d \in DaysOf(w) : weekly[d] \in DOMAIN dailies[d]}
             agree == {d \in days : Finding(dailies[d][weekly[d]]) = key}
             trades == UNION {dailies[d][weekly[d]] : d \in agree}
  <2>7. days = DaysOf(w)
    BY <2>6
  <2>8. agree = Support(weekly, key)
    BY <2>7 DEF Support
  <2>9. trades = Evidence(weekly, key)
    BY <2>8 DEF Evidence
  <2>10. Cardinality(agree) >= MinDays /\ Cardinality(trades) >= MinExperiences
    BY <2>5, <2>8, <2>9 DEF HasPattern
  <2>11. trades \subseteq experiences /\ \A x \in trades : x.day \in agree
    <3> SUFFICES ASSUME NEW d \in agree, NEW x \in dailies[d][weekly[d]]
                 PROVE  x \in experiences /\ x.day = d
      OBVIOUS
    <3>1. d \in Days /\ weekly[d] \in 1..Len(dailies[d])
      BY <2>6
    <3> QED
      BY <1>1, <3>1 DEF Daylong
  <2>12. WeekStands(w, weekly, key)
    <3> HIDE DEF trades
    <3>1. /\ days = DaysOf(w) /\ Cardinality(agree) >= MinDays
          /\ trades \subseteq experiences /\ Cardinality(trades) >= MinExperiences
          /\ \A x \in trades : x.day \in agree
      BY <2>7, <2>10, <2>11
    <3> USE DEF trades
    <3> QED
      BY <3>1 DEF WeekStands
  <2>13. p[w] \in DOMAIN weeklies[w]
    BY <2>2, <2>3
  <2> QED
    BY <2>4, <2>12, <2>13
<1>8. Cardinality({w \in 1..Weeks : p[w] > 0}) >= MinWeeks
  BY <1>6 DEF Eligible
<1>9. Stands(p, key)
  <2>1. \A w \in {v \in 1..Weeks : p[v] > 0} :
          p[w] \in DOMAIN weeklies[w] /\ WeekStands(w, weeklies[w][p[w]], key)
    BY <1>6, <1>7
  <2> QED
    BY <1>8, <2>1 DEF Stands
<1> QED
  BY <1>3, <1>5, <1>9

LEMMA BuildProposalStep == ASSUME ReflectionInv, NEW b \in Builders, BuildProposal(b) PROVE ReflectionInv'
<1>1. PICK subject : subject = Subject(b)
  OBVIOUS
<1>2. PICK key : key = KeyOrder[subject]
  OBVIOUS
<1>3. PICK seen \in SeenRecords : seen = builder[b].seen
  BY DEF ReflectionInv, ReflectionTyped
<1>4. /\ UNCHANGED <<experiences, dailies, weeklies>> /\ Done(b, subject)
      /\ \/ /\ Eligible(seen, key)
            /\ \E chain \in Superseding(proposals[key], Proposal(seen, key)) :
                 proposals' = [proposals EXCEPT ![key] = chain]
         \/ UNCHANGED proposals
  BY <1>1, <1>2, <1>3 DEF BuildProposal
<1>5. ReflectionTyped /\ Daylong /\ Weeklong /\ SeenThere(seen)
  BY <1>3 DEF ReflectionInv, BuilderKept
<1>6. proposals \in [Keys -> Seq([1..Weeks -> Nat])]
  BY <1>5 DEF ReflectionTyped
<1>7. Eligible(seen, key) => Proposal(seen, key) \in [1..Weeks -> Nat] /\ Stands(Proposal(seen, key), key)
  BY <1>5, ProposedStands
<1>8. PICK p : p = Proposal(seen, key)
  OBVIOUS
<1>9. /\ proposals' \in [Keys -> Seq([1..Weeks -> Nat])]
      /\ \A k \in Keys : /\ \A n \in 1..Len(proposals[k]) : proposals'[k][n] = proposals[k][n]
                         /\ \A n \in (Len(proposals[k]) + 1)..Len(proposals'[k]) :
                              k = key /\ Eligible(seen, key) /\ proposals'[k][n] = p
  <2>1. CASE Eligible(seen, key) /\ key \in Keys
             /\ \E chain \in Superseding(proposals[key], Proposal(seen, key)) :
                  proposals' = [proposals EXCEPT ![key] = chain]
    <3>1. PICK chain \in Superseding(proposals[key], Proposal(seen, key)) : proposals' = [proposals EXCEPT ![key] = chain]
      BY <2>1
    <3>2. PICK S, old : S = [1..Weeks -> Nat] /\ old = proposals[key]
      OBVIOUS
    <3>3. old \in Seq(S) /\ p \in S /\ chain \in Superseding(old, p)
      BY <1>6, <1>7, <1>8, <2>1, <3>1, <3>2
    <3>4. /\ chain \in Seq(S) /\ Len(old) <= Len(chain)
          /\ \A n \in 1..Len(old) : chain[n] = old[n]
          /\ \A n \in (Len(old) + 1)..Len(chain) : chain[n] = p
      BY <3>3, SupersedingIs
    <3>5. proposals'[key] = chain /\ \A k \in Keys \ {key} : proposals'[k] = proposals[k]
      BY <1>6, <2>1, <3>1
    <3>6. proposals' \in [Keys -> Seq([1..Weeks -> Nat])]
      BY <1>6, <3>1, <3>2, <3>4
    <3>7. \A k \in Keys \ {key} : (Len(proposals[k]) + 1)..Len(proposals'[k]) = {}
      BY <1>6, <3>5
    <3> QED
      BY <2>1, <3>2, <3>4, <3>5, <3>6, <3>7
  <2>2. CASE proposals' = proposals
    BY <1>6, <2>2
  <2>3. CASE key \notin Keys
    <3>1. proposals' = proposals
      BY <1>4, <1>6, <2>3
    <3> QED
      BY <1>6, <3>1
  <2> QED
    BY <1>4, <2>1, <2>2, <2>3
<1>10. DOMAIN builder' = Builders /\ \A c \in Builders : IsBuilder(builder'[c])
  BY <1>4, <1>5, DoneTyped
<1>11. ReflectionTyped'
  BY <1>4, <1>5, <1>9, <1>10 DEF ReflectionTyped, IsBuilder
<1>12. Grown
  <2>1. \A w \in 1..Weeks : Len(weeklies[w]) \in Nat
    BY <1>5 DEF ReflectionTyped
  <2>2. \A d \in Days : Len(dailies[d]) \in Nat
    BY <1>5 DEF ReflectionTyped
  <2> QED
    BY <1>4, <2>1, <2>2 DEF Grown
<1>13. Daylong' /\ Weeklong'
  BY <1>4, <1>5 DEF Daylong, Weeklong
<1>14. \A c \in Builders : BuilderKept(c)'
  BY <1>4, <1>11, <1>12, DoneKept
<1>15. Eligible(seen, key) => Stands(p, key)'
  BY <1>5, <1>7, <1>8, <1>11, <1>12, StandsOn
<1>16. \A k \in Keys : \A n \in DOMAIN proposals'[k] : Stands(proposals[k][n], k)'
  <2>1. \A k \in Keys : \A n \in (Len(proposals[k]) + 1)..Len(proposals'[k]) : Stands(proposals[k][n], k)'
    <3> SUFFICES ASSUME NEW k \in Keys, NEW n \in (Len(proposals[k]) + 1)..Len(proposals'[k])
                 PROVE  Stands(proposals[k][n], k)'
      OBVIOUS
    <3>1. k = key /\ Eligible(seen, key) /\ proposals'[k][n] = p
      BY <1>9
    <3> QED
      BY <1>15, <3>1
  <2> QED
    BY <1>9, <1>11, <1>12, <2>1, ProposalsOn
<1> QED
  BY <1>11, <1>13, <1>14, <1>16 DEF ReflectionInv

(* Whatever is appended, built, read or abandoned in whatever order, by    *)
(* any number of commands: records only name what is there, and a command  *)
(* reads what a record names after the record.                             *)
THEOREM ReflectionInvariant == ReflectionSpec => []ReflectionInv
<1>1. ASSUME ReflectionInv, [ReflectionNext]_reflectionVars PROVE ReflectionInv'
  <2>1. CASE UNCHANGED reflectionVars
    <3>1. /\ UNCHANGED <<experiences, dailies, weeklies, proposals>>
          /\ \A b \in Builders : builder'[b] = builder[b] /\ BuilderKept(b)
      BY <1>1, <2>1 DEF reflectionVars, ReflectionInv
    <3>2. ReflectionTyped'
      BY <1>1, <2>1 DEF reflectionVars, ReflectionInv, ReflectionTyped
    <3>3. \A b \in Builders : BuilderKept(b)'
      BY <2>1, <3>1 DEF reflectionVars, BuilderKept, SeenThere, DailiesCovered, WeekliesCovered
    <3> QED
      BY <1>1, <3>1, <3>2, <3>3, StoresStay
  <2>2. CASE Experience
    BY <1>1, <2>2, ExperienceStep
  <2>3. ASSUME NEW b \in Builders, Command(b) PROVE ReflectionInv'
    BY <1>1, <2>3, CommandStep
  <2>4. ASSUME NEW b \in Builders, Read(b) PROVE ReflectionInv'
    BY <1>1, <2>4, ReadStep
  <2>5. ASSUME NEW b \in Builders, BuildDaily(b) PROVE ReflectionInv'
    BY <1>1, <2>5, BuildDailyStep
  <2>6. ASSUME NEW b \in Builders, BuildWeekly(b) PROVE ReflectionInv'
    BY <1>1, <2>6, BuildWeeklyStep
  <2>7. ASSUME NEW b \in Builders, BuildProposal(b) PROVE ReflectionInv'
    BY <1>1, <2>7, BuildProposalStep
  <2>8. ASSUME NEW b \in Builders, Abandon(b) PROVE ReflectionInv'
    BY <1>1, <2>8, AbandonStep
  <2> QED
    BY <1>1, <2>1, <2>2, <2>3, <2>4, <2>5, <2>6, <2>7, <2>8 DEF ReflectionNext
<1> QED
  BY <1>1, ReflectionInitInv, PTL DEF ReflectionSpec

(* What an improvement proposal was ever recorded for, daily and weekly    *)
(* records that are there show (build_improvement_proposals).              *)
THEOREM EvidenceIsThere == ReflectionSpec => []ProposalsStandOnEvidence
<1>1. ReflectionInv => ProposalsStandOnEvidence
  <2> SUFFICES ASSUME ReflectionInv, NEW key \in Keys, NEW n \in DOMAIN proposals[key]
               PROVE  Stands(proposals[key][n], key)
    BY DEF ProposalsStandOnEvidence, Stands, WeekStands
  <2> QED
    BY DEF ReflectionInv
<1> QED
  BY <1>1, ReflectionInvariant, PTL

(* No command that has read its sources misses one (_validate_provenance). *)
THEOREM ProvenanceHolds == ReflectionSpec => []SourcesInSight
<1>1. ReflectionInv => SourcesInSight
  <2> SUFFICES ASSUME ReflectionInv, NEW b \in Builders, builder[b].kind # "NONE", builder[b].reads = <<>>,
                      NEW subject \in builder[b].todo
               PROVE  InSight(builder[b].seen, builder[b].kind, subject)
    BY DEF SourcesInSight
  <2>1. ReflectionTyped /\ BuilderKept(b)
    BY DEF ReflectionInv
  <2>2. PICK seen \in SeenRecords : seen = builder[b].seen
    BY <2>1 DEF ReflectionTyped
  <2>3. SeenThere(seen)
    BY <2>1, <2>2 DEF BuilderKept
  <2>4. CASE builder[b].kind = "DAILY"
    BY <2>4 DEF InSight
  <2>5. CASE builder[b].kind = "WEEKLY"
    <3>1. subject \in 1..Weeks /\ DailiesCovered(seen)
      BY <2>1, <2>2, <2>5 DEF BuilderKept
    <3>2. ASSUME NEW d \in DaysOf(subject), seen.DAILY[d] > 0
          PROVE  dailies[d][seen.DAILY[d]] \subseteq seen.EXPERIENCE
      <4>1. d \in Days /\ seen.DAILY[d] \in Nat
        BY <3>1, DaysInRange DEF SeenRecords
      <4> QED
        BY <3>1, <3>2, <4>1 DEF DailiesCovered
    <3>3. Inputs(Weekly(seen, subject)) \subseteq seen.EXPERIENCE
      BY <3>2 DEF Inputs, Weekly
    <3> QED
      BY <2>2, <2>5, <3>3 DEF InSight
  <2>6. CASE builder[b].kind = "PROPOSAL"
    <3>1. DailiesCovered(seen) /\ WeekliesCovered(seen)
      <4>1. builder[b].reads # <<"DAILY", "EXPERIENCE">>
        BY ReadingOn
      <4> QED
        BY <2>1, <2>2, <2>6, <4>1 DEF BuilderKept
    <3>2. PICK key : key = KeyOrder[subject]
      OBVIOUS
    <3>3. ASSUME NEW w \in Showing(seen, key), NEW weekly, weekly = weeklies[w][seen.WEEKLY[w]],
                 NEW d \in Support(weekly, key)
          PROVE  weekly[d] <= seen.DAILY[d] /\ dailies[d][weekly[d]] \subseteq seen.EXPERIENCE
      <4>1. w \in 1..Weeks /\ seen.WEEKLY[w] > 0 /\ HasPattern(weekly, key)
        BY <3>3 DEF Showing
      <4>2. seen.WEEKLY[w] \in Nat /\ seen.WEEKLY[w] <= Len(weeklies[w])
        BY <2>3, <4>1 DEF SeenThere, SeenRecords
      <4>3. weeklies[w] \in Seq([DaysOf(w) -> Nat])
        BY <2>1, <4>1 DEF ReflectionTyped
      <4>4. weekly \in [DaysOf(w) -> Nat]
        BY <3>3, <4>1, <4>2, <4>3
      <4>5. d \in DaysOf(w) /\ weekly[d] > 0 /\ weekly[d] \in Nat
        BY <3>3, <4>1, <4>4 DEF Support, HasPattern, Complete
      <4>6. d \in Days /\ seen.DAILY[d] \in Nat
        BY <4>1, <4>5, DaysInRange DEF SeenRecords
      <4>7. weekly[d] <= seen.DAILY[d]
        BY <3>1, <3>3, <4>1, <4>2, <4>5 DEF WeekliesCovered
      <4>8. weekly[d] \in 1..seen.DAILY[d]
        BY <4>5, <4>6, <4>7
      <4> QED
        BY <3>1, <4>6, <4>7, <4>8 DEF DailiesCovered
    <3>4. \A w \in Showing(seen, key) :
            LET weekly == weeklies[w][seen.WEEKLY[w]]
            IN /\ \A d \in Support(weekly, key) : weekly[d] <= seen.DAILY[d]
               /\ Evidence(weekly, key) \subseteq seen.EXPERIENCE
      BY <3>3 DEF Evidence
    <3> QED
      BY <2>2, <2>6, <3>2, <3>4 DEF InSight
  <2>7. builder[b].kind \in {"NONE", "DAILY", "WEEKLY", "PROPOSAL"}
    BY <2>1 DEF ReflectionTyped
  <2> QED
    BY <2>4, <2>5, <2>6, <2>7
<1> QED
  BY <1>1, ReflectionInvariant, PTL

-----------------------------------------------------------------------------
(* EXPLANATIONS                                                            *)

NoOutcome == Outcome(NoResponse, NoResponse)

(* The response of the first attempt that completed, so far.               *)
IsFirst(response, upto) ==
  \E j \in 1..upto :
    /\ attempts[j].status = "COMPLETED" /\ attempts[j].response = response
    /\ \A k \in 1..(j - 1) : attempts[k].status # "COMPLETED"

CallerRecords ==
  [at : {"idle", "looked", "persisting", "auditing"}, key : AttemptKeys \cup {NoResponse},
   policy : ReusePolicies, draft : Outcomes \cup {NoOutcome}, inTry : BOOLEAN]

(* What a caller has by the time it persists or audits: its request is on  *)
(* record, its outcome real, and one that is reused is the first.          *)
CallerKept(c) ==
  /\ caller[c].at # "idle" => caller[c].key \in AttemptKeys /\ caller[c].key \in asked
  /\ caller[c].at = "persisting" =>
       caller[c].draft.status = "COMPLETED" /\ caller[c].draft.response \in Explanations
  /\ caller[c].at = "auditing" =>
       /\ caller[c].draft \in Outcomes
       /\ caller[c].draft.status \in {"COMPLETED", "REUSED"} => caller[c].draft.response # NoResponse
       /\ caller[c].draft.status = "REUSED" => IsFirst(caller[c].draft.response, Len(attempts))

AttemptRecords == {Attempt(key, out) : key \in AttemptKeys, out \in Outcomes}

ReasoningTyped ==
  /\ asked \subseteq AttemptKeys
  /\ attempts \in Seq(AttemptRecords)
  /\ caller \in [Callers -> CallerRecords]

(* The first completed attempt is there as soon as one has completed.      *)
FirstThere == Completed # {} => \E i \in Completed : \A j \in Completed : i <= j

ReasoningInv ==
  /\ ReasoningTyped
  /\ \A c \in Callers : CallerKept(c)
  /\ \A i \in DOMAIN attempts : attempts[i].key \in asked
  /\ ReusesTheFirst /\ FirstThere

LEMMA OutcomeIn ==
  /\ \A status \in {"COMPLETED", "REUSED", "TIMEOUT", "CONNECTION_ERROR", "HTTP_ERROR",
                     "MODEL_UNAVAILABLE", "MODEL_IDENTITY_MISMATCH", "INVALID_RESPONSE", "PROVIDER_ERROR"},
        response \in Explanations \cup {NoResponse} :
       Outcome(status, response) \in Outcomes
  /\ \A out \in Outcomes : /\ out.status # NoResponse /\ out.response \in Explanations \cup {NoResponse}
                           /\ out = Outcome(out.status, out.response)
  BY DEF Outcomes, Outcome, NoResponse

LEMMA ReasoningInitInv == ReasoningInit => ReasoningInv
<1> SUFFICES ASSUME ReasoningInit PROVE ReasoningInv
  OBVIOUS
<1> USE DEF ReasoningInit
<1>1. AtRest \in CallerRecords
  BY DEF AtRest, CallerRecords, ReusePolicies, NoOutcome, Outcome
<1>2. ReasoningTyped
  BY <1>1 DEF ReasoningTyped
<1>3. \A c \in Callers : CallerKept(c)
  BY DEF CallerKept, AtRest
<1> QED
  BY <1>2, <1>3 DEF ReasoningInv, ReusesTheFirst, FirstThere, Completed

(* What is reused is the first completed response.                         *)
LEMMA FirstIsFirst ==
  ASSUME ReasoningInv, FirstCompleted # NoResponse
  PROVE  IsFirst(FirstCompleted, Len(attempts)) /\ FirstCompleted \in Explanations
<1> DEFINE f == CHOOSE i \in Completed : \A j \in Completed : i <= j
<1>1. Completed # {} /\ FirstCompleted = attempts[f].response
  BY DEF FirstCompleted
<1>2. f \in Completed /\ \A j \in Completed : f <= j
  BY <1>1 DEF ReasoningInv, FirstThere
<1> HIDE DEF f
<1>3. f \in 1..Len(attempts) /\ attempts[f] \in AttemptRecords /\ attempts[f].status = "COMPLETED"
  BY <1>2 DEF Completed, ReasoningInv, ReasoningTyped
<1>4. \A k \in 1..(f - 1) : attempts[k].status # "COMPLETED"
  BY <1>2, <1>3 DEF Completed, ReasoningInv, ReasoningTyped
<1> QED
  BY <1>1, <1>3, <1>4, OutcomeIn DEF IsFirst, AttemptRecords, Attempt

(* Nothing a caller has made sure of is lost while the stores grow.        *)
LEMMA OthersKept ==
  ASSUME ReasoningInv, NEW c \in Callers, caller'[c] = caller[c], asked \subseteq asked',
         UNCHANGED attempts \/ \E a \in AttemptRecords : attempts' = Append(attempts, a)
  PROVE  CallerKept(c)'
<1>1. CallerKept(c) /\ attempts \in Seq(AttemptRecords)
  BY DEF ReasoningInv, ReasoningTyped
<1>2. ASSUME NEW response, IsFirst(response, Len(attempts)) PROVE IsFirst(response, Len(attempts))'
  <2>1. CASE UNCHANGED attempts
    BY <1>2, <2>1 DEF IsFirst
  <2>2. CASE \E a \in AttemptRecords : attempts' = Append(attempts, a)
    <3>1. /\ Len(attempts') = Len(attempts) + 1 /\ Len(attempts) \in Nat
          /\ \A i \in 1..Len(attempts) : attempts'[i] = attempts[i]
      BY <1>1, <2>2
    <3>2. PICK j \in 1..Len(attempts) :
            /\ attempts[j].status = "COMPLETED" /\ attempts[j].response = response
            /\ \A k \in 1..(j - 1) : attempts[k].status # "COMPLETED"
      BY <1>2 DEF IsFirst
    <3>3. \A k \in 1..(j - 1) : k \in 1..Len(attempts)
      BY <3>1, <3>2
    <3>4. /\ j \in 1..Len(attempts') /\ attempts'[j].status = "COMPLETED" /\ attempts'[j].response = response
          /\ \A k \in 1..(j - 1) : attempts'[k].status # "COMPLETED"
      BY <3>1, <3>2, <3>3
    <3> QED
      BY <3>4 DEF IsFirst
  <2> QED
    BY <2>1, <2>2
<1> QED
  BY <1>1, <1>2 DEF CallerKept

LEMMA RequestStep ==
  ASSUME ReasoningInv, NEW c \in Callers, Request(c)
  PROVE  ReasoningInv'
<1> USE DEF Request
<1>1. PICK key \in AttemptKeys, policy \in ReusePolicies :
        /\ asked' = asked \cup {key}
        /\ \/ UNCHANGED caller
           \/ caller' = [caller EXCEPT ![c] = [AtRest EXCEPT !.at = "looked", !.key = key, !.policy = policy]]
  OBVIOUS
<1> DEFINE looked == [AtRest EXCEPT !.at = "looked", !.key = key, !.policy = policy]
<1>2. /\ looked \in CallerRecords /\ looked.at = "looked" /\ looked.key = key
  BY DEF AtRest, CallerRecords, NoOutcome
<1> HIDE DEF looked
<1>3. ReasoningTyped'
  BY <1>1, <1>2 DEF ReasoningInv, ReasoningTyped, looked
<1>4. \A d \in Callers : CallerKept(d)'
  <2>1. TAKE d \in Callers
  <2>2. CASE caller'[d] = caller[d]
    BY <1>1, <2>2, OthersKept
  <2>3. CASE caller'[d] # caller[d]
    <3>1. d = c /\ caller'[d] = looked
      BY <1>1, <2>3 DEF ReasoningInv, ReasoningTyped, looked
    <3> QED
      BY <1>1, <1>2, <3>1 DEF CallerKept
  <2> QED
    BY <2>2, <2>3
<1> QED
  BY <1>1, <1>3, <1>4 DEF ReasoningInv, ReusesTheFirst, FirstThere, Completed

(* A caller that concludes, or leaves, while no store is touched but that  *)
(* of the responses.                                                       *)
LEMMA CallerStep ==
  ASSUME ReasoningInv, NEW c \in Callers, NEW next \in CallerRecords,
         caller' = [caller EXCEPT ![c] = next], responses \subseteq responses',
         UNCHANGED <<asked, attempts>>,
         next.at # "idle" => next.key = caller[c].key /\ caller[c].at # "idle",
         next.at # "looked",
         next.at = "persisting" => next.draft.status = "COMPLETED" /\ next.draft.response \in Explanations,
         next.at = "auditing" =>
           /\ next.draft \in Outcomes
           /\ next.draft.status \in {"COMPLETED", "REUSED"} => next.draft.response # NoResponse
           /\ next.draft.status = "REUSED" => IsFirst(next.draft.response, Len(attempts))
  PROVE  ReasoningInv'
<1>1. ReasoningTyped'
  BY DEF ReasoningInv, ReasoningTyped
<1>2. \A d \in Callers : CallerKept(d)'
  <2>1. TAKE d \in Callers
  <2>2. CASE caller'[d] = caller[d]
    BY <2>2, OthersKept
  <2>3. CASE caller'[d] # caller[d]
    <3>1. d = c /\ caller'[d] = next /\ CallerKept(c)
      BY <2>3 DEF ReasoningInv, ReasoningTyped
    <3>2. ASSUME NEW response, IsFirst(response, Len(attempts)) PROVE IsFirst(response, Len(attempts))'
      BY <3>2 DEF IsFirst
    <3> QED
      BY <3>1, <3>2 DEF CallerKept
  <2> QED
    BY <2>2, <2>3
<1> QED
  BY <1>1, <1>2 DEF ReasoningInv, ReusesTheFirst, FirstThere, Completed

LEMMA ConcludeStep ==
  ASSUME ReasoningInv, NEW c \in Callers, caller[c].at # "idle",
         NEW status \in {out.status : out \in Outcomes}, NEW response \in Explanations \cup {NoResponse},
         NEW inTry \in BOOLEAN, Conclude(c, status, response, inTry),
         responses \subseteq responses', UNCHANGED <<asked, attempts>>,
         status \in {"COMPLETED", "REUSED"} => response # NoResponse,
         status = "REUSED" => IsFirst(response, Len(attempts))
  PROVE  ReasoningInv'
<1> DEFINE draft == Outcome(status, response)
           next == [caller[c] EXCEPT !.at = "auditing", !.draft = draft, !.inTry = inTry]
<1>1. draft \in Outcomes /\ draft.status = status /\ draft.response = response
  BY OutcomeIn DEF Outcomes, Outcome
<1>2. caller[c] \in CallerRecords /\ caller \in [Callers -> CallerRecords]
  BY DEF ReasoningInv, ReasoningTyped
<1>3. caller' = [caller EXCEPT ![c].at = "auditing", ![c].draft = draft, ![c].inTry = inTry]
  BY DEF Conclude
<1> HIDE DEF draft
<1>4. caller' = [caller EXCEPT ![c] = next]
  BY <1>2, <1>3
<1>5. next \in CallerRecords /\ next.at = "auditing" /\ next.draft = draft /\ next.key = caller[c].key
  BY <1>1, <1>2 DEF CallerRecords
<1> HIDE DEF next
<1> QED
  BY <1>1, <1>4, <1>5, CallerStep

LEMMA LeaveStep ==
  ASSUME ReasoningInv, NEW c \in Callers, Leave(c), UNCHANGED <<asked, responses, attempts>>
  PROVE  ReasoningInv'
<1>1. AtRest \in CallerRecords /\ AtRest.at = "idle"
  BY DEF AtRest, CallerRecords, ReusePolicies, NoOutcome, Outcome
<1>2. caller' = [caller EXCEPT ![c] = AtRest]
  BY DEF Leave
<1> QED
  BY <1>1, <1>2, CallerStep

LEMMA Statuses ==
  /\ \A status \in {"COMPLETED", "REUSED", "TIMEOUT", "CONNECTION_ERROR", "HTTP_ERROR",
                    "MODEL_UNAVAILABLE", "MODEL_IDENTITY_MISMATCH", "INVALID_RESPONSE", "PROVIDER_ERROR"} :
       status \in {out.status : out \in Outcomes}
  /\ \A seen \in Sightings : Identity(seen) = "VERIFIED"
       \/ Identity(seen) \in {out.status : out \in Outcomes} \ {"COMPLETED", "REUSED"}
  /\ \A reply \in Replies : Completion(reply) = "RECEIVED"
       \/ Completion(reply) \in {out.status : out \in Outcomes} \ {"COMPLETED", "REUSED"}
<1> DEFINE Failures == {"TIMEOUT", "CONNECTION_ERROR", "HTTP_ERROR", "MODEL_UNAVAILABLE",
                        "MODEL_IDENTITY_MISMATCH", "INVALID_RESPONSE", "PROVIDER_ERROR"}
<1>1. \A status \in Failures \cup {"COMPLETED", "REUSED"} : \E out \in Outcomes : out.status = status
  <2>1. \A status \in Failures \cup {"COMPLETED", "REUSED"} :
          Outcome(status, NoResponse) \in Outcomes /\ Outcome(status, NoResponse).status = status
    BY OutcomeIn DEF Outcome
  <2> QED
    BY <2>1
<1>2. \A link \in {"HTTP", "TIMEOUT", "REFUSED", "OVERSIZED"} : LinkFailure[link] \in Failures
  BY DEF LinkFailure
<1>3. \A seen \in Sightings : Identity(seen) \in Failures \cup {"VERIFIED"}
  <2>1. TAKE seen \in Sightings
  <2>2. /\ seen.link \in {"OK", "HTTP", "TIMEOUT", "REFUSED", "OVERSIZED"}
        /\ seen.json \in BOOLEAN /\ seen.version \in BOOLEAN
    BY ReasoningAssumption
  <2> QED
    BY <1>2, <2>2 DEF Identity
<1>4. \A reply \in Replies : Completion(reply) \in Failures \cup {"RECEIVED"}
  <2>1. TAKE reply \in Replies
  <2>2. reply.link \in {"OK", "HTTP", "TIMEOUT", "REFUSED", "OVERSIZED"}
    BY ReasoningAssumption
  <2> QED
    BY <1>2, <2>2 DEF Completion
<1> QED
  BY <1>1, <1>3, <1>4

LEMMA GenerateStep ==
  ASSUME ReasoningInv, NEW c \in Callers, Generate(c)
  PROVE  ReasoningInv'
<1>1. caller[c].at = "looked" /\ UNCHANGED <<asked, responses, attempts, answers>>
  BY DEF Generate
<1>2. ASSUME NEW status \in {out.status : out \in Outcomes} \ {"COMPLETED", "REUSED"}, NEW inTry \in BOOLEAN,
             Conclude(c, status, NoResponse, inTry)
      PROVE  ReasoningInv'
  BY <1>1, <1>2, ConcludeStep
<1>3. CASE \E seen \in Sightings :
             Identity(seen) # "VERIFIED" /\ Conclude(c, Identity(seen), NoResponse, FALSE)
  BY <1>2, <1>3, Statuses
<1>4. CASE \E reply \in Replies : Completion(reply) # "RECEIVED" /\ Conclude(c, Completion(reply), NoResponse, FALSE)
  BY <1>2, <1>4, Statuses
<1>5. CASE Conclude(c, "INVALID_RESPONSE", NoResponse, TRUE)
  BY <1>2, <1>5, Statuses
<1>6. ASSUME NEW reply \in Replies, Valid(reply),
             caller' = [caller EXCEPT ![c].at = "persisting", ![c].draft = Outcome("COMPLETED", reply.content)]
      PROVE  ReasoningInv'
  <2> DEFINE draft == Outcome("COMPLETED", reply.content)
             next == [caller[c] EXCEPT !.at = "persisting", !.draft = draft]
  <2>1. reply.content \in Explanations
    BY <1>6, ReasoningAssumption DEF Valid
  <2>2. draft \in Outcomes /\ draft.status = "COMPLETED" /\ draft.response = reply.content
    BY <2>1, OutcomeIn DEF Outcome
  <2>3. caller[c] \in CallerRecords /\ caller \in [Callers -> CallerRecords]
    BY DEF ReasoningInv, ReasoningTyped
  <2>4. caller' = [caller EXCEPT ![c].at = "persisting", ![c].draft = draft]
    BY <1>6
  <2> HIDE DEF draft
  <2>5. caller' = [caller EXCEPT ![c] = next]
    BY <2>3, <2>4
  <2>6. next \in CallerRecords /\ next.at = "persisting" /\ next.draft = draft /\ next.key = caller[c].key
    BY <2>2, <2>3 DEF CallerRecords
  <2> HIDE DEF next
  <2> QED
    BY <1>1, <2>1, <2>2, <2>5, <2>6, CallerStep
<1>7. \/ \E seen \in Sightings :
           Identity(seen) # "VERIFIED" /\ Conclude(c, Identity(seen), NoResponse, FALSE)
      \/ \E reply \in Replies :
           \/ Completion(reply) # "RECEIVED" /\ Conclude(c, Completion(reply), NoResponse, FALSE)
           \/ Conclude(c, "INVALID_RESPONSE", NoResponse, TRUE)
           \/ /\ Valid(reply)
              /\ caller' = [caller EXCEPT ![c].at = "persisting", ![c].draft = Outcome("COMPLETED", reply.content)]
  <2>1. CASE \E seen \in Sightings :
               Identity(seen) # "VERIFIED" /\ Conclude(c, Identity(seen), NoResponse, FALSE)
    BY <2>1
  <2>2. ASSUME NEW reply \in Replies,
               CASE Completion(reply) # "RECEIVED" -> Conclude(c, Completion(reply), NoResponse, FALSE)
                 [] Completion(reply) = "RECEIVED" /\ ~Valid(reply) ->
                      Conclude(c, "INVALID_RESPONSE", NoResponse, TRUE)
                 [] OTHER -> caller' = [caller EXCEPT ![c].at = "persisting",
                                                      ![c].draft = Outcome("COMPLETED", reply.content)]
        PROVE  \/ Completion(reply) # "RECEIVED" /\ Conclude(c, Completion(reply), NoResponse, FALSE)
               \/ Conclude(c, "INVALID_RESPONSE", NoResponse, TRUE)
               \/ /\ Valid(reply)
                  /\ caller' = [caller EXCEPT ![c].at = "persisting",
                                              ![c].draft = Outcome("COMPLETED", reply.content)]
    <3>1. CASE Completion(reply) # "RECEIVED"
      BY <2>2, <3>1
    <3>2. CASE Completion(reply) = "RECEIVED" /\ ~Valid(reply)
      BY <2>2, <3>2
    <3>3. CASE Completion(reply) = "RECEIVED" /\ Valid(reply)
      BY <2>2, <3>3
    <3> QED
      BY <3>1, <3>2, <3>3
  <2> QED
    BY <2>1, <2>2 DEF Generate
<1> QED
  BY <1>3, <1>4, <1>5, <1>6, <1>7

LEMMA AuditSteps ==
  ASSUME ReasoningInv, NEW c \in Callers,
         Reuse(c) \/ Unexpected(c) \/ Persist(c) \/ AuditRaises(c) \/ Die(c)
  PROVE  ReasoningInv'
<1>1. caller[c].at # "idle" => caller[c] \in CallerRecords /\ CallerKept(c)
  BY DEF ReasoningInv, ReasoningTyped
<1>2. CASE Reuse(c)
  <2>1. caller[c].at = "looked" /\ Conclude(c, "REUSED", FirstCompleted, FALSE) /\ FirstCompleted # NoResponse
        /\ UNCHANGED <<asked, responses, attempts, answers>>
    BY <1>2 DEF Reuse, Reusable
  <2>2. IsFirst(FirstCompleted, Len(attempts)) /\ FirstCompleted \in Explanations
    BY <2>1, FirstIsFirst
  <2> HIDE DEF FirstCompleted
  <2> QED
    BY <2>1, <2>2, ConcludeStep, Statuses
<1>3. CASE Unexpected(c)
  BY <1>3, ConcludeStep, Statuses DEF Unexpected
<1>4. CASE Persist(c)
  <2>1. caller[c].draft.response \in Explanations /\ caller[c].draft.response # NoResponse
    BY <1>1, <1>4, ReasoningAssumption DEF Persist, CallerKept
  <2>2. Conclude(c, "COMPLETED", caller[c].draft.response, TRUE) /\ caller[c].at # "idle"
        /\ responses \subseteq responses' /\ UNCHANGED <<asked, attempts>>
    BY <1>4 DEF Persist
  <2> QED
    BY <2>1, <2>2, ConcludeStep, Statuses
<1>5. CASE AuditRaises(c)
  BY <1>5, ConcludeStep, LeaveStep, Statuses DEF AuditRaises
<1>6. CASE Die(c)
  BY <1>6, LeaveStep DEF Die
<1> QED
  BY <1>2, <1>3, <1>4, <1>5, <1>6

LEMMA AppendStep ==
  ASSUME ReasoningInv, NEW c \in Callers, AppendAttempt(c)
  PROVE  ReasoningInv'
<1> DEFINE key == caller[c].key
           draft == caller[c].draft
           a == Attempt(key, draft)
<1>1. /\ caller[c].at = "auditing" /\ UNCHANGED <<asked, responses>>
      /\ caller' = [caller EXCEPT ![c] = AtRest]
      /\ answers' = answers \cup {<<key, draft>>}
  BY DEF AppendAttempt, Give, Leave
<1>2. /\ caller \in [Callers -> CallerRecords] /\ attempts \in Seq(AttemptRecords) /\ asked \subseteq AttemptKeys
      /\ CallerKept(c) /\ AtRest \in CallerRecords /\ AtRest.at = "idle"
  BY DEF ReasoningInv, ReasoningTyped, AtRest, CallerRecords, ReusePolicies, NoOutcome, Outcome
<1>3. CASE Of(key) # {} /\ UNCHANGED attempts
  BY <1>1, <1>2, <1>3, LeaveStep DEF Leave
<1>4. CASE Appendable(c) /\ attempts' = Append(attempts, a)
  <2> DEFINE n == Len(attempts)
  <2>1. /\ key \in AttemptKeys /\ key \in asked /\ draft \in Outcomes
        /\ draft.status \in {"COMPLETED", "REUSED"} => draft.response # NoResponse
        /\ draft.status = "REUSED" => IsFirst(draft.response, n)
    BY <1>1, <1>2 DEF CallerKept
  <2>2. /\ a \in AttemptRecords /\ a.key = key /\ a.status = draft.status /\ a.response = draft.response
    BY <2>1 DEF AttemptRecords, Attempt
  <2>3. /\ \A i \in DOMAIN attempts : attempts[i].key # key
        /\ draft.response # NoResponse => draft.response \in responses
    BY <1>4 DEF Appendable, Of
  <2> HIDE DEF a, draft, key
  <2>4. /\ n \in Nat /\ DOMAIN attempts = 1..n /\ DOMAIN attempts' = 1..(n + 1)
        /\ attempts' \in Seq(AttemptRecords) /\ Len(attempts') = n + 1
        /\ attempts'[n + 1] = a /\ \A i \in 1..n : attempts'[i] = attempts[i]
    BY <1>2, <1>4, <2>2
  <2>5. ReasoningTyped'
    BY <1>1, <1>2, <2>4 DEF ReasoningTyped
  <2>6. \A d \in Callers : CallerKept(d)'
    <3>1. TAKE d \in Callers
    <3>2. CASE caller'[d] = caller[d]
      <4>1. asked \subseteq asked' /\ \E b \in AttemptRecords : attempts' = Append(attempts, b)
        BY <1>1, <1>4, <2>2
      <4> QED
        BY <3>2, <4>1, OthersKept
    <3>3. CASE caller'[d] # caller[d]
      <4>1. caller'[d] = AtRest
        BY <1>1, <1>2, <3>3
      <4> QED
        BY <1>2, <4>1 DEF CallerKept
    <3> QED
      BY <3>2, <3>3
  <2>7. \A i \in DOMAIN attempts' : attempts'[i].key \in asked'
    BY <1>1, <2>1, <2>2, <2>4 DEF ReasoningInv
  <2>8. ReusesTheFirst'
    <3>1. ASSUME NEW i \in 1..(n + 1), attempts'[i].status \in {"COMPLETED", "REUSED"}
          PROVE  attempts'[i].response \in responses'
      BY <1>1, <2>1, <2>2, <2>3, <2>4, <3>1 DEF ReasoningInv, ReusesTheFirst
    <3>2. ASSUME NEW i \in 1..(n + 1), attempts'[i].status = "REUSED"
          PROVE  \E j \in 1..(i - 1) :
                   /\ attempts'[j].status = "COMPLETED" /\ attempts'[j].response = attempts'[i].response
                   /\ \A k \in 1..(j - 1) : attempts'[k].status # "COMPLETED"
      <4>1. \E j \in 1..(i - 1) :
              /\ attempts[j].status = "COMPLETED" /\ attempts[j].response = attempts'[i].response
              /\ \A k \in 1..(j - 1) : attempts[k].status # "COMPLETED"
        <5>1. CASE i \in 1..n
          BY <2>4, <3>2, <5>1 DEF ReasoningInv, ReusesTheFirst
        <5>2. CASE i = n + 1
          BY <2>1, <2>2, <2>4, <3>2, <5>2 DEF IsFirst
        <5> QED
          BY <2>4, <5>1, <5>2
      <4>2. \A j \in 1..(i - 1) : j \in 1..n /\ \A k \in 1..(j - 1) : k \in 1..n
        BY <2>4
      <4> QED
        BY <2>4, <4>1, <4>2
    <3>3. \A i, j \in 1..(n + 1) : attempts'[i].key = attempts'[j].key => i = j
      BY <2>2, <2>3, <2>4 DEF ReasoningInv, ReusesTheFirst
    <3> QED
      BY <2>4, <3>1, <3>2, <3>3 DEF ReusesTheFirst
  <2>9. FirstThere'
    <3>1. Completed' = Completed \/ Completed' = Completed \cup {n + 1}
      BY <2>4 DEF Completed
    <3>2. \A i \in Completed : i <= n + 1
      BY <2>4 DEF Completed
    <3>3. CASE Completed = {}
      BY <2>4, <3>1, <3>3 DEF FirstThere
    <3>4. CASE Completed # {}
      <4>1. PICK i \in Completed : \A j \in Completed : i <= j
        BY <3>4 DEF ReasoningInv, FirstThere
      <4>2. i \in Completed' /\ \A j \in Completed' : i <= j
        BY <3>1, <3>2, <4>1
      <4> QED
        BY <4>2 DEF FirstThere
    <3> QED
      BY <3>3, <3>4
  <2> QED
    BY <2>5, <2>6, <2>7, <2>8, <2>9 DEF ReasoningInv
<1> QED
  BY <1>3, <1>4 DEF AppendAttempt

LEMMA ReasoningStep ==
  ASSUME ReasoningInv, [ReasoningNext]_reasoningVars
  PROVE  ReasoningInv'
<1>1. CASE ReasoningNext
  BY <1>1, RequestStep, GenerateStep, AuditSteps, AppendStep DEF ReasoningNext
<1>2. CASE UNCHANGED reasoningVars
  <2> USE <1>2 DEF reasoningVars
  <2>1. \A c \in Callers : CallerKept(c)'
    BY OthersKept DEF ReasoningInv
  <2> QED
    BY <2>1 DEF ReasoningInv, ReasoningTyped, ReusesTheFirst, FirstThere, Completed
<1> QED
  BY <1>1, <1>2

(* Whatever the callers do, what each is about to persist or audit is      *)
(* backed by the record of attempts (service.py: run_reflection_explanation). *)
THEOREM ReasoningSafe == ReasoningSpec => []ReasoningInv
  BY ReasoningInitInv, ReasoningStep, PTL DEF ReasoningSpec

(* An attempt that reuses names the response of the first attempt that     *)
(* completed, which came before it and is on record, and no two attempts   *)
(* share a key: for any number of processes that ask at the same time, die *)
(* and ask again (service.py: run_reflection_explanation).                 *)
THEOREM FirstReused == ReasoningSpec => []ReusesTheFirst
<1>1. ReasoningInv => ReusesTheFirst
  BY DEF ReasoningInv
<1> QED
  BY <1>1, ReasoningSafe, PTL

-----------------------------------------------------------------------------
(* What is recorded under a key is the one attempt under it.               *)
LEMMA RecordedIs ==
  ASSUME ReasoningInv, NEW i \in DOMAIN attempts
  PROVE  Recorded(attempts[i].key) = Outcome(attempts[i].status, attempts[i].response)
<1> DEFINE key == attempts[i].key
<1>1. Of(key) = {i}
  BY DEF Of, ReasoningInv, ReusesTheFirst
<1>2. AttemptOf(key) = attempts[i]
  BY <1>1 DEF AttemptOf
<1> HIDE DEF key
<1>3. Recorded(key) = Outcome(attempts[i].status, attempts[i].response)
  BY <1>1, <1>2 DEF Recorded
<1> QED
  BY <1>3 DEF key

LEMMA RecordedReal ==
  ASSUME ReasoningInv, NEW key \in AttemptKeys
  PROVE  /\ Of(key) = {} => Recorded(key) = NoOutcome
         /\ Of(key) # {} => key \in asked /\ Recorded(key) \in Outcomes /\ Recorded(key) # NoOutcome
<1>1. Of(key) = {} => Recorded(key) = NoOutcome
  BY DEF Recorded, NoOutcome
<1>2. ASSUME Of(key) # {} PROVE key \in asked /\ Recorded(key) \in Outcomes /\ Recorded(key) # NoOutcome
  <2>1. PICK i \in DOMAIN attempts : attempts[i].key = key
    BY <1>2 DEF Of
  <2>2. attempts[i] \in AttemptRecords /\ key \in asked
    BY <2>1 DEF ReasoningInv, ReasoningTyped
  <2>3. PICK out \in Outcomes : attempts[i].status = out.status /\ attempts[i].response = out.response
    BY <2>2 DEF AttemptRecords, Attempt
  <2>4. Recorded(key) = Outcome(out.status, out.response)
    BY <2>1, <2>3, RecordedIs
  <2>5. Recorded(key) = out
    BY <2>4, OutcomeIn
  <2>6. NoOutcome.status = NoResponse
    BY DEF NoOutcome, Outcome
  <2> QED
    BY <2>2, <2>5, <2>6, OutcomeIn
<1> QED
  BY <1>1, <1>2

OutcomesSoFar == [key \in AttemptKeys |-> Recorded(key)]

LEMMA RequestRefined ==
  ASSUME ReasoningInv, NEW c \in Callers, Request(c)
  PROVE  [OneAnswer!RequestNext]_(OneAnswer!requestVars)
<1>1. PICK key \in AttemptKeys, policy \in ReusePolicies :
        /\ asked' = asked \cup {key}
        /\ \/ Of(key) # {} /\ answers' = answers \cup {<<key, Recorded(key)>>}
           \/ UNCHANGED answers
  BY DEF Request
<1>2. OutcomesSoFar' = OutcomesSoFar
  BY DEF Request, OutcomesSoFar, Recorded, AttemptOf, Of
<1>3. CASE UNCHANGED answers
  <2>1. OneAnswer!Ask(key)
    BY <1>1, <1>2, <1>3 DEF OneAnswer!Ask, OutcomesSoFar
  <2> QED
    BY <2>1 DEF OneAnswer!RequestNext
<1>4. CASE Of(key) # {} /\ answers' = answers \cup {<<key, Recorded(key)>>}
  <2>1. key \in asked /\ Recorded(key) # NoOutcome
    BY <1>4, RecordedReal
  <2>2. asked' = asked
    BY <1>1, <2>1
  <2>3. OneAnswer!Give(key)
    BY <1>2, <1>4, <2>1, <2>2 DEF OneAnswer!Give, OutcomesSoFar, NoOutcome
  <2> QED
    BY <2>3 DEF OneAnswer!RequestNext
<1> QED
  BY <1>1, <1>3, <1>4

LEMMA AppendRefined ==
  ASSUME ReasoningInv, ReasoningInv', NEW c \in Callers, AppendAttempt(c)
  PROVE  OneAnswer!RequestNext
<1>0. PICK key, draft : key = caller[c].key /\ draft = caller[c].draft
  OBVIOUS
<1>1. /\ caller[c].at = "auditing" /\ UNCHANGED <<asked, responses>>
      /\ answers' = answers \cup {<<key, draft>>}
  BY <1>0 DEF AppendAttempt, Give
<1>2. key \in AttemptKeys /\ key \in asked /\ draft \in Outcomes
  BY <1>0, <1>1 DEF ReasoningInv, CallerKept
<1>3. draft # NoOutcome /\ draft = Outcome(draft.status, draft.response)
  <2>1. NoOutcome.status = NoResponse
    BY DEF NoOutcome, Outcome
  <2> QED
    BY <1>2, <2>1, OutcomeIn
<1>4. CASE Of(key) # {} /\ Recorded(key) = draft /\ UNCHANGED attempts
  <2>1. OutcomesSoFar' = OutcomesSoFar
    BY <1>4 DEF OutcomesSoFar, Recorded, AttemptOf, Of
  <2>2. OneAnswer!Give(key)
    BY <1>1, <1>2, <1>3, <1>4, <2>1 DEF OneAnswer!Give, OutcomesSoFar, NoOutcome
  <2> QED
    BY <1>2, <2>2 DEF OneAnswer!RequestNext
<1>5. CASE Appendable(c) /\ attempts' = Append(attempts, Attempt(key, draft))
  <2>1. Of(key) = {} /\ Recorded(key) = NoOutcome
    BY <1>0, <1>2, <1>5, RecordedReal DEF Appendable
  <2> DEFINE n == Len(attempts)
  <2>2. Attempt(key, draft) \in AttemptRecords
    BY <1>2 DEF AttemptRecords
  <2>3. Attempt(key, draft).key = key /\ Attempt(key, draft).status = draft.status
        /\ Attempt(key, draft).response = draft.response
    BY DEF Attempt
  <2>4. /\ n \in Nat /\ DOMAIN attempts = 1..n /\ DOMAIN attempts' = 1..(n + 1)
        /\ attempts'[n + 1] = Attempt(key, draft) /\ \A i \in 1..n : attempts'[i] = attempts[i]
    BY <1>5, <2>2 DEF ReasoningInv, ReasoningTyped
  <2>5. Recorded(key)' = draft
    <3>1. Of(key)' = {n + 1}
      BY <2>1, <2>3, <2>4 DEF Of
    <3>2. AttemptOf(key)' = Attempt(key, draft)
      BY <2>4, <3>1 DEF AttemptOf
    <3> QED
      BY <1>3, <2>3, <3>1, <3>2 DEF Recorded
  <2>6. ASSUME NEW other \in AttemptKeys, other # key PROVE Recorded(other)' = Recorded(other)
    <3>1. Of(other)' = Of(other)
      BY <2>3, <2>4, <2>6 DEF Of
    <3>2. CASE Of(other) = {}
      BY <3>1, <3>2 DEF Recorded
    <3>3. CASE Of(other) # {}
      <4>1. (CHOOSE i \in Of(other)' : TRUE) = (CHOOSE i \in Of(other) : TRUE)
        BY <3>1
      <4>2. (CHOOSE i \in Of(other) : TRUE) \in 1..n
        BY <2>4, <3>3 DEF Of
      <4>3. AttemptOf(other)' = AttemptOf(other)
        BY <2>4, <4>1, <4>2 DEF AttemptOf
      <4> QED
        BY <3>1, <4>3 DEF Recorded
    <3> QED
      BY <3>2, <3>3
  <2>7. OutcomesSoFar' = [OutcomesSoFar EXCEPT ![key] = draft]
    <3>1. OutcomesSoFar' = [k \in AttemptKeys |-> Recorded(k)']
      BY DEF OutcomesSoFar
    <3>2. [OutcomesSoFar EXCEPT ![key] = draft] = [k \in AttemptKeys |-> IF k = key THEN draft ELSE Recorded(k)]
      BY <1>2 DEF OutcomesSoFar
    <3>3. \A k \in AttemptKeys : Recorded(k)' = IF k = key THEN draft ELSE Recorded(k)
      BY <2>5, <2>6
    <3> QED
      BY <3>1, <3>2, <3>3
  <2>8. OneAnswer!Complete(key, draft)
    BY <1>1, <1>2, <2>1, <2>7 DEF OneAnswer!Complete, OutcomesSoFar, NoOutcome
  <2> QED
    BY <1>2, <2>8 DEF OneAnswer!RequestNext
<1> QED
  BY <1>0, <1>4, <1>5 DEF AppendAttempt

LEMMA ReasoningRefined ==
  ASSUME ReasoningInv, ReasoningInv', [ReasoningNext]_reasoningVars
  PROVE  [OneAnswer!RequestNext]_(OneAnswer!requestVars)
<1>1. CASE UNCHANGED <<asked, attempts, answers>>
  BY <1>1 DEF OneAnswer!requestVars, Recorded, AttemptOf, Of
<1>2. ASSUME NEW c \in Callers,
             Reuse(c) \/ Generate(c) \/ Unexpected(c) \/ Persist(c) \/ AuditRaises(c) \/ Die(c)
      PROVE  UNCHANGED <<asked, attempts, answers>>
  BY <1>2 DEF Reuse, Generate, Unexpected, Persist, AuditRaises, Die
<1>3. CASE ReasoningNext
  BY <1>1, <1>2, <1>3, RequestRefined, AppendRefined DEF ReasoningNext
<1>4. CASE UNCHANGED reasoningVars
  BY <1>1, <1>4 DEF reasoningVars
<1> QED
  BY <1>3, <1>4

(* The explanations implement the promise of a recoverable request: under  *)
(* a key there is one outcome, and whoever asks is given that.             *)
THEOREM OneAnswerGiven == ReasoningSpec => OneAnswerPerKey
<1>1. ReasoningInit => OneAnswer!RequestInit
  BY DEF ReasoningInit, OneAnswer!RequestInit, Recorded, Of
<1> QED
  BY <1>1, ReasoningSafe, ReasoningRefined, PTL DEF ReasoningSpec, OneAnswerPerKey, OneAnswer!RequestSpec

=============================================================================
