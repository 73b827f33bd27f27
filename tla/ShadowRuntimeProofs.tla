------------------------- MODULE ShadowRuntimeProofs -------------------------
(***************************************************************************)
(* Proofs about the shadow runtime, in the views it is modelled in.        *)
(* THE LOOP, for every cadence, number of facts, latency and schedule of   *)
(* restarts.  Two facts make the shared sequence safe: the counter of a    *)
(* running process is beyond the cursor, and the cursor has reached the    *)
(* sequence of the last bar reduced.                                       *)
(* THE STREAM, for any specialists and any number of events, crashes and   *)
(* failed appends.  The kernel may be ahead of the journal, never beside   *)
(* it: what is journaled of a state or of a memory is a prefix of what the *)
(* running process holds, and the records still to be written are about    *)
(* just that.                                                              *)
(* THE BROKER'S CLOCK, for any offsets, tolerances and environments.  What *)
(* was stamped under another clock than the last tick is older than the    *)
(* silence it takes to change the clock.                                   *)
(* THE FUNNEL, for any specialists, pictures, plans and cuts.  The journal *)
(* and the records still to be appended are one line: it is the line that  *)
(* stands, each record naming what comes before it, and the journal is     *)
(* always a beginning of it.                                               *)
(***************************************************************************)
EXTENDS LiveShadow, RuntimeStream, BrokerClock, ShadowFunnel, DecisionPolicyProofs,
        FiniteSetTheorems

-----------------------------------------------------------------------------
(* THE LOOP                                                                *)

(* The cursor is never behind the last bar, and the bar in hand is real.   *)
BarReached == lastBar # Never => cursor >= BarSequence(lastBar)

BarInHand == pc = "process" => close > Never

ShadowInv == ShadowTypeOK /\ FactsAccepted /\ BarReached /\ BarInHand

LEMMA ConstantTypes ==
  /\ Bar \in Nat \ {0} /\ Facts \in Nat \ {0} /\ Interval \in Nat \ {0} /\ PollSeconds \in Nat \ {0}
  /\ StaleAfter \in Nat /\ Epoch \in Nat /\ BaseSequence \in Nat /\ MaxStarts \in Nat /\ MaxTime \in Nat
  /\ Latencies \subseteq Nat /\ Pauses \subseteq Nat
BY PositiveAssumption, NaturalAssumption

LEMMA ShadowInitInv == ShadowInit => ShadowInv
<1> SUFFICES ASSUME ShadowInit PROVE ShadowInv
  OBVIOUS
<1> USE DEF ShadowInit, Never
<1>1. ShadowTypeOK
  BY ConstantTypes DEF ShadowTypeOK
<1>2. FactsAccepted /\ BarReached /\ BarInHand
  BY DEF FactsAccepted, BarReached, BarInHand
<1> QED BY <1>1, <1>2 DEF ShadowInv

LEMMA ShadowStepInv == ShadowInv /\ [ShadowNext]_shadowVars => ShadowInv'
<1> SUFFICES ASSUME ShadowInv, [ShadowNext]_shadowVars PROVE ShadowInv'
  OBVIOUS
<1> USE ConstantTypes DEF ShadowInv, ShadowTypeOK, FactsAccepted, Fresh, BarReached, BarSequence, BarInHand, Never
<1>1. CASE Start
  <2>1. CASE /\ pc' = "refresh"
             /\ cursor' = ((IF cursor = 0 THEN BaseSequence ELSE cursor + 1) + Facts) - 1
             /\ nextSeq' = (IF cursor = 0 THEN BaseSequence ELSE cursor + 1) + Facts
             /\ refreshedAt' = clock /\ safe' = TRUE
    BY <1>1, <2>1, PositiveAssumption DEF Start
  <2>2. CASE \E n \in 0..Facts :
               /\ cursor' = IF n = 0 THEN cursor
                            ELSE ((IF cursor = 0 THEN BaseSequence ELSE cursor + 1) + n) - 1
               /\ UNCHANGED <<nextSeq, refreshedAt, safe, pc>>
    BY <1>1, <2>2 DEF Start
  <2> QED BY <1>1, <2>1, <2>2 DEF Start
<1>2. CASE RefreshSnapshotIfDue
  <2> USE DEF service
  <2>1. CASE pc' = "poll" /\ UNCHANGED <<cursor, service, lastBar, lastClose, close, starts, clock>>
    BY <1>2, <2>1 DEF RefreshSnapshotIfDue
  <2>2. CASE /\ Reduce(Facts) /\ refreshedAt' = clock /\ safe' \in BOOLEAN /\ pc' = "poll"
             /\ UNCHANGED <<lastBar, lastClose, close, starts, clock>>
    BY <2>2 DEF Reduce
  <2>3. CASE /\ ~Fresh /\ pc = "refresh"
    BY <2>3
  <2>4. CASE /\ pc = "refresh" /\ safe' = FALSE /\ pc' = "poll"
             /\ UNCHANGED <<cursor, nextSeq, refreshedAt, lastBar, lastClose, close, starts, clock>>
    BY <2>4
  <2>5. CASE (\E n \in 1..Facts : Reduce(n)) /\ Ends /\ UNCHANGED <<refreshedAt, lastBar>>
    <3>1. PICK n \in 1..Facts : Reduce(n)
      BY <2>5
    <3>2. n \in Nat /\ n > 0
      OBVIOUS
    <3>3. cursor' = (nextSeq + n) - 1 /\ nextSeq' = nextSeq + n /\ nextSeq > cursor
      BY <3>1 DEF Reduce
    <3>4. cursor' \in Nat /\ nextSeq' \in Nat /\ cursor' > cursor
      BY <3>2, <3>3
    <3>5. Ends /\ refreshedAt' = refreshedAt /\ lastBar' = lastBar
      BY <2>5
    <3>6. ShadowTypeOK'
      BY <3>4, <3>5 DEF Ends
    <3>7. BarReached'
      BY <3>4, <3>5
    <3>8. FactsAccepted' /\ BarInHand'
      BY <3>5 DEF Ends
    <3> QED BY <3>6, <3>7, <3>8
  <2> QED
    BY <1>2, <2>1, <2>2, <2>3, <2>4, <2>5 DEF RefreshSnapshotIfDue
<1>3. CASE Poll
  BY <1>3 DEF Poll, Closes, durable, service
<1>4. CASE Process
  <2>1. CASE /\ BarSequence(close) > cursor /\ Accept /\ pc' = "sleep"
             /\ UNCHANGED <<clock, refreshedAt, safe, lastClose, close, starts>>
    BY <2>1 DEF Accept
  <2>2. CASE Ends /\ UNCHANGED <<durable, nextSeq, refreshedAt>>
    BY <2>2 DEF Ends, durable
  <2> QED BY <1>4, <2>1, <2>2 DEF Process
<1>5. CASE Sleep
  BY <1>5 DEF Sleep, durable, service
<1>6. CASE Stop
  BY <1>6 DEF Stop, Ends, durable
<1>7. CASE Wait
  BY <1>7 DEF Wait, durable, service
<1>8. CASE UNCHANGED shadowVars
  BY <1>8 DEF shadowVars, durable, service
<1> QED BY <1>1, <1>2, <1>3, <1>4, <1>5, <1>6, <1>7, <1>8 DEF ShadowNext

LEMMA ShadowInvariant == ShadowSpec => []ShadowInv
BY ShadowInitInv, ShadowStepInv, PTL DEF ShadowSpec

(* Every variable of the loop keeps its type.                              *)
THEOREM ShadowTypeCorrect == ShadowSpec => []ShadowTypeOK
BY ShadowInvariant, PTL DEF ShadowInv

(* _refresh_broker never offers the reducer a sequence it has passed,      *)
(* whatever the bars, the cadence and the restarts before it.              *)
THEOREM SnapshotsAccepted == ShadowSpec => []FactsAccepted
BY ShadowInvariant, PTL DEF ShadowInv

(* The cursor restored by _restore_thesis keeps a restarted process from   *)
(* taking a bar again that an earlier one has taken.                       *)
THEOREM BarsInOrder == ShadowSpec => NoBarTwice
<1>1. ShadowInv /\ [ShadowNext]_shadowVars => [lastBar' # lastBar => Newer(lastBar')]_shadowVars
  <2> SUFFICES ASSUME ShadowInv, ShadowNext, lastBar' # lastBar
               PROVE  Newer(lastBar')
    BY DEF shadowVars, durable, service
  <2>1. Process
    BY DEF ShadowNext, Start, RefreshSnapshotIfDue, Poll, Sleep, Stop, Wait, durable
  <2>2. Accept /\ BarSequence(close) > cursor /\ close > Never
    BY <2>1 DEF Process, durable, ShadowInv, BarInHand
  <2> QED
    BY <2>2, ConstantTypes DEF Accept, Newer, Never, BarSequence, ShadowInv, ShadowTypeOK, BarReached
<1> QED BY <1>1, ShadowInvariant, PTL DEF ShadowSpec, NoBarTwice

-----------------------------------------------------------------------------
(* THE STREAM                                                              *)

(* Sequences are bounded by the guards, like the bounds of the search.     *)
Bounded(h) == h \in Seq(Events) /\ \A n \in DOMAIN h : h[n].seq <= MaxSequence

Up == stage \notin {"down", "blocked"}

(* What is journaled was held by the running process, which may hold more. *)
KernelAhead ==
  Up => /\ \A n \in OfType("STATE") : IsPrefix(journal[n].value, history)
        /\ \A a \in Agents : \A n \in MemoriesOf(a) : IsPrefix(journal[n].value, memories[a])

KernelKnows ==
  /\ kernelLast # NoEvent =>
       /\ kernelLast \in ToSet(history)
       /\ \A a \in Agents : kernelLast \in ToSet(memories[a])
  /\ ~Up => kernelLast = NoEvent

(* The journal and the kernel.                                             *)
Told ==
  /\ \A h \in States : Bounded(h)
  /\ CausalOrder /\ HistoryOnlyGrows /\ AppliedIsDurable
  /\ KernelAhead /\ KernelKnows
  /\ \A a \in Agents : /\ ToSet(memories[a]) \subseteq ToSet(history)
                       /\ ToSet(Latest(MemoriesOf(a))) \subseteq ToSet(RestoredState)
  /\ ToSet(Latest(OfType("THESIS"))) \subseteq ToSet(RestoredState)

(* The journal has what the kernel has, or is to have it before record n.  *)
StateFirst(n) == RestoredState = history \/ \E m \in 1..(n - 1) : todo[m].type = "STATE"
MemoryFirst(n, a) ==
  \/ Latest(MemoriesOf(a)) = memories[a]
  \/ \E m \in 1..(n - 1) : todo[m].type = "MEMORY" /\ todo[m].agent = a

RecordKept(n) ==
  /\ todo[n].type = "STATE" => todo[n].value = history
  /\ todo[n].type = "MEMORY" => todo[n].value = memories[todo[n].agent] /\ StateFirst(n)
  /\ todo[n].type = "THESIS" => ToSet(todo[n].value) \subseteq ToSet(history) /\ StateFirst(n)
  /\ todo[n].type = "APPLIED" =>
       /\ todo[n].event \in ToSet(history) /\ StateFirst(n)
       /\ todo[n].event.kind # "fact" =>
            \A a \in Agents : todo[n].event \in ToSet(memories[a]) /\ MemoryFirst(n, a)

InHand ==
  /\ ToSet(thesis) \subseteq ToSet(history)
  /\ ToSet(nextThesis) \subseteq ToSet(history)
  /\ stage \in {"intake", "outcome"} => event \in Events /\ event.seq <= MaxSequence
  /\ stage \notin {"intake", "outcome"} => todo = <<>> /\ nextThesis = <<>>
  /\ stage = "intake" => \A n \in DOMAIN todo : todo[n].type = "EVENT"
  /\ stage = "outcome" => \A n \in DOMAIN todo : RecordKept(n)

StreamInv == StreamTypeOK /\ Told /\ InHand

-----------------------------------------------------------------------------
(* A set of numbers up to some other has a greatest.                       *)
LEMMA MaxOfBounded ==
  ASSUME NEW b \in Nat, NEW S \in SUBSET (0..b), S # {}
  PROVE  Max(S) \in S /\ \A x \in S : x <= Max(S)
<1> DEFINE T == {b - x : x \in S}
<1>1. T \subseteq Nat /\ T # {}
  <2>1. ASSUME NEW x \in S PROVE b - x \in Nat
    BY <2>1
  <2>2. PICK x \in S : TRUE
    OBVIOUS
  <2>3. b - x \in T
    BY <2>2
  <2> QED
    BY <2>1, <2>3
<1>2. PICK t \in T : \A y \in T : ~(<<y, t>> \in OpToRel(<, Nat))
  BY <1>1, NatLessThanWellFounded, WFMin
<1>3. ASSUME NEW y \in T PROVE y >= t
  <2>1. y \in Nat /\ t \in Nat
    BY <1>1, <1>2, <1>3
  <2>2. y < t => <<y, t>> \in OpToRel(<, Nat)
    BY <2>1 DEF OpToRel
  <2>3. <<y, t>> \notin OpToRel(<, Nat)
    BY <1>2, <1>3, Zenon
  <2>4. ~(y < t)
    BY <2>2, <2>3
  <2> QED
    BY <2>1, <2>4
<1>4. PICK x \in S : t = b - x
  BY <1>2
<1>5. ASSUME NEW y \in S PROVE x >= y
  <2>1. b - y \in T
    BY <1>5
  <2>2. b - y >= b - x
    BY <1>3, <1>4, <2>1
  <2> QED
    BY <1>4, <2>2
<1> QED
  BY <1>4, <1>5 DEF Max

LEMMA MaxPlace ==
  ASSUME NEW h, NEW V, h \in Seq(V), NEW S \in SUBSET DOMAIN h, S # {}
  PROVE  Max(S) \in S /\ \A n \in S : n <= Max(S)
<1>1. Len(h) \in Nat /\ S \in SUBSET (0..Len(h))
  OBVIOUS
<1> QED
  BY <1>1, MaxOfBounded

(* Prefixes, place by place.                                               *)
LEMMA PrefixPlaces ==
  ASSUME NEW V, NEW s \in Seq(V), NEW t \in Seq(V)
  PROVE  IsPrefix(s, t) <=> Len(s) <= Len(t) /\ \A n \in DOMAIN s : s[n] = t[n]
  BY DEF IsPrefix

LEMMA PrefixTransitive ==
  ASSUME NEW V, NEW s \in Seq(V), NEW t \in Seq(V), NEW u \in Seq(V),
         IsPrefix(s, t), IsPrefix(t, u)
  PROVE  IsPrefix(s, u)
  BY PrefixPlaces

LEMMA PrefixContained ==
  ASSUME NEW V, NEW s \in Seq(V), NEW t \in Seq(V), IsPrefix(s, t)
  PROVE  ToSet(s) \subseteq ToSet(t)
  BY PrefixPlaces DEF ToSet

LEMMA PrefixAppend ==
  ASSUME NEW V, NEW s \in Seq(V), NEW e \in V
  PROVE  /\ IsPrefix(s, s) /\ IsPrefix(s, Append(s, e))
         /\ ToSet(Append(s, e)) = ToSet(s) \cup {e}
<1> DEFINE t == Append(s, e)
<1>1. /\ t \in Seq(V) /\ Len(t) = Len(s) + 1 /\ Len(s) \in Nat
      /\ DOMAIN t = DOMAIN s \cup {Len(s) + 1}
      /\ t[Len(s) + 1] = e /\ \A n \in DOMAIN s : t[n] = s[n]
  OBVIOUS
<1> HIDE DEF t
<1>3. IsPrefix(s, s)
  BY <1>1, PrefixPlaces
<1>4. IsPrefix(s, t)
  BY <1>1, PrefixPlaces
<1>6. ToSet(t) = ToSet(s) \cup {e}
  <2>1. ASSUME NEW x \in ToSet(t) PROVE x \in ToSet(s) \cup {e}
    BY <1>1, <2>1 DEF ToSet
  <2>2. ASSUME NEW x \in ToSet(s) \cup {e} PROVE x \in ToSet(t)
    <3>1. CASE x = e
      BY <1>1, <3>1 DEF ToSet
    <3>2. CASE x \in ToSet(s)
      <4>1. PICK n \in DOMAIN s : s[n] = x
        BY <3>2 DEF ToSet
      <4> QED
        BY <1>1, <4>1 DEF ToSet
    <3> QED
      BY <2>2, <3>1, <3>2
  <2> QED
    BY <2>1, <2>2
<1> QED
  BY <1>3, <1>4, <1>6 DEF t

-----------------------------------------------------------------------------
(* What the reducer makes of a state stays in causal order.                *)
LEMMA SourceLatest ==
  ASSUME NEW h \in Seq(Events), NEW s, OfSource(h, s) # {}
  PROVE  /\ Max(OfSource(h, s)) \in DOMAIN h
         /\ Source(h[Max(OfSource(h, s))]) = s
         /\ \A n \in OfSource(h, s) : n <= Max(OfSource(h, s))
<1>1. OfSource(h, s) \subseteq DOMAIN h
  BY DEF OfSource
<1>2. Max(OfSource(h, s)) \in OfSource(h, s) /\ \A n \in OfSource(h, s) : n <= Max(OfSource(h, s))
  BY <1>1, MaxPlace
<1> QED
  BY <1>2 DEF OfSource

LEMMA AppendInOrder ==
  ASSUME NEW h \in Seq(Events), InCausalOrder(h), NEW e \in Events, InOrder(h, e)
  PROVE  InCausalOrder(Append(h, e))
<1> DEFINE g == Append(h, e)
<1>1. /\ g \in Seq(Events) /\ DOMAIN g = DOMAIN h \cup {Len(h) + 1} /\ g[Len(h) + 1] = e
      /\ \A n \in DOMAIN h : g[n] = h[n]
  OBVIOUS
<1>2. ASSUME NEW m \in DOMAIN h
      PROVE  ~Before(e, h[m]) /\ (Source(h[m]) = Source(e) => h[m].seq < e.seq)
  <2>1. h # <<>> /\ h[m] \in Events /\ Last(h) \in Events /\ Last(h) = h[Len(h)]
    BY <1>2 DEF Last
  <2>2. ~Before(e, Last(h))
    BY <2>1 DEF InOrder
  <2>3. m = Len(h) \/ (Len(h) \in DOMAIN h /\ m \in 1..(Len(h) - 1))
    BY <1>2
  <2>4. m = Len(h) \/ ~Before(Last(h), h[m])
    BY <2>1, <2>3 DEF InCausalOrder
  <2>5. ~Before(e, h[m])
    BY <2>1, <2>2, <2>4 DEF Before, Events
  <2>6. ASSUME Source(h[m]) = Source(e) PROVE h[m].seq < e.seq
    <3> DEFINE last == Max(OfSource(h, Source(e)))
    <3>1. m \in OfSource(h, Source(e))
      BY <2>6 DEF OfSource
    <3>2. last \in DOMAIN h /\ Source(h[last]) = Source(e) /\ m <= last
      BY <3>1, SourceLatest
    <3>3. h[last].seq < e.seq /\ h[last] \in Events
      BY <3>1, <3>2 DEF InOrder, Events
    <3>4. m = last \/ h[m].seq < h[last].seq
      BY <2>6, <3>2 DEF InCausalOrder
    <3> QED
      BY <2>1, <3>3, <3>4 DEF Events
  <2> QED
    BY <2>5, <2>6
<1>3. ASSUME NEW n \in DOMAIN g, NEW m \in 1..(n - 1)
      PROVE  ~Before(g[n], g[m]) /\ (Source(g[m]) = Source(g[n]) => g[m].seq < g[n].seq)
  <2>1. CASE n \in DOMAIN h
    <3>1. m \in DOMAIN h /\ g[m] = h[m] /\ g[n] = h[n]
      BY <1>1, <1>3, <2>1
    <3> QED
      BY <1>3, <2>1, <3>1 DEF InCausalOrder
  <2>2. CASE n = Len(h) + 1
    <3>1. m \in DOMAIN h
      BY <1>3, <2>2
    <3> QED
      BY <1>1, <1>2, <2>2, <3>1
  <2> QED
    BY <1>1, <1>3, <2>1, <2>2
<1> QED
  BY <1>3 DEF InCausalOrder

LEMMA ReducedInOrder ==
  ASSUME NEW h, Bounded(h), InCausalOrder(h), NEW e \in Events, e.seq <= MaxSequence, Reducible(h, e)
  PROVE  /\ Bounded(Reduced(h, e)) /\ InCausalOrder(Reduced(h, e))
         /\ IsPrefix(h, Reduced(h, e)) /\ e \in ToSet(Reduced(h, e))
<1>1. CASE Repeats(h, e)
  <2>1. OfSource(h, Source(e)) # {} /\ h[Max(OfSource(h, Source(e)))] = e /\ Reduced(h, e) = h
    BY <1>1 DEF Repeats, Reduced
  <2>2. e \in ToSet(h)
    BY <2>1, SourceLatest DEF ToSet, Bounded
  <2> QED
    BY <2>1, <2>2, PrefixAppend DEF Bounded
<1>2. CASE ~Repeats(h, e)
  <2>1. Reduced(h, e) = Append(h, e) /\ InOrder(h, e)
    BY <1>2 DEF Reduced, Reducible
  <2> QED
    BY <2>1, AppendInOrder, PrefixAppend DEF Bounded
<1> QED
  BY <1>1, <1>2

-----------------------------------------------------------------------------
(* The journal after a record, and what a restart finds in it.             *)
LEMMA JournalAfter ==
  ASSUME journal \in Seq(Records), NEW r \in Records, journal' = Append(journal, r)
  PROVE  /\ journal' \in Seq(Records)
         /\ Len(journal) \in Nat
         /\ \A n \in DOMAIN journal : n <= Len(journal) /\ journal'[n] = journal[n]
         /\ journal'[Len(journal) + 1] = r
         /\ \A type : OfType(type)' = OfType(type) \cup {n \in {Len(journal) + 1} : r.type = type}
         /\ \A a : MemoriesOf(a)' = MemoriesOf(a)
                     \cup {n \in {Len(journal) + 1} : r.type = "MEMORY" /\ r.agent = a}
<1>1. /\ journal' \in Seq(Records) /\ Len(journal) \in Nat
      /\ DOMAIN journal' = DOMAIN journal \cup {Len(journal) + 1}
      /\ \A n \in DOMAIN journal : n <= Len(journal) /\ journal'[n] = journal[n]
      /\ journal'[Len(journal) + 1] = r
  OBVIOUS
<1>2. ASSUME NEW type
      PROVE  OfType(type)' = OfType(type) \cup {n \in {Len(journal) + 1} : r.type = type}
  BY <1>1 DEF OfType
<1>3. ASSUME NEW a
      PROVE  MemoriesOf(a)' = MemoriesOf(a)
               \cup {n \in {Len(journal) + 1} : r.type = "MEMORY" /\ r.agent = a}
  BY <1>1 DEF OfType, MemoriesOf
<1> QED
  BY <1>1, <1>2, <1>3

(* The latest of some records is one of them, and the last.                *)
LEMMA LatestPlace ==
  ASSUME journal \in Seq(Records), NEW places \in SUBSET DOMAIN journal, places # {}
  PROVE  /\ Max(places) \in places /\ Latest(places) = journal[Max(places)].value
         /\ \A n \in places : n <= Max(places)
  BY MaxPlace DEF Latest

LEMMA RestoredAfter ==
  ASSUME journal \in Seq(Records), NEW r \in Records, journal' = Append(journal, r)
  PROVE  /\ RestoredState' = IF r.type = "STATE" THEN r.value ELSE RestoredState
         /\ Latest(OfType("THESIS"))' = IF r.type = "THESIS" THEN r.value ELSE Latest(OfType("THESIS"))
         /\ \A a : Latest(MemoriesOf(a))' =
                     IF r.type = "MEMORY" /\ r.agent = a THEN r.value ELSE Latest(MemoriesOf(a))
<1>0. /\ journal' \in Seq(Records) /\ Len(journal) \in Nat
      /\ DOMAIN journal' = DOMAIN journal \cup {Len(journal) + 1}
      /\ \A n \in DOMAIN journal : n <= Len(journal) /\ journal'[n] = journal[n]
      /\ journal'[Len(journal) + 1] = r
  OBVIOUS
<1>1. ASSUME NEW type
      PROVE  Latest(OfType(type))' = IF r.type = type THEN r.value ELSE Latest(OfType(type))
  <2>1. /\ OfType(type)' = OfType(type) \cup {n \in {Len(journal) + 1} : r.type = type}
        /\ OfType(type) \in SUBSET DOMAIN journal
    BY JournalAfter DEF OfType
  <2>2. CASE r.type = type
    <3>1. /\ Len(journal) + 1 \in OfType(type)' /\ OfType(type)' \subseteq DOMAIN journal'
          /\ \A n \in OfType(type)' : n <= Len(journal) + 1
      BY <1>0, <2>1, <2>2
    <3>2. Max(OfType(type)') \in OfType(type)' /\ Len(journal) + 1 <= Max(OfType(type)')
      BY <1>0, <3>1, MaxPlace
    <3>3. Max(OfType(type)') = Len(journal) + 1
      BY <1>0, <3>1, <3>2
    <3> QED
      BY <1>0, <2>2, <3>1, <3>3 DEF Latest
  <2>3. CASE ~(r.type = type)
    <3>1. OfType(type)' = OfType(type)
      BY <2>1, <2>3
    <3>2. CASE OfType(type) = {}
      BY <2>3, <3>1, <3>2 DEF Latest
    <3>3. CASE OfType(type) # {}
      BY <1>0, <2>1, <2>3, <3>1, <3>3, LatestPlace DEF Latest
    <3> QED
      BY <3>2, <3>3
  <2> QED
    BY <2>2, <2>3
<1>2. ASSUME NEW a
      PROVE  Latest(MemoriesOf(a))' = IF r.type = "MEMORY" /\ r.agent = a THEN r.value ELSE Latest(MemoriesOf(a))
  <2>1. /\ MemoriesOf(a)' = MemoriesOf(a) \cup {n \in {Len(journal) + 1} : r.type = "MEMORY" /\ r.agent = a}
        /\ MemoriesOf(a) \in SUBSET DOMAIN journal
    BY JournalAfter DEF MemoriesOf, OfType
  <2>2. CASE r.type = "MEMORY" /\ r.agent = a
    <3>1. /\ Len(journal) + 1 \in MemoriesOf(a)' /\ MemoriesOf(a)' \subseteq DOMAIN journal'
          /\ \A n \in MemoriesOf(a)' : n <= Len(journal) + 1
      BY <1>0, <2>1, <2>2
    <3>2. Max(MemoriesOf(a)') \in MemoriesOf(a)' /\ Len(journal) + 1 <= Max(MemoriesOf(a)')
      BY <1>0, <3>1, MaxPlace
    <3>3. Max(MemoriesOf(a)') = Len(journal) + 1
      BY <1>0, <3>1, <3>2
    <3> QED
      BY <1>0, <2>2, <3>1, <3>3 DEF Latest
  <2>3. CASE ~(r.type = "MEMORY" /\ r.agent = a)
    <3>1. MemoriesOf(a)' = MemoriesOf(a)
      BY <2>1, <2>3
    <3>2. CASE MemoriesOf(a) = {}
      BY <2>3, <3>1, <3>2 DEF Latest
    <3>3. CASE MemoriesOf(a) # {}
      BY <1>0, <2>1, <2>3, <3>1, <3>3, LatestPlace DEF Latest
    <3> QED
      BY <3>2, <3>3
  <2> QED
    BY <2>2, <2>3
<1> QED
  BY <1>1, <1>2 DEF RestoredState

(* What the records are about.                                             *)
LEMMA RecordFields ==
  ASSUME NEW r \in Records
  PROVE  /\ r.type \in {"STATE", "THESIS", "MEMORY"} => r.value \in Seq(Events)
         /\ r.type = "MEMORY" => r.agent \in Agents
         /\ r.type \in Outcomes \cup {"EVENT"} => r.event \in Events
  BY DEF Records, Outcomes

LEMMA JournalFields ==
  ASSUME journal \in Seq(Records)
  PROVE  /\ \A n \in OfType("STATE") : journal[n].value \in Seq(Events)
         /\ \A n \in OfType("THESIS") : journal[n].value \in Seq(Events)
         /\ \A a : \A n \in MemoriesOf(a) : journal[n].value \in Seq(Events) /\ n \in DOMAIN journal
         /\ \A n \in OfType("APPLIED") : journal[n].event \in Events
  BY RecordFields DEF OfType, MemoriesOf, Outcomes

LEMMA InitStreamInv == StreamInit => StreamInv
<1> SUFFICES ASSUME StreamInit PROVE StreamInv
  OBVIOUS
<1> USE DEF StreamInit
<1>1. StreamTypeOK
  BY SequenceAssumption DEF StreamTypeOK, Empty
<1>2. /\ \A type : OfType(type) = {} /\ Latest(OfType(type)) = <<>>
      /\ \A a : MemoriesOf(a) = {} /\ Latest(MemoriesOf(a)) = <<>>
  BY DEF OfType, MemoriesOf, Latest
<1>3. ToSet(<<>>) = {} /\ Bounded(<<>>) /\ InCausalOrder(<<>>)
  BY DEF ToSet, Bounded, InCausalOrder
<1>4. Told
  BY <1>2, <1>3 DEF Told, States, CausalOrder, HistoryOnlyGrows, Extends, AppliedIsDurable,
     KernelAhead, KernelKnows, Up, RestoredState, Empty
<1>5. InHand
  BY <1>3 DEF InHand
<1> QED
  BY <1>1, <1>4, <1>5 DEF StreamInv

-----------------------------------------------------------------------------
(* The kernel may go on without the journal.                               *)
LEMMA KernelGoesOn ==
  ASSUME StreamInv, Up, Up', UNCHANGED journal,
         Bounded(history'), InCausalOrder(history'), IsPrefix(history, history'),
         memories' \in [Agents -> Seq(Events)],
         \A a \in Agents : IsPrefix(memories[a], memories'[a])
                           /\ ToSet(memories'[a]) \subseteq ToSet(history'),
         KernelKnows'
  PROVE  Told'
<1>1. /\ journal \in Seq(Records) /\ history \in Seq(Events) /\ history' \in Seq(Events)
      /\ memories \in [Agents -> Seq(Events)]
  BY DEF StreamInv, StreamTypeOK, Bounded
<1>2. /\ \A type : OfType(type)' = OfType(type) /\ Latest(OfType(type))' = Latest(OfType(type))
      /\ \A a : MemoriesOf(a)' = MemoriesOf(a) /\ Latest(MemoriesOf(a))' = Latest(MemoriesOf(a))
      /\ RestoredState' = RestoredState
  BY DEF OfType, MemoriesOf, Latest, RestoredState
<1>3. States' = {history'} \cup {journal[n].value : n \in OfType("STATE")}
  BY <1>2 DEF States
<1>4. /\ \A h \in States' : Bounded(h)
      /\ CausalOrder'
  BY <1>3 DEF StreamInv, Told, States, CausalOrder
<1>5. HistoryOnlyGrows' /\ AppliedIsDurable'
  BY <1>2 DEF StreamInv, Told, HistoryOnlyGrows, Extends, AppliedIsDurable
<1>6. KernelAhead'
  <2>1. ASSUME NEW n \in OfType("STATE") PROVE IsPrefix(journal[n].value, history')
    <3>1. journal[n].value \in Seq(Events) /\ IsPrefix(journal[n].value, history)
      BY <1>1, JournalFields DEF StreamInv, Told, KernelAhead
    <3> QED
      BY <1>1, <3>1, PrefixTransitive
  <2>2. ASSUME NEW a \in Agents, NEW n \in MemoriesOf(a)
        PROVE  IsPrefix(journal[n].value, memories'[a])
    <3>1. journal[n].value \in Seq(Events) /\ IsPrefix(journal[n].value, memories[a])
      BY <1>1, JournalFields DEF StreamInv, Told, KernelAhead
    <3>2. memories[a] \in Seq(Events) /\ memories'[a] \in Seq(Events)
      BY <1>1
    <3> QED
      BY <3>1, <3>2, PrefixTransitive
  <2> QED
    BY <1>2, <2>1, <2>2 DEF KernelAhead
<1> QED
  BY <1>2, <1>4, <1>5, <1>6 DEF Told, StreamInv

(* Or rest.                                                                *)
LEMMA KernelRests ==
  ASSUME StreamInv, Up, Up', UNCHANGED <<journal, kernelVars>>
  PROVE  Told'
<1>1. UNCHANGED <<journal, history, memories, kernelLast>>
  BY DEF kernelVars
<1>2. /\ history \in Seq(Events) /\ memories \in [Agents -> Seq(Events)]
      /\ Bounded(history) /\ InCausalOrder(history)
      /\ \A a \in Agents : ToSet(memories[a]) \subseteq ToSet(history)
      /\ KernelKnows
  BY DEF StreamInv, StreamTypeOK, Told, States, CausalOrder
<1>3. IsPrefix(history, history) /\ \A a \in Agents : IsPrefix(memories[a], memories[a])
  BY <1>2, PrefixPlaces
<1>4. KernelKnows'
  BY <1>1, <1>2 DEF KernelKnows
<1> QED
  BY <1>1, <1>2, <1>3, <1>4, KernelGoesOn

(* Or have every specialist observe an event of the state.                 *)
LEMMA ObservedFits ==
  ASSUME StreamInv, NEW e \in Events, memories' = Observed(e)
  PROVE  /\ memories' \in [Agents -> Seq(Events)]
         /\ \A a \in Agents : /\ IsPrefix(memories[a], memories'[a])
                              /\ ToSet(memories'[a]) = ToSet(memories[a]) \cup {e}
<1>1. memories \in [Agents -> Seq(Events)]
  BY DEF StreamInv, StreamTypeOK
<1>2. ASSUME NEW a \in Agents
      PROVE  memories'[a] = Append(memories[a], e) /\ memories[a] \in Seq(Events)
  BY <1>1, <1>2 DEF Observed
<1> QED
  BY <1>2, PrefixAppend DEF Observed

(* A step that writes nothing and leaves at most an outcome to write which *)
(* promises nothing.                                                       *)
Promiseless(records) ==
  records \in Seq(Records) /\ \A n \in DOMAIN records : records[n].type \in {"EVENT", "DUPLICATE", "REJECTED"}

LEMMA NothingPromised ==
  ASSUME Promiseless(todo')
  PROVE  \A n \in DOMAIN todo' : RecordKept(n)'
  BY DEF Promiseless, RecordKept

LEMMA OneRecord ==
  ASSUME NEW e \in Events
  PROVE  /\ Promiseless(<<EventRecord(e)>>)
         /\ \A status \in {"DUPLICATE", "REJECTED"} : Promiseless(<<Outcome(status, e)>>)
         /\ \A n \in DOMAIN <<EventRecord(e)>> : <<EventRecord(e)>>[n].type = "EVENT"
         /\ Promiseless(<<>>)
<1>1. EventRecord(e) \in Records /\ EventRecord(e).type = "EVENT"
  BY DEF EventRecord, Records
<1>2. ASSUME NEW status \in {"DUPLICATE", "REJECTED"}
      PROVE  Outcome(status, e) \in Records /\ Outcome(status, e).type = status
  BY <1>2 DEF Outcome, Outcomes, Records
<1> QED
  BY <1>1, <1>2 DEF Promiseless

-----------------------------------------------------------------------------
(* One lemma for each action.                                              *)
LEMMA TickStep == StreamInv /\ Tick => StreamInv'
<1> SUFFICES ASSUME StreamInv, Tick PROVE StreamInv'
  OBVIOUS
<1>1. /\ stage = "idle" /\ now' = now + 1
      /\ UNCHANGED <<journal, kernelVars, history, memories, kernelLast, thesis, runnerLast,
                     sourceSequence, stage, event, todo, nextThesis, delivered, spent>>
  BY DEF Tick, kernelVars, runnerVars, workVars
<1>2. StreamTypeOK'
  BY <1>1 DEF StreamInv, StreamTypeOK
<1>3. Told'
  BY <1>1, KernelRests DEF Up
<1>4. InHand'
  BY <1>1 DEF StreamInv, InHand
<1> QED
  BY <1>2, <1>3, <1>4 DEF StreamInv

LEMMA ProcessStep ==
  ASSUME StreamInv, NEW e \in Events, e.seq <= MaxSequence, RunnerProcess(e),
         UNCHANGED <<now, journal, thesis, runnerLast, nextThesis>>, sourceSequence' \in Nat
  PROVE  StreamInv'
<1>1. /\ stage = "idle" /\ event' = e /\ nextThesis = <<>>
      /\ delivered' = delivered + 1 /\ spent' = spent + 1
  BY DEF RunnerProcess, Begin, StreamInv, InHand
<1>2. /\ stage' \in {"intake", "outcome"} /\ Promiseless(todo')
      /\ stage' = "intake" => \A n \in DOMAIN todo' : todo'[n].type = "EVENT"
  BY OneRecord DEF RunnerProcess, Early, Redelivered, Intake
<1>3. \/ UNCHANGED kernelVars
      \/ Repeats(history, e) /\ memories' = Observed(e) /\ kernelLast' = e /\ UNCHANGED history
  BY DEF RunnerProcess, Early, Redelivered, Intake
<1>4. Up /\ Up'
  BY <1>1, <1>2 DEF Up
<1>5. /\ Told' /\ UNCHANGED history
      /\ memories' \in [Agents -> Seq(Events)] /\ kernelLast' \in Events \cup {NoEvent}
  <2>1. CASE UNCHANGED kernelVars
    BY <1>4, <2>1, KernelRests DEF kernelVars, StreamInv, StreamTypeOK
  <2>2. CASE Repeats(history, e) /\ memories' = Observed(e) /\ kernelLast' = e /\ UNCHANGED history
    <3>1. /\ Bounded(history) /\ InCausalOrder(history)
          /\ \A a \in Agents : ToSet(memories[a]) \subseteq ToSet(history)
      BY DEF StreamInv, Told, States, CausalOrder
    <3>2. e \in ToSet(history) /\ IsPrefix(history, history)
      BY <2>2, <3>1, ReducedInOrder DEF Reducible, Reduced
    <3>3. /\ memories' \in [Agents -> Seq(Events)]
          /\ \A a \in Agents : /\ IsPrefix(memories[a], memories'[a])
                               /\ ToSet(memories'[a]) = ToSet(memories[a]) \cup {e}
      BY <2>2, ObservedFits
    <3>4. KernelKnows'
      BY <1>4, <2>2, <3>2, <3>3 DEF KernelKnows
    <3>5. Told'
      BY <1>4, <2>2, <3>1, <3>2, <3>3, <3>4, KernelGoesOn
    <3> QED
      BY <2>2, <3>3, <3>5
  <2> QED
    BY <1>3, <2>1, <2>2
<1>6. StreamTypeOK'
  BY <1>1, <1>2, <1>5 DEF StreamInv, StreamTypeOK, Promiseless
<1>7. InHand'
  <2>1. \A n \in DOMAIN todo' : RecordKept(n)'
    BY <1>2, NothingPromised
  <2> QED
    BY <1>1, <1>2, <1>5, <2>1 DEF StreamInv, InHand
<1> QED
  BY <1>5, <1>6, <1>7 DEF StreamInv

LEMMA ProcessBarStep == StreamInv /\ ProcessBar => StreamInv'
<1> SUFFICES ASSUME StreamInv, ProcessBar PROVE StreamInv'
  OBVIOUS
<1>1. PICK s \in 0..MaxSequence, t \in 0..(now + 1) :
        RunnerProcess([kind |-> "bar", seq |-> s, at |-> t, rank |-> 1])
  BY DEF ProcessBar
<1> DEFINE e == [kind |-> "bar", seq |-> s, at |-> t, rank |-> 1]
<1>2. now \in Nat /\ sourceSequence \in Nat
  BY DEF StreamInv, StreamTypeOK
<1>3. e \in Events /\ e.seq <= MaxSequence
  BY <1>2, BoundsAssumption DEF Events
<1>4. UNCHANGED <<now, journal, thesis, runnerLast, nextThesis, sourceSequence>>
  BY DEF ProcessBar, runnerVars
<1> HIDE DEF e
<1>5. RunnerProcess(e)
  BY <1>1 DEF e
<1> QED
  BY <1>2, <1>3, <1>4, <1>5, ProcessStep

LEMMA ProcessFeedbackStep == StreamInv /\ ProcessFeedback => StreamInv'
<1> SUFFICES ASSUME StreamInv, ProcessFeedback PROVE StreamInv'
  OBVIOUS
<1>1. PICK t \in 0..now, r \in {0, 2} :
        RunnerProcess([kind |-> "feedback", seq |-> sourceSequence, at |-> t, rank |-> r])
  BY DEF ProcessFeedback
<1> DEFINE e == [kind |-> "feedback", seq |-> sourceSequence, at |-> t, rank |-> r]
<1>2. now \in Nat /\ sourceSequence \in Nat /\ sourceSequence <= MaxSequence
      /\ sourceSequence' \in Nat
  BY DEF StreamInv, StreamTypeOK, ProcessFeedback
<1>3. e \in Events /\ e.seq <= MaxSequence
  BY <1>2 DEF Events
<1>4. UNCHANGED <<now, journal, thesis, runnerLast, nextThesis>>
  BY DEF ProcessFeedback
<1> HIDE DEF e
<1>5. RunnerProcess(e)
  BY <1>1 DEF e
<1> QED
  BY <1>2, <1>3, <1>4, <1>5, ProcessStep

LEMMA RefreshFactStep == StreamInv /\ RefreshFact => StreamInv'
<1> SUFFICES ASSUME StreamInv, RefreshFact PROVE StreamInv'
  OBVIOUS
<1> DEFINE e == [kind |-> "fact", seq |-> sourceSequence, at |-> now, rank |-> 1]
<1>1. /\ now \in Nat /\ sourceSequence \in Nat /\ sourceSequence <= MaxSequence
      /\ Begin(e) /\ Intake(e) /\ sourceSequence' = sourceSequence + 1
      /\ UNCHANGED <<now, journal, thesis, runnerLast, nextThesis>>
  BY DEF StreamInv, StreamTypeOK, RefreshFact
<1>2. e \in Events /\ e.seq <= MaxSequence
  BY <1>1 DEF Events
<1> HIDE DEF e
<1>3. /\ stage = "idle" /\ stage' = "intake" /\ event' = e /\ nextThesis = <<>>
      /\ delivered' = delivered + 1 /\ spent' = spent + 1 /\ todo' = <<EventRecord(e)>>
      /\ UNCHANGED <<kernelVars, history, memories, kernelLast>>
  BY <1>1 DEF Begin, Intake, kernelVars, StreamInv, InHand
<1>4. Promiseless(todo') /\ \A n \in DOMAIN todo' : todo'[n].type = "EVENT"
  BY <1>2, <1>3, OneRecord
<1>5. StreamTypeOK'
  BY <1>1, <1>2, <1>3, <1>4 DEF StreamInv, StreamTypeOK, Promiseless
<1>6. Told'
  BY <1>1, <1>3, KernelRests DEF Up
<1>7. InHand'
  BY <1>1, <1>2, <1>3, <1>4 DEF StreamInv, InHand
<1> QED
  BY <1>5, <1>6, <1>7 DEF StreamInv

LEMMA AppendFailsStep == StreamInv /\ AppendFails => StreamInv'
<1> SUFFICES ASSUME StreamInv, AppendFails PROVE StreamInv'
  OBVIOUS
<1>1. /\ stage \in {"intake", "outcome"} /\ event \in Events /\ event.seq <= MaxSequence
      /\ spent' = spent + 1
      /\ UNCHANGED <<now, journal, kernelVars, history, memories, kernelLast, thesis, runnerLast,
                     sourceSequence, delivered>>
  BY DEF AppendFails, StreamInv, InHand, kernelVars, runnerVars
<1>2. \/ stage' = "idle" /\ event' = NoEvent /\ todo' = <<>> /\ nextThesis' = <<>>
      \/ stage' = "outcome" /\ event' = event /\ todo' = <<Outcome("REJECTED", event)>> /\ nextThesis' = <<>>
  BY DEF AppendFails, Done
<1>3. Promiseless(todo')
  BY <1>1, <1>2, OneRecord
<1>4. StreamTypeOK'
  <2>1. todo' \in Seq(Records)
    BY <1>3 DEF Promiseless
  <2>2. event' \in Events \cup {NoEvent} /\ stage' \in {"idle", "outcome"} /\ nextThesis' = <<>>
    <3>1. event' \in Events \cup {NoEvent} /\ stage' \in {"idle", "outcome"}
      BY <1>1, <1>2
    <3>2. nextThesis' = <<>>
      BY <1>2
    <3> QED
      BY <3>1, <3>2
  <2>3. now' \in Nat /\ delivered' \in Nat /\ spent' \in Nat /\ sourceSequence' \in Nat
    BY <1>1 DEF StreamInv, StreamTypeOK
  <2>4. /\ history' \in Seq(Events) /\ memories' \in [Agents -> Seq(Events)]
        /\ thesis' \in Seq(Events) /\ journal' \in Seq(Records)
        /\ {kernelLast', runnerLast', event'} \subseteq Events \cup {NoEvent}
    BY <1>1, <2>2 DEF StreamInv, StreamTypeOK
  <2> QED
    BY <2>1, <2>2, <2>3, <2>4 DEF StreamTypeOK
<1>5. Told'
  BY <1>1, <1>2, KernelRests DEF Up
<1>6. InHand'
  <2>1. \A n \in DOMAIN todo' : RecordKept(n)'
    BY <1>3, NothingPromised
  <2>2. ToSet(<<>>) = {}
    BY DEF ToSet
  <2> QED
    BY <1>1, <1>2, <2>1, <2>2 DEF StreamInv, InHand
<1> QED
  BY <1>4, <1>5, <1>6 DEF StreamInv

(* A process that is gone, or never came up, knows nothing.                *)
LEMMA KernelGone ==
  ASSUME StreamInv, ~Up', UNCHANGED journal, kernelLast' = NoEvent,
         Bounded(history'), InCausalOrder(history'),
         \A a \in Agents : ToSet(memories'[a]) \subseteq ToSet(history')
  PROVE  Told'
<1>1. /\ \A type : OfType(type)' = OfType(type) /\ Latest(OfType(type))' = Latest(OfType(type))
      /\ \A a : MemoriesOf(a)' = MemoriesOf(a) /\ Latest(MemoriesOf(a))' = Latest(MemoriesOf(a))
      /\ RestoredState' = RestoredState
  BY DEF OfType, MemoriesOf, Latest, RestoredState
<1>2. States' = {history'} \cup {journal[n].value : n \in OfType("STATE")}
  BY <1>1 DEF States
<1>3. /\ \A h \in States' : Bounded(h)
      /\ CausalOrder'
  BY <1>2 DEF StreamInv, Told, States, CausalOrder
<1>4. HistoryOnlyGrows' /\ AppliedIsDurable'
  BY <1>1 DEF StreamInv, Told, HistoryOnlyGrows, Extends, AppliedIsDurable
<1>5. KernelAhead' /\ KernelKnows'
  BY DEF KernelAhead, KernelKnows
<1> QED
  BY <1>1, <1>3, <1>4, <1>5 DEF Told, StreamInv

LEMMA NothingHeld == ToSet(<<>>) = {} /\ Bounded(<<>>) /\ InCausalOrder(<<>>)
  BY DEF ToSet, Bounded, InCausalOrder

LEMMA CrashStep == StreamInv /\ Crash => StreamInv'
<1> SUFFICES ASSUME StreamInv, Crash PROVE StreamInv'
  OBVIOUS
<1>1. /\ stage' = "down" /\ event' = NoEvent /\ todo' = <<>> /\ nextThesis' = <<>>
      /\ history' = <<>> /\ memories' = Empty /\ thesis' = <<>> /\ spent' = spent + 1
      /\ kernelLast' = NoEvent /\ runnerLast' = NoEvent /\ sourceSequence' = FirstSequence
      /\ UNCHANGED <<now, journal, delivered>>
  BY DEF Crash
<1>2. StreamTypeOK'
  BY <1>1, SequenceAssumption DEF StreamInv, StreamTypeOK, Empty
<1>3. Told'
  <2>1. ~Up' /\ \A a \in Agents : ToSet(memories'[a]) \subseteq ToSet(history')
    BY <1>1 DEF Up, Empty
  <2> QED
    BY <1>1, <2>1, NothingHeld, KernelGone
<1>4. InHand'
  BY <1>1 DEF InHand
<1> QED
  BY <1>2, <1>3, <1>4 DEF StreamInv

(* What is restored continues all that was journaled.                      *)
LEMMA RestoredIsAhead ==
  ASSUME journal \in Seq(Records), NEW places \in SUBSET DOMAIN journal, Extends(places),
         \A n \in places : journal[n].value \in Seq(Events)
  PROVE  /\ Latest(places) \in Seq(Events)
         /\ \A n \in places : IsPrefix(journal[n].value, Latest(places))
<1>1. CASE places = {}
  BY <1>1 DEF Latest
<1>2. CASE places # {}
  <2>1. /\ Max(places) \in places /\ Latest(places) = journal[Max(places)].value
        /\ \A n \in places : n <= Max(places)
    BY <1>2, LatestPlace
  <2>2. ASSUME NEW n \in places PROVE IsPrefix(journal[n].value, Latest(places))
    <3>1. n = Max(places) \/ n < Max(places)
      BY <2>1
    <3>2. CASE n = Max(places)
      BY <2>1, <3>2, PrefixPlaces
    <3>3. CASE n < Max(places)
      BY <2>1, <3>3 DEF Extends
    <3> QED
      BY <3>1, <3>2, <3>3
  <2> QED
    BY <2>1, <2>2
<1> QED
  BY <1>1, <1>2

LEMMA NextSequenceIsOne ==
  ASSUME NEW h, Bounded(h)
  PROVE  NextSequence(h) \in Nat
<1>1. CASE h = <<>>
  BY <1>1, SequenceAssumption DEF NextSequence
<1>2. CASE h # <<>>
  <2> DEFINE used == {h[n].seq : n \in DOMAIN h}
  <2>1. MaxSequence \in Nat /\ h \in Seq(Events) /\ \A n \in DOMAIN h : h[n].seq <= MaxSequence
    BY BoundsAssumption DEF Bounded
  <2>2. \A n \in DOMAIN h : h[n].seq \in 0..MaxSequence
    BY <2>1 DEF Events
  <2>3. 1 \in DOMAIN h
    BY <1>2, <2>1
  <2>4. used \in SUBSET (0..MaxSequence) /\ used # {}
    BY <2>2, <2>3
  <2>5. Max(used) \in used
    BY <2>1, <2>4, MaxOfBounded
  <2>6. Max(used) \in Nat
    BY <2>1, <2>4, <2>5
  <2> QED
    BY <1>2, <2>6 DEF NextSequence
<1> QED
  BY <1>1, <1>2

LEMMA RestartStep == StreamInv /\ Restart => StreamInv'
<1> SUFFICES ASSUME StreamInv, Restart PROVE StreamInv'
  OBVIOUS
<1>1. /\ stage = "down" /\ kernelLast = NoEvent /\ todo = <<>> /\ nextThesis = <<>>
      /\ UNCHANGED <<now, journal, kernelLast, runnerLast, event, todo, nextThesis,
                     delivered, spent>>
  BY DEF Restart, StreamInv, Told, KernelKnows, Up, InHand
<1>2. CASE ~Restorable
  <2>1. stage' = "blocked" /\ UNCHANGED <<history, memories, thesis, sourceSequence>>
    BY <1>2 DEF Restart
  <2>2. StreamTypeOK'
    BY <1>1, <2>1 DEF StreamInv, StreamTypeOK
  <2>3. Told'
    <3>1. /\ ~Up' /\ Bounded(history) /\ InCausalOrder(history)
          /\ \A a \in Agents : ToSet(memories[a]) \subseteq ToSet(history)
      BY <2>1 DEF Up, StreamInv, Told, States, CausalOrder
    <3> QED
      BY <1>1, <2>1, <3>1, KernelGone
  <2>4. InHand'
    BY <1>1, <2>1 DEF StreamInv, InHand
  <2> QED
    BY <2>2, <2>3, <2>4 DEF StreamInv
<1>3. CASE Restorable
  <2>1. /\ stage' = "idle" /\ history' = RestoredState
        /\ memories' = [a \in Agents |-> Latest(MemoriesOf(a))]
        /\ thesis' = Latest(OfType("THESIS")) /\ sourceSequence' = NextSequence(RestoredState)
    BY <1>3 DEF Restart
  <2>2. /\ journal \in Seq(Records)
        /\ \A type : OfType(type) \in SUBSET DOMAIN journal
        /\ \A a : MemoriesOf(a) \in SUBSET DOMAIN journal
    BY DEF StreamInv, StreamTypeOK, OfType, MemoriesOf
  <2>3. /\ RestoredState \in Seq(Events)
        /\ \A n \in OfType("STATE") : IsPrefix(journal[n].value, RestoredState)
    BY <2>2, JournalFields, RestoredIsAhead DEF StreamInv, Told, HistoryOnlyGrows, RestoredState
  <2>4. ASSUME NEW a \in Agents
        PROVE  /\ Latest(MemoriesOf(a)) \in Seq(Events)
               /\ \A n \in MemoriesOf(a) : IsPrefix(journal[n].value, Latest(MemoriesOf(a)))
    BY <2>2, JournalFields, RestoredIsAhead DEF StreamInv, Told, HistoryOnlyGrows
  <2>5. Bounded(RestoredState) /\ InCausalOrder(RestoredState)
    <3>1. CASE OfType("STATE") = {}
      BY <3>1, NothingHeld DEF RestoredState, Latest
    <3>2. CASE OfType("STATE") # {}
      <4>1. RestoredState \in States
        BY <2>2, <3>2, LatestPlace DEF States, RestoredState
      <4> QED
        BY <4>1 DEF StreamInv, Told, CausalOrder
    <3> QED
      BY <3>1, <3>2
  <2>6. Latest(OfType("THESIS")) \in Seq(Events)
    BY <2>2, JournalFields, LatestPlace DEF Latest
  <2>7. StreamTypeOK'
    <3>1. sourceSequence' \in Nat
      BY <2>1, <2>5, NextSequenceIsOne
    <3>2. history' \in Seq(Events) /\ memories' \in [Agents -> Seq(Events)] /\ thesis' \in Seq(Events)
      BY <2>1, <2>3, <2>4, <2>6
    <3> QED
      BY <1>1, <2>1, <3>1, <3>2 DEF StreamInv, StreamTypeOK
  <2>8. Told'
    <3>1. /\ \A type : OfType(type)' = OfType(type) /\ Latest(OfType(type))' = Latest(OfType(type))
          /\ \A a : MemoriesOf(a)' = MemoriesOf(a) /\ Latest(MemoriesOf(a))' = Latest(MemoriesOf(a))
          /\ RestoredState' = RestoredState
      BY <1>1 DEF OfType, MemoriesOf, Latest, RestoredState
    <3>2. States' = {RestoredState} \cup {journal[n].value : n \in OfType("STATE")}
      BY <1>1, <2>1, <3>1 DEF States
    <3>3. /\ \A h \in States' : Bounded(h)
          /\ CausalOrder'
      BY <2>5, <3>2 DEF StreamInv, Told, States, CausalOrder
    <3>4. HistoryOnlyGrows' /\ AppliedIsDurable'
      BY <1>1, <3>1 DEF StreamInv, Told, HistoryOnlyGrows, Extends, AppliedIsDurable
    <3>5. KernelAhead' /\ KernelKnows'
      BY <1>1, <2>1, <2>3, <2>4, <3>1 DEF KernelAhead, KernelKnows, Up
    <3> QED
      BY <2>1, <3>1, <3>3, <3>4, <3>5 DEF Told, StreamInv
  <2>9. InHand'
    <3>1. ToSet(thesis') \subseteq ToSet(history')
      BY <2>1 DEF StreamInv, Told
    <3> QED
      BY <1>1, <2>1, <3>1, NothingHeld DEF InHand
  <2> QED
    BY <2>7, <2>8, <2>9 DEF StreamInv
<1> QED
  BY <1>2, <1>3

(* The records of an event are about what the kernel holds, each after     *)
(* what it rests on.                                                       *)
LEMMA SemanticsKept ==
  ASSUME history' \in Seq(Events), memories' \in [Agents -> Seq(Events)],
         event \in Events, event \in ToSet(history'),
         \A a \in Agents : event \in ToSet(memories'[a]),
         NEW t \in Seq(Events), ToSet(t) \subseteq ToSet(history'), todo' = Semantics(t)
  PROVE  todo' \in Seq(Records) /\ \A n \in DOMAIN todo' : RecordKept(n)'
<1> DEFINE k == Len(AgentOrder)
           state == StateRecord
           told == [n \in 1..k |->
                      [type |-> "MEMORY", agent |-> AgentOrder[n], value |-> memories'[AgentOrder[n]]]]
           applied == Outcome("APPLIED", event)
           tail == ThesisRecords(t)
<1>1. /\ k \in Nat /\ DOMAIN AgentOrder = 1..k /\ \A n \in 1..k : AgentOrder[n] \in Agents
      /\ \A a \in Agents : \E n \in 1..k : AgentOrder[n] = a
  BY AgentsAssumption DEF Agents, ToSet
<1>2. /\ state \in Records /\ state.type = "STATE" /\ state.value = history'
      /\ applied \in Records /\ applied.type = "APPLIED" /\ applied.event = event
  BY DEF StateRecord, Outcome, Outcomes, Records
<1>3. told \in Seq(Records) /\ Len(told) = k
  <2>1. ASSUME NEW n \in 1..k
        PROVE  [type |-> "MEMORY", agent |-> AgentOrder[n], value |-> memories'[AgentOrder[n]]] \in Records
    <3>1. AgentOrder[n] \in Agents /\ memories'[AgentOrder[n]] \in Seq(Events)
      BY <1>1
    <3> QED
      BY <3>1 DEF Records
  <2>2. told \in [1..k -> Records]
    BY <2>1
  <2> HIDE DEF k, told
  <2>3. told \in Seq(Records) /\ DOMAIN told = 1..k
    BY <1>1, <2>2
  <2> QED
    BY <1>1, <2>3
<1>4. \A n \in 1..k : /\ told[n].type = "MEMORY" /\ told[n].agent = AgentOrder[n]
                      /\ told[n].value = memories'[AgentOrder[n]]
  OBVIOUS
<1>5. /\ tail \in Seq(Records) /\ Len(tail) \in 0..1
      /\ \A n \in 1..Len(tail) : tail[n].type = "THESIS" /\ tail[n].value = t
  <2>1. [type |-> "THESIS", value |-> t] \in Records
    BY DEF Records
  <2> QED
    BY <2>1 DEF ThesisRecords
<1>6. todo' = ((<<state>> \o told) \o tail) \o <<applied>>
  BY <1>1 DEF Semantics, MemoryRecords
<1> HIDE DEF state, told, applied, tail, k
<1>7. /\ todo' \in Seq(Records) /\ Len(todo') = k + Len(tail) + 2
      /\ todo'[1] = state /\ todo'[k + Len(tail) + 2] = applied
      /\ \A n \in 1..k : todo'[n + 1] = told[n]
      /\ \A n \in 1..Len(tail) : todo'[n + k + 1] = tail[n]
  <2> DEFINE u == <<state>> \o told
             v == u \o tail
  <2>1. u \in Seq(Records) /\ Len(u) = k + 1 /\ u[1] = state /\ \A n \in 1..k : u[n + 1] = told[n]
    <3>1. PICK w : w = <<state>>
      OBVIOUS
    <3>2. w \in Seq(Records) /\ Len(w) = 1 /\ w[1] = state
      BY <1>2, <3>1
    <3>3. /\ w \o told \in Seq(Records) /\ Len(w \o told) = Len(w) + Len(told)
          /\ \A i \in 1..(Len(w) + Len(told)) :
               (w \o told)[i] = IF i <= Len(w) THEN w[i] ELSE told[i - Len(w)]
      BY ONLY <1>3, <3>2, ConcatProperties
    <3>4. u = w \o told
      BY ONLY <3>1
    <3>5. k \in Nat
      BY <1>1
    <3>6. 1 \in 1..(1 + k) /\ \A n \in 1..k : n + 1 \in 1..(1 + k) /\ ~(n + 1 <= 1) /\ (n + 1) - 1 = n
      BY ONLY <3>5
    <3> HIDE DEF u
    <3> QED
      BY ONLY <1>3, <3>2, <3>3, <3>4, <3>5, <3>6
  <2> HIDE DEF u
  <2>2. /\ v \in Seq(Records) /\ Len(v) = Len(u) + Len(tail)
        /\ \A n \in 1..(Len(u) + Len(tail)) : v[n] = IF n <= Len(u) THEN u[n] ELSE tail[n - Len(u)]
    BY <1>5, <2>1, ConcatProperties
  <2>3. todo' = v \o <<applied>>
    BY <1>6 DEF u
  <2> HIDE DEF v
  <2>4. v[1] = state /\ \A n \in 1..k : v[n + 1] = told[n]
    <3>1. 1 \in 1..(Len(u) + Len(tail)) /\ 1 <= Len(u)
      BY <1>1, <1>5, <2>1
    <3>2. ASSUME NEW n \in 1..k
          PROVE  n + 1 \in 1..(Len(u) + Len(tail)) /\ n + 1 <= Len(u)
      BY <1>1, <1>5, <2>1
    <3> QED
      BY <2>1, <2>2, <3>1, <3>2
  <2>5. ASSUME NEW n \in 1..Len(tail) PROVE v[n + k + 1] = tail[n]
    <3> DEFINE m == n + k + 1
    <3>1. /\ m \in 1..(Len(u) + Len(tail)) /\ ~(m <= Len(u)) /\ m - Len(u) = n
      BY <1>1, <1>5, <2>1
    <3> HIDE DEF m
    <3>2. v[m] = tail[m - Len(u)]
      BY <2>2, <3>1
    <3> QED
      BY <3>1, <3>2 DEF m
  <2>6. /\ todo' \in Seq(Records) /\ Len(todo') = Len(v) + 1
        /\ \A n \in 1..Len(v) : todo'[n] = v[n]
        /\ todo'[Len(v) + 1] = applied
    <3>1. todo' = Append(v, applied)
      BY <1>2, <2>2, <2>3
    <3> QED
      BY <1>2, <2>2, <3>1
  <2>7. Len(v) = k + Len(tail) + 1 /\ Len(v) + 1 = k + Len(tail) + 2
    BY <1>1, <1>5, <2>1, <2>2
  <2>8. 1 \in 1..Len(v) /\ \A n \in 1..k : n + 1 \in 1..Len(v)
    BY <1>1, <1>5, <2>7
  <2>9. \A n \in 1..Len(tail) : n + k + 1 \in 1..Len(v)
    BY <1>1, <1>5, <2>7
  <2>10. todo'[1] = state /\ todo'[k + Len(tail) + 2] = applied /\ Len(todo') = k + Len(tail) + 2
    BY <2>4, <2>6, <2>7, <2>8, Zenon
  <2>11. \A n \in 1..k : todo'[n + 1] = told[n]
    BY <2>4, <2>6, <2>8, Zenon
  <2>12. \A n \in 1..Len(tail) : todo'[n + k + 1] = tail[n]
    BY <2>5, <2>6, <2>9, Zenon
  <2> QED
    BY <2>6, <2>10, <2>11, <2>12
<1>8. ASSUME NEW n \in DOMAIN todo' PROVE RecordKept(n)'
  <2>1. n = 1 \/ n - 1 \in 1..k \/ n - k - 1 \in 1..Len(tail) \/ n = k + Len(tail) + 2
    <3>1. todo' \in Seq(Records) /\ Len(todo') = k + Len(tail) + 2
      BY <1>7
    <3>2. n \in 1..(k + Len(tail) + 2)
      BY <3>1
    <3> DEFINE l == Len(tail)
    <3>3. l \in 0..1 /\ k \in Nat /\ n \in 1..(k + l + 2)
      BY <1>1, <1>5, <3>2
    <3> HIDE DEF l
    <3>4. n = 1 \/ n - 1 \in 1..k \/ n - k - 1 \in 1..l \/ n = k + l + 2
      BY <3>3
    <3> QED
      BY <3>4 DEF l
  <2>2. n > 1 => StateFirst(n)'
    BY <1>2, <1>7 DEF StateFirst
  <2>3. CASE n = 1
    BY <1>2, <1>7, <2>3 DEF RecordKept
  <2>4. CASE n - 1 \in 1..k
    <3>1. n > 1 /\ todo'[n] = told[n - 1]
      BY <1>1, <1>7, <2>4
    <3> QED
      BY <1>4, <2>2, <2>4, <3>1 DEF RecordKept
  <2>5. CASE n - k - 1 \in 1..Len(tail)
    <3>1. n > 1 /\ todo'[n] = tail[n - k - 1]
      BY <1>1, <1>5, <1>7, <2>5
    <3> QED
      BY <1>5, <2>2, <2>5, <3>1 DEF RecordKept
  <2>6. CASE n = k + Len(tail) + 2
    <3>1. n > 1 /\ todo'[n] = applied
      BY <1>1, <1>5, <1>7, <2>6
    <3>2. ASSUME NEW a \in Agents PROVE MemoryFirst(n, a)'
      <4>1. PICK m \in 1..k : AgentOrder[m] = a
        BY <1>1
      <4>2. m + 1 \in 1..(n - 1) /\ todo'[m + 1] = told[m]
        BY <1>1, <1>5, <1>7, <2>6
      <4> QED
        BY <1>4, <4>1, <4>2 DEF MemoryFirst
    <3> QED
      BY <1>2, <2>2, <3>1, <3>2 DEF RecordKept
  <2> QED
    BY <2>1, <2>3, <2>4, <2>5, <2>6
<1> QED
  BY <1>7, <1>8

LEMMA EvaluateStep == StreamInv /\ Evaluate => StreamInv'
<1> SUFFICES ASSUME StreamInv, Evaluate PROVE StreamInv'
  OBVIOUS
<1>1. /\ stage = "intake" /\ stage' = "outcome" /\ event \in Events /\ event.seq <= MaxSequence
      /\ UNCHANGED <<now, journal, thesis, runnerLast, sourceSequence, event, delivered, spent>>
  BY DEF Evaluate, StreamInv, InHand, runnerVars
<1>2. /\ Bounded(history) /\ InCausalOrder(history) /\ history \in Seq(Events)
      /\ memories \in [Agents -> Seq(Events)] /\ kernelLast \in Events \cup {NoEvent}
      /\ \A a \in Agents : ToSet(memories[a]) \subseteq ToSet(history)
      /\ ToSet(thesis) \subseteq ToSet(history) /\ ToSet(nextThesis) \subseteq ToSet(history)
      /\ thesis \in Seq(Events) /\ nextThesis \in Seq(Events)
  BY DEF StreamInv, StreamTypeOK, Told, States, CausalOrder, InHand
<1>3. Up /\ Up' /\ NoEvent \notin Events
  BY <1>1 DEF Up, NoEvent, Events
<1>4. ASSUME Told', IsPrefix(history, history'), history' \in Seq(Events),
             memories' \in [Agents -> Seq(Events)], kernelLast' \in Events \cup {NoEvent},
             nextThesis' \in Seq(Events), ToSet(nextThesis') \subseteq ToSet(history'),
             todo' \in Seq(Records), \A n \in DOMAIN todo' : RecordKept(n)'
      PROVE  StreamInv'
  <2>1. ToSet(history) \subseteq ToSet(history')
    BY <1>2, <1>4, PrefixContained
  <2>2. StreamTypeOK'
    BY <1>1, <1>4 DEF StreamInv, StreamTypeOK
  <2>3. InHand'
    BY <1>1, <1>2, <1>4, <2>1 DEF InHand
  <2> QED
    BY <1>4, <2>2, <2>3 DEF StreamInv
<1>5. ASSUME Told', IsPrefix(history, history'), history' \in Seq(Events),
             memories' \in [Agents -> Seq(Events)], kernelLast' \in Events \cup {NoEvent}, Refused
      PROVE  StreamInv'
  <2>1. Promiseless(todo') /\ nextThesis' = nextThesis
    BY <1>1, <1>5, OneRecord DEF Refused
  <2>2. \A n \in DOMAIN todo' : RecordKept(n)'
    BY <2>1, NothingPromised
  <2>3. ToSet(history) \subseteq ToSet(history')
    BY <1>2, <1>5, PrefixContained
  <2> QED
    BY <1>2, <1>4, <1>5, <2>1, <2>2, <2>3 DEF Promiseless
<1>6. CASE Raised
  <2>1. UNCHANGED <<history, memories, kernelLast>> /\ UNCHANGED kernelVars
    BY <1>6 DEF Raised, kernelVars
  <2>2. Told' /\ IsPrefix(history, history)
    BY <1>1, <1>2, <1>3, <2>1, KernelRests, PrefixPlaces
  <2> QED
    BY <1>2, <1>5, <1>6, <2>1, <2>2 DEF Raised
<1>7. CASE event.kind = "fact" /\ FactReduced /\ ~Raised
  <2>1. /\ Reducible(history, event) /\ history' = Reduced(history, event)
        /\ todo' = <<StateRecord, Outcome("APPLIED", event)>>
        /\ UNCHANGED <<memories, kernelLast, nextThesis>>
    BY <1>7 DEF FactReduced
  <2>2. /\ Bounded(history') /\ InCausalOrder(history') /\ history' \in Seq(Events)
        /\ IsPrefix(history, history') /\ event \in ToSet(history')
    BY <1>1, <1>2, <2>1, ReducedInOrder DEF Bounded
  <2>3. ToSet(history) \subseteq ToSet(history')
    BY <1>2, <2>2, PrefixContained
  <2>4. Told'
    <3>1. KernelKnows'
      BY <1>3, <2>1, <2>3 DEF StreamInv, Told, KernelKnows
    <3>2. \A a \in Agents : IsPrefix(memories[a], memories'[a]) /\ ToSet(memories'[a]) \subseteq ToSet(history')
      BY <1>2, <2>1, <2>3, PrefixPlaces
    <3> QED
      BY <1>1, <1>2, <1>3, <2>1, <2>2, <3>1, <3>2, KernelGoesOn
  <2>5. todo' \in Seq(Records) /\ \A n \in DOMAIN todo' : RecordKept(n)'
    <3> DEFINE state == StateRecord
               applied == Outcome("APPLIED", event)
    <3>1. /\ state \in Records /\ state.type = "STATE" /\ state.value = history'
          /\ applied \in Records /\ applied.type = "APPLIED" /\ applied.event = event
      BY <1>1, <2>2 DEF StateRecord, Outcome, Outcomes, Records
    <3>2. todo' = <<state, applied>>
      BY <2>1
    <3> HIDE DEF state, applied
    <3>3. /\ todo' \in Seq(Records) /\ DOMAIN todo' = {1, 2}
          /\ todo'[1] = state /\ todo'[2] = applied
      BY <3>1, <3>2
    <3>4. StateFirst(2)'
      BY <3>1, <3>3 DEF StateFirst
    <3>5. RecordKept(1)'
      BY <3>1, <3>3 DEF RecordKept
    <3>6. RecordKept(2)'
      BY <1>7, <2>2, <3>1, <3>3, <3>4 DEF RecordKept
    <3> QED
      BY <3>3, <3>5, <3>6
  <2> QED
    BY <1>2, <1>4, <2>1, <2>2, <2>3, <2>4, <2>5
<1>8. CASE Committed
  <2>1. /\ Bounded(history') /\ InCausalOrder(history') /\ history' \in Seq(Events)
        /\ IsPrefix(history, history') /\ event \in ToSet(history')
        /\ memories' \in [Agents -> Seq(Events)]
        /\ \A a \in Agents : event \in ToSet(memories'[a])
        /\ kernelLast' = event
        /\ Told'
    <3>1. CASE kernelLast = event /\ UNCHANGED kernelVars
      <4>1. UNCHANGED <<history, memories, kernelLast>>
        BY <3>1 DEF kernelVars
      <4>2. event \in ToSet(history) /\ \A a \in Agents : event \in ToSet(memories[a])
        BY <1>1, <1>3, <3>1 DEF StreamInv, Told, KernelKnows
      <4>3. Told' /\ IsPrefix(history, history)
        BY <1>1, <1>2, <1>3, <3>1, KernelRests, PrefixPlaces
      <4> QED
        BY <1>2, <3>1, <4>1, <4>2, <4>3
    <3>2. CASE /\ Reducible(history, event) /\ history' = Reduced(history, event)
               /\ memories' = Observed(event) /\ kernelLast' = event
      <4>1. /\ Bounded(history') /\ InCausalOrder(history') /\ history' \in Seq(Events)
            /\ IsPrefix(history, history') /\ event \in ToSet(history')
        BY <1>1, <1>2, <3>2, ReducedInOrder DEF Bounded
      <4>2. ToSet(history) \subseteq ToSet(history')
        BY <1>2, <4>1, PrefixContained
      <4>3. /\ memories' \in [Agents -> Seq(Events)]
            /\ \A a \in Agents : /\ IsPrefix(memories[a], memories'[a])
                                 /\ ToSet(memories'[a]) = ToSet(memories[a]) \cup {event}
        BY <1>1, <3>2, ObservedFits
      <4>4. KernelKnows'
        BY <1>3, <3>2, <4>1, <4>3 DEF KernelKnows
      <4>5. \A a \in Agents : IsPrefix(memories[a], memories'[a]) /\ ToSet(memories'[a]) \subseteq ToSet(history')
        BY <1>2, <4>1, <4>2, <4>3
      <4>6. Told'
        BY <1>1, <1>3, <4>1, <4>3, <4>4, <4>5, KernelGoesOn
      <4> QED
        BY <3>2, <4>1, <4>3, <4>6
    <3> QED
      BY <1>8, <3>1, <3>2 DEF Committed
  <2>2. CASE Refused
    BY <1>1, <1>5, <2>1, <2>2
  <2>3. CASE \E t \in {thesis, Append(thesis, event)} : nextThesis' = t /\ todo' = Semantics(t)
    <3>1. PICK t \in {thesis, Append(thesis, event)} : nextThesis' = t /\ todo' = Semantics(t)
      BY <2>3
    <3>2. t \in Seq(Events) /\ ToSet(t) \subseteq ToSet(thesis) \cup {event}
      <4>1. Append(thesis, event) \in Seq(Events)
        BY <1>1, <1>2
      <4>2. ToSet(Append(thesis, event)) = ToSet(thesis) \cup {event}
        BY <1>1, <1>2, PrefixAppend
      <4>3. t = thesis \/ t = Append(thesis, event)
        BY <3>1
      <4> QED
        BY <1>2, <4>1, <4>2, <4>3
    <3>3. ToSet(history) \subseteq ToSet(history')
      BY <1>2, <2>1, PrefixContained
    <3>4. ToSet(t) \subseteq ToSet(history')
      BY <1>2, <2>1, <3>2, <3>3
    <3>5. todo' \in Seq(Records) /\ \A n \in DOMAIN todo' : RecordKept(n)'
      BY <1>1, <2>1, <3>1, <3>2, <3>4, SemanticsKept
    <3> QED
      BY <1>1, <1>4, <2>1, <3>1, <3>2, <3>4, <3>5
  <2> QED
    BY <1>8, <2>2, <2>3 DEF Committed
<1> QED
  BY <1>6, <1>7, <1>8 DEF Evaluate, FactReduced

(* What a restart would restore is in what the running process holds.      *)
LEMMA RestoredKept ==
  ASSUME StreamInv, Up
  PROVE  /\ ToSet(RestoredState) \subseteq ToSet(history)
         /\ \A a \in Agents : ToSet(Latest(MemoriesOf(a))) \subseteq ToSet(memories[a])
<1>1. /\ journal \in Seq(Records) /\ history \in Seq(Events) /\ memories \in [Agents -> Seq(Events)]
      /\ \A type : OfType(type) \in SUBSET DOMAIN journal
      /\ \A a : MemoriesOf(a) \in SUBSET DOMAIN journal
  BY DEF StreamInv, StreamTypeOK, OfType, MemoriesOf
<1>2. ASSUME NEW places \in SUBSET DOMAIN journal, NEW held \in Seq(Events),
             \A n \in places : journal[n].value \in Seq(Events) /\ IsPrefix(journal[n].value, held)
      PROVE  ToSet(Latest(places)) \subseteq ToSet(held)
  <2>1. CASE places = {}
    BY <2>1, NothingHeld DEF Latest
  <2>2. CASE places # {}
    BY <1>1, <1>2, <2>2, LatestPlace, PrefixContained
  <2> QED
    BY <2>1, <2>2
<1>3. ToSet(RestoredState) \subseteq ToSet(history)
  BY <1>1, <1>2, JournalFields DEF RestoredState, StreamInv, Told, KernelAhead
<1>4. ASSUME NEW a \in Agents PROVE ToSet(Latest(MemoriesOf(a))) \subseteq ToSet(memories[a])
  <2>1. /\ memories[a] \in Seq(Events) /\ MemoriesOf(a) \in SUBSET DOMAIN journal
        /\ \A n \in MemoriesOf(a) : journal[n].value \in Seq(Events) /\ IsPrefix(journal[n].value, memories[a])
    BY <1>1, JournalFields DEF StreamInv, Told, KernelAhead
  <2> QED
    BY <1>2, <2>1
<1> QED
  BY <1>3, <1>4

(* A record that keeps its promise keeps the journal's story.              *)
LEMMA RecordTold ==
  ASSUME StreamInv, stage \in {"intake", "outcome"}, Up', todo # <<>>,
         journal' = Append(journal, Head(todo)), UNCHANGED kernelVars
  PROVE  Told'
<1> DEFINE r == Head(todo)
           here == Len(journal) + 1
<1>1. /\ journal \in Seq(Records) /\ history \in Seq(Events) /\ memories \in [Agents -> Seq(Events)]
      /\ r \in Records /\ r = todo[1] /\ 1 \in DOMAIN todo
      /\ UNCHANGED <<history, memories, kernelLast>> /\ Up
  BY DEF StreamInv, StreamTypeOK, kernelVars, Up
<1>2. /\ r.type = "STATE" => r.value = history
      /\ r.type = "MEMORY" => r.value = memories[r.agent] /\ RestoredState = history
      /\ r.type = "THESIS" => ToSet(r.value) \subseteq ToSet(history) /\ RestoredState = history
      /\ r.type = "APPLIED" =>
           /\ r.event \in ToSet(history) /\ RestoredState = history
           /\ r.event.kind # "fact" =>
                \A a \in Agents : r.event \in ToSet(memories[a]) /\ Latest(MemoriesOf(a)) = memories[a]
  <2>1. CASE stage = "intake"
    BY <1>1, <2>1 DEF StreamInv, InHand
  <2>2. CASE stage = "outcome"
    <3>1. RecordKept(1)
      BY <1>1, <2>2 DEF StreamInv, InHand
    <3>2. /\ StateFirst(1) => RestoredState = history
          /\ \A a : MemoryFirst(1, a) => Latest(MemoriesOf(a)) = memories[a]
      BY DEF StateFirst, MemoryFirst
    <3> QED
      BY <1>1, <3>1, <3>2 DEF RecordKept
  <2> QED
    BY <2>1, <2>2
<1>3. journal' = Append(journal, r)
  OBVIOUS
<1> HIDE DEF r
<1>4. /\ journal' \in Seq(Records) /\ Len(journal) \in Nat /\ journal'[here] = r
      /\ \A n \in DOMAIN journal : n \in Nat /\ n < here /\ journal'[n] = journal[n]
      /\ here \in Nat
      /\ \A type : OfType(type)' = OfType(type) \cup {n \in {here} : r.type = type}
      /\ \A a : MemoriesOf(a)' = MemoriesOf(a) \cup {n \in {here} : r.type = "MEMORY" /\ r.agent = a}
  BY <1>1, <1>3, JournalAfter
<1>5. /\ RestoredState' = IF r.type = "STATE" THEN r.value ELSE RestoredState
      /\ Latest(OfType("THESIS"))' = IF r.type = "THESIS" THEN r.value ELSE Latest(OfType("THESIS"))
      /\ \A a : Latest(MemoriesOf(a))' =
                  IF r.type = "MEMORY" /\ r.agent = a THEN r.value ELSE Latest(MemoriesOf(a))
  BY <1>1, <1>3, RestoredAfter
<1>6. IsPrefix(history, history) /\ \A a \in Agents : IsPrefix(memories[a], memories[a])
  <2>1. \A a \in Agents : memories[a] \in Seq(Events)
    BY <1>1
  <2> QED
    BY <1>1, <2>1, PrefixPlaces
<1>7. /\ \A type : OfType(type) \subseteq DOMAIN journal
      /\ \A a : MemoriesOf(a) \subseteq DOMAIN journal
  BY DEF OfType, MemoriesOf
<1> HIDE DEF here
<1>8. /\ Told /\ KernelAhead
      /\ \A n \in OfType("STATE") : journal[n].value \in Seq(Events)
      /\ \A a : \A n \in MemoriesOf(a) : journal[n].value \in Seq(Events)
      /\ \A n \in OfType("STATE") : IsPrefix(journal[n].value, history)
      /\ \A a \in Agents : \A n \in MemoriesOf(a) : IsPrefix(journal[n].value, memories[a])
  BY <1>1, JournalFields DEF StreamInv, Told, KernelAhead
<1>9. /\ \A h \in States' : Bounded(h)
      /\ CausalOrder'
  <2>1. States' \subseteq States
    <3>1. ASSUME NEW n \in OfType("STATE")' PROVE journal'[n].value \in States
      <4>1. n \in OfType("STATE") \/ (n = here /\ r.type = "STATE")
        BY <1>4, <3>1
      <4>2. CASE n \in OfType("STATE")
        BY <1>4, <1>7, <4>2 DEF States
      <4>3. CASE n = here /\ r.type = "STATE"
        BY <1>2, <1>4, <4>3 DEF States
      <4> QED
        BY <4>1, <4>2, <4>3
    <3> QED
      BY <1>1, <3>1 DEF States
  <2> QED
    BY <1>8, <2>1 DEF Told, CausalOrder
<1>10. HistoryOnlyGrows'
  <2>1. Extends(OfType("STATE"))'
    <3>1. ASSUME NEW m \in OfType("STATE")', NEW n \in OfType("STATE")', m < n
          PROVE  IsPrefix(journal'[m].value, journal'[n].value)
      <4>1. m \in OfType("STATE") \/ m = here
        BY <1>4
      <4>2. CASE n \in OfType("STATE")
        <5>1. m \in OfType("STATE")
          BY <1>4, <1>7, <3>1, <4>1, <4>2
        <5> QED
          BY <1>4, <1>7, <1>8, <3>1, <4>2, <5>1 DEF Told, HistoryOnlyGrows, Extends
      <4>3. CASE n = here /\ r.type = "STATE"
        <5>1. m \in OfType("STATE")
          BY <1>4, <3>1, <4>1, <4>3
        <5> QED
          BY <1>2, <1>4, <1>7, <1>8, <4>3, <5>1
      <4> QED
        BY <1>4, <4>2, <4>3
    <3> QED
      BY <3>1 DEF Extends
  <2>2. ASSUME NEW a \in Agents PROVE Extends(MemoriesOf(a))'
    <3>1. ASSUME NEW m \in MemoriesOf(a)', NEW n \in MemoriesOf(a)', m < n
          PROVE  IsPrefix(journal'[m].value, journal'[n].value)
      <4>1. m \in MemoriesOf(a) \/ m = here
        BY <1>4
      <4>2. CASE n \in MemoriesOf(a)
        <5>1. m \in MemoriesOf(a)
          BY <1>4, <1>7, <3>1, <4>1, <4>2
        <5> QED
          BY <1>4, <1>7, <1>8, <3>1, <4>2, <5>1 DEF Told, HistoryOnlyGrows, Extends
      <4>3. CASE n = here /\ r.type = "MEMORY" /\ r.agent = a
        <5>1. m \in MemoriesOf(a)
          BY <1>4, <3>1, <4>1, <4>3
        <5> QED
          BY <1>2, <1>4, <1>7, <1>8, <4>3, <5>1
      <4> QED
        BY <1>4, <4>2, <4>3
    <3> QED
      BY <3>1 DEF Extends
  <2> QED
    BY <2>1, <2>2 DEF HistoryOnlyGrows
<1>11. AppliedIsDurable'
  <2>1. ASSUME NEW n \in OfType("APPLIED")'
        PROVE  /\ journal'[n].event \in ToSet(RestoredState')
               /\ journal'[n].event.kind # "fact" =>
                    \A a \in Agents : journal'[n].event \in ToSet(Latest(MemoriesOf(a))')
    <3>1. CASE n \in OfType("APPLIED")
      <4>1. /\ journal'[n] = journal[n] /\ journal[n].event \in ToSet(RestoredState)
            /\ journal[n].event.kind # "fact" =>
                 \A a \in Agents : journal[n].event \in ToSet(Latest(MemoriesOf(a)))
        BY <1>4, <1>7, <1>8, <3>1 DEF Told, AppliedIsDurable
      <4>2. ToSet(RestoredState) \subseteq ToSet(RestoredState')
        BY <1>1, <1>2, <1>5, <1>8, RestoredKept
      <4>3. ASSUME NEW a \in Agents
            PROVE  ToSet(Latest(MemoriesOf(a))) \subseteq ToSet(Latest(MemoriesOf(a))')
        BY <1>1, <1>2, <1>5, <1>8, RestoredKept
      <4> QED
        BY <4>1, <4>2, <4>3
    <3>2. CASE n = here /\ r.type = "APPLIED"
      <4>1. journal'[n] = r
        BY <1>4, <3>2
      <4>2. r.event \in ToSet(history) /\ RestoredState' = history
        BY <1>2, <1>5, <3>2
      <4>3. ASSUME NEW a \in Agents, r.event.kind # "fact"
            PROVE  r.event \in ToSet(Latest(MemoriesOf(a))')
        <5>1. r.event \in ToSet(memories[a]) /\ Latest(MemoriesOf(a)) = memories[a]
          BY <1>2, <3>2, <4>3
        <5>2. Latest(MemoriesOf(a))' = Latest(MemoriesOf(a))
          BY <1>5, <3>2
        <5> QED
          BY <5>1, <5>2
      <4> QED
        BY <4>1, <4>2, <4>3
    <3> QED
      BY <1>4, <3>1, <3>2
  <2> QED
    BY <2>1 DEF AppliedIsDurable
<1>12. KernelAhead'
  <2>1. ASSUME NEW n \in OfType("STATE")' PROVE IsPrefix(journal'[n].value, history)
    <3>1. CASE n \in OfType("STATE")
      BY <1>4, <1>7, <1>8, <3>1
    <3>2. CASE n = here /\ r.type = "STATE"
      BY <1>2, <1>4, <1>6, <3>2
    <3> QED
      BY <1>4, <3>1, <3>2
  <2>2. ASSUME NEW a \in Agents, NEW n \in MemoriesOf(a)' PROVE IsPrefix(journal'[n].value, memories[a])
    <3>1. CASE n \in MemoriesOf(a)
      BY <1>4, <1>7, <1>8, <3>1
    <3>2. CASE n = here /\ r.type = "MEMORY" /\ r.agent = a
      BY <1>2, <1>4, <1>6, <3>2
    <3> QED
      BY <1>4, <3>1, <3>2
  <2> QED
    BY <1>1, <2>1, <2>2 DEF KernelAhead
<1>13. KernelKnows'
  BY <1>1, <1>8 DEF Told, KernelKnows
<1>14. /\ \A a \in Agents : /\ ToSet(memories'[a]) \subseteq ToSet(history')
                            /\ ToSet(Latest(MemoriesOf(a))') \subseteq ToSet(RestoredState')
       /\ ToSet(Latest(OfType("THESIS"))') \subseteq ToSet(RestoredState')
  <2>1. ToSet(RestoredState) \subseteq ToSet(RestoredState')
    BY <1>1, <1>2, <1>5, <1>8, RestoredKept
  <2> QED
    BY <1>1, <1>2, <1>5, <1>8, <2>1 DEF Told
<1> QED
  BY <1>9, <1>10, <1>11, <1>12, <1>13, <1>14 DEF Told

LEMMA AppendRecordStep == StreamInv /\ AppendRecord => StreamInv'
<1> SUFFICES ASSUME StreamInv, AppendRecord PROVE StreamInv'
  OBVIOUS
<1>1. /\ stage \in {"intake", "outcome"} /\ todo # <<>> /\ journal' = Append(journal, Head(todo))
      /\ UNCHANGED <<now, delivered, spent, kernelVars, history, memories, kernelLast>>
      /\ todo \in Seq(Records) /\ journal \in Seq(Records) /\ Head(todo) \in Records /\ Head(todo) = todo[1]
      /\ event \in Events /\ event.seq <= MaxSequence
  BY DEF AppendRecord, kernelVars, StreamInv, StreamTypeOK, InHand
<1>2. \/ todo' = Tail(todo) /\ UNCHANGED <<stage, event, nextThesis, runnerVars>>
      \/ Done /\ (UNCHANGED runnerVars \/ TakeOver(Head(todo).type))
  BY DEF AppendRecord
<1>3. Told'
  <2>1. Up'
    BY <1>1, <1>2 DEF Up, Done
  <2> QED
    BY <1>1, <2>1, RecordTold
<1>4. journal' \in Seq(Records)
  BY <1>1
<1>5. CASE todo' = Tail(todo) /\ UNCHANGED <<stage, event, nextThesis, runnerVars>>
  <2>1. UNCHANGED <<stage, event, nextThesis, thesis, runnerLast, sourceSequence>>
    BY <1>5 DEF runnerVars
  <2>2. /\ todo' \in Seq(Records)
        /\ \A n \in DOMAIN todo' : n \in Nat /\ n >= 1 /\ n + 1 \in DOMAIN todo /\ todo'[n] = todo[n + 1]
    BY <1>1, <1>5
  <2>3. StreamTypeOK'
    BY <1>1, <1>4, <2>1, <2>2 DEF StreamInv, StreamTypeOK
  <2>4. ASSUME stage = "outcome", NEW n \in DOMAIN todo' PROVE RecordKept(n)'
    <3> DEFINE r == Head(todo)
    <3>1. RecordKept(n + 1) /\ RecordKept(1)
      BY <1>1, <2>2, <2>4 DEF StreamInv, InHand
    <3>2. /\ RestoredState' = IF r.type = "STATE" THEN r.value ELSE RestoredState
          /\ \A a : Latest(MemoriesOf(a))' =
                      IF r.type = "MEMORY" /\ r.agent = a THEN r.value ELSE Latest(MemoriesOf(a))
      BY <1>1, RestoredAfter
    <3>3. /\ r.type = "STATE" => r.value = history
          /\ r.type = "MEMORY" => r.value = memories[r.agent]
      BY <1>1, <3>1 DEF RecordKept
    <3>4. ASSUME NEW m \in 1..((n + 1) - 1)
          PROVE  m = 1 \/ (m - 1 \in 1..(n - 1) /\ todo[m] = todo'[m - 1])
      <4>1. m = 1 \/ (m - 1 \in 1..(n - 1) /\ m - 1 \in DOMAIN todo' /\ (m - 1) + 1 = m)
        BY <2>2, <3>4
      <4> QED
        BY <2>2, <4>1
    <3>5. r = todo[1]
      BY <1>1
    <3> HIDE DEF r
    <3>6. StateFirst(n + 1) => StateFirst(n)'
      <4>1. CASE RestoredState = history
        BY <1>1, <3>2, <3>3, <4>1 DEF StateFirst
      <4>2. ASSUME NEW m \in 1..((n + 1) - 1), todo[m].type = "STATE" PROVE StateFirst(n)'
        <5>1. CASE m = 1
          BY <1>1, <3>2, <3>3, <3>5, <4>2, <5>1 DEF StateFirst
        <5>2. CASE m - 1 \in 1..(n - 1) /\ todo[m] = todo'[m - 1]
          BY <4>2, <5>2 DEF StateFirst
        <5> QED
          BY <3>4, <4>2, <5>1, <5>2
      <4> QED
        BY <4>1, <4>2 DEF StateFirst
    <3>7. ASSUME NEW a \in Agents PROVE MemoryFirst(n + 1, a) => MemoryFirst(n, a)'
      <4>1. CASE Latest(MemoriesOf(a)) = memories[a]
        BY <1>1, <3>2, <3>3, <4>1 DEF MemoryFirst
      <4>2. ASSUME NEW m \in 1..((n + 1) - 1), todo[m].type = "MEMORY", todo[m].agent = a
            PROVE  MemoryFirst(n, a)'
        <5>1. CASE m = 1
          BY <1>1, <3>2, <3>3, <3>5, <4>2, <5>1 DEF MemoryFirst
        <5>2. CASE m - 1 \in 1..(n - 1) /\ todo[m] = todo'[m - 1]
          BY <4>2, <5>2 DEF MemoryFirst
        <5> QED
          BY <3>4, <4>2, <5>1, <5>2
      <4> QED
        BY <4>1, <4>2 DEF MemoryFirst
    <3> QED
      BY <1>1, <2>2, <3>1, <3>6, <3>7 DEF RecordKept
  <2>5. InHand'
    BY <1>1, <2>1, <2>2, <2>4 DEF StreamInv, InHand
  <2> QED
    BY <1>3, <2>3, <2>5 DEF StreamInv
<1>6. CASE Done /\ (UNCHANGED runnerVars \/ TakeOver(Head(todo).type))
  <2>1. stage' = "idle" /\ event' = NoEvent /\ todo' = <<>> /\ nextThesis' = <<>>
    BY <1>6 DEF Done
  <2>2. /\ thesis' = thesis \/ thesis' = nextThesis
        /\ runnerLast' = runnerLast \/ runnerLast' = event
        /\ sourceSequence' = sourceSequence \/ sourceSequence' = event.seq + 1
    BY <1>6 DEF TakeOver, runnerVars
  <2>3. event.seq \in Nat
    BY <1>1 DEF Events
  <2>4. /\ thesis' \in Seq(Events) /\ runnerLast' \in Events \cup {NoEvent} /\ sourceSequence' \in Nat
        /\ ToSet(thesis') \subseteq ToSet(history)
    BY <1>1, <2>2, <2>3 DEF StreamInv, StreamTypeOK, InHand
  <2>5. StreamTypeOK'
    BY <1>1, <1>4, <2>1, <2>4 DEF StreamInv, StreamTypeOK
  <2>6. InHand'
    BY <1>1, <2>1, <2>4, NothingHeld DEF InHand
  <2> QED
    BY <1>3, <2>5, <2>6 DEF StreamInv
<1> QED
  BY <1>2, <1>5, <1>6

LEMMA NextStreamInv == StreamInv /\ [StreamNext]_streamVars => StreamInv'
<1> SUFFICES ASSUME StreamInv, [StreamNext]_streamVars PROVE StreamInv'
  OBVIOUS
<1>1. CASE UNCHANGED streamVars
  <2>1. UNCHANGED <<now, journal, history, memories, kernelLast, thesis, runnerLast,
                    sourceSequence, stage, event, todo, nextThesis, delivered, spent>>
    BY <1>1 DEF streamVars, kernelVars, runnerVars, workVars
  <2>2. StreamTypeOK'
    BY <2>1 DEF StreamInv, StreamTypeOK
  <2>3. Told'
    <3>1. CASE Up
      BY <2>1, <3>1, KernelRests DEF kernelVars, Up
    <3>2. CASE ~Up
      <4>1. /\ Bounded(history) /\ InCausalOrder(history) /\ kernelLast = NoEvent
            /\ \A a \in Agents : ToSet(memories[a]) \subseteq ToSet(history)
        BY <3>2 DEF StreamInv, Told, States, CausalOrder, KernelKnows
      <4> QED
        BY <2>1, <3>2, <4>1, KernelGone DEF Up
    <3> QED
      BY <3>1, <3>2
  <2>4. InHand'
    <3>1. ASSUME NEW n PROVE RecordKept(n)' <=> RecordKept(n)
      <4>1. /\ RestoredState' = RestoredState
            /\ \A a : Latest(MemoriesOf(a))' = Latest(MemoriesOf(a))
        BY <2>1 DEF OfType, MemoriesOf, Latest, RestoredState
      <4>2. /\ StateFirst(n)' <=> StateFirst(n)
            /\ \A a : MemoryFirst(n, a)' <=> MemoryFirst(n, a)
        BY <2>1, <4>1 DEF StateFirst, MemoryFirst
      <4> QED
        BY <2>1, <4>2 DEF RecordKept
    <3> QED
      BY <2>1, <3>1 DEF StreamInv, InHand
  <2> QED
    BY <2>2, <2>3, <2>4 DEF StreamInv
<1>2. CASE StreamNext
  BY <1>2, RestartStep, CrashStep, TickStep, ProcessBarStep, ProcessFeedbackStep, RefreshFactStep,
     EvaluateStep, AppendRecordStep, AppendFailsStep DEF StreamNext
<1> QED
  BY <1>1, <1>2

-----------------------------------------------------------------------------
(* The journal and the kernel agree at every moment of every execution.    *)
THEOREM StreamSafe == StreamSpec => []StreamInv
  BY InitStreamInv, NextStreamInv, PTL DEF StreamSpec

(* Every variable of the stream keeps its type, over crashes and restarts. *)
THEOREM StreamTypeCorrect == StreamSpec => []StreamTypeOK
<1>1. StreamInv => StreamTypeOK
  BY DEF StreamInv
<1> QED
  BY <1>1, StreamSafe, PTL

(* Whatever is delivered, redelivered, refused or lost, every state was    *)
(* reduced from events in causal order.                                    *)
THEOREM StatesInOrder == StreamSpec => []CausalOrder
<1>1. StreamInv => CausalOrder
  BY DEF StreamInv, Told
<1> QED
  BY <1>1, StreamSafe, PTL

(* Wherever a process dies, what it reported applied is restored by the    *)
(* next one, and no restored state or memory takes back an earlier one.    *)
THEOREM Remembered == StreamSpec => []JournalRemembers
<1>1. StreamInv => JournalRemembers
  BY DEF StreamInv, Told, JournalRemembers
<1> QED
  BY <1>1, StreamSafe, PTL

(* No specialist and no thesis is ever ahead of the state, in the process  *)
(* or in its journal, although the two are written one after the other.    *)
THEOREM StateLeads == StreamSpec => []NothingAheadOfState
<1>1. StreamInv => NothingAheadOfState
  BY DEF StreamInv, Told, InHand, NothingAheadOfState
<1> QED
  BY <1>1, StreamSafe, PTL

-----------------------------------------------------------------------------
(* THE BROKER'S CLOCK                                                      *)

Stamps == [raw : Int, at : Int]

(* The offset a stamp was made under.                                      *)
Under(stamp) == stamp.raw - stamp.at

(* A tick was stamped by the clock of now, or the market has been silent   *)
(* for as long as it takes to change it.                                   *)
TickStamped ==
  /\ tick \in Stamps /\ tick.at <= utc /\ Under(tick) \in Plausible
  /\ Under(tick) = offset \/ utc - tick.at >= Closing

(* A bar is under the same clock as the last tick, or as old as that.      *)
RowStamped(r) ==
  /\ r.at <= tick.at /\ Under(r) \in Plausible
  /\ Under(r) = Under(tick) \/ utc - r.at >= Closing

ClockTyped ==
  /\ utc \in Nat /\ offset \in Plausible
  /\ rows \in Seq(Stamps)
  /\ resolutions \in Seq([offset : Plausible, env : Environments])
  /\ env \in Environments
  /\ session # NoSession => session.offset \in Plausible
  /\ turn # "off" => session # NoSession

ClockInv ==
  /\ ClockTyped
  /\ tick # NoTick => TickStamped
  /\ tick = NoTick => rows = << >>
  /\ \A n \in DOMAIN rows : RowStamped(rows[n])

(* Two multiples of an hour that are less than one apart are the same.     *)
LEMMA WholeHours ==
  ASSUME NEW H \in Nat \ {0}, NEW a \in Int, NEW b \in Int, a % H = 0, b % H = 0,
         a - b < H, b - a < H
  PROVE  a = b
<1> DEFINE k == a \div H
           l == b \div H
<1>1. a = H * k /\ k \in Int
  BY a = H * (a \div H) + (a % H)
<1>2. b = H * l /\ l \in Int
  BY b = H * (b \div H) + (b % H)
<1> HIDE DEF k, l
<1>3. CASE k > l
  <2>1. H * (k - l - 1) >= 0
    BY <1>1, <1>2, <1>3
  <2>2. H * (k - l - 1) = a - b - H
    BY <1>1, <1>2
  <2> QED
    BY <2>1, <2>2
<1>4. CASE l > k
  <2>1. H * (l - k - 1) >= 0
    BY <1>1, <1>2, <1>4
  <2>2. H * (l - k - 1) = b - a - H
    BY <1>1, <1>2
  <2> QED
    BY <2>1, <2>2
<1>5. CASE k = l
  BY <1>1, <1>2, <1>5
<1> QED
  BY <1>1, <1>2, <1>3, <1>4, <1>5

LEMMA BarOpens ==
  ASSUME NEW t \in Nat
  PROVE  (t \div M5) * M5 \in Int /\ (t \div M5) * M5 <= t
<1>1. M5 \in Nat \ {0}
  BY ClockAssumption
<1>2. t = M5 * (t \div M5) + (t % M5) /\ t \div M5 \in Int /\ t % M5 \in Nat
  BY <1>1
<1> QED
  BY <1>1, <1>2

LEMMA ClockInitInv == ClockInit => ClockInv
  BY DEF ClockInit, ClockInv, ClockTyped, NoSession

LEMMA ClockStays ==
  ASSUME ClockInv, UNCHANGED <<market, utc>>, ClockTyped'
  PROVE  ClockInv'
  BY DEF ClockInv, market, TickStamped, RowStamped, Under

LEMMA PassStep == ASSUME ClockInv, Pass PROVE ClockInv'
<1> USE DEF Pass, market, running
<1>1. ClockTyped'
  BY DEF ClockInv, ClockTyped
<1>2. utc \in Nat /\ utc' = utc + 1 /\ Closing \in Nat /\ rows \in Seq(Stamps)
  BY ClockAssumption DEF ClockInv, ClockTyped
<1>3. tick' # NoTick => TickStamped'
  BY <1>2 DEF ClockInv, TickStamped, Under, Stamps
<1>4. \A n \in DOMAIN rows' : RowStamped(rows[n])'
  <2> SUFFICES ASSUME NEW n \in DOMAIN rows PROVE RowStamped(rows[n])'
    OBVIOUS
  <2>1. RowStamped(rows[n]) /\ rows[n] \in Stamps
    BY <1>2 DEF ClockInv
  <2>2. rows[n].at \in Int
    BY <2>1 DEF Stamps
  <2> QED
    BY <1>2, <2>1, <2>2 DEF RowStamped, Under
<1> QED
  BY <1>1, <1>3, <1>4 DEF ClockInv

(* The offset between a stamp and what it is a stamp of.                   *)
LEMMA StampedIs ==
  ASSUME NEW at \in Int, offset \in Int
  PROVE  Stamped(at) \in Stamps /\ Under(Stamped(at)) = offset /\ Stamped(at).at = at
  BY DEF Stamped, Stamps, Under

LEMMA QuoteStep == ASSUME ClockInv, Quote PROVE ClockInv'
<1> USE DEF Quote, running
<1>1. PICK open \in Int : open = (utc \div M5) * M5 /\ open <= utc
  BY BarOpens DEF ClockInv, ClockTyped
<1>2. utc \in Nat /\ offset \in Int /\ offset \in Plausible /\ Closing \in Nat /\ rows \in Seq(Stamps)
      /\ utc' = utc /\ offset' = offset /\ env' = env
  BY ClockAssumption DEF ClockInv, ClockTyped
<1>3. PICK quote, row : quote = Stamped(utc) /\ row = Stamped(open)
  OBVIOUS
<1>4. /\ quote \in Stamps /\ Under(quote) = offset /\ quote.at = utc /\ tick' = quote
      /\ row \in Stamps /\ Under(row) = offset /\ row.at = open
  BY <1>1, <1>2, <1>3, StampedIs
<1>5. quote # NoTick
  BY <1>3 DEF Stamped, NoTick
<1>6. rows' = IF rows # << >> /\ Last(rows) = row THEN rows ELSE Recent(Append(rows, row))
  BY <1>1, <1>3
<1>7. rows' \in Seq(Stamps)
      /\ \A n \in DOMAIN rows' : rows'[n] = row \/ \E m \in DOMAIN rows : rows'[n] = rows[m]
  <2>1. PICK longer : longer = Append(rows, row)
    OBVIOUS
  <2>2. /\ longer \in Seq(Stamps) /\ Len(longer) = Len(rows) + 1
        /\ \A n \in DOMAIN longer : longer[n] = row \/ \E m \in DOMAIN rows : longer[n] = rows[m]
    BY <1>2, <1>4, <2>1
  <2>3. CASE rows' = rows
    BY <1>2, <2>3
  <2>4. CASE rows' = longer
    BY <2>2, <2>4
  <2>5. CASE rows' = Tail(longer) /\ Len(longer) > 2
    <3>1. /\ Tail(longer) \in Seq(Stamps) /\ Len(Tail(longer)) = Len(longer) - 1
          /\ \A n \in 1..(Len(longer) - 1) : Tail(longer)[n] = longer[n + 1] /\ n + 1 \in DOMAIN longer
      BY <2>2, <2>5
    <3>2. DOMAIN Tail(longer) = 1..(Len(longer) - 1)
      BY <2>2, <3>1
    <3>3. ASSUME NEW n \in DOMAIN rows'
          PROVE  rows'[n] = row \/ \E m \in DOMAIN rows : rows'[n] = rows[m]
      BY <2>2, <2>5, <3>1, <3>2, <3>3
    <3> QED
      BY <2>5, <3>1, <3>3
  <2> QED
    BY <1>6, <2>1, <2>3, <2>4, <2>5 DEF Recent
<1>8. ClockTyped'
  BY <1>2, <1>7 DEF ClockInv, ClockTyped
<1>9. TickStamped'
  BY <1>2, <1>4 DEF TickStamped
<1>10. \A n \in DOMAIN rows' : RowStamped(rows[n])'
  <2> SUFFICES ASSUME NEW n \in DOMAIN rows' PROVE RowStamped(rows[n])'
    OBVIOUS
  <2>1. CASE rows'[n] = row
    BY <1>1, <1>2, <1>4, <2>1 DEF RowStamped
  <2>2. CASE \E m \in DOMAIN rows : rows'[n] = rows[m]
    <3>1. PICK m \in DOMAIN rows : rows'[n] = rows[m]
      BY <2>2
    <3>2. PICK r \in Stamps : r = rows[m]
      BY <1>2
    <3>3. RowStamped(r) /\ TickStamped
      BY <1>2, <3>2 DEF ClockInv
    <3>4. r.at \in Int /\ tick.at \in Int /\ r.at <= tick.at /\ tick.at <= utc /\ Under(r) \in Plausible
      BY <3>2, <3>3 DEF RowStamped, TickStamped, Stamps
    <3>5. Under(r) = offset \/ utc - r.at >= Closing
      BY <1>2, <3>3, <3>4 DEF RowStamped, TickStamped
    <3>6. r.at <= utc
      BY <1>2, <3>4
    <3> QED
      BY <1>2, <1>4, <3>1, <3>2, <3>4, <3>5, <3>6 DEF RowStamped
  <2> QED
    BY <1>7, <2>1, <2>2
<1> QED
  BY <1>4, <1>5, <1>8, <1>9, <1>10 DEF ClockInv

LEMMA ChangeStep == ASSUME ClockInv, Change PROVE ClockInv'
<1> USE DEF Change, running
<1>1. CASE /\ tick # NoTick => utc - tick.at >= Closing
           /\ offset' \in Plausible \ {offset}
           /\ UNCHANGED <<env, tick, rows>>
  <2>1. ClockTyped'
    BY <1>1 DEF ClockInv, ClockTyped
  <2>2. tick' # NoTick => TickStamped'
    BY <1>1 DEF ClockInv, TickStamped
  <2>3. \A n \in DOMAIN rows' : RowStamped(rows[n])'
    BY <1>1 DEF ClockInv, RowStamped
  <2> QED
    BY <1>1, <2>1, <2>2, <2>3 DEF ClockInv
<1>2. CASE env' \in Environments \ {env} /\ offset' \in Plausible /\ tick' = NoTick /\ rows' = << >>
  BY <1>2 DEF ClockInv, ClockTyped
<1> QED
  BY <1>1, <1>2

LEMMA StartSessionStep == ASSUME ClockInv, StartSession PROVE ClockInv'
<1> USE DEF StartSession
<1>1. turn' = "refresh" /\ UNCHANGED <<utc, market>>
  OBVIOUS
<1>2. CASE \E o \in Inferred : session' = Resolution(o) /\ resolutions' = Append(resolutions, session')
  <2>1. PICK o \in Plausible : session' = Resolution(o) /\ resolutions' = Append(resolutions, Resolution(o))
    BY <1>2 DEF Inferred, CandidateOffsets
  <2>2. Resolution(o) \in [offset : Plausible, env : Environments] /\ Resolution(o) # NoSession
        /\ Resolution(o).offset = o
    BY DEF Resolution, NoSession, ClockInv, ClockTyped
  <2>3. resolutions' \in Seq([offset : Plausible, env : Environments])
    BY <2>1, <2>2 DEF ClockInv, ClockTyped
  <2>4. ClockTyped'
    BY <1>1, <2>1, <2>2, <2>3 DEF ClockInv, ClockTyped, market
  <2> QED
    BY <1>1, <2>4, ClockStays
<1>3. CASE (\E n \in Reusable : session' = resolutions[n]) /\ UNCHANGED resolutions
  <2>1. PICK n \in DOMAIN resolutions : session' = resolutions[n]
    BY <1>3 DEF Reusable
  <2>2. resolutions[n] \in [offset : Plausible, env : Environments]
    <3>1. resolutions \in Seq([offset : Plausible, env : Environments])
      BY DEF ClockInv, ClockTyped
    <3>2. n \in DOMAIN resolutions
      BY <2>1
    <3>3. PICK S : S = [offset : Plausible, env : Environments]
      OBVIOUS
    <3>4. resolutions \in Seq(S)
      BY <3>1, <3>3
    <3>5. resolutions[n] \in S
      BY <3>2, <3>4
    <3> QED
      BY <3>3, <3>5
  <2>3. session' # NoSession /\ session'.offset \in Plausible
    BY <2>1, <2>2 DEF NoSession
  <2>4. ClockTyped'
    BY <1>1, <1>3, <2>3 DEF ClockInv, ClockTyped, market
  <2> QED
    BY <1>1, <2>4, ClockStays
<1> QED
  BY <1>2, <1>3

LEMMA OtherClockSteps == ASSUME ClockInv, EndSession \/ RefreshFacts \/ PollBar PROVE ClockInv'
<1>1. UNCHANGED <<utc, market, resolutions>>
  BY DEF EndSession, RefreshFacts, PollBar
<1>2. \/ session' = session /\ turn # "off"
      \/ session' = NoSession /\ turn' = "off"
  BY DEF EndSession, RefreshFacts, PollBar, ProcessPolled, Over
<1>3. ClockTyped'
  BY <1>1, <1>2 DEF ClockInv, ClockTyped, market
<1> QED
  BY <1>1, <1>3, ClockStays

LEMMA ClockStep == ASSUME ClockInv, [ClockNext]_clockVars PROVE ClockInv'
<1>1. CASE UNCHANGED clockVars
  <2>1. ClockTyped'
    BY <1>1 DEF clockVars, market, running, ClockInv, ClockTyped
  <2> QED
    BY <1>1, <2>1, ClockStays DEF clockVars
<1> QED
  BY <1>1, PassStep, QuoteStep, ChangeStep, StartSessionStep, OtherClockSteps DEF ClockNext

(* A fresh quote that normalises was stamped under the session's offset,   *)
(* and so was every bar that is not too old beside it.                     *)
LEMMA FreshIsTrue ==
  ASSUME ClockInv, session # NoSession, FreshQuote, Silence + Ahead < Hour
  PROVE  Under(tick) = session.offset
<1>1. /\ tick \in Stamps /\ tick.at <= utc /\ Under(tick) \in Plausible /\ utc \in Nat
      /\ session.offset \in Plausible
  BY DEF FreshQuote, ClockInv, ClockTyped, TickStamped
<1>2. /\ Ahead \in Nat /\ QuoteStale \in Nat /\ Hour \in Nat /\ QuoteStale + Ahead < Hour
      /\ session.offset \in Int /\ session.offset % Hour = 0 /\ Under(tick) \in Int /\ Under(tick) % Hour = 0
  BY <1>1, ClockAssumption
<1>3. /\ tick.raw \in Int /\ tick.at \in Int /\ tick.raw = tick.at + Under(tick)
  BY <1>1 DEF Stamps, Under
<1>4. ~(tick.raw - session.offset > utc + Ahead) /\ utc - (tick.raw - session.offset) <= QuoteStale
  BY DEF FreshQuote, Normalizes, InFuture, InUtc
<1>5. Under(tick) - session.offset < Hour /\ session.offset - Under(tick) < Hour
  BY <1>1, <1>2, <1>3, <1>4 DEF Silence
<1>6. Hour \in Nat \ {0}
  BY <1>2
<1> QED
  BY <1>2, <1>5, <1>6, WholeHours

LEMMA NewBarIsTrue ==
  ASSUME ClockInv, session # NoSession, FreshQuote, Silence + Ahead < Hour,
         NEW n \in DOMAIN rows, NewlyCompleted(rows[n])
  PROVE  InUtc(rows[n]) = rows[n].at
<1>1. Under(tick) = session.offset
  BY FreshIsTrue
<1>2. PICK r \in Stamps : r = rows[n]
  BY DEF ClockInv, ClockTyped
<1>3. RowStamped(r)
  BY <1>2 DEF ClockInv
<1>4. /\ r.raw \in Int /\ r.at \in Int /\ r.raw = r.at + Under(r) /\ utc \in Nat
      /\ session.offset \in Plausible /\ Under(r) \in Plausible
  BY <1>3 DEF Stamps, Under, RowStamped, ClockInv, ClockTyped
<1>5. /\ M5 \in Nat /\ QuoteStale \in Nat /\ Closing \in Nat
      /\ session.offset \in Int /\ Under(r) \in Int
      /\ (Under(r) - session.offset) + M5 + QuoteStale < Closing
  BY <1>4, ClockAssumption
<1>6. utc - (r.raw - session.offset + M5) <= QuoteStale
  BY <1>2 DEF NewlyCompleted, InUtc
<1>7. utc - r.at < Closing
  BY <1>4, <1>5, <1>6
<1>8. Under(r) = session.offset
  BY <1>1, <1>3, <1>4, <1>5, <1>7 DEF RowStamped
<1> QED
  BY <1>2, <1>4, <1>5, <1>8 DEF InUtc

(* While the last tick is less than an hour old a bar is processed under   *)
(* the instant it closed at, for any offsets, tolerances and environments  *)
(* of the assumption (time_normalization.py, MT5CompletedM5Source.poll).   *)
THEOREM BarsDatedTruly == ClockSpec => DatedTruly
<1>1. ASSUME ClockInv, [ClockNext]_clockVars
      PROVE  [processed' # processed /\ Silence + Ahead < Hour => processed'.close = processed'.true]_clockVars
  <2> SUFFICES ASSUME ClockNext, processed' # processed, Silence + Ahead < Hour
               PROVE  processed'.close = processed'.true
    BY <1>1
  <2>1. PollBar
    BY DEF ClockNext, Pass, Quote, Change, StartSession, EndSession, RefreshFacts
  <2>2. FreshQuote /\ \E n \in Completed : NewlyCompleted(rows[n]) /\ ProcessPolled(rows[n])
    BY <2>1 DEF PollBar
  <2>3. PICK n \in DOMAIN rows : NewlyCompleted(rows[n]) /\ ProcessPolled(rows[n])
    BY <2>2 DEF Completed
  <2>4. processed' = [close |-> InUtc(rows[n]) + M5, true |-> rows[n].at + M5]
    BY <2>3 DEF ProcessPolled
  <2>5. session # NoSession
    BY <1>1, <2>1 DEF PollBar, ClockInv, ClockTyped
  <2>6. InUtc(rows[n]) = rows[n].at
    BY <1>1, <2>2, <2>3, <2>5, NewBarIsTrue
  <2> QED
    BY <2>4, <2>6
<1> QED
  BY <1>1, ClockInitInv, ClockStep, PTL DEF ClockSpec, DatedTruly

-----------------------------------------------------------------------------
(* THE FUNNEL                                                              *)

(* A sequence, of whatever it holds.                                       *)
Row(s) == s \in Seq({s[i] : i \in DOMAIN s})

LEMMA RowIs ==
  ASSUME NEW s, Row(s)
  PROVE  /\ Len(s) \in Nat /\ DOMAIN s = 1..Len(s) /\ s = [i \in 1..Len(s) |-> s[i]]
         /\ ToSet(s) = {s[i] : i \in 1..Len(s)} /\ IsFiniteSet(ToSet(s))
<1>1. PICK S : S = {s[i] : i \in DOMAIN s}
  OBVIOUS
<1>2. s \in Seq(S)
  BY <1>1 DEF Row
<1>3. Len(s) \in Nat /\ DOMAIN s = 1..Len(s) /\ s = [i \in 1..Len(s) |-> s[i]]
  BY ONLY <1>2
<1>4. ToSet(s) = {s[i] : i \in 1..Len(s)}
  BY ONLY <1>3 DEF ToSet
<1>5. IsFiniteSet(ToSet(s))
  <2>1. IsFiniteSet(1..Len(s))
    BY <1>3, FS_Interval
  <2>2. PICK f : f = [i \in 1..Len(s) |-> s[i]]
    OBVIOUS
  <2>3. IsFiniteSet({f[i] : i \in 1..Len(s)})
    <3>1. f \in [1..Len(s) -> ToSet(s)] /\ \A e \in ToSet(s) : \E i \in 1..Len(s) : f[i] = e
      BY ONLY <1>4, <2>2
    <3>2. f \in Surjection(1..Len(s), ToSet(s))
      BY ONLY <3>1 DEF Surjection
    <3>3. IsFiniteSet(ToSet(s))
      BY ONLY <2>1, <3>2, FS_Surjection
    <3> QED
      BY ONLY <1>4, <2>2, <3>3
  <2> QED
    BY ONLY <1>4, <2>2, <2>3
<1> QED
  BY <1>3, <1>4, <1>5

LEMMA RowOf ==
  ASSUME NEW n \in Nat, NEW s, s = [i \in 1..n |-> s[i]]
  PROVE  Row(s) /\ Len(s) = n
<1>1. PICK S : S = {s[i] : i \in DOMAIN s}
  OBVIOUS
<1>2. \A i \in 1..n : s[i] \in S
  BY <1>1
<1>3. s \in [1..n -> S]
  BY ONLY <1>2, s = [i \in 1..n |-> s[i]]
<1>4. s \in Seq(S)
  BY ONLY <1>3
<1> QED
  BY <1>1, <1>3, <1>4 DEF Row

LEMMA RowOne ==
  ASSUME NEW e, NEW s, s = <<e>>
  PROVE  Row(s) /\ Len(s) = 1 /\ s[1] = e /\ ToSet(s) = {e}
<1>1. s = [i \in 1..1 |-> s[i]] /\ s[1] = e
  OBVIOUS
<1>2. Row(s) /\ Len(s) = 1
  BY <1>1, RowOf
<1> QED
  BY ONLY <1>1, <1>2, RowIs

LEMMA RowNone == ASSUME NEW s, s = << >> PROVE Row(s) /\ Len(s) = 0 /\ ToSet(s) = {}
<1>1. s = [i \in 1..0 |-> s[i]]
  OBVIOUS
<1>2. Row(s) /\ Len(s) = 0
  BY <1>1, RowOf
<1> QED
  BY ONLY <1>2, RowIs

Joint(u, s, t) ==
  /\ Row(u) /\ Len(u) = Len(s) + Len(t)
  /\ \A i \in 1..Len(s) : u[i] = s[i]
  /\ \A i \in 1..Len(t) : u[Len(s) + i] = t[i]
  /\ ToSet(u) = ToSet(s) \cup ToSet(t)

LEMMA RowJoin ==
  ASSUME NEW s, NEW t, NEW u, Row(s), Row(t), Joined(u, s, t)
  PROVE  Joint(u, s, t)
<1>1. PICK S : S = {s[i] : i \in DOMAIN s} \cup {t[i] : i \in DOMAIN t}
  OBVIOUS
<1>2. s \in Seq(S) /\ t \in Seq(S)
  <2>1. s \in Seq({s[i] : i \in DOMAIN s}) /\ {s[i] : i \in DOMAIN s} \subseteq S
    BY <1>1 DEF Row
  <2>2. t \in Seq({t[i] : i \in DOMAIN t}) /\ {t[i] : i \in DOMAIN t} \subseteq S
    BY <1>1 DEF Row
  <2> QED
    BY <2>1, <2>2
<1>3. u \in Seq(S) /\ Both(u, s, t)
  BY <1>2, BothLists
<1>4. Len(u) = Len(s) + Len(t)
      /\ \A i \in 1..Len(s) + Len(t) : u[i] = IF i <= Len(s) THEN s[i] ELSE t[i - Len(s)]
  BY <1>2, ConcatProperties DEF Joined
<1>5. Len(s) \in Nat /\ Len(t) \in Nat /\ DOMAIN s = 1..Len(s) /\ DOMAIN t = 1..Len(t)
  BY ONLY <1>2
<1>6. \A i \in 1..Len(s) : u[i] = s[i]
  BY ONLY <1>4, <1>5
<1>7. \A i \in 1..Len(t) : u[Len(s) + i] = t[i]
  <2> SUFFICES ASSUME NEW i \in 1..Len(t) PROVE u[Len(s) + i] = t[i]
    OBVIOUS
  <2>1. Len(s) + i \in 1..Len(s) + Len(t) /\ ~(Len(s) + i <= Len(s)) /\ (Len(s) + i) - Len(s) = i
    BY ONLY <1>5
  <2> QED
    BY ONLY <1>4, <2>1
<1>8. u = [i \in 1..Len(u) |-> u[i]] /\ Len(u) \in Nat
  BY ONLY <1>3
<1>9. Row(u)
  BY ONLY <1>8, RowOf
<1>10. ToSet(u) = ToSet(s) \cup ToSet(t)
  <2>1. \A e \in ToSet(u) : e \in ToSet(s) \/ e \in ToSet(t)
    BY <1>3 DEF Both, ToSet
  <2>2. \A e \in ToSet(s) : e \in ToSet(u)
    BY <1>3 DEF Both, ToSet
  <2>3. \A e \in ToSet(t) : e \in ToSet(u)
    BY <1>3 DEF Both, ToSet
  <2> QED
    BY ONLY <2>1, <2>2, <2>3
<1> QED
  BY <1>4, <1>6, <1>7, <1>9, <1>10 DEF Joint

(* Moving the head of the one to the end of the other leaves the line.     *)
Moved(s, t, v, w) == t # << >> /\ v = Append(s, Head(t)) /\ w = Tail(t)

LEMMA LineMoves ==
  ASSUME NEW s, NEW t, NEW v, NEW w, Row(s), Row(t), Moved(s, t, v, w)
  PROVE  Row(v) /\ Row(w) /\ v \o w = s \o t /\ Len(v) = Len(s) + 1 /\ v[Len(v)] = t[1]
         /\ Len(t) >= 1 /\ \A i \in 1..Len(s) : v[i] = s[i]
<1> USE DEF Moved
<1>1. PICK S : S = {s[i] : i \in DOMAIN s} \cup {t[i] : i \in DOMAIN t}
  OBVIOUS
<1>2. s \in Seq(S) /\ t \in Seq(S)
  <2>1. s \in Seq({s[i] : i \in DOMAIN s}) /\ {s[i] : i \in DOMAIN s} \subseteq S
    BY <1>1 DEF Row
  <2>2. t \in Seq({t[i] : i \in DOMAIN t}) /\ {t[i] : i \in DOMAIN t} \subseteq S
    BY <1>1 DEF Row
  <2> QED
    BY <2>1, <2>2
<1>3. Head(t) \in S /\ Tail(t) \in Seq(S) /\ Len(t) \in Nat \ {0} /\ Head(t) = t[1]
      /\ Len(Tail(t)) = Len(t) - 1 /\ \A i \in 1..Len(t) - 1 : Tail(t)[i] = t[i + 1]
  BY <1>2
<1>4. v \in Seq(S) /\ Len(v) = Len(s) + 1 /\ v[Len(s) + 1] = Head(t)
      /\ Len(s) \in Nat /\ \A i \in 1..Len(s) : v[i] = s[i]
  BY <1>2, <1>3
<1>5. Row(v) /\ Row(w)
  <2>1. v = [i \in 1..Len(v) |-> v[i]] /\ Len(v) \in Nat
    BY ONLY <1>4
  <2>2. w \in Seq(S)
    BY <1>3
  <2>3. w = [i \in 1..Len(w) |-> w[i]] /\ Len(w) \in Nat
    BY ONLY <2>2
  <2> QED
    BY ONLY <2>1, <2>3, RowOf
<1>6. v \o w = s \o t
  <2>1. PICK a, b : a = v \o w /\ b = s \o t
    OBVIOUS
  <2>2. Joint(a, v, w) /\ Joint(b, s, t)
    BY <1>5, <2>1, RowJoin DEF Joined
  <2>3. Len(a) = Len(b) /\ Len(a) = Len(s) + Len(t)
    BY <1>3, <1>4, <2>2 DEF Joint
  <2>4. \A i \in 1..Len(a) : a[i] = b[i]
    <3> SUFFICES ASSUME NEW i \in 1..Len(a) PROVE a[i] = b[i]
      OBVIOUS
    <3>1. CASE i <= Len(s)
      <4>1. i \in 1..Len(s) /\ i \in 1..Len(v)
        BY <1>4, <3>1
      <4> QED
        BY <1>4, <2>2, <4>1 DEF Joint
    <3>2. CASE i = Len(s) + 1
      <4>1. i \in 1..Len(v) /\ 1 \in 1..Len(t)
        BY <1>3, <1>4, <3>2
      <4>2. a[i] = v[i] /\ b[Len(s) + 1] = t[1]
        BY <2>2, <4>1 DEF Joint
      <4> QED
        BY <1>3, <1>4, <3>2, <4>2
    <3>3. CASE i > Len(s) + 1
      <4>1. PICK j : j = i - (Len(s) + 1)
        OBVIOUS
      <4>2. j \in 1..Len(w) /\ j \in 1..Len(t) - 1 /\ j + 1 \in 1..Len(t) /\ i = Len(v) + j
            /\ i = Len(s) + (j + 1)
        BY <1>3, <1>4, <2>3, <3>3, <4>1
      <4>3. a[i] = w[j] /\ b[i] = t[j + 1]
        BY <2>2, <4>2 DEF Joint
      <4> QED
        BY <1>3, <4>2, <4>3
    <3> QED
      BY <1>4, <2>3, <3>1, <3>2, <3>3
  <2>5. a = [i \in 1..Len(a) |-> a[i]] /\ b = [i \in 1..Len(b) |-> b[i]]
    BY <2>2, RowIs DEF Joint
  <2> QED
    BY ONLY <2>1, <2>3, <2>4, <2>5
<1> QED
  BY <1>3, <1>4, <1>5, <1>6

(* What is journaled, and what is about to be.                             *)
Line == written \o queue

Quiet == {"SCAN", "CONTEXT"}
Talk == {"ASSESSMENT", "ROUND", "TURN", "RESOLUTION", "IMPACT"}
Planned == {"MASTER", "DISCIPLINE", "RISK", "INTENT"}

(* A record belongs to a poll, and names what belongs to the same one.     *)
Formed(r, n) ==
  /\ r.id[1] = r.kind /\ r.id[2] \in 1..n
  /\ \A m \in r.names : m[2] = r.id[2]
  /\ r.kind \in Quiet => \A m \in r.names : m[1] \in Quiet

IdsBefore(L, k) == {L[j].id : j \in 1..(k - 1)}

(* What it names comes before it, but for the Master's proposal that a     *)
(* discussion is about.                                                    *)
NamesTold(L, k) ==
  \A m \in L[k].names :
    m \in IdsBefore(L, k) \/ (m = <<"MASTER", L[k].id[2]>> /\ L[k].kind \in Talk)

(* A cycle or an execution comes after that proposal, or names no more than*)
(* what was seen.                                                          *)
Rests(L, k) ==
  L[k].kind \in {"CYCLE", "EXECUTION"} =>
    (\A m \in L[k].names : m[1] \in Quiet) \/ <<"MASTER", L[k].id[2]>> \in IdsBefore(L, k)

TurnsOf(q, bundle) == {<<"TURN", q, i>> : i \in 1..(2 * Len(Participants(bundle)))}

SaysOf(bundle, i) == [of |-> Participants(bundle)[(i + 1) \div 2], rebuts |-> i % 2 = 0]

(* A resolution after the whole of a round.                                *)
Debated(L, k, bundle) ==
  /\ L[k].names = {<<"ROUND", L[k].id[2]>>, <<"ASSESSMENT", L[k].id[2]>>, <<"MASTER", L[k].id[2]>>}
                    \cup TurnsOf(L[k].id[2], bundle)
  /\ \E j \in 1..(k - 1) : L[j].id = <<"ASSESSMENT", L[k].id[2]>> /\ L[j].says = bundle
  /\ \A i \in 1..(2 * Len(Participants(bundle))) :
       \E j \in 1..(k - 1) : L[j].id = <<"TURN", L[k].id[2], i>> /\ L[j].says = SaysOf(bundle, i)

Heard(L, k) ==
  L[k].kind = "RESOLUTION" /\ L[k].says = "COMPLETED" =>
    \E bundle \in Bundles(L[k].id[2]) : Debated(L, k, bundle)

NoIdTwice(L) == \A i, j \in 1..Len(L) : L[i].id = L[j].id => i = j

Standing(L, n) ==
  /\ Row(L) /\ NoIdTwice(L)
  /\ \A k \in 1..Len(L) : Formed(L[k], n) /\ NamesTold(L, k) /\ Rests(L, k) /\ Heard(L, k)

(* The records of one step, put after a line.                              *)
Batch(L, b, n, K) ==
  /\ Row(b) /\ NoIdTwice(b)
  /\ \A i \in 1..Len(b) :
       /\ Formed(b[i], n) /\ b[i].id[2] = n /\ b[i].kind \notin K /\ Heard(b, i)
       /\ \A m \in b[i].names :
            \/ m \in IdsBefore(L, Len(L) + 1) \/ m \in IdsBefore(b, i)
            \/ m = <<"MASTER", n>> /\ b[i].kind \in Talk
       /\ b[i].kind \in {"CYCLE", "EXECUTION"} =>
            (\A m \in b[i].names : m[1] \in Quiet) \/ <<"MASTER", n>> \in IdsBefore(L, Len(L) + 1)

(* What a line holds of a poll.                                            *)
Holds(L, n, K) == \A k \in 1..Len(L) : L[k].id[2] = n => L[k].kind \in K

(* A line that goes on has told the same up to where it was.               *)
LEMMA SameBefore ==
  ASSUME NEW L, NEW w, NEW k \in Nat, NEW n, NEW d \in Nat,
         \A j \in 1..k : w[d + j] = L[j], NEW bundle
  PROVE  /\ IdsBefore(L, k) \subseteq IdsBefore(w, d + k)
         /\ k # 0 => (Debated(L, k, bundle) => Debated(w, d + k, bundle))
         /\ k # 0 => (NamesTold(L, k) => NamesTold(w, d + k))
         /\ k # 0 => (Rests(L, k) => Rests(w, d + k))
         /\ k # 0 => (Heard(L, k) => Heard(w, d + k))
<1>1. \A j \in 1..(k - 1) : d + j \in 1..((d + k) - 1) /\ w[d + j] = L[j]
  OBVIOUS
<1>2. IdsBefore(L, k) \subseteq IdsBefore(w, d + k)
  BY <1>1 DEF IdsBefore
<1>3. k # 0 => w[d + k] = L[k]
  OBVIOUS
<1>4. ASSUME NEW c, k # 0, Debated(L, k, c) PROVE Debated(w, d + k, c)
  <2>1. w[d + k] = L[k]
    BY <1>3, <1>4
  <2>2. \E j \in 1..((d + k) - 1) : w[j].id = <<"ASSESSMENT", L[k].id[2]>> /\ w[j].says = c
    BY <1>1, <1>4 DEF Debated
  <2>3. \A i \in 1..(2 * Len(Participants(c))) :
          \E j \in 1..((d + k) - 1) : w[j].id = <<"TURN", L[k].id[2], i>> /\ w[j].says = SaysOf(c, i)
    <3> SUFFICES ASSUME NEW i \in 1..(2 * Len(Participants(c)))
                 PROVE  \E j \in 1..((d + k) - 1) : w[j].id = <<"TURN", L[k].id[2], i>> /\ w[j].says = SaysOf(c, i)
      OBVIOUS
    <3>1. PICK j \in 1..(k - 1) : L[j].id = <<"TURN", L[k].id[2], i>> /\ L[j].says = SaysOf(c, i)
      BY <1>4 DEF Debated
    <3> QED
      BY ONLY <1>1, <3>1
  <2>4. L[k].names = {<<"ROUND", L[k].id[2]>>, <<"ASSESSMENT", L[k].id[2]>>, <<"MASTER", L[k].id[2]>>}
                    \cup TurnsOf(L[k].id[2], c)
    BY <1>4 DEF Debated
  <2> QED
    BY ONLY <2>1, <2>2, <2>3, <2>4 DEF Debated
<1>5. k # 0 => (NamesTold(L, k) => NamesTold(w, d + k))
  BY <1>2, <1>3 DEF NamesTold
<1>6. k # 0 => (Rests(L, k) => Rests(w, d + k))
  BY <1>2, <1>3 DEF Rests
<1>7. k # 0 => (Heard(L, k) => Heard(w, d + k))
  BY <1>3, <1>4 DEF Heard
<1> QED
  BY <1>2, <1>4, <1>5, <1>6, <1>7

LEMMA StandingBefore ==
  ASSUME NEW L, NEW n, Standing(L, n), NEW w, Row(w), Len(w) <= Len(L),
         \A i \in 1..Len(w) : w[i] = L[i]
  PROVE  Standing(w, n)
<1>1. Len(w) \in Nat /\ Len(L) \in Nat
  BY RowIs DEF Standing
<1>2. NoIdTwice(w)
  BY <1>1 DEF NoIdTwice, Standing
<1>3. ASSUME NEW k \in 1..Len(w)
      PROVE  Formed(w[k], n) /\ NamesTold(w, k) /\ Rests(w, k) /\ Heard(w, k)
  <2>1. k \in Nat /\ k # 0 /\ 0 + k = k /\ k \in 1..Len(L) /\ \A j \in 1..k : w[0 + j] = L[j]
    BY <1>1
  <2>2. NamesTold(w, 0 + k) /\ Rests(w, 0 + k) /\ Heard(w, 0 + k)
    BY <2>1, SameBefore, Zenon DEF Standing
  <2>3. Formed(w[k], n)
    BY <2>1 DEF Standing
  <2> QED
    BY <2>1, <2>2, <2>3
<1> QED
  BY <1>2, <1>3 DEF Standing

LEMMA StandingLater ==
  ASSUME NEW L, NEW n \in Nat, Standing(L, n)
  PROVE  Standing(L, n + 1) /\ Holds(L, n + 1, {})
<1>1. \A k \in 1..Len(L) : Formed(L[k], n + 1) /\ L[k].id[2] # n + 1
  BY DEF Standing, Formed
<1> QED
  BY <1>1 DEF Standing, Holds

LEMMA StandingJoins ==
  ASSUME NEW L, NEW n \in Nat, NEW K, Standing(L, n), Holds(L, n, K),
         NEW b, Batch(L, b, n, K), NEW u, Joined(u, L, b)
  PROVE  Standing(u, n)
<1>1. Row(L) /\ Row(b) /\ Joint(u, L, b)
  BY RowJoin DEF Standing, Batch
<1>2. Len(L) \in Nat /\ Len(b) \in Nat /\ Row(u) /\ Len(u) = Len(L) + Len(b)
  BY <1>1, RowIs DEF Joint
<1>3. \A j \in 1..Len(u) : j \in 1..Len(L) \/ \E i \in 1..Len(b) : j = Len(L) + i
  <2> SUFFICES ASSUME NEW j \in 1..Len(u), ~(j \in 1..Len(L))
               PROVE  \E i \in 1..Len(b) : j = Len(L) + i
    OBVIOUS
  <2>1. j - Len(L) \in 1..Len(b) /\ j = Len(L) + (j - Len(L))
    BY <1>2
  <2> QED
    BY <2>1
<1>4. (\A j \in 1..Len(L) : u[j] = L[j]) /\ \A i \in 1..Len(b) : u[Len(L) + i] = b[i]
  BY <1>1 DEF Joint
<1>5. NoIdTwice(u)
  <2>1. \A i, j \in 1..Len(L) : u[i].id = u[j].id => i = j
    BY <1>4 DEF Standing, NoIdTwice
  <2>2. \A i, j \in 1..Len(b) : u[Len(L) + i].id = u[Len(L) + j].id => i = j
    BY <1>4 DEF Batch, NoIdTwice
  <2>3. \A i \in 1..Len(L), j \in 1..Len(b) : u[i].id # u[Len(L) + j].id
    <3> SUFFICES ASSUME NEW i \in 1..Len(L), NEW j \in 1..Len(b), u[i].id = u[Len(L) + j].id
                 PROVE  FALSE
      OBVIOUS
    <3>1. L[i].id = b[j].id
      BY <1>4
    <3>2. b[j].id[2] = n /\ b[j].id[1] = b[j].kind /\ b[j].kind \notin K
      BY DEF Batch, Formed
    <3>3. L[i].id[1] = L[i].kind
      BY DEF Standing, Formed
    <3>4. L[i].kind \in K
      BY <3>1, <3>2 DEF Holds
    <3> QED
      BY <3>1, <3>2, <3>3, <3>4
  <2> SUFFICES ASSUME NEW i \in 1..Len(u), NEW j \in 1..Len(u), u[i].id = u[j].id PROVE i = j
    BY DEF NoIdTwice
  <2>4. CASE i \in 1..Len(L) /\ j \in 1..Len(L)
    BY <2>1, <2>4
  <2>5. CASE i \in 1..Len(L) /\ \E y \in 1..Len(b) : j = Len(L) + y
    BY <2>3, <2>5
  <2>6. CASE j \in 1..Len(L) /\ \E x \in 1..Len(b) : i = Len(L) + x
    BY <2>3, <2>6
  <2>7. CASE (\E x \in 1..Len(b) : i = Len(L) + x) /\ \E y \in 1..Len(b) : j = Len(L) + y
    BY <2>2, <2>7
  <2> QED
    BY <1>3, <2>4, <2>5, <2>6, <2>7
<1>6. ASSUME NEW k \in 1..Len(L)
      PROVE  Formed(u[k], n) /\ NamesTold(u, k) /\ Rests(u, k) /\ Heard(u, k)
  <2>1. k \in Nat /\ k # 0 /\ 0 + k = k /\ \A j \in 1..k : u[0 + j] = L[j]
    BY <1>2, <1>4
  <2>2. NamesTold(u, 0 + k) /\ Rests(u, 0 + k) /\ Heard(u, 0 + k)
    BY <2>1, SameBefore, Zenon DEF Standing
  <2>3. Formed(u[k], n)
    BY <1>4 DEF Standing
  <2> QED
    BY <2>1, <2>2, <2>3
<1>7. ASSUME NEW i \in 1..Len(b)
      PROVE  /\ Formed(u[Len(L) + i], n) /\ NamesTold(u, Len(L) + i)
             /\ Rests(u, Len(L) + i) /\ Heard(u, Len(L) + i)
  <2>1. i \in Nat /\ i # 0 /\ \A j \in 1..i : u[Len(L) + j] = b[j]
    BY <1>2, <1>4
  <2>2. Heard(u, Len(L) + i) /\ IdsBefore(b, i) \subseteq IdsBefore(u, Len(L) + i)
    <3>1. Heard(b, i)
      BY DEF Batch
    <3> QED
      BY <1>2, <2>1, <3>1, SameBefore, Zenon
  <2>3. IdsBefore(L, Len(L) + 1) \subseteq IdsBefore(u, Len(L) + i)
    BY <1>2, <1>4 DEF IdsBefore
  <2>4. u[Len(L) + i] = b[i]
    BY <1>4
  <2>5. /\ Formed(b[i], n) /\ b[i].id[2] = n
        /\ \A m \in b[i].names :
             \/ m \in IdsBefore(L, Len(L) + 1) \/ m \in IdsBefore(b, i)
             \/ m = <<"MASTER", n>> /\ b[i].kind \in Talk
        /\ b[i].kind \in {"CYCLE", "EXECUTION"} =>
             (\A m \in b[i].names : m[1] \in Quiet) \/ <<"MASTER", n>> \in IdsBefore(L, Len(L) + 1)
    BY DEF Batch
  <2>6. NamesTold(u, Len(L) + i)
    BY ONLY <2>2, <2>3, <2>4, <2>5 DEF NamesTold
  <2>7. Rests(u, Len(L) + i)
    BY ONLY <2>2, <2>3, <2>4, <2>5 DEF Rests
  <2> QED
    BY <2>2, <2>4, <2>5, <2>6, <2>7
<1>8. \A k \in 1..Len(u) : Formed(u[k], n) /\ NamesTold(u, k) /\ Rests(u, k) /\ Heard(u, k)
  BY <1>3, <1>6, <1>7
<1> QED
  BY <1>2, <1>5, <1>8 DEF Standing

LEMMA FurtherStays ==
  ASSUME NEW G, NEW ids, ids \subseteq G,
         \A r \in ToSet(written) : r.id \in G => r.names \subseteq G
  PROVE  Further(ids) \subseteq G
  BY DEF Further

(* All that the last cycle or execution rests on has been journaled.       *)
LEMMA StandingGrounds ==
  ASSUME NEW n, Standing(written, n)
  PROVE  Grounded
<1> SUFFICES ASSUME written # << >>, Last(written).kind \in {"CYCLE", "EXECUTION"}
             PROVE  GroundsOf(Last(written)) \subseteq {r.id : r \in ToSet(Front(written))}
  BY DEF Grounded
<1>1. /\ Row(written) /\ Len(written) \in Nat /\ ToSet(written) = {written[i] : i \in 1..Len(written)}
      /\ DOMAIN written = 1..Len(written) /\ written = [i \in 1..Len(written) |-> written[i]]
  BY RowIs DEF Standing
<1>2. PICK k : k = Len(written)
  OBVIOUS
<1>3. k \in Nat \ {0} /\ Last(written) = written[k]
  <2>1. k # 0
    BY ONLY <1>1, <1>2, written # << >>
  <2> QED
    BY <1>1, <1>2, <2>1 DEF Last
<1>4. {r.id : r \in ToSet(Front(written))} = IdsBefore(written, k)
  <2>1. Front(written) = [i \in 1..(k - 1) |-> written[i]]
    BY <1>1, <1>2, <1>3 DEF Front
  <2>2. ToSet(Front(written)) = {written[i] : i \in 1..(k - 1)}
    BY ONLY <2>1 DEF ToSet
  <2> QED
    BY ONLY <2>2 DEF IdsBefore
<1>5. PICK q : q = written[k].id[2]
  OBVIOUS
<1>6. \A i \in 1..k : Formed(written[i], n) /\ NamesTold(written, i) /\ Rests(written, i)
  BY <1>2 DEF Standing
<1>7. \A i, j \in 1..k : written[i].id = written[j].id => i = j
  BY <1>2 DEF Standing, NoIdTwice
<1>8. k \in 1..k /\ \A i \in 1..(k - 1) : i \in 1..k /\ \A j \in 1..(i - 1) : j \in 1..(k - 1)
  BY <1>3
<1>9. \E G : /\ written[k].names \subseteq G /\ G \subseteq IdsBefore(written, k)
             /\ \A r \in ToSet(written) : r.id \in G => r.names \subseteq G
  <2>1. \A m \in written[k].names : m \in IdsBefore(written, k) /\ m[2] = q
    <3>1. written[k].kind \notin Talk
      BY <1>3 DEF Talk
    <3> QED
      BY <1>5, <1>6, <1>8, <3>1 DEF NamesTold, Formed
  <2>2. CASE <<"MASTER", q>> \in IdsBefore(written, k)
    <3>1. PICK G : G = {m \in IdsBefore(written, k) : m[2] = q}
      OBVIOUS
    <3>2. \A r \in ToSet(written) : r.id \in G => r.names \subseteq G
      <4> SUFFICES ASSUME NEW i \in 1..Len(written), written[i].id \in G,
                          NEW m \in written[i].names
                   PROVE  m \in G
        BY <1>1
      <4>1. PICK j \in 1..(k - 1) : written[j].id = written[i].id
        BY <3>1 DEF IdsBefore
      <4>2. i = j /\ written[i].id[2] = q
        BY <1>2, <1>7, <1>8, <3>1, <4>1
      <4>3. m[2] = q /\ (m \in IdsBefore(written, i) \/ m = <<"MASTER", q>>)
        BY <1>2, <1>6, <4>2 DEF NamesTold, Formed
      <4>4. IdsBefore(written, i) \subseteq IdsBefore(written, k)
        BY <1>8, <4>2 DEF IdsBefore
      <4> QED
        BY <2>2, <3>1, <4>3, <4>4
    <3> QED
      BY <2>1, <3>1, <3>2
  <2>3. CASE \A m \in written[k].names : m[1] \in Quiet
    <3>1. PICK G : G = {m \in IdsBefore(written, k) : m[2] = q /\ m[1] \in Quiet}
      OBVIOUS
    <3>2. \A r \in ToSet(written) : r.id \in G => r.names \subseteq G
      <4> SUFFICES ASSUME NEW i \in 1..Len(written), written[i].id \in G,
                          NEW m \in written[i].names
                   PROVE  m \in G
        BY <1>1
      <4>1. PICK j \in 1..(k - 1) : written[j].id = written[i].id
        BY <3>1 DEF IdsBefore
      <4>2. i = j /\ written[i].id[2] = q /\ written[i].id[1] \in Quiet
        BY <1>2, <1>7, <1>8, <3>1, <4>1
      <4>3. Formed(written[i], n) /\ NamesTold(written, i)
        BY <1>2, <1>6
      <4>4. written[i].kind \in Quiet /\ written[i].kind \notin Talk
        BY <4>2, <4>3 DEF Formed, Quiet, Talk
      <4>5. m[2] = q /\ m[1] \in Quiet /\ m \in IdsBefore(written, i)
        BY <4>2, <4>3, <4>4 DEF NamesTold, Formed
      <4>6. IdsBefore(written, i) \subseteq IdsBefore(written, k)
        BY <1>8, <4>2 DEF IdsBefore
      <4> QED
        BY <3>1, <4>5, <4>6
    <3> QED
      BY <2>1, <2>3, <3>1, <3>2
  <2> QED
    BY <1>3, <1>5, <1>6, <1>8, <2>2, <2>3 DEF Rests
<1>10. PICK G : /\ written[k].names \subseteq G /\ G \subseteq IdsBefore(written, k)
                /\ \A r \in ToSet(written) : r.id \in G => r.names \subseteq G
  BY <1>9
<1>11. PICK near, far, last :
         /\ near = Further(Further(written[k].names)) /\ far = Further(Further(near))
         /\ last = Further(Further(Further(far)))
  OBVIOUS
<1>12. near \subseteq G
  <2>1. Further(written[k].names) \subseteq G
    BY <1>10, FurtherStays
  <2> QED
    BY <1>10, <1>11, <2>1, FurtherStays
<1>13. far \subseteq G
  <2>1. Further(near) \subseteq G
    BY <1>10, <1>12, FurtherStays
  <2> QED
    BY <1>10, <1>11, <2>1, FurtherStays
<1>14. last \subseteq G
  <2>1. Further(far) \subseteq G
    BY <1>10, <1>13, FurtherStays
  <2>2. Further(Further(far)) \subseteq G
    BY <1>10, <2>1, FurtherStays
  <2> QED
    BY <1>10, <1>11, <2>2, FurtherStays
<1>15. GroundsOf(Last(written)) = last
  BY <1>3, <1>11 DEF GroundsOf
<1> QED
  BY <1>4, <1>10, <1>14, <1>15

(* Who speaks: two of the panel have two ranks.                            *)
LEMMA RankIs ==
  ASSUME NEW a \in ToSet(Panel)
  PROVE  Rank(a) \in Nat /\ Panel[Rank(a)] = a
<1>1. \E i \in DOMAIN Panel : Panel[i] = a
  BY DEF ToSet
<1>2. DOMAIN Panel \subseteq Nat
  <2>1. Panel \in Seq(ToSet(Panel))
    BY PanelAssumption
  <2> QED
    BY ONLY <2>1
<1>3. Rank(a) \in DOMAIN Panel /\ Panel[Rank(a)] = a
  BY <1>1 DEF Rank
<1> QED
  BY <1>2, <1>3

Few(A) == A \subseteq ToSet(Panel) /\ \A a, b \in A : a = b

LEMMA OneStrongest ==
  ASSUME NEW q \in 1..MaxPolls, NEW bundle \in Bundles(q), NEW agents,
         agents \subseteq DOMAIN bundle
  PROVE  Few(Strongest(bundle, agents))
<1>1. DOMAIN bundle \subseteq ToSet(Panel) /\ \A a \in DOMAIN bundle : bundle[a].strength \in Nat
  BY PanelAssumption
<1>2. Strongest(bundle, agents) \subseteq ToSet(Panel)
  BY <1>1 DEF Strongest
<1>3. ASSUME NEW a \in Strongest(bundle, agents), NEW b \in Strongest(bundle, agents), a # b
      PROVE  FALSE
  <2>1. Outranks(bundle, a, b) /\ Outranks(bundle, b, a)
    BY <1>3 DEF Strongest
  <2>2. Rank(a) \in Nat /\ Rank(b) \in Nat
    BY <1>2, RankIs
  <2>3. bundle[a].strength \in Nat /\ bundle[b].strength \in Nat
    BY <1>1 DEF Strongest
  <2> QED
    BY ONLY <2>1, <2>2, <2>3 DEF Outranks
<1> QED
  BY <1>2, <1>3 DEF Few

Rising(row, S) ==
  /\ row \in [1..Cardinality(S) -> S]
  /\ \A i, j \in DOMAIN row : i < j => Rank(row[i]) < Rank(row[j])

LEMMA RowInserted ==
  ASSUME NEW S, S \subseteq ToSet(Panel), IsFiniteSet(S), NEW row, Rising(row, S),
         NEW e \in ToSet(Panel), e \notin S
  PROVE  \E other : Rising(other, S \cup {e})
<1>1. PICK n : n = Cardinality(S)
  OBVIOUS
<1>2. n \in Nat /\ Cardinality(S \cup {e}) = n + 1
  BY <1>1, FS_CardinalityType, FS_AddElement
<1>3. row \in [1..n -> S] /\ \A i, j \in 1..n : i < j => Rank(row[i]) < Rank(row[j])
  BY <1>1 DEF Rising
<1>4. PICK p \in 1..(n + 1) : /\ \A i \in 1..n : i < p => Rank(row[i]) < Rank(e)
                              /\ \A i \in 1..n : p <= i => Rank(e) < Rank(row[i])
  <2>1. \A i \in 1..n : Rank(row[i]) \in Nat /\ Rank(e) \in Nat /\ Rank(row[i]) # Rank(e)
    <3> SUFFICES ASSUME NEW i \in 1..n
                 PROVE  Rank(row[i]) \in Nat /\ Rank(e) \in Nat /\ Rank(row[i]) # Rank(e)
      OBVIOUS
    <3>1. row[i] \in S /\ row[i] \in ToSet(Panel) /\ row[i] # e
      BY <1>3
    <3> QED
      BY <3>1, RankIs
  <2>2. CASE \A i \in 1..n : Rank(row[i]) < Rank(e)
    <3>1. n + 1 \in 1..(n + 1) /\ \A i \in 1..n : ~(n + 1 <= i)
      BY <1>2
    <3> QED
      BY <2>2, <3>1
  <2>3. CASE \E i \in 1..n : ~(Rank(row[i]) < Rank(e))
    <3>1. PICK T : T = {i \in 1..n : ~(Rank(row[i]) < Rank(e))}
      OBVIOUS
    <3>2. T \subseteq Nat /\ T # {}
      BY <1>2, <2>3, <3>1
    <3>3. PICK p \in T : \A y \in T : p <= y
      BY <3>2, LeastHit
    <3>4. p \in 1..n /\ p \in 1..(n + 1) /\ Rank(e) < Rank(row[p])
      BY <1>2, <2>1, <3>1, <3>3
    <3>5. \A i \in 1..n : i < p => Rank(row[i]) < Rank(e)
      <4> SUFFICES ASSUME NEW i \in 1..n, i < p, ~(Rank(row[i]) < Rank(e)) PROVE FALSE
        OBVIOUS
      <4>1. p <= i
        BY <3>1, <3>3
      <4> QED
        BY <1>2, <3>4, <4>1
    <3>6. \A i \in 1..n : p <= i => Rank(e) < Rank(row[i])
      <4> SUFFICES ASSUME NEW i \in 1..n, p <= i PROVE Rank(e) < Rank(row[i])
        OBVIOUS
      <4>1. i = p \/ Rank(row[p]) < Rank(row[i])
        BY <1>2, <1>3, <3>4
      <4> QED
        BY <2>1, <3>4, <4>1
    <3> QED
      BY <3>4, <3>5, <3>6
  <2> QED
    BY <2>2, <2>3
<1>5. PICK other : other = [i \in 1..(n + 1) |-> IF i < p THEN row[i] ELSE IF i = p THEN e ELSE row[i - 1]]
  OBVIOUS
<1>6. \A i \in 1..(n + 1) : \/ i < p /\ i \in 1..n /\ other[i] = row[i]
                            \/ i = p /\ other[i] = e
                            \/ p < i /\ i - 1 \in 1..n /\ p <= i - 1 /\ other[i] = row[i - 1]
  BY <1>2, <1>5
<1>7. other \in [1..(n + 1) -> S \cup {e}]
  BY <1>3, <1>5, <1>6
<1>8. ASSUME NEW i \in 1..(n + 1), NEW j \in 1..(n + 1), i < j
      PROVE  Rank(other[i]) < Rank(other[j])
  <2>1. \A k \in 1..n : Rank(row[k]) \in Nat
    BY <1>3, RankIs
  <2>2. Rank(e) \in Nat
    BY RankIs
  <2>3. CASE i < p /\ j < p
    <3>1. i \in 1..n /\ j \in 1..n /\ other[i] = row[i] /\ other[j] = row[j]
      BY <1>2, <1>6, <2>3
    <3> QED
      BY <1>3, <1>8, <3>1
  <2>4. CASE i < p /\ j = p
    <3>1. i \in 1..n /\ other[i] = row[i] /\ other[j] = e
      BY <1>2, <1>6, <2>4
    <3> QED
      BY <1>4, <2>4, <3>1
  <2>5. CASE i < p /\ p < j
    <3>1. i \in 1..n /\ other[i] = row[i] /\ other[j] = row[j - 1] /\ j - 1 \in 1..n /\ i < j - 1
      BY <1>2, <1>6, <2>5
    <3> QED
      BY <1>3, <3>1
  <2>6. CASE i = p /\ p < j
    <3>1. other[i] = e /\ other[j] = row[j - 1] /\ j - 1 \in 1..n /\ p <= j - 1
      BY <1>2, <1>6, <2>6
    <3> QED
      BY <1>4, <3>1
  <2>7. CASE p < i /\ p < j
    <3>1. /\ other[i] = row[i - 1] /\ other[j] = row[j - 1] /\ i - 1 \in 1..n /\ j - 1 \in 1..n
          /\ i - 1 < j - 1
      BY <1>2, <1>6, <1>8, <2>7
    <3> QED
      BY <1>3, <3>1
  <2> QED
    BY <1>2, <1>8, <2>3, <2>4, <2>5, <2>6, <2>7
<1>9. Rising(other, S \cup {e})
  BY <1>2, <1>7, <1>8 DEF Rising
<1> QED
  BY <1>9

Lined(S) == S \subseteq ToSet(Panel) /\ IsFiniteSet(S) /\ \E row : Rising(row, S)

LEMMA LinedWith ==
  ASSUME NEW S, Lined(S), NEW A, Few(A)
  PROVE  Lined(S \cup A) /\ Cardinality(S \cup A) <= Cardinality(S) + 1
<1>1. Cardinality(S) \in Nat
  BY FS_CardinalityType DEF Lined
<1>2. CASE A \subseteq S
  <2>1. S \cup A = S
    BY <1>2
  <2> QED
    BY <1>1, <2>1
<1>3. CASE ~(A \subseteq S)
  <2>1. PICK e : e \in A /\ e \notin S
    BY <1>3
  <2>2. S \cup A = S \cup {e} /\ e \in ToSet(Panel)
    BY <2>1 DEF Few
  <2>3. Cardinality(S \cup {e}) = Cardinality(S) + 1 /\ IsFiniteSet(S \cup {e})
    BY <2>1, FS_AddElement DEF Lined
  <2>4. \E other : Rising(other, S \cup {e})
    BY <2>1, <2>2, RowInserted DEF Lined
  <2> QED
    BY <1>1, <2>2, <2>3, <2>4 DEF Lined
<1> QED
  BY <1>2, <1>3

(* The participants are the selected, each of them once, and three at most.*)
LEMMA ParticipantsAre ==
  ASSUME NEW q \in 1..MaxPolls, NEW bundle \in Bundles(q)
  PROVE  LET row == Participants(bundle) n == Cardinality(Selected(bundle))
         IN /\ n \in Nat /\ n <= 3 /\ Len(row) = n
            /\ row \in [1..n -> Selected(bundle)]
            /\ \A i, j \in 1..n : row[i] = row[j] => i = j
            /\ \A a \in Selected(bundle) : \E i \in 1..n : row[i] = a
<1>1. PICK up, down, pair, rest, S :
        /\ up = Voices(bundle, "BULLISH") /\ down = Voices(bundle, "BEARISH")
        /\ pair = Strongest(bundle, up) \cup Strongest(bundle, down)
        /\ rest = Strongest(bundle, (up \cup down) \ pair) /\ S = Selected(bundle)
  OBVIOUS
<1>2. Few(Strongest(bundle, up)) /\ Few(Strongest(bundle, down)) /\ Few(rest)
  <2>1. up \subseteq DOMAIN bundle /\ down \subseteq DOMAIN bundle
        /\ (up \cup down) \ pair \subseteq DOMAIN bundle
    BY <1>1 DEF Voices
  <2> QED
    BY <1>1, <2>1, OneStrongest
<1>3. S = (({} \cup Strongest(bundle, up)) \cup Strongest(bundle, down)) \cup rest
  BY <1>1 DEF Selected
<1>4. Lined({}) /\ Cardinality({}) = 0
  <2>1. Rising(<< >>, {})
    BY FS_EmptySet DEF Rising
  <2> QED
    BY <2>1, FS_EmptySet DEF Lined
<1>5. Lined({} \cup Strongest(bundle, up)) /\ Cardinality({} \cup Strongest(bundle, up)) <= 1
  BY <1>2, <1>4, LinedWith
<1>6. PICK A, B : /\ A = {} \cup Strongest(bundle, up)
                  /\ B = A \cup Strongest(bundle, down)
  OBVIOUS
<1>7. Lined(A) /\ Cardinality(A) <= 1
  BY <1>5, <1>6
<1>8. Lined(B) /\ Cardinality(B) <= Cardinality(A) + 1
  BY <1>2, <1>6, <1>7, LinedWith
<1>9. Lined(S) /\ Cardinality(S) <= Cardinality(B) + 1
  <2>1. S = B \cup rest
    BY <1>3, <1>6
  <2> QED
    BY <1>2, <1>8, <2>1, LinedWith
<1>10. PICK n : n = Cardinality(S)
  OBVIOUS
<1>11. n \in Nat /\ n <= 3
  <2>1. Cardinality(A) \in Nat /\ Cardinality(B) \in Nat /\ n \in Nat
    BY <1>7, <1>8, <1>9, <1>10, FS_CardinalityType DEF Lined
  <2> QED
    BY <1>7, <1>8, <1>9, <1>10, <2>1
<1>12. PICK row : row = Participants(bundle)
  OBVIOUS
<1>13. Rising(row, S)
  <2>1. \E other \in [1..Cardinality(S) -> S] :
          \A i, j \in DOMAIN other : i < j => Rank(other[i]) < Rank(other[j])
    BY <1>9 DEF Lined, Rising
  <2>2. row = CHOOSE other \in [1..Cardinality(S) -> S] :
                \A i, j \in DOMAIN other : i < j => Rank(other[i]) < Rank(other[j])
    BY ONLY <1>1, <1>12, Zenon DEF Participants
  <2> QED
    BY ONLY <2>1, <2>2 DEF Rising
<1>14. row \in [1..n -> S] /\ \A i, j \in 1..n : i < j => Rank(row[i]) < Rank(row[j])
  BY <1>10, <1>13 DEF Rising
<1>15. ASSUME NEW i \in 1..n, NEW j \in 1..n, row[i] = row[j] PROVE i = j
  <2>1. Rank(row[i]) \in Nat
    BY <1>9, <1>14, RankIs DEF Lined
  <2> QED
    BY <1>11, <1>14, <1>15, <2>1
<1>16. \A a \in S : \E i \in 1..n : row[i] = a
  <2>1. row \in Injection(1..n, S)
    BY <1>14, <1>15 DEF Injection, IsInjective
  <2>2. Cardinality(1..n) = n
    BY <1>11, FS_Interval
  <2>3. row \in Surjection(1..n, S)
    BY <1>9, <1>10, <2>1, <2>2, FS_Injection DEF Lined
  <2> QED
    BY ONLY <2>3 DEF Surjection
<1>17. Len(row) = n
  BY ONLY <1>11, <1>14
<1> QED
  BY <1>1, <1>10, <1>11, <1>12, <1>14, <1>15, <1>16, <1>17

LEMMA Halves ==
  ASSUME NEW n \in Nat
  PROVE  /\ \A i \in 1..(2 * n) : i % 2 = 0 => (i + 1) \div 2 \in 1..n /\ i = 2 * ((i + 1) \div 2)
         /\ \A j \in 1..n : 2 * j \in 1..(2 * n) /\ (2 * j) % 2 = 0 /\ (2 * j + 1) \div 2 = j
  OBVIOUS

LEMMA SaysIs ==
  ASSUME NEW bundle, NEW i
  PROVE  /\ SaysOf(bundle, i).of = Participants(bundle)[(i + 1) \div 2]
         /\ i % 2 = 0 => SaysOf(bundle, i).rebuts = TRUE
         /\ SaysOf(bundle, i).rebuts => i % 2 = 0
  BY DEF SaysOf

(* Who is heard in a round that was completed: all that were selected.     *)
LEMMA StandingHeard ==
  ASSUME NEW n \in Nat, n <= MaxPolls, Standing(written, n)
  PROVE  BothHeard
<1> SUFFICES ASSUME written # << >>, Last(written).kind = "RESOLUTION", Last(written).says = "COMPLETED"
             PROVE  BothHeard
  BY DEF BothHeard
<1>1. /\ Row(written) /\ Len(written) \in Nat /\ ToSet(written) = {written[i] : i \in 1..Len(written)}
      /\ DOMAIN written = 1..Len(written) /\ written = [i \in 1..Len(written) |-> written[i]]
  BY RowIs DEF Standing
<1>2. PICK k, r, q : k = Len(written) /\ r = written[k] /\ q = r.id[2]
  OBVIOUS
<1>3. k \in Nat \ {0} /\ Last(written) = r
  <2>1. k # 0
    BY ONLY <1>1, <1>2, written # << >>
  <2> QED
    BY <1>1, <1>2, <2>1 DEF Last
<1>4. q \in 1..MaxPolls
  <2>1. Formed(written[k], n)
    BY <1>2, <1>3 DEF Standing
  <2> QED
    BY <1>2, <2>1, FunnelAssumption DEF Formed
<1>5. PICK bundle \in Bundles(q) : Debated(written, k, bundle)
  <2>1. Heard(written, k)
    BY <1>2, <1>3 DEF Standing
  <2> QED
    BY <1>2, <1>3, <2>1 DEF Heard
<1>6. PICK row, c : row = Participants(bundle) /\ c = Cardinality(Selected(bundle))
  OBVIOUS
<1>7. /\ c \in Nat /\ c <= 3 /\ Len(row) = c /\ row \in [1..c -> Selected(bundle)]
      /\ \A i, j \in 1..c : row[i] = row[j] => i = j
      /\ \A a \in Selected(bundle) : \E i \in 1..c : row[i] = a
  BY <1>4, <1>6, ParticipantsAre
<1>8. \A i, j \in 1..k : written[i].id = written[j].id => i = j
  BY <1>2 DEF Standing, NoIdTwice
<1>9. \A i \in 1..k : written[i].id[1] = written[i].kind
  BY <1>2 DEF Standing, Formed
<1>10. r.names = {<<"ROUND", q>>, <<"ASSESSMENT", q>>, <<"MASTER", q>>}
                  \cup {<<"TURN", q, i>> : i \in 1..(2 * c)}
  BY <1>2, <1>5, <1>6, <1>7 DEF Debated, TurnsOf
<1>11. \E a \in OfKind("ASSESSMENT") : a.id \in r.names
  <2>1. PICK j \in 1..(k - 1) : written[j].id = <<"ASSESSMENT", q>> /\ written[j].says = bundle
    BY <1>2, <1>5 DEF Debated
  <2>2. j \in 1..k /\ written[j].kind = "ASSESSMENT"
    BY <1>3, <1>9, <2>1
  <2>3. written[j] \in OfKind("ASSESSMENT")
    BY <1>1, <1>2, <2>2 DEF OfKind
  <2>4. written[j].id \in r.names
    BY <1>10, <2>1
  <2> QED
    BY ONLY <2>3, <2>4
<1>12. \A a \in OfKind("ASSESSMENT") : a.id \in r.names => a.says = bundle
  <2>1. PICK j \in 1..(k - 1) : written[j].id = <<"ASSESSMENT", q>> /\ written[j].says = bundle
    BY <1>2, <1>5 DEF Debated
  <2> SUFFICES ASSUME NEW i \in 1..k, written[i].kind = "ASSESSMENT", written[i].id \in r.names
               PROVE  written[i].says = bundle
    BY <1>1, <1>2 DEF OfKind
  <2>2. written[i].id[1] = "ASSESSMENT"
    BY <1>9
  <2>3. written[i].id = <<"ASSESSMENT", q>>
    BY <1>10, <2>2
  <2>4. i = j
    BY <1>3, <1>8, <2>1, <2>3
  <2> QED
    BY <2>1, <2>4
<1>13. PICK answers, speakers :
         /\ answers = {t \in OfKind("TURN") : t.id \in r.names /\ t.says.rebuts}
         /\ speakers = {t.says.of : t \in answers}
  OBVIOUS
<1>14. \A i \in 1..(2 * c) : \E t \in ToSet(written) : t.id = <<"TURN", q, i>> /\ t.says = SaysOf(bundle, i)
  <2> SUFFICES ASSUME NEW i \in 1..(2 * c)
               PROVE  \E t \in ToSet(written) : t.id = <<"TURN", q, i>> /\ t.says = SaysOf(bundle, i)
    OBVIOUS
  <2>1. PICK j \in 1..(k - 1) : written[j].id = <<"TURN", q, i>> /\ written[j].says = SaysOf(bundle, i)
    BY <1>2, <1>5, <1>6, <1>7 DEF Debated
  <2>2. j \in 1..Len(written)
    BY <1>2, <1>3
  <2> QED
    BY <1>1, <2>1, <2>2
<1>15. PICK f : f = [j \in 1..c |-> CHOOSE t \in ToSet(written) :
                       t.id = <<"TURN", q, 2 * j>> /\ t.says = SaysOf(bundle, 2 * j)]
  OBVIOUS
<1>16. \A j \in 1..c : /\ f[j] \in ToSet(written) /\ f[j].id = <<"TURN", q, 2 * j>>
                       /\ f[j].says = SaysOf(bundle, 2 * j)
  <2> SUFFICES ASSUME NEW j \in 1..c
               PROVE  /\ f[j] \in ToSet(written) /\ f[j].id = <<"TURN", q, 2 * j>>
                      /\ f[j].says = SaysOf(bundle, 2 * j)
    OBVIOUS
  <2>1. 2 * j \in 1..(2 * c)
    BY <1>7
  <2>2. \E t \in ToSet(written) : t.id = <<"TURN", q, 2 * j>> /\ t.says = SaysOf(bundle, 2 * j)
    BY <1>14, <2>1
  <2> QED
    BY <1>15, <2>2
<1>17. \A j \in 1..c : f[j].says.of = row[j] /\ f[j].says.rebuts = TRUE
  <2> SUFFICES ASSUME NEW j \in 1..c PROVE f[j].says.of = row[j] /\ f[j].says.rebuts = TRUE
    OBVIOUS
  <2>1. (2 * j) % 2 = 0 /\ (2 * j + 1) \div 2 = j
    BY <1>7, Halves
  <2>2. /\ SaysOf(bundle, 2 * j).of = Participants(bundle)[(2 * j + 1) \div 2]
        /\ SaysOf(bundle, 2 * j).rebuts = TRUE
    BY <2>1, SaysIs
  <2>3. f[j].says = SaysOf(bundle, 2 * j)
    BY <1>16
  <2> QED
    BY ONLY <1>6, <2>1, <2>2, <2>3
<1>18. answers = {f[j] : j \in 1..c}
  <2>1. \A j \in 1..c : f[j] \in answers
    <3> SUFFICES ASSUME NEW j \in 1..c PROVE f[j] \in answers
      OBVIOUS
    <3>1. 2 * j \in 1..(2 * c)
      BY <1>7
    <3>2. f[j].id[1] = "TURN" /\ f[j].id \in r.names
      <4>1. PICK i : i = 2 * j
        OBVIOUS
      <4>2. f[j].id = <<"TURN", q, i>> /\ i \in 1..(2 * c)
        BY <1>16, <3>1, <4>1
      <4> QED
        BY ONLY <1>10, <4>2
    <3>3. f[j].kind = "TURN"
      BY <1>1, <1>2, <1>9, <1>16, <3>2
    <3> QED
      BY <1>13, <1>16, <1>17, <3>2, <3>3 DEF OfKind
  <2>2. ASSUME NEW t \in answers PROVE \E j \in 1..c : t = f[j]
    <3>1. t \in ToSet(written) /\ t.kind = "TURN" /\ t.id \in r.names /\ t.says.rebuts
      BY <1>13 DEF OfKind
    <3>2. t.id[1] = "TURN"
      BY <1>1, <1>2, <1>9, <3>1
    <3>3. PICK i \in 1..(2 * c) : t.id = <<"TURN", q, i>>
      BY <1>10, <3>1, <3>2
    <3>4. PICK s \in ToSet(written) : s.id = <<"TURN", q, i>> /\ s.says = SaysOf(bundle, i)
      BY <1>14
    <3>5. s = t
      <4>1. PICK a, b : a \in 1..k /\ b \in 1..k /\ s = written[a] /\ t = written[b]
        BY <1>1, <1>2, <3>1
      <4> QED
        BY ONLY <1>8, <3>3, <3>4, <4>1
    <3>6. i % 2 = 0
      <4>1. SaysOf(bundle, i).rebuts
        BY ONLY <3>1, <3>4, <3>5
      <4> QED
        BY <4>1, SaysIs
    <3>7. PICK j \in 1..c : i = 2 * j
      BY <1>7, <3>6, Halves
    <3>8. f[j].id = t.id /\ f[j] \in ToSet(written)
      BY <1>16, <3>3, <3>7
    <3>9. f[j] = t
      <4>1. PICK a, b : a \in 1..k /\ b \in 1..k /\ f[j] = written[a] /\ t = written[b]
        BY <1>1, <1>2, <3>1, <3>8
      <4> QED
        BY ONLY <1>8, <3>8, <4>1
    <3> QED
      BY <3>9
  <2> QED
    BY <2>1, <2>2
<1>19. \A i, j \in 1..c : f[i] = f[j] => i = j
  BY <1>7, <1>17
<1>20. speakers = Selected(bundle)
  <2>1. speakers = {f[j].says.of : j \in 1..c}
    BY ONLY <1>13, <1>18
  <2>2. \A a \in speakers : a \in Selected(bundle)
    BY <1>7, <1>17, <2>1
  <2>3. \A a \in Selected(bundle) : a \in speakers
    BY <1>7, <1>17, <2>1
  <2> QED
    BY <2>2, <2>3
<1>21. Cardinality(answers) = c /\ Cardinality(speakers) = c /\ Cardinality(speakers) <= 3
  <2>1. IsFiniteSet(1..c) /\ Cardinality(1..c) = c
    BY <1>7, FS_Interval
  <2>2. f \in Bijection(1..c, answers)
    <3>1. f \in [1..c -> answers]
      BY <1>15, <1>18
    <3>2. f \in Injection(1..c, answers)
      BY <1>19, <3>1 DEF Injection, IsInjective
    <3>3. f \in Surjection(1..c, answers)
      BY <1>18, <3>1 DEF Surjection
    <3> QED
      BY <3>2, <3>3 DEF Bijection
  <2>3. Cardinality(answers) = c
    BY <2>1, <2>2, FS_Bijection DEF ExistsBijection
  <2> QED
    BY <1>6, <1>7, <1>20, <2>3
<1>22. \A side \in {"BULLISH", "BEARISH"} : Strongest(bundle, Voices(bundle, side)) \subseteq speakers
  BY <1>20 DEF Selected
<1>23. (CHOOSE a \in OfKind("ASSESSMENT") : a.id \in r.names).says = bundle
  BY <1>11, <1>12
<1> QED
  BY <1>3, <1>13, <1>21, <1>22, <1>23 DEF BothHeard

Ids(L) == IdsBefore(L, Len(L) + 1)

(* A record of the poll in hand that may follow a line, and what is before *)
(* it in its batch.                                                        *)
Fits(L, r, before, n, K) ==
  /\ Formed(r, n) /\ r.id[2] = n /\ r.kind \notin K /\ r.kind # "RESOLUTION"
  /\ \A m \in r.names : m \in Ids(L) \/ m \in before \/ (m = <<"MASTER", n>> /\ r.kind \in Talk)
  /\ r.kind \in {"CYCLE", "EXECUTION"} =>
       (\A m \in r.names : m[1] \in Quiet) \/ <<"MASTER", n>> \in Ids(L)

LEMMA FitsAll ==
  ASSUME NEW L, NEW b, NEW n, NEW K, Row(b), NoIdTwice(b),
         \A i \in 1..Len(b) : Fits(L, b[i], IdsBefore(b, i), n, K)
  PROVE  Batch(L, b, n, K)
<1> SUFFICES ASSUME NEW i \in 1..Len(b)
             PROVE  /\ Formed(b[i], n) /\ b[i].id[2] = n /\ b[i].kind \notin K /\ Heard(b, i)
                    /\ \A m \in b[i].names :
                         \/ m \in IdsBefore(L, Len(L) + 1) \/ m \in IdsBefore(b, i)
                         \/ m = <<"MASTER", n>> /\ b[i].kind \in Talk
                    /\ b[i].kind \in {"CYCLE", "EXECUTION"} =>
                         (\A m \in b[i].names : m[1] \in Quiet) \/ <<"MASTER", n>> \in IdsBefore(L, Len(L) + 1)
  BY DEF Batch
<1>1. Fits(L, b[i], IdsBefore(b, i), n, K)
  OBVIOUS
<1>2. Heard(b, i)
  BY <1>1 DEF Fits, Heard
<1> QED
  BY <1>1, <1>2 DEF Fits, Ids

LEMMA RecordIs ==
  ASSUME NEW kind, NEW names, NEW says, NEW r, r = Record(kind, names, says)
  PROVE  /\ r.id = <<kind, polls>> /\ r.kind = kind /\ r.at = bar /\ r.says = says
         /\ r.names = {<<k, polls>> : k \in names}
  BY DEF Record, Id

(* What a record of a kind may name, after a line.                         *)
Follows(L, kind, names, before, n, K) ==
  /\ kind \notin K /\ kind # "RESOLUTION"
  /\ kind \in Quiet => names \subseteq Quiet
  /\ \A k \in names : <<k, n>> \in Ids(L) \/ <<k, n>> \in before \/ (k = "MASTER" /\ kind \in Talk)
  /\ kind \in {"CYCLE", "EXECUTION"} => names \subseteq Quiet \/ <<"MASTER", n>> \in Ids(L)

LEMMA RecordFits ==
  ASSUME NEW kind, NEW names, NEW says, NEW r, r = Record(kind, names, says),
         polls \in Nat \ {0}, NEW L, NEW before, NEW K, Follows(L, kind, names, before, polls, K)
  PROVE  Fits(L, r, before, polls, K) /\ r.id[1] = kind
<1> USE DEF Follows
<1>1. /\ r.id = <<kind, polls>> /\ r.kind = kind /\ r.names = {<<k, polls>> : k \in names}
  BY RecordIs
<1>2. r.id[1] = kind /\ r.id[2] = polls
  BY ONLY <1>1
<1>3. \A m \in r.names : \E k \in names : m = <<k, polls>> /\ m[1] = k /\ m[2] = polls
  BY ONLY <1>1
<1>4. Formed(r, polls)
  BY <1>1, <1>2, <1>3 DEF Formed
<1>5. \A m \in r.names : m \in Ids(L) \/ m \in before \/ (m = <<"MASTER", polls>> /\ r.kind \in Talk)
  BY <1>1, <1>3
<1>6. r.kind \in {"CYCLE", "EXECUTION"} =>
        (\A m \in r.names : m[1] \in Quiet) \/ <<"MASTER", polls>> \in Ids(L)
  BY <1>1, <1>3
<1> QED
  BY <1>1, <1>2, <1>4, <1>5, <1>6 DEF Fits

(* Small batches, whose records are of different kinds.                    *)
LEMMA OneFits ==
  ASSUME NEW L, NEW n, NEW K, NEW x, Fits(L, x, {}, n, K), NEW b, b = <<x>>
  PROVE  Batch(L, b, n, K) /\ ToSet(b) = {x} /\ Len(b) = 1
<1>1. Row(b) /\ Len(b) = 1 /\ b[1] = x /\ ToSet(b) = {x}
  BY RowOne
<1>2. NoIdTwice(b)
  BY <1>1 DEF NoIdTwice
<1>3. Fits(L, b[1], IdsBefore(b, 1), n, K)
  BY <1>1 DEF Fits
<1>4. \A i \in 1..Len(b) : i = 1
  BY <1>1
<1> QED
  BY <1>1, <1>2, <1>3, <1>4, FitsAll

LEMMA RowTwo ==
  ASSUME NEW x, NEW y, NEW b, b = <<x, y>>
  PROVE  Row(b) /\ Len(b) = 2 /\ b[1] = x /\ b[2] = y /\ ToSet(b) = {x, y}
<1>1. b = [i \in 1..2 |-> b[i]] /\ b[1] = x /\ b[2] = y
  OBVIOUS
<1>2. Row(b) /\ Len(b) = 2
  BY <1>1, RowOf
<1>3. 1..2 = {1, 2}
  OBVIOUS
<1>4. ToSet(b) = {b[i] : i \in 1..2}
  BY ONLY <1>2, RowIs
<1>5. ToSet(b) = {b[1], b[2]}
  BY ONLY <1>3, <1>4
<1> QED
  BY ONLY <1>1, <1>2, <1>5

LEMMA RowThree ==
  ASSUME NEW x, NEW y, NEW z, NEW b, b = <<x, y, z>>
  PROVE  Row(b) /\ Len(b) = 3 /\ b[1] = x /\ b[2] = y /\ b[3] = z /\ ToSet(b) = {x, y, z}
<1>1. b = [i \in 1..3 |-> b[i]] /\ b[1] = x /\ b[2] = y /\ b[3] = z
  OBVIOUS
<1>2. Row(b) /\ Len(b) = 3
  BY <1>1, RowOf
<1>3. 1..3 = {1, 2, 3}
  OBVIOUS
<1> QED
  BY ONLY <1>1, <1>2, <1>3, RowIs

LEMMA RowFour ==
  ASSUME NEW x, NEW y, NEW z, NEW t, NEW b, b = <<x, y, z, t>>
  PROVE  Row(b) /\ Len(b) = 4 /\ b[1] = x /\ b[2] = y /\ b[3] = z /\ b[4] = t /\ ToSet(b) = {x, y, z, t}
<1>1. b = [i \in 1..4 |-> b[i]] /\ b[1] = x /\ b[2] = y /\ b[3] = z /\ b[4] = t
  OBVIOUS
<1>2. Row(b) /\ Len(b) = 4
  BY <1>1, RowOf
<1>3. \A i \in 1..4 : i = 1 \/ i = 2 \/ i = 3 \/ i = 4
  OBVIOUS
<1>4. ToSet(b) = {b[i] : i \in 1..4}
  BY ONLY <1>2, RowIs
<1>5. \A e \in ToSet(b) : e \in {x, y, z, t}
  BY ONLY <1>1, <1>3, <1>4
<1>6. x \in ToSet(b) /\ y \in ToSet(b) /\ z \in ToSet(b) /\ t \in ToSet(b)
  BY ONLY <1>1, <1>4
<1> QED
  BY ONLY <1>1, <1>2, <1>5, <1>6

LEMMA TwoFit ==
  ASSUME NEW L, NEW n, NEW K, NEW x, NEW y, NEW b, b = <<x, y>>,
         Fits(L, x, {}, n, K), Fits(L, y, {x.id}, n, K), x.id[1] # y.id[1]
  PROVE  Batch(L, b, n, K)
<1>1. Row(b) /\ Len(b) = 2 /\ b[1] = x /\ b[2] = y
  BY RowTwo
<1>2. \A i \in 1..2 : i = 1 \/ i = 2
  OBVIOUS
<1>3. NoIdTwice(b)
  BY <1>1, <1>2 DEF NoIdTwice
<1>4. Fits(L, b[1], IdsBefore(b, 1), n, K)
  BY <1>1 DEF Fits
<1>5. Fits(L, b[2], IdsBefore(b, 2), n, K)
  <2>1. x.id \in IdsBefore(b, 2)
    BY <1>1 DEF IdsBefore
  <2> QED
    BY <1>1, <2>1 DEF Fits
<1> QED
  BY <1>1, <1>2, <1>3, <1>4, <1>5, FitsAll

LEMMA ThreeFit ==
  ASSUME NEW L, NEW n, NEW K, NEW x, NEW y, NEW z, NEW b, b = <<x, y, z>>,
         Fits(L, x, {}, n, K), Fits(L, y, {x.id}, n, K), Fits(L, z, {x.id, y.id}, n, K),
         x.id[1] # y.id[1], x.id[1] # z.id[1], y.id[1] # z.id[1]
  PROVE  Batch(L, b, n, K)
<1>1. Row(b) /\ Len(b) = 3 /\ b[1] = x /\ b[2] = y /\ b[3] = z
  BY RowThree
<1>2. \A i \in 1..3 : i = 1 \/ i = 2 \/ i = 3
  OBVIOUS
<1>3. NoIdTwice(b)
  BY <1>1, <1>2 DEF NoIdTwice
<1>4. Fits(L, b[1], IdsBefore(b, 1), n, K)
  BY <1>1 DEF Fits
<1>5. Fits(L, b[2], IdsBefore(b, 2), n, K)
  <2>1. x.id \in IdsBefore(b, 2)
    BY <1>1 DEF IdsBefore
  <2> QED
    BY <1>1, <2>1 DEF Fits
<1>6. Fits(L, b[3], IdsBefore(b, 3), n, K)
  <2>1. 1 \in 1..(3 - 1) /\ 2 \in 1..(3 - 1)
    OBVIOUS
  <2>2. x.id \in IdsBefore(b, 3) /\ y.id \in IdsBefore(b, 3)
    BY <1>1, <2>1 DEF IdsBefore
  <2> QED
    BY <1>1, <2>2 DEF Fits
<1> QED
  BY <1>1, <1>2, <1>3, <1>4, <1>5, <1>6, FitsAll

LEMMA FourFit ==
  ASSUME NEW L, NEW n, NEW K, NEW x, NEW y, NEW z, NEW t, NEW b, b = <<x, y, z, t>>,
         Fits(L, x, {}, n, K), Fits(L, y, {x.id}, n, K), Fits(L, z, {x.id, y.id}, n, K),
         Fits(L, t, {x.id, y.id, z.id}, n, K),
         x.id[1] # y.id[1], x.id[1] # z.id[1], y.id[1] # z.id[1],
         x.id[1] # t.id[1], y.id[1] # t.id[1], z.id[1] # t.id[1]
  PROVE  Batch(L, b, n, K)
<1>1. Row(b) /\ Len(b) = 4 /\ b[1] = x /\ b[2] = y /\ b[3] = z /\ b[4] = t
  BY RowFour
<1>2. \A i \in 1..4 : i = 1 \/ i = 2 \/ i = 3 \/ i = 4
  OBVIOUS
<1>3. NoIdTwice(b)
  BY <1>1, <1>2 DEF NoIdTwice
<1>4. Fits(L, b[1], IdsBefore(b, 1), n, K)
  BY <1>1 DEF Fits
<1>5. Fits(L, b[2], IdsBefore(b, 2), n, K)
  <2>1. x.id \in IdsBefore(b, 2)
    BY <1>1 DEF IdsBefore
  <2> QED
    BY <1>1, <2>1 DEF Fits
<1>6. Fits(L, b[3], IdsBefore(b, 3), n, K)
  <2>1. 1 \in 1..(3 - 1) /\ 2 \in 1..(3 - 1)
    OBVIOUS
  <2>2. x.id \in IdsBefore(b, 3) /\ y.id \in IdsBefore(b, 3)
    BY <1>1, <2>1 DEF IdsBefore
  <2> QED
    BY <1>1, <2>2 DEF Fits
<1>7. Fits(L, b[4], IdsBefore(b, 4), n, K)
  <2>1. 1 \in 1..(4 - 1) /\ 2 \in 1..(4 - 1) /\ 3 \in 1..(4 - 1)
    OBVIOUS
  <2>2. x.id \in IdsBefore(b, 4) /\ y.id \in IdsBefore(b, 4) /\ z.id \in IdsBefore(b, 4)
    BY <1>1, <2>1 DEF IdsBefore
  <2> QED
    BY <1>1, <2>2 DEF Fits
<1> QED
  BY <1>1, <1>2, <1>3, <1>4, <1>5, <1>6, <1>7, FitsAll

(* The session of a discussion, part by part.                              *)
LEMMA TurnIs ==
  ASSUME NEW bundle, NEW i \in Nat, NEW r, r = Turn(bundle, i)
  PROVE  /\ r.id = <<"TURN", polls, i>> /\ r.kind = "TURN" /\ r.says = SaysOf(bundle, i)
         /\ r.id[1] = "TURN" /\ r.id[2] = polls /\ r.id[3] = i
         /\ <<"ROUND", polls>> \in r.names
         /\ \A m \in r.names : m = <<"ROUND", polls>> \/ (m = <<"TURN", polls, i - 1>> /\ i % 2 = 0)
         /\ \A m \in r.names : m[2] = polls
<1>1. r.id = <<"TURN", polls, i>> /\ r.kind = "TURN" /\ r.says = SaysOf(bundle, i)
  BY DEF Turn, TurnId, SaysOf
<1>2. r.names = {<<"ROUND", polls>>} \cup (IF i % 2 = 0 THEN {<<"TURN", polls, i - 1>>} ELSE {})
  BY DEF Turn, TurnId, Id
<1>3. \A m \in r.names : m = <<"ROUND", polls>> \/ (m = <<"TURN", polls, i - 1>> /\ i % 2 = 0)
  BY ONLY <1>2
<1>4. \A m \in r.names : m[2] = polls
  BY ONLY <1>3
<1>5. r.id[1] = "TURN" /\ r.id[2] = polls /\ r.id[3] = i
  BY ONLY <1>1
<1> QED
  BY ONLY <1>1, <1>2, <1>3, <1>4, <1>5

LEMMA ResolutionIs ==
  ASSUME NEW bundle, NEW turns, NEW r, r = ResolutionOf(bundle, turns)
  PROVE  /\ r.id = <<"RESOLUTION", polls>> /\ r.kind = "RESOLUTION"
         /\ r.id[1] = "RESOLUTION" /\ r.id[2] = polls
         /\ r.names = {<<"ROUND", polls>>, <<"ASSESSMENT", polls>>, <<"MASTER", polls>>}
                        \cup {<<"TURN", polls, i>> : i \in 1..turns}
         /\ \A m \in r.names : m[2] = polls
         /\ r.says = "COMPLETED" => turns = 2 * Len(Participants(bundle))
<1>1. /\ r.id = <<"RESOLUTION", polls>> /\ r.kind = "RESOLUTION"
      /\ r.names = {<<"ROUND", polls>>, <<"ASSESSMENT", polls>>, <<"MASTER", polls>>}
                     \cup {<<"TURN", polls, i>> : i \in 1..turns}
      /\ r.says = "COMPLETED" => turns = 2 * Len(Participants(bundle))
  BY DEF ResolutionOf, TurnId, Id
<1>2. \A m \in r.names : m[2] = polls
  BY ONLY <1>1
<1>3. r.id[1] = "RESOLUTION" /\ r.id[2] = polls
  BY ONLY <1>1
<1> QED
  BY ONLY <1>1, <1>2, <1>3

LEMMA TurnsCounted ==
  ASSUME NEW q \in 1..MaxPolls, NEW bundle \in Bundles(q), NEW turns \in TurnCounts(bundle)
  PROVE  turns \in Nat
<1>1. Len(Participants(bundle)) \in Nat
  BY ParticipantsAre
<1> QED
  BY <1>1 DEF TurnCounts

LEMMA SessionIs ==
  ASSUME NEW bundle, NEW turns \in Nat, NEW b, b = Discussion(bundle, turns), Required(bundle)
  PROVE  /\ Row(b) /\ Len(b) = turns + 4
         /\ b[1] = Assessment(bundle) /\ b[2] = Round(bundle)
         /\ \A i \in 1..turns : b[2 + i] = Turn(bundle, i)
         /\ b[turns + 3] = ResolutionOf(bundle, turns) /\ b[turns + 4] = Impact
<1>1. PICK s, t, w, st : /\ s = <<Assessment(bundle), Round(bundle)>>
                         /\ t = [i \in 1..turns |-> Turn(bundle, i)]
                         /\ w = <<ResolutionOf(bundle, turns), Impact>> /\ st = s \o t
  OBVIOUS
<1>2. b = st \o w
  BY <1>1 DEF Discussion
<1>3. Row(s) /\ Len(s) = 2 /\ s[1] = Assessment(bundle) /\ s[2] = Round(bundle)
  BY <1>1, RowTwo
<1>4. Row(w) /\ Len(w) = 2 /\ w[1] = ResolutionOf(bundle, turns) /\ w[2] = Impact
  BY <1>1, RowTwo
<1>5. Row(t) /\ Len(t) = turns
  <2>1. t = [i \in 1..turns |-> t[i]]
    BY ONLY <1>1
  <2> QED
    BY <2>1, RowOf
<1>6. Joint(st, s, t)
  BY <1>1, <1>3, <1>5, RowJoin DEF Joined
<1>7. Row(st) /\ Len(st) = turns + 2
  BY <1>3, <1>5, <1>6 DEF Joint
<1>8. Joint(b, st, w)
  BY <1>2, <1>4, <1>7, RowJoin DEF Joined
<1>9. Row(b) /\ Len(b) = turns + 4
  BY <1>4, <1>7, <1>8 DEF Joint
<1>10. b[1] = Assessment(bundle) /\ b[2] = Round(bundle)
  <2>1. 1 \in 1..Len(s) /\ 2 \in 1..Len(s) /\ 1 \in 1..Len(st) /\ 2 \in 1..Len(st)
    BY <1>3, <1>7
  <2> QED
    BY <1>3, <1>6, <1>8, <2>1 DEF Joint
<1>11. ASSUME NEW i \in 1..turns PROVE b[2 + i] = Turn(bundle, i)
  <2>1. i \in 1..Len(t) /\ 2 + i \in 1..Len(st) /\ Len(s) + i = 2 + i
    BY <1>3, <1>5, <1>7
  <2>2. st[2 + i] = t[i] /\ b[2 + i] = st[2 + i]
    BY <1>6, <1>8, <2>1 DEF Joint
  <2> QED
    BY <1>1, <2>2
<1>12. b[turns + 3] = ResolutionOf(bundle, turns) /\ b[turns + 4] = Impact
  <2>1. 1 \in 1..Len(w) /\ 2 \in 1..Len(w) /\ Len(st) + 1 = turns + 3 /\ Len(st) + 2 = turns + 4
    BY <1>4, <1>7
  <2> QED
    BY <1>4, <1>8, <2>1 DEF Joint
<1> QED
  BY <1>9, <1>10, <1>11, <1>12

LEMMA SessionFits ==
  ASSUME NEW L, polls \in 1..MaxPolls, MaxPolls \in Nat, <<"SCAN", polls>> \in Ids(L),
         NEW bundle \in Bundles(polls), NEW turns \in Nat,
         Len(Participants(bundle)) \in Nat, NEW b, b = Discussion(bundle, turns), Required(bundle)
  PROVE  /\ Batch(L, b, polls, Quiet) /\ \A r \in ToSet(b) : r.kind \in Talk
         /\ <<"RESOLUTION", polls>> \in Ids(b)
<1>1. /\ Row(b) /\ Len(b) = turns + 4
      /\ b[1] = Assessment(bundle) /\ b[2] = Round(bundle)
      /\ \A i \in 1..turns : b[2 + i] = Turn(bundle, i)
      /\ b[turns + 3] = ResolutionOf(bundle, turns) /\ b[turns + 4] = Impact
  BY SessionIs
<1>2. PICK x, y, z, t : x = Assessment(bundle) /\ y = Round(bundle)
                        /\ z = ResolutionOf(bundle, turns) /\ t = Impact
  OBVIOUS
<1>3. \A i \in 1..(turns + 4) : i = 1 \/ i = 2 \/ (\E j \in 1..turns : i = 2 + j)
                                \/ i = turns + 3 \/ i = turns + 4
  <2> SUFFICES ASSUME NEW i \in 1..(turns + 4), i # 1, i # 2, i # turns + 3, i # turns + 4
               PROVE  \E j \in 1..turns : i = 2 + j
    OBVIOUS
  <2>1. i - 2 \in 1..turns /\ i = 2 + (i - 2)
    OBVIOUS
  <2> QED
    BY <2>1
<1>4. /\ x.id = <<"ASSESSMENT", polls>> /\ x.kind = "ASSESSMENT" /\ x.says = bundle
      /\ x.names = {<<"SCAN", polls>>, <<"MASTER", polls>>}
  <2>1. x.names = {<<k, polls>> : k \in {"SCAN", "MASTER"}}
    BY <1>2, RecordIs DEF Assessment
  <2> QED
    BY <1>2, <2>1, RecordIs DEF Assessment
<1>5. /\ y.id = <<"ROUND", polls>> /\ y.kind = "ROUND"
      /\ y.names = {<<"ASSESSMENT", polls>>, <<"SCAN", polls>>}
  <2>1. y.names = {<<k, polls>> : k \in {"ASSESSMENT", "SCAN"}}
    BY <1>2, RecordIs DEF Round
  <2> QED
    BY <1>2, <2>1, RecordIs DEF Round
<1>6. /\ t.id = <<"IMPACT", polls>> /\ t.kind = "IMPACT"
      /\ t.names = {<<"ROUND", polls>>, <<"RESOLUTION", polls>>, <<"MASTER", polls>>}
  <2>1. t.names = {<<k, polls>> : k \in {"ROUND", "RESOLUTION", "MASTER"}}
    BY <1>2, RecordIs DEF Impact
  <2> QED
    BY <1>2, <2>1, RecordIs DEF Impact
<1>7. polls \in Nat \ {0}
  OBVIOUS
<1>8. /\ z.id = <<"RESOLUTION", polls>> /\ z.kind = "RESOLUTION"
      /\ z.names = {<<"ROUND", polls>>, <<"ASSESSMENT", polls>>, <<"MASTER", polls>>}
                     \cup {<<"TURN", polls, i>> : i \in 1..turns}
      /\ \A m \in z.names : m[2] = polls
      /\ z.says = "COMPLETED" => turns = 2 * Len(Participants(bundle))
  BY <1>2, ResolutionIs
<1>9. x.id[1] = "ASSESSMENT" /\ y.id[1] = "ROUND" /\ z.id[1] = "RESOLUTION" /\ t.id[1] = "IMPACT"
      /\ x.id[2] = polls /\ y.id[2] = polls /\ z.id[2] = polls /\ t.id[2] = polls
  BY ONLY <1>4, <1>5, <1>6, <1>8
<1>10. \A i \in 1..(turns + 4), h \in 1..turns : i = 2 + h =>
         /\ b[i] = Turn(bundle, h) /\ b[i].id = <<"TURN", polls, h>> /\ b[i].kind = "TURN"
         /\ b[i].id[1] = "TURN" /\ b[i].id[2] = polls /\ b[i].id[3] = h
         /\ b[i].says = SaysOf(bundle, h)
  <2> SUFFICES ASSUME NEW i \in 1..(turns + 4), NEW h \in 1..turns, i = 2 + h
               PROVE  /\ b[i] = Turn(bundle, h) /\ b[i].id = <<"TURN", polls, h>> /\ b[i].kind = "TURN"
                      /\ b[i].id[1] = "TURN" /\ b[i].id[2] = polls /\ b[i].id[3] = h
                      /\ b[i].says = SaysOf(bundle, h)
    OBVIOUS
  <2>1. b[i] = Turn(bundle, h)
    BY <1>1
  <2> QED
    BY <2>1, TurnIs
<1>11. NoIdTwice(b)
  <2> SUFFICES ASSUME NEW i \in 1..(turns + 4), NEW j \in 1..(turns + 4), b[i].id = b[j].id
               PROVE  i = j
    BY <1>1 DEF NoIdTwice
  <2>1. CASE \E h \in 1..turns : i = 2 + h
    <3>1. b[j].id[1] = "TURN"
      <4>1. PICK h \in 1..turns : i = 2 + h
        BY <2>1
      <4>2. b[i].id[1] = "TURN"
        BY <1>10, <4>1
      <4> QED
        BY <4>2
    <3>2. \E h \in 1..turns : j = 2 + h
      BY <1>1, <1>2, <1>3, <1>9, <3>1
    <3>3. PICK g \in 1..turns, h \in 1..turns : i = 2 + g /\ j = 2 + h
      BY <2>1, <3>2
    <3>4. b[i].id[3] = g /\ b[j].id[3] = h
      BY <1>10, <3>3
    <3> QED
      BY <3>3, <3>4
  <2>2. CASE \E h \in 1..turns : j = 2 + h
    <3>1. b[i].id[1] = "TURN"
      <4>1. PICK h \in 1..turns : j = 2 + h
        BY <2>2
      <4>2. b[j].id[1] = "TURN"
        BY <1>10, <4>1
      <4> QED
        BY <4>2
    <3>2. \E h \in 1..turns : i = 2 + h
      BY <1>1, <1>2, <1>3, <1>9, <3>1
    <3>3. PICK g \in 1..turns, h \in 1..turns : i = 2 + g /\ j = 2 + h
      BY <2>2, <3>2
    <3>4. b[i].id[3] = g /\ b[j].id[3] = h
      BY <1>10, <3>3
    <3> QED
      BY <3>3, <3>4
  <2> QED
    BY <1>1, <1>2, <1>3, <1>9, <2>1, <2>2
<1>12. /\ \A i \in 3..(turns + 4) : <<"ASSESSMENT", polls>> \in IdsBefore(b, i) /\ <<"ROUND", polls>> \in IdsBefore(b, i)
       /\ <<"ASSESSMENT", polls>> \in IdsBefore(b, 2)
  <2>1. b[1].id = <<"ASSESSMENT", polls>> /\ b[2].id = <<"ROUND", polls>>
    BY <1>1, <1>2, <1>4, <1>5
  <2>2. \A i \in 3..(turns + 4) : 1 \in 1..(i - 1) /\ 2 \in 1..(i - 1)
    OBVIOUS
  <2> QED
    BY <2>1, <2>2 DEF IdsBefore
<1>13. ASSUME NEW i \in Nat, NEW h \in 1..turns, 2 + h < i
       PROVE  /\ <<"TURN", polls, h>> \in IdsBefore(b, i)
              /\ \E j \in 1..(i - 1) : b[j].id = <<"TURN", polls, h>> /\ b[j].says = SaysOf(bundle, h)
  <2>1. PICK j : j = 2 + h
    OBVIOUS
  <2>2. j \in 1..(i - 1) /\ j \in 1..(turns + 4)
    BY <1>13, <2>1
  <2>3. b[j].id = <<"TURN", polls, h>> /\ b[j].says = SaysOf(bundle, h)
    BY <1>10, <2>1, <2>2
  <2> QED
    BY <2>2, <2>3 DEF IdsBefore
<1>14. \A i \in 1..(turns + 4) : b[i].kind \in Talk /\ b[i].kind \notin Quiet
                                  /\ b[i].kind \notin {"CYCLE", "EXECUTION"}
  <2> SUFFICES ASSUME NEW i \in 1..(turns + 4)
               PROVE  b[i].kind \in {"ASSESSMENT", "ROUND", "TURN", "RESOLUTION", "IMPACT"}
    BY DEF Talk, Quiet
  <2>1. CASE \E h \in 1..turns : i = 2 + h
    BY <1>10, <2>1
  <2> QED
    BY <1>1, <1>2, <1>3, <1>4, <1>5, <1>6, <1>8, <2>1
<1>15. \A i \in 1..(turns + 4) : b[i].id[2] = polls /\ b[i].id[1] = b[i].kind
  <2> SUFFICES ASSUME NEW i \in 1..(turns + 4)
               PROVE  b[i].id[2] = polls /\ b[i].id[1] = b[i].kind
    OBVIOUS
  <2>1. CASE \E h \in 1..turns : i = 2 + h
    BY <1>10, <2>1
  <2>2. /\ b[1].kind = "ASSESSMENT" /\ b[1].id = x.id /\ b[2].kind = "ROUND" /\ b[2].id = y.id
        /\ b[turns + 3].kind = "RESOLUTION" /\ b[turns + 3].id = z.id
        /\ b[turns + 4].kind = "IMPACT" /\ b[turns + 4].id = t.id
    BY <1>1, <1>2, <1>4, <1>5, <1>6, <1>8
  <2> QED
    BY ONLY <1>3, <1>9, <2>1, <2>2
<1>16. ASSUME NEW i \in 1..(turns + 4)
       PROVE  /\ \A m \in b[i].names : m[2] = polls
              /\ \A m \in b[i].names : m \in Ids(L) \/ m \in IdsBefore(b, i) \/ m = <<"MASTER", polls>>
  <2>1. CASE i = 1
    BY ONLY <1>1, <1>2, <1>4, <2>1, <<"SCAN", polls>> \in Ids(L)
  <2>2. CASE i = 2
    BY ONLY <1>1, <1>2, <1>5, <1>12, <2>2, <<"SCAN", polls>> \in Ids(L)
  <2>3. CASE \E h \in 1..turns : i = 2 + h
    <3>1. PICK h \in 1..turns : i = 2 + h
      BY <2>3
    <3>2. /\ \A m \in b[i].names : m = <<"ROUND", polls>> \/ (m = <<"TURN", polls, h - 1>> /\ h % 2 = 0)
          /\ \A m \in b[i].names : m[2] = polls
      <4>1. b[i] = Turn(bundle, h) /\ h \in Nat
        BY <1>10, <3>1
      <4> QED
        BY <4>1, TurnIs
    <3>3. <<"ROUND", polls>> \in IdsBefore(b, i)
      BY <1>12, <3>1
    <3>4. h % 2 = 0 => <<"TURN", polls, h - 1>> \in IdsBefore(b, i)
      <4>1. h % 2 = 0 => h - 1 \in 1..turns /\ 2 + (h - 1) < i
        BY <3>1
      <4>2. PICK g : g = h - 1
        OBVIOUS
      <4> QED
        BY <1>13, <4>1, <4>2
    <3> QED
      BY ONLY <3>2, <3>3, <3>4
  <2>4. CASE i = turns + 3
    <3>1. b[i] = z
      BY <1>1, <1>2, <2>4
    <3>2. <<"ROUND", polls>> \in IdsBefore(b, i) /\ <<"ASSESSMENT", polls>> \in IdsBefore(b, i)
      BY <1>12, <2>4
    <3>3. \A h \in 1..turns : <<"TURN", polls, h>> \in IdsBefore(b, i)
      BY <1>13, <2>4
    <3> QED
      BY ONLY <1>8, <3>1, <3>2, <3>3
  <2>5. CASE i = turns + 4
    <3>1. b[i] = t
      BY <1>1, <1>2, <2>5
    <3>2. <<"ROUND", polls>> \in IdsBefore(b, i)
      BY <1>12, <2>5
    <3>3. <<"RESOLUTION", polls>> \in IdsBefore(b, i)
      <4>1. turns + 3 \in 1..(i - 1) /\ b[turns + 3].id = <<"RESOLUTION", polls>>
        BY <1>1, <1>2, <1>8, <2>5
      <4> QED
        BY <4>1 DEF IdsBefore
    <3> QED
      BY ONLY <1>6, <3>1, <3>2, <3>3
  <2> QED
    BY <1>3, <2>1, <2>2, <2>3, <2>4, <2>5
<1>17. ASSUME NEW i \in 1..(turns + 4) PROVE Heard(b, i)
  <2> SUFFICES ASSUME b[i].kind = "RESOLUTION", b[i].says = "COMPLETED"
               PROVE  \E c \in Bundles(b[i].id[2]) : Debated(b, i, c)
    BY DEF Heard
  <2>1. i = turns + 3 /\ b[i] = z
    <3>1. ~(\E h \in 1..turns : i = 2 + h)
      BY <1>10
    <3> QED
      BY <1>1, <1>2, <1>3, <1>4, <1>5, <1>6, <3>1
  <2>2. turns = 2 * Len(Participants(bundle)) /\ b[i].id[2] = polls
    BY <1>8, <1>9, <2>1
  <2>3. b[i].names = {<<"ROUND", polls>>, <<"ASSESSMENT", polls>>, <<"MASTER", polls>>} \cup TurnsOf(polls, bundle)
    BY <1>8, <2>1, <2>2 DEF TurnsOf
  <2>4. \E j \in 1..(i - 1) : b[j].id = <<"ASSESSMENT", polls>> /\ b[j].says = bundle
    <3>1. 1 \in 1..(i - 1)
      BY <2>1
    <3> QED
      BY <1>1, <1>2, <1>4, <3>1
  <2>5. \A h \in 1..turns : \E j \in 1..(i - 1) : b[j].id = <<"TURN", polls, h>> /\ b[j].says = SaysOf(bundle, h)
    <3> SUFFICES ASSUME NEW h \in 1..turns
                 PROVE  \E j \in 1..(i - 1) : b[j].id = <<"TURN", polls, h>> /\ b[j].says = SaysOf(bundle, h)
      OBVIOUS
    <3>1. i \in Nat /\ 2 + h < i
      BY <2>1
    <3> QED
      BY <1>13, <3>1
  <2>6. Debated(b, i, bundle)
    BY ONLY <2>2, <2>3, <2>4, <2>5 DEF Debated
  <2> QED
    BY <2>2, <2>6
<1>18. Batch(L, b, polls, Quiet)
  <2> SUFFICES ASSUME NEW i \in 1..Len(b)
               PROVE  /\ Formed(b[i], polls) /\ b[i].id[2] = polls /\ b[i].kind \notin Quiet /\ Heard(b, i)
                      /\ \A m \in b[i].names :
                           \/ m \in IdsBefore(L, Len(L) + 1) \/ m \in IdsBefore(b, i)
                           \/ m = <<"MASTER", polls>> /\ b[i].kind \in Talk
                      /\ b[i].kind \in {"CYCLE", "EXECUTION"} =>
                           (\A m \in b[i].names : m[1] \in Quiet) \/ <<"MASTER", polls>> \in IdsBefore(L, Len(L) + 1)
    BY <1>1, <1>11 DEF Batch
  <2>1. i \in 1..(turns + 4)
    BY <1>1
  <2>2. Formed(b[i], polls)
    BY <1>7, <1>14, <1>15, <1>16, <2>1 DEF Formed
  <2> QED
    BY <1>14, <1>15, <1>16, <1>17, <2>1, <2>2 DEF Ids
<1>19. \A r \in ToSet(b) : r.kind \in Talk
  <2>1. ToSet(b) = {b[i] : i \in 1..(turns + 4)}
    BY <1>1, RowIs
  <2> QED
    BY <1>14, <2>1
<1>20. <<"RESOLUTION", polls>> \in Ids(b)
  <2>1. turns + 3 \in 1..((Len(b) + 1) - 1) /\ b[turns + 3].id = <<"RESOLUTION", polls>>
    BY <1>1, <1>2, <1>8
  <2> QED
    BY <2>1 DEF Ids, IdsBefore
<1> QED
  BY <1>18, <1>19, <1>20

LEMMA DiscussionFits ==
  ASSUME NEW L, polls \in 1..MaxPolls, <<"SCAN", polls>> \in Ids(L),
         NEW bundle \in Bundles(polls), NEW turns \in TurnCounts(bundle),
         NEW b, b = Discussion(bundle, turns)
  PROVE  /\ Batch(L, b, polls, Quiet) /\ \A r \in ToSet(b) : r.kind \in Talk
         /\ Required(bundle) => <<"RESOLUTION", polls>> \in Ids(b)
<1>1. CASE Required(bundle)
  <2>1. turns \in Nat /\ Len(Participants(bundle)) \in Nat /\ MaxPolls \in Nat
    BY TurnsCounted, ParticipantsAre, FunnelAssumption
  <2> QED
    BY <1>1, <2>1, SessionFits
<1>2. CASE ~Required(bundle)
  <2>1. PICK x : x = Assessment(bundle)
    OBVIOUS
  <2>2. b = <<x>>
    BY <1>2, <2>1 DEF Discussion
  <2>3. x = Record("ASSESSMENT", {"SCAN", "MASTER"}, bundle)
    BY <2>1 DEF Assessment
  <2>4. "ASSESSMENT" \notin Quiet /\ "ASSESSMENT" \in Talk /\ "ASSESSMENT" # "RESOLUTION"
        /\ "ASSESSMENT" \notin {"CYCLE", "EXECUTION"} /\ polls \in Nat \ {0}
    BY FunnelAssumption DEF Quiet, Talk
  <2>5. Fits(L, x, {}, polls, Quiet)
    <3>1. Follows(L, "ASSESSMENT", {"SCAN", "MASTER"}, {}, polls, Quiet)
      BY <2>4 DEF Follows
    <3> QED
      BY <2>3, <2>4, <3>1, RecordFits
  <2>6. Batch(L, b, polls, Quiet) /\ ToSet(b) = {x}
    BY <2>2, <2>5, OneFits
  <2>7. x.kind = "ASSESSMENT"
    BY <2>3, RecordIs
  <2> QED
    BY <1>2, <2>4, <2>6, <2>7
<1> QED
  BY <1>1, <1>2

(* The day's entries.                                                      *)
Executed(R, at) == {r \in R : r.kind = "EXECUTION" /\ DayOf(r.at) = DayOf(at)}

(* A discipline that forbids to repeat a setup, or a thesis: the shadow    *)
(* takes them from the same record.                                        *)
Strict == Cadence.preventSetup \/ Cadence.preventThesis

CapKept(R) ==
  \A r \in R : r.kind = "EXECUTION" => Cardinality(Executed(R, r.at)) <= Cadence.maxPerDay

SetupsApart(R) ==
  \A r, s \in R : r.kind = "EXECUTION" /\ s.kind = "EXECUTION" /\ DayOf(r.at) = DayOf(s.at) /\ r # s =>
    \A i, j \in R : i.kind = "INTENT" /\ j.kind = "INTENT" /\ i.id \in r.names /\ j.id \in s.names =>
      i.says # j.says

DaysKept(R) == CapKept(R) /\ (Strict => SetupsApart(R))

(* There is room in the day for one more, and its setup is new.            *)
Room(R, setup, at) ==
  /\ Cardinality(Executed(R, at)) < Cadence.maxPerDay
  /\ Strict => \A r \in Executed(R, at), i \in R :
                 i.kind = "INTENT" /\ i.id \in r.names => i.says # setup

LEMMA DaysKeptBelow ==
  ASSUME NEW R, IsFiniteSet(R), DaysKept(R), NEW S, S \subseteq R
  PROVE  DaysKept(S)
<1>1. ASSUME NEW r \in S, r.kind = "EXECUTION"
      PROVE  Cardinality(Executed(S, r.at)) <= Cadence.maxPerDay
  <2>1. Executed(S, r.at) \subseteq Executed(R, r.at) /\ Executed(R, r.at) \subseteq R
    BY DEF Executed
  <2>2. IsFiniteSet(Executed(R, r.at))
    BY <2>1, FS_Subset
  <2>3. Cardinality(Executed(S, r.at)) <= Cardinality(Executed(R, r.at)) /\ IsFiniteSet(Executed(S, r.at))
    BY <2>1, <2>2, FS_Subset
  <2>4. Cardinality(Executed(S, r.at)) \in Nat /\ Cardinality(Executed(R, r.at)) \in Nat
    BY <2>2, <2>3, FS_CardinalityType
  <2>5. Cardinality(Executed(R, r.at)) <= Cadence.maxPerDay
    BY <1>1 DEF DaysKept, CapKept
  <2> QED
    BY <2>3, <2>4, <2>5, FunnelAssumption
<1>2. Strict => SetupsApart(S)
  BY DEF DaysKept, SetupsApart
<1> QED
  BY <1>1, <1>2 DEF DaysKept, CapKept

(* Records that execute nothing leave the days as they are, if their       *)
(* intents are nobody's.                                                   *)
Idle(R, N) ==
  /\ \A r \in N : r.kind # "EXECUTION"
  /\ \A i \in N : i.kind = "INTENT" => \A r \in R : r.kind = "EXECUTION" => i.id \notin r.names

LEMMA DaysKeptIdle ==
  ASSUME NEW R, NEW N, Idle(R, N), NEW U, U = R \cup N
  PROVE  /\ DaysKept(R) => DaysKept(U)
         /\ \A setup, at : Room(R, setup, at) => Room(U, setup, at)
<1>1. \A at : Executed(U, at) = Executed(R, at)
  BY DEF Executed, Idle
<1>2. \A r \in U : r.kind = "EXECUTION" => r \in R
  BY DEF Idle
<1>3. \A r \in R, i \in U : r.kind = "EXECUTION" /\ i.kind = "INTENT" /\ i.id \in r.names => i \in R
  BY DEF Idle
<1>4. CapKept(R) => CapKept(U)
  BY <1>1, <1>2 DEF CapKept
<1>5. SetupsApart(R) => SetupsApart(U)
  BY <1>2, <1>3 DEF SetupsApart
<1>6. ASSUME NEW setup, NEW at, Room(R, setup, at) PROVE Room(U, setup, at)
  <2>1. \A r \in Executed(R, at) : r \in R /\ r.kind = "EXECUTION"
    BY DEF Executed
  <2>2. Cardinality(Executed(U, at)) < Cadence.maxPerDay
    BY <1>1, <1>6 DEF Room
  <2>3. Strict => \A r \in Executed(U, at), i \in U :
                    i.kind = "INTENT" /\ i.id \in r.names => i.says # setup
    BY <1>1, <1>3, <1>6, <2>1 DEF Room
  <2> QED
    BY <2>2, <2>3 DEF Room
<1> QED
  BY <1>4, <1>5, <1>6 DEF DaysKept

LEMMA DaysKeptWith ==
  ASSUME NEW R, IsFiniteSet(R), DaysKept(R), NEW setup, NEW e, Room(R, setup, e.at),
         e.kind = "EXECUTION", \A i \in R : i.kind = "INTENT" /\ i.id \in e.names => i.says = setup
  PROVE  DaysKept(R \cup {e})
<1>1. PICK U : U = R \cup {e}
  OBVIOUS
<1>2. IsFiniteSet(Executed(R, e.at))
  <2>1. Executed(R, e.at) \subseteq R
    BY DEF Executed
  <2> QED
    BY <2>1, FS_Subset
<1>3. Cardinality(Executed(R, e.at) \cup {e}) <= Cadence.maxPerDay
  <2>1. Cardinality(Executed(R, e.at)) \in Nat
    BY <1>2, FS_CardinalityType
  <2>2. PICK X : X = Executed(R, e.at)
    OBVIOUS
  <2>3. /\ IsFiniteSet(X \cup {e})
        /\ Cardinality(X \cup {e}) = IF e \in X THEN Cardinality(X) ELSE Cardinality(X) + 1
    <3>1. IsFiniteSet(X)
      BY ONLY <1>2, <2>2
    <3> QED
      BY ONLY <3>1, FS_AddElement
  <2>4. Cardinality(Executed(R, e.at)) < Cadence.maxPerDay
    BY DEF Room
  <2>5. Cardinality(X) \in Nat /\ Cardinality(X) < Cadence.maxPerDay
    BY ONLY <2>1, <2>2, <2>4
  <2>6. Cardinality(X \cup {e}) <= Cadence.maxPerDay
    BY <2>3, <2>5, FunnelAssumption
  <2> QED
    BY ONLY <2>2, <2>6
<1>4. ASSUME NEW r \in U, r.kind = "EXECUTION"
      PROVE  Cardinality(Executed(U, r.at)) <= Cadence.maxPerDay
  <2>1. CASE DayOf(r.at) = DayOf(e.at)
    <3>1. Executed(U, r.at) = Executed(R, e.at) \cup {e}
      BY <1>1, <2>1 DEF Executed
    <3> QED
      BY <1>3, <3>1
  <2>2. CASE DayOf(r.at) # DayOf(e.at)
    <3>1. Executed(U, r.at) = Executed(R, r.at) /\ r \in R
      BY <1>1, <2>2 DEF Executed
    <3> QED
      BY <1>4, <3>1 DEF DaysKept, CapKept
  <2> QED
    BY <2>1, <2>2
<1>5. \A i \in U : i.kind = "INTENT" => i \in R
  BY <1>1
<1>6. Strict => SetupsApart(U)
  <2> SUFFICES ASSUME Strict,
                      NEW r \in U, NEW s \in U, r.kind = "EXECUTION", s.kind = "EXECUTION",
                      DayOf(r.at) = DayOf(s.at), r # s,
                      NEW i \in U, NEW j \in U, i.kind = "INTENT", j.kind = "INTENT",
                      i.id \in r.names, j.id \in s.names
               PROVE  i.says # j.says
    BY DEF SetupsApart
  <2>1. i \in R /\ j \in R
    BY <1>5
  <2>2. CASE r \in R /\ s \in R
    BY <2>1, <2>2 DEF DaysKept, SetupsApart
  <2>3. CASE r = e /\ s \in R
    <3>1. i.says = setup /\ s \in Executed(R, e.at)
      BY <2>1, <2>3 DEF Executed
    <3> QED
      BY <2>1, <3>1 DEF Room
  <2>4. CASE r \in R /\ s = e
    <3>1. j.says = setup /\ r \in Executed(R, e.at)
      BY <2>1, <2>4 DEF Executed
    <3> QED
      BY <2>1, <3>1 DEF Room
  <2> QED
    BY <1>1, <2>2, <2>3, <2>4
<1> QED
  BY <1>1, <1>4, <1>6 DEF DaysKept, CapKept

(* A plan with an intent passed the Discipline Guard, and so found room.   *)
LEMMA GuardFindsRoom ==
  ASSUME NEW decision, NEW setup, NEW reentry \in BOOLEAN, NEW approves \in BOOLEAN,
         NEW p, p = Gated(decision, setup, reentry, approves), Intended(p), IsFiniteSet(ToSet(written))
  PROVE  Room(ToSet(written), p.setup, bar) /\ p.discipline = "PASS"
<1>1. PICK c, s : c = DisciplineContext(setup, reentry) /\ s = DisciplineState
  OBVIOUS
<1>2. PICK d : d = EvaluateDiscipline(decision, c, s, Cadence, bar).result
  OBVIOUS
<1>3. d = "PASS" /\ p.setup = setup /\ p.discipline = d
  <2>1. p.risk = (IF d = "PASS" /\ approves THEN "PASS" ELSE "REFUSED")
        /\ p.setup = (IF d = "PASS" /\ approves THEN setup ELSE None) /\ p.discipline = d
    BY <1>1, <1>2 DEF Gated
  <2> QED
    BY <2>1 DEF Intended
<1>4. /\ c.reentry = reentry /\ c.setup = setup /\ c.thesis = setup
      /\ s.lastExit = None /\ s.today = ShadowHistory.trades
      /\ s.setups = ShadowHistory.setups /\ s.theses = ShadowHistory.setups
  BY <1>1 DEF DisciplineContext, DisciplineState
<1>5. Disciplined(decision, c, s, Cadence, bar)
  BY <1>2, <1>3, <1>4 DEF Disciplined
<1>6. NoVetoMet(decision, c, s, Cadence)
  BY <1>5, DisciplinePassed, Zenon
<1>7. reentry = FALSE
  BY <1>4, <1>6 DEF NoVetoMet
<1>8. ~(ShadowHistory.trades >= Cadence.maxPerDay) /\ (Strict => setup \notin ShadowHistory.setups)
  BY <1>4, <1>6, <1>7 DEF NoVetoMet, Strict
<1>9. PICK R : R = ToSet(written)
  OBVIOUS
<1>10. Todays = Executed(R, bar)
  BY <1>9 DEF Todays, Executed, OfKind
<1>11. ShadowHistory.trades = Cardinality(Executed(R, bar))
  BY <1>10 DEF ShadowHistory
<1>12. \A r \in Executed(R, bar), i \in R :
         i.kind = "INTENT" /\ i.id \in r.names => i.says \in ShadowHistory.setups
  BY <1>9, <1>10 DEF ShadowHistory, OfKind
<1>13. Cardinality(Executed(R, bar)) < Cadence.maxPerDay
  <2>1. Executed(R, bar) \subseteq R
    BY DEF Executed
  <2>2. Cardinality(Executed(R, bar)) \in Nat
    BY <1>9, <2>1, FS_Subset, FS_CardinalityType
  <2> QED
    BY <1>8, <1>11, <2>2, FunnelAssumption
<1> QED
  BY <1>3, <1>8, <1>9, <1>12, <1>13 DEF Room

-----------------------------------------------------------------------------
(* What each step of a bar has told by then, what was seen of the bar, what*)
(* is meant to be done, and what has been said of it.                      *)
KindsBy(at) ==
  IF at = "poll" THEN {} ELSE IF at = "scan" THEN Quiet
  ELSE IF at = "discuss" THEN Quiet \cup Talk ELSE Quiet \cup Talk \cup Planned

Seen(L) ==
  /\ <<"SCAN", polls>> \in Ids(L)
  /\ scan.structure # "NONE" => <<"CONTEXT", polls>> \in Ids(L)
  /\ scan.result \in Candidates => scan.structure # "NONE"

Meant(L) ==
  /\ plan.resolved => plan.decision # "NONE" /\ <<"RESOLUTION", polls>> \in Ids(L)
  /\ plan.discipline # "NONE" => plan.decision # "NONE"
  /\ Intended(plan) => plan.discipline # "NONE" /\ Room(ToSet(L), plan.setup, bar)

Proposed(L) ==
  /\ plan.decision # "NONE" => <<"MASTER", polls>> \in Ids(L)
  /\ plan.discipline # "NONE" => <<"DISCIPLINE", polls>> \in Ids(L) /\ <<"RISK", polls>> \in Ids(L)
  /\ Intended(plan) => <<"INTENT", polls>> \in Ids(L)
  /\ \A i \in ToSet(L) : i.kind = "INTENT" /\ i.id[2] = polls => i.says = plan.setup

FunnelFiles ==
  /\ Row(written) /\ Row(queue) /\ polls \in 0..MaxPolls
  /\ Standing(Line, polls) /\ DaysKept(ToSet(Line))

FunnelSteps ==
  /\ step \in {"off", "wait", "poll", "scan", "discuss", "plan", "cycle"}
  /\ step \in {"off", "wait", "poll"} => queue = << >>
  /\ step \notin {"off", "wait"} => polls # 0

FunnelBar ==
  /\ step \in {"poll", "scan", "discuss", "plan"} => Holds(Line, polls, KindsBy(step))
  /\ step \in {"scan", "discuss", "plan"} => Seen(Line)
  /\ step = "discuss" => Seen(written)
  /\ step \in {"discuss", "plan"} => Meant(Line)
  /\ step = "plan" => Proposed(Line)

FunnelInv == FunnelFiles /\ FunnelSteps /\ FunnelBar

LEMMA IdsOf ==
  ASSUME NEW L, Row(L)
  PROVE  Ids(L) = {r.id : r \in ToSet(L)}
<1>1. Len(L) \in Nat /\ ToSet(L) = {L[i] : i \in 1..Len(L)}
  BY RowIs
<1>2. (Len(L) + 1) - 1 = Len(L)
  BY <1>1
<1>3. Ids(L) = {L[i].id : i \in 1..Len(L)}
  BY <1>2 DEF Ids, IdsBefore
<1> QED
  BY ONLY <1>1, <1>3

LEMMA LineIs ==
  ASSUME NEW s, Row(s), NEW t, t = << >>
  PROVE  s \o t = s
<1>1. PICK u : u = s \o t
  OBVIOUS
<1>2. Row(t) /\ Len(t) = 0
  BY RowNone
<1>3. Joint(u, s, t)
  BY <1>1, <1>2, RowJoin DEF Joined
<1>4. Len(u) = Len(s) /\ Row(u) /\ \A i \in 1..Len(s) : u[i] = s[i]
  <2>1. Len(s) \in Nat
    BY RowIs
  <2> QED
    BY <1>2, <1>3, <2>1 DEF Joint
<1>5. u = [i \in 1..Len(u) |-> u[i]] /\ s = [i \in 1..Len(s) |-> s[i]]
  BY <1>4, RowIs
<1> QED
  BY ONLY <1>1, <1>4, <1>5

LEMMA BatchJoins ==
  ASSUME Row(written), queue = << >>, NEW n \in Nat, NEW K, Standing(Line, n), Holds(Line, n, K),
         NEW b, Batch(Line, b, n, K), written' = written, queue' = b
  PROVE  /\ Row(b) /\ Line = written /\ Standing(Line', n)
         /\ ToSet(Line') = ToSet(Line) \cup ToSet(b) /\ Ids(Line') = Ids(Line) \cup Ids(b)
         /\ \A J : (\A r \in ToSet(b) : r.kind \in J) => Holds(Line', n, K \cup J)
<1>1. Line = written
  BY LineIs DEF Line
<1>2. Joined(Line', Line, b)
  BY <1>1 DEF Line, Joined
<1>3. Standing(Line', n)
  BY <1>2, StandingJoins
<1>4. Row(b)
  BY DEF Batch
<1>5. Joint(Line', Line, b)
  BY <1>1, <1>2, <1>4, RowJoin
<1>6. ToSet(Line') = ToSet(Line) \cup ToSet(b) /\ Row(Line')
  BY <1>5 DEF Joint
<1>7. Ids(Line') = Ids(Line) \cup Ids(b)
  <2>1. Ids(Line) = {r.id : r \in ToSet(Line)} /\ Ids(b) = {r.id : r \in ToSet(b)}
        /\ Ids(Line') = {r.id : r \in ToSet(Line')}
    BY <1>1, <1>4, <1>6, IdsOf
  <2> QED
    BY ONLY <1>6, <2>1
<1>8. ASSUME NEW J, \A r \in ToSet(b) : r.kind \in J PROVE Holds(Line', n, K \cup J)
  <2>1. ToSet(Line') = {Line'[i] : i \in 1..Len(Line')} /\ ToSet(Line) = {Line[i] : i \in 1..Len(Line)}
    BY <1>1, <1>6, RowIs
  <2>2. \A r \in ToSet(Line) : r.id[2] = n => r.kind \in K
    BY <2>1 DEF Holds
  <2>3. \A r \in ToSet(Line') : r.id[2] = n => r.kind \in K \cup J
    BY <1>6, <1>8, <2>2
  <2> QED
    BY <2>1, <2>3 DEF Holds
<1> QED
  BY <1>1, <1>3, <1>4, <1>6, <1>7, <1>8

(* What a line holds of a poll, as a set.                                  *)
LEMMA HoldsIs ==
  ASSUME NEW L, NEW n, NEW m, Standing(L, m)
  PROVE  /\ \A K : Holds(L, n, K) => \A r \in ToSet(L) : r.id[2] = n => r.kind \in K
         /\ \A r \in ToSet(L) : Formed(r, m)
         /\ IsFiniteSet(ToSet(L)) /\ Row(L)
<1>1. ToSet(L) = {L[i] : i \in 1..Len(L)} /\ IsFiniteSet(ToSet(L)) /\ Row(L)
  BY RowIs DEF Standing
<1> QED
  BY <1>1 DEF Holds, Standing

LEMMA FunnelStarts == ASSUME FunnelInit PROVE FunnelInv
<1> USE DEF FunnelInit
<1>1. Row(written) /\ Row(queue) /\ ToSet(written) = {} /\ Len(written) = 0
  BY RowNone
<1>2. Line = written
  BY <1>1, LineIs DEF Line
<1>3. Standing(Line, 0)
  BY <1>1, <1>2 DEF Standing, NoIdTwice
<1>4. DaysKept(ToSet(Line))
  BY <1>1, <1>2 DEF DaysKept, CapKept, SetupsApart
<1>5. FunnelFiles
  BY <1>1, <1>3, <1>4, FunnelAssumption DEF FunnelFiles
<1> QED
  BY <1>5 DEF FunnelInv, FunnelSteps, FunnelBar

LEMMA WriteStep == ASSUME FunnelInv, Write PROVE FunnelInv'
<1>1. /\ queue # << >> /\ written' = Append(written, Head(queue)) /\ queue' = Tail(queue)
      /\ scan' = scan /\ plan' = plan /\ step' = step /\ polls' = polls /\ bar' = bar
  BY DEF Write, funnelVars
<1>2. Row(written) /\ Row(queue)
  BY DEF FunnelInv, FunnelFiles
<1>3. Row(written') /\ Row(queue') /\ Line' = Line
  <2>1. PICK v, w : v = written' /\ w = queue'
    OBVIOUS
  <2>2. v = Append(written, Head(queue)) /\ w = Tail(queue)
    BY <1>1, <2>1
  <2>3. Row(v) /\ Row(w) /\ v \o w = written \o queue
    <3>1. /\ Row(v) /\ Row(w) /\ v \o w = written \o queue /\ Len(v) = Len(written) + 1
          /\ v[Len(v)] = queue[1] /\ Len(queue) >= 1 /\ \A i \in 1..Len(written) : v[i] = written[i]
      <4>1. Moved(written, queue, v, w)
        BY <1>1, <2>2 DEF Moved
      <4> QED
        BY ONLY <1>2, <4>1, LineMoves
    <3> QED
      BY ONLY <3>1
  <2> QED
    BY <2>1, <2>3 DEF Line
<1>4. FunnelFiles'
  BY <1>1, <1>3 DEF FunnelInv, FunnelFiles
<1>5. FunnelSteps'
  BY <1>1 DEF FunnelInv, FunnelSteps
<1>6. FunnelBar'
  <2>1. FunnelBar
    BY DEF FunnelInv
  <2>2. Seen(Line)' = Seen(Line) /\ Meant(Line)' = Meant(Line) /\ Proposed(Line)' = Proposed(Line)
    BY <1>1, <1>3 DEF Seen, Meant, Proposed, Intended
  <2>3. Holds(Line, polls, KindsBy(step))' = Holds(Line, polls, KindsBy(step))
    BY <1>1, <1>3
  <2>4. Seen(written) => Seen(written)'
    <3>1. Ids(written) \subseteq Ids(written')
      <4>1. PICK v, w : v = written' /\ w = queue'
        OBVIOUS
      <4>2. Moved(written, queue, v, w)
        BY <1>1, <4>1 DEF Moved
      <4>3. Len(v) = Len(written) + 1 /\ \A i \in 1..Len(written) : v[i] = written[i]
        BY ONLY <1>2, <4>2, LineMoves
      <4>4. Len(written) \in Nat
        BY ONLY <1>2, RowIs
      <4>5. \A i \in 1..((Len(written) + 1) - 1) : i \in 1..((Len(v) + 1) - 1) /\ v[i] = written[i]
        BY ONLY <4>3, <4>4
      <4>6. Ids(written) \subseteq Ids(v)
        BY ONLY <4>5 DEF Ids, IdsBefore
      <4> QED
        BY <4>1, <4>6
    <3> QED
      BY <1>1, <3>1 DEF Seen
  <2> QED
    BY <1>1, <2>1, <2>2, <2>3, <2>4 DEF FunnelBar
<1> QED
  BY <1>4, <1>5, <1>6 DEF FunnelInv

LEMMA RestSteps == ASSUME FunnelInv, StartProcess \/ BarDone PROVE FunnelInv'
<1>1. /\ written' = written /\ queue' = queue /\ polls' = polls /\ step' = "wait" /\ queue = << >>
  BY DEF StartProcess, BarDone, FunnelInv, FunnelSteps
<1>2. Line' = Line
  BY <1>1 DEF Line
<1>3. FunnelFiles'
  BY <1>1, <1>2 DEF FunnelInv, FunnelFiles
<1> QED
  BY <1>1, <1>3 DEF FunnelInv, FunnelSteps, FunnelBar

LEMMA PollStep == ASSUME FunnelInv, PollCompleted PROVE FunnelInv'
<1>1. /\ written' = written /\ queue' = queue /\ polls' = polls + 1 /\ polls < MaxPolls
      /\ step' = "poll" /\ queue = << >>
  BY DEF PollCompleted, FunnelInv, FunnelSteps
<1>2. Line' = Line
  BY <1>1 DEF Line
<1>3. polls \in Nat /\ MaxPolls \in Nat
  BY FunnelAssumption DEF FunnelInv, FunnelFiles
<1>4. Standing(Line, polls + 1) /\ Holds(Line, polls + 1, {})
  BY <1>3, StandingLater DEF FunnelInv, FunnelFiles
<1>5. FunnelFiles'
  BY <1>1, <1>2, <1>3, <1>4 DEF FunnelInv, FunnelFiles
<1>6. FunnelSteps'
  BY <1>1, <1>3 DEF FunnelSteps
<1>7. FunnelBar'
  <2>1. KindsBy(step') = {}
    BY <1>1 DEF KindsBy
  <2> QED
    BY <1>1, <1>2, <1>4, <2>1 DEF FunnelBar
<1> QED
  BY <1>5, <1>6, <1>7 DEF FunnelInv

(* What is not journaled is gone: what is stands.                          *)
LEMMA LossKeeps ==
  ASSUME FunnelInv, written' = written, queue' = << >>, polls' = polls
  PROVE  /\ FunnelFiles' /\ Ids(Line') \subseteq Ids(Line) /\ ToSet(Line') \subseteq ToSet(Line)
         /\ \A K : Holds(Line, polls, K) => Holds(Line', polls, K)
<1>1. Row(written) /\ Row(queue) /\ Standing(Line, polls) /\ DaysKept(ToSet(Line))
  BY DEF FunnelInv, FunnelFiles
<1>2. Line' = written
  BY <1>1, LineIs DEF Line
<1>3. Joint(Line, written, queue)
  BY <1>1, RowJoin DEF Line, Joined
<1>4. Len(written) \in Nat /\ Len(queue) \in Nat
  BY <1>1, RowIs
<1>5. Len(written) <= Len(Line) /\ (\A i \in 1..Len(written) : written[i] = Line[i])
      /\ ToSet(written) \subseteq ToSet(Line)
  BY <1>3, <1>4 DEF Joint
<1>6. Standing(written, polls)
  BY <1>1, <1>5, StandingBefore
<1>7. DaysKept(ToSet(written))
  <2>1. IsFiniteSet(ToSet(Line))
    BY <1>1, HoldsIs
  <2> QED
    BY <1>1, <1>5, <2>1, DaysKeptBelow
<1>8. FunnelFiles'
  <2>1. Row(queue')
    BY RowNone
  <2>2. Standing(Line', polls) /\ DaysKept(ToSet(Line'))
    BY <1>2, <1>6, <1>7
  <2> QED
    BY <1>1, <2>1, <2>2 DEF FunnelInv, FunnelFiles
<1>9. Ids(Line') \subseteq Ids(Line)
  <2>1. Ids(Line) = {r.id : r \in ToSet(Line)} /\ Ids(written) = {r.id : r \in ToSet(written)}
    BY <1>1, IdsOf DEF Standing
  <2> QED
    BY <1>2, <1>5, <2>1
<1>10. \A K : Holds(Line, polls, K) => Holds(Line', polls, K)
  <2>1. \A i \in 1..Len(written) : i \in 1..Len(Line) /\ written[i] = Line[i]
    BY <1>3, <1>4, <1>5 DEF Joint
  <2> QED
    BY <1>2, <2>1 DEF Holds
<1> QED
  BY <1>2, <1>5, <1>8, <1>9, <1>10

LEMMA HaltStep == ASSUME FunnelInv, Halt PROVE FunnelInv'
<1>1. written' = written /\ queue' = << >> /\ polls' = polls /\ step' = "off"
  BY DEF Halt
<1>2. FunnelFiles'
  BY <1>1, LossKeeps
<1> QED
  BY <1>1, <1>2 DEF FunnelInv, FunnelSteps, FunnelBar

LEMMA ScanStep == ASSUME FunnelInv, ScanBar PROVE FunnelInv'
<1>1. /\ step = "poll" /\ step' = "scan" /\ written' = written /\ polls' = polls /\ queue = << >>
      /\ bar' = bar
      /\ queue' = IF scan'.structure = "NONE" THEN <<Record("SCAN", {}, scan'.result)>>
                  ELSE <<Context(scan'), Record("SCAN", {"CONTEXT"}, scan'.result)>>
  BY DEF ScanBar, FunnelInv, FunnelSteps
<1>2. scan'.result \in Candidates => scan'.structure # "NONE"
  <2>1. PICK picture : scan' = Scanned(bar, picture)
    BY DEF ScanBar
  <2>2. CASE ~ActiveWindow(bar)
    <3>1. scan' = [NoScan EXCEPT !.result = "OUTSIDE_WINDOW"]
      BY <2>1, <2>2 DEF Scanned
    <3>2. scan'.result = "OUTSIDE_WINDOW"
      BY <3>1 DEF NoScan
    <3> QED
      BY <3>2 DEF Candidates
  <2>3. CASE ActiveWindow(bar) /\ ~picture.usable
    <3>1. scan' = [NoScan EXCEPT !.result = "UNAVAILABLE"]
      BY <2>1, <2>3 DEF Scanned
    <3>2. scan'.result = "UNAVAILABLE"
      BY <3>1 DEF NoScan
    <3> QED
      BY <3>2 DEF Candidates
  <2>4. CASE ActiveWindow(bar) /\ picture.usable
    <3>1. scan'.structure = Structure(picture.bias)
      BY <2>1, <2>4 DEF Scanned
    <3> QED
      BY <3>1 DEF Structure
  <2> QED
    BY <2>2, <2>3, <2>4
<1>3. /\ Row(written) /\ polls \in Nat \ {0} /\ Standing(Line, polls) /\ DaysKept(ToSet(Line))
      /\ Holds(Line, polls, {})
  <2>1. KindsBy(step) = {}
    BY <1>1 DEF KindsBy
  <2>2. polls \in Nat \ {0}
    BY <1>1, FunnelAssumption DEF FunnelInv, FunnelFiles, FunnelSteps
  <2>3. Holds(Line, polls, KindsBy(step))
    BY <1>1 DEF FunnelInv, FunnelBar
  <2> QED
    BY <2>1, <2>2, <2>3 DEF FunnelInv, FunnelFiles
<1>4. PICK b : b = queue'
  OBVIOUS
<1>5. /\ Batch(Line, b, polls, {}) /\ \A r \in ToSet(b) : r.kind \in Quiet
      /\ <<"SCAN", polls>> \in Ids(b)
      /\ scan'.structure # "NONE" => <<"CONTEXT", polls>> \in Ids(b)
  <2>1. CASE scan'.structure = "NONE"
    <3>1. PICK x : x = Record("SCAN", {}, scan'.result)
      OBVIOUS
    <3>2. b = <<x>>
      BY <1>1, <1>4, <2>1, <3>1
    <3>3. x.id = <<"SCAN", polls>> /\ x.kind = "SCAN"
      BY <3>1, RecordIs
    <3>4. "SCAN" # "RESOLUTION" /\ "SCAN" \notin {"CYCLE", "EXECUTION"}
      OBVIOUS
    <3>5. Fits(Line, x, {}, polls, {})
      <4>1. Follows(Line, "SCAN", {}, {}, polls, {})
        BY <3>4 DEF Follows
      <4> QED
        BY <1>3, <3>1, <4>1, RecordFits
    <3>6. Batch(Line, b, polls, {}) /\ ToSet(b) = {x}
      BY <3>2, <3>5, OneFits
    <3>7. Ids(b) = {r.id : r \in ToSet(b)}
      BY <3>6, IdsOf DEF Batch
    <3> QED
      BY <2>1, <3>3, <3>6, <3>7 DEF Quiet
  <2>2. CASE scan'.structure # "NONE"
    <3>1. PICK x, y : x = Context(scan') /\ y = Record("SCAN", {"CONTEXT"}, scan'.result)
      OBVIOUS
    <3>2. b = <<x, y>>
      BY <1>1, <1>4, <2>2, <3>1
    <3>3. PICK structure : x = Record("CONTEXT", {}, structure)
      BY <3>1 DEF Context
    <3>4. x.id = <<"CONTEXT", polls>> /\ x.kind = "CONTEXT" /\ y.id = <<"SCAN", polls>> /\ y.kind = "SCAN"
      BY <3>1, <3>3, RecordIs
    <3>5. "CONTEXT" # "RESOLUTION" /\ "CONTEXT" \notin {"CYCLE", "EXECUTION"}
          /\ "SCAN" # "RESOLUTION" /\ "SCAN" \notin {"CYCLE", "EXECUTION"}
      OBVIOUS
    <3>6. Fits(Line, x, {}, polls, {}) /\ x.id[1] = "CONTEXT"
      <4>1. Follows(Line, "CONTEXT", {}, {}, polls, {})
        BY <3>5 DEF Follows
      <4> QED
        BY <1>3, <3>3, <4>1, RecordFits
    <3>7. Fits(Line, y, {x.id}, polls, {}) /\ y.id[1] = "SCAN"
      <4>1. Follows(Line, "SCAN", {"CONTEXT"}, {x.id}, polls, {})
        BY <3>4, <3>5 DEF Follows, Quiet
      <4> QED
        BY <1>3, <3>1, <4>1, RecordFits
    <3>8. Batch(Line, b, polls, {})
      BY <3>2, <3>6, <3>7, TwoFit
    <3>9. ToSet(b) = {x, y} /\ Row(b)
      BY <3>2, RowTwo
    <3>10. Ids(b) = {r.id : r \in ToSet(b)}
      BY <3>9, IdsOf
    <3> QED
      BY <3>4, <3>8, <3>9, <3>10 DEF Quiet
  <2> QED
    BY <2>1, <2>2
<1>6. /\ Row(b) /\ Standing(Line', polls)
      /\ ToSet(Line') = ToSet(Line) \cup ToSet(b) /\ Ids(Line') = Ids(Line) \cup Ids(b)
      /\ Holds(Line', polls, {} \cup Quiet)
  BY <1>1, <1>3, <1>4, <1>5, BatchJoins
<1>7. DaysKept(ToSet(Line'))
  <2>1. Idle(ToSet(Line), ToSet(b))
    BY <1>5 DEF Idle, Quiet
  <2> QED
    BY <1>3, <1>6, <2>1, DaysKeptIdle
<1>8. FunnelFiles'
  BY <1>1, <1>4, <1>6, <1>7 DEF FunnelInv, FunnelFiles
<1>9. FunnelSteps'
  BY <1>1, <1>3 DEF FunnelSteps
<1>10. FunnelBar'
  <2>1. KindsBy(step') = {} \cup Quiet
    BY <1>1 DEF KindsBy
  <2>2. Holds(Line', polls', KindsBy(step'))
    BY <1>1, <1>6, <2>1
  <2>3. Seen(Line)'
    BY <1>1, <1>2, <1>5, <1>6 DEF Seen
  <2> QED
    BY <1>1, <2>2, <2>3 DEF FunnelBar
<1> QED
  BY <1>8, <1>9, <1>10 DEF FunnelInv

LEMMA NoneFits ==
  ASSUME NEW L, NEW n, NEW K, NEW b, b = << >>
  PROVE  Batch(L, b, n, K) /\ ToSet(b) = {} /\ Ids(b) = {}
<1>1. Row(b) /\ Len(b) = 0 /\ ToSet(b) = {}
  BY RowNone
<1>2. Ids(b) = {}
  BY <1>1, IdsOf
<1> QED
  BY <1>1, <1>2 DEF Batch, NoIdTwice

(* Whatever plan the runtime is given, what it intends found room.         *)
LEMMA PlansAre ==
  ASSUME NEW p \in Plans, IsFiniteSet(ToSet(written))
  PROVE  /\ "resolved" \in DOMAIN p
         /\ p.discipline # "NONE" => p.decision # "NONE"
         /\ Intended(p) => p.discipline # "NONE" /\ Room(ToSet(written), p.setup, bar)
<1>1. CASE p = NoPlan
  BY <1>1 DEF NoPlan, Intended
<1>2. CASE \E d \in {"HOLD", "BUY"} : p = [NoPlan EXCEPT !.decision = d]
  BY <1>2 DEF NoPlan, Intended
<1>3. CASE \E d \in {"HOLD", "BUY"}, setup \in Setups \cup {None}, reentry \in BOOLEAN, approves \in BOOLEAN :
             p = Gated(d, setup, reentry, approves)
  <2>1. PICK d \in {"HOLD", "BUY"}, setup \in Setups \cup {None}, reentry \in BOOLEAN, approves \in BOOLEAN :
               p = Gated(d, setup, reentry, approves)
    BY <1>3
  <2>2. p.decision = d /\ "resolved" \in DOMAIN p
    BY <2>1 DEF Gated
  <2>3. Intended(p) => p.discipline # "NONE" /\ Room(ToSet(written), p.setup, bar)
    BY <2>1, GuardFindsRoom
  <2> QED
    BY <2>2, <2>3
<1> QED
  BY <1>1, <1>2, <1>3 DEF Plans

LEMMA DecideStep == ASSUME FunnelInv, DecideOnBar PROVE FunnelInv'
<1>1. /\ step = "scan" /\ queue = << >> /\ step' = "discuss"
      /\ written' = written /\ bar' = bar /\ scan' = scan /\ polls' = polls
  BY DEF DecideOnBar
<1>2. PICK p \in Plans, bundle \in Bundles(polls) :
        /\ plan' = [p EXCEPT !.resolved = Required(bundle) /\ p.decision # "NONE"]
        /\ IF p.decision = "NONE" THEN queue' = << >>
           ELSE \E turns \in TurnCounts(bundle) : queue' = Discussion(bundle, turns)
  BY DEF DecideOnBar
<1>3. /\ Row(written) /\ polls \in Nat \ {0} /\ polls \in 1..MaxPolls /\ Standing(Line, polls)
      /\ DaysKept(ToSet(Line)) /\ Holds(Line, polls, Quiet) /\ Seen(Line)
  <2>1. KindsBy(step) = Quiet
    BY <1>1 DEF KindsBy
  <2>2. polls \in Nat \ {0} /\ polls \in 1..MaxPolls
    BY <1>1, FunnelAssumption DEF FunnelInv, FunnelFiles, FunnelSteps
  <2>3. Holds(Line, polls, KindsBy(step)) /\ Seen(Line)
    BY <1>1 DEF FunnelInv, FunnelBar
  <2> QED
    BY <2>1, <2>2, <2>3 DEF FunnelInv, FunnelFiles
<1>4. PICK b : b = queue'
  OBVIOUS
<1>5. /\ Batch(Line, b, polls, Quiet) /\ \A r \in ToSet(b) : r.kind \in Talk
      /\ Required(bundle) /\ p.decision # "NONE" => <<"RESOLUTION", polls>> \in Ids(b)
  <2>1. CASE p.decision = "NONE"
    BY <1>2, <1>4, <2>1, NoneFits
  <2>2. CASE p.decision # "NONE"
    <3>1. PICK turns \in TurnCounts(bundle) : b = Discussion(bundle, turns)
      BY <1>2, <1>4, <2>2
    <3>2. <<"SCAN", polls>> \in Ids(Line)
      BY <1>3 DEF Seen
    <3> QED
      BY <1>3, <3>1, <3>2, DiscussionFits
  <2> QED
    BY <2>1, <2>2
<1>6. /\ Row(b) /\ Line = written /\ Standing(Line', polls)
      /\ ToSet(Line') = ToSet(Line) \cup ToSet(b) /\ Ids(Line') = Ids(Line) \cup Ids(b)
      /\ Holds(Line', polls, Quiet \cup Talk)
  BY <1>1, <1>3, <1>4, <1>5, BatchJoins
<1>7. Idle(ToSet(Line), ToSet(b))
  BY <1>5 DEF Idle, Talk
<1>8. DaysKept(ToSet(Line')) /\ \A setup, at : Room(ToSet(Line), setup, at) => Room(ToSet(Line'), setup, at)
  BY <1>3, <1>6, <1>7, DaysKeptIdle
<1>9. FunnelFiles'
  BY <1>1, <1>4, <1>6, <1>8 DEF FunnelInv, FunnelFiles
<1>10. FunnelSteps'
  BY <1>1, <1>3 DEF FunnelSteps
<1>11. /\ plan'.decision = p.decision /\ plan'.discipline = p.discipline /\ plan'.risk = p.risk
       /\ plan'.setup = p.setup
  BY ONLY <1>2
<1>12. plan'.resolved => Required(bundle) /\ p.decision # "NONE"
  <2>1. PICK v : v = (Required(bundle) /\ p.decision # "NONE")
    OBVIOUS
  <2>2. plan' = [p EXCEPT !.resolved = v]
    BY <1>2, <2>1, Zenon
  <2>3. "resolved" \in DOMAIN p
    <3>1. IsFiniteSet(ToSet(written))
      BY <1>3, RowIs
    <3> QED
      BY <3>1, PlansAre
  <2>4. plan'.resolved = v
    BY ONLY <2>2, <2>3
  <2> QED
    BY <2>1, <2>4, Zenon
<1>13. Meant(Line)'
  <2>1. IsFiniteSet(ToSet(written))
    BY <1>3, RowIs
  <2>2. /\ p.discipline # "NONE" => p.decision # "NONE"
        /\ Intended(p) => p.discipline # "NONE" /\ Room(ToSet(written), p.setup, bar)
    BY <2>1, PlansAre
  <2>3. plan'.resolved => plan'.decision # "NONE" /\ <<"RESOLUTION", polls'>> \in Ids(Line')
    <3> SUFFICES ASSUME plan'.resolved
                 PROVE  plan'.decision # "NONE" /\ <<"RESOLUTION", polls'>> \in Ids(Line')
      OBVIOUS
    <3>1. Required(bundle) /\ p.decision # "NONE"
      BY <1>12, Zenon
    <3>2. <<"RESOLUTION", polls>> \in Ids(b)
      BY <1>5, <3>1
    <3>3. <<"RESOLUTION", polls>> \in Ids(Line')
      BY <1>6, <3>2
    <3> QED
      BY <1>1, <1>11, <3>1, <3>3
  <2>4. plan'.discipline # "NONE" => plan'.decision # "NONE"
    BY <1>11, <2>2
  <2>5. plan'.risk = "PASS" => plan'.discipline # "NONE" /\ Room(ToSet(Line'), plan'.setup, bar')
    <3> SUFFICES ASSUME plan'.risk = "PASS"
                 PROVE  plan'.discipline # "NONE" /\ Room(ToSet(Line'), plan'.setup, bar')
      OBVIOUS
    <3>1. Intended(p)
      BY <1>11 DEF Intended
    <3>2. p.discipline # "NONE" /\ Room(ToSet(written), p.setup, bar)
      BY <2>2, <3>1
    <3>3. Room(ToSet(Line'), p.setup, bar)
      BY <1>6, <1>8, <3>2, Zenon
    <3> QED
      BY <1>1, <1>11, <3>2, <3>3, Zenon
  <2> QED
    BY <2>3, <2>4, <2>5 DEF Meant, Intended
<1>14. Seen(Line)' /\ Seen(written)'
  BY <1>1, <1>3, <1>6 DEF Seen
<1>15. FunnelBar'
  <2>1. KindsBy(step') = Quiet \cup Talk
    BY <1>1 DEF KindsBy
  <2>2. Holds(Line', polls', KindsBy(step'))
    BY <1>1, <1>6, <2>1
  <2> QED
    BY <1>1, <1>13, <1>14, <2>2 DEF FunnelBar
<1> QED
  BY <1>9, <1>10, <1>15 DEF FunnelInv

LEMMA DiscussionFailsStep == ASSUME FunnelInv, DiscussionFails PROVE FunnelInv'
<1>1. /\ step = "discuss" /\ step' = "discuss" /\ queue' = << >> /\ plan' = NoPlan
      /\ written' = written /\ bar' = bar /\ scan' = scan /\ polls' = polls
  BY DEF DiscussionFails
<1>2. /\ FunnelFiles' /\ \A K : Holds(Line, polls, K) => Holds(Line', polls, K)
  BY <1>1, LossKeeps
<1>3. FunnelSteps'
  BY <1>1 DEF FunnelInv, FunnelSteps
<1>4. Line' = written
  <2>1. Row(written)
    BY DEF FunnelInv, FunnelFiles
  <2> QED
    BY <1>1, <2>1, LineIs DEF Line
<1>5. Holds(Line, polls, KindsBy(step)) /\ Seen(written)
  BY <1>1 DEF FunnelInv, FunnelBar
<1>6. Meant(Line)'
  BY <1>1 DEF Meant, NoPlan, Intended
<1>7. Seen(Line)' /\ Seen(written)'
  BY <1>1, <1>4, <1>5 DEF Seen
<1>8. FunnelBar'
  BY <1>1, <1>2, <1>5, <1>6, <1>7 DEF FunnelBar
<1> QED
  BY <1>2, <1>3, <1>8 DEF FunnelInv

(* How the records of a plan are put together.                             *)
LEMMA SmallRows ==
  ASSUME NEW m, NEW d, NEW r, NEW i
  PROVE  <<m>> \o <<d, r>> = <<m, d, r>> /\ <<m, d, r>> \o <<i>> = <<m, d, r, i>>
<1>1. <<m>> \o <<d, r>> = <<m, d, r>>
  <2>1. PICK s, t, u, w : s = <<m>> /\ t = <<d, r>> /\ u = s \o t /\ w = <<m, d, r>>
    OBVIOUS
  <2>2. Row(s) /\ Len(s) = 1 /\ s[1] = m /\ Row(t) /\ Len(t) = 2 /\ t[1] = d /\ t[2] = r
    BY <2>1, RowOne, RowTwo
  <2>3. Joint(u, s, t)
    BY <2>1, <2>2, RowJoin DEF Joined
  <2>4. Row(u) /\ Len(u) = 3 /\ u[1] = m /\ \A k \in 1..2 : u[1 + k] = t[k]
    BY <2>2, <2>3 DEF Joint
  <2>5. Row(w) /\ Len(w) = 3 /\ w[1] = m /\ w[2] = d /\ w[3] = r
    BY <2>1, RowThree
  <2>6. u[1 + 1] = d /\ u[1 + 2] = r
    BY <2>2, <2>4
  <2>7. \A k \in 1..3 : u[k] = w[k]
    <3>1. \A k \in 1..3 : k = 1 \/ k = 1 + 1 \/ k = 1 + 2
      OBVIOUS
    <3> QED
      BY <2>4, <2>5, <2>6, <3>1
  <2>8. u = [k \in 1..3 |-> u[k]] /\ w = [k \in 1..3 |-> w[k]]
    BY <2>4, <2>5, RowIs
  <2> QED
    BY ONLY <2>1, <2>7, <2>8
<1>2. <<m, d, r>> \o <<i>> = <<m, d, r, i>>
  <2>1. PICK s, t, u, w : s = <<m, d, r>> /\ t = <<i>> /\ u = s \o t /\ w = <<m, d, r, i>>
    OBVIOUS
  <2>2. /\ Row(s) /\ Len(s) = 3 /\ s[1] = m /\ s[2] = d /\ s[3] = r
        /\ Row(t) /\ Len(t) = 1 /\ t[1] = i
    BY <2>1, RowOne, RowThree
  <2>3. Joint(u, s, t)
    BY <2>1, <2>2, RowJoin DEF Joined
  <2>4. Row(u) /\ Len(u) = 4 /\ u[1] = m /\ u[2] = d /\ u[3] = r /\ \A k \in 1..1 : u[3 + k] = t[k]
    BY <2>2, <2>3 DEF Joint
  <2>5. Row(w) /\ Len(w) = 4 /\ w[1] = m /\ w[2] = d /\ w[3] = r /\ w[4] = i
    BY <2>1, RowFour
  <2>6. u[3 + 1] = i
    BY <2>2, <2>4
  <2>7. \A k \in 1..4 : u[k] = w[k]
    <3>1. \A k \in 1..4 : k = 1 \/ k = 2 \/ k = 3 \/ k = 3 + 1
      OBVIOUS
    <3> QED
      BY <2>4, <2>5, <2>6, <3>1
  <2>8. u = [k \in 1..4 |-> u[k]] /\ w = [k \in 1..4 |-> w[k]]
    BY <2>4, <2>5, RowIs
  <2> QED
    BY ONLY <2>1, <2>7, <2>8
<1> QED
  BY <1>1, <1>2

Sensible(p) ==
  /\ p.discipline # "NONE" => p.decision # "NONE"
  /\ Intended(p) => p.discipline # "NONE"

PlanOf(b, p) == b = PlanRecords(p) /\ Sensible(p)

(* The records of a plan, and what they leave of it.                       *)
Laid(b, p) ==
  /\ \A r \in ToSet(b) : r.kind \in Planned /\ r.id[2] = polls /\ (r.kind = "INTENT" => r.says = p.setup)
  /\ p.decision # "NONE" => <<"MASTER", polls>> \in Ids(b)
  /\ p.discipline # "NONE" => <<"DISCIPLINE", polls>> \in Ids(b) /\ <<"RISK", polls>> \in Ids(b)
  /\ Intended(p) => <<"INTENT", polls>> \in Ids(b)

LEMMA PlanFits ==
  ASSUME NEW p, NEW b, PlanOf(b, p), polls \in Nat \ {0}, NEW L
  PROVE  Batch(L, b, polls, Quiet \cup Talk) /\ Laid(b, p)
<1>1. PICK m, d, r, i :
        /\ m = Record("MASTER", {}, p.decision)
        /\ d = Record("DISCIPLINE", {"MASTER"}, p.discipline)
        /\ r = Record("RISK", {"MASTER", "DISCIPLINE"}, p.risk)
        /\ i = Record("INTENT", {"MASTER", "DISCIPLINE", "RISK"}, p.setup)
  OBVIOUS
<1>2. /\ m.id = <<"MASTER", polls>> /\ m.kind = "MASTER"
      /\ d.id = <<"DISCIPLINE", polls>> /\ d.kind = "DISCIPLINE"
      /\ r.id = <<"RISK", polls>> /\ r.kind = "RISK"
      /\ i.id = <<"INTENT", polls>> /\ i.kind = "INTENT" /\ i.says = p.setup
  BY <1>1, RecordIs
<1>3. m.id[2] = polls /\ d.id[2] = polls /\ r.id[2] = polls /\ i.id[2] = polls
  BY ONLY <1>2
<1>4. \A k \in Planned : k \notin Quiet \cup Talk /\ k # "RESOLUTION" /\ k \notin Quiet
                         /\ k \notin {"CYCLE", "EXECUTION"}
  BY DEF Planned, Quiet, Talk
<1>5. "MASTER" \in Planned /\ "DISCIPLINE" \in Planned /\ "RISK" \in Planned /\ "INTENT" \in Planned
  BY DEF Planned
<1>6. Fits(L, m, {}, polls, Quiet \cup Talk) /\ m.id[1] = "MASTER"
  <2>1. Follows(L, "MASTER", {}, {}, polls, Quiet \cup Talk)
    BY <1>4, <1>5 DEF Follows
  <2> QED
    BY <1>1, <2>1, RecordFits
<1>7. Fits(L, d, {m.id}, polls, Quiet \cup Talk) /\ d.id[1] = "DISCIPLINE"
  <2>1. Follows(L, "DISCIPLINE", {"MASTER"}, {m.id}, polls, Quiet \cup Talk)
    BY <1>2, <1>4, <1>5 DEF Follows
  <2> QED
    BY <1>1, <2>1, RecordFits
<1>8. Fits(L, r, {m.id, d.id}, polls, Quiet \cup Talk) /\ r.id[1] = "RISK"
  <2>1. Follows(L, "RISK", {"MASTER", "DISCIPLINE"}, {m.id, d.id}, polls, Quiet \cup Talk)
    BY <1>2, <1>4, <1>5 DEF Follows
  <2> QED
    BY <1>1, <2>1, RecordFits
<1>9. Fits(L, i, {m.id, d.id, r.id}, polls, Quiet \cup Talk) /\ i.id[1] = "INTENT"
  <2>1. Follows(L, "INTENT", {"MASTER", "DISCIPLINE", "RISK"}, {m.id, d.id, r.id}, polls, Quiet \cup Talk)
    BY <1>2, <1>4, <1>5 DEF Follows
  <2> QED
    BY <1>1, <2>1, RecordFits
<1>10. /\ (p.discipline # "NONE" => p.decision # "NONE")
       /\ (Intended(p) => p.discipline # "NONE")
  BY DEF PlanOf, Sensible
<1>11. PICK A, B, C :
         /\ A = (IF p.decision = "NONE" THEN << >> ELSE <<m>>)
         /\ B = (IF p.discipline = "NONE" THEN << >> ELSE <<d, r>>)
         /\ C = (IF Intended(p) THEN <<i>> ELSE << >>)
  OBVIOUS
<1>12. b = (A \o B) \o C
  BY ONLY <1>1, <1>11, PlanOf(b, p) DEF PlanOf, PlanRecords
<1>13. CASE p.decision = "NONE"
  <2>1. A = << >> /\ B = << >> /\ C = << >> /\ p.discipline = "NONE" /\ ~Intended(p)
    BY <1>10, <1>11, <1>13
  <2>2. A \o B = << >>
    BY <2>1
  <2>3. b = << >>
    BY <1>12, <2>1, <2>2
  <2>4. Batch(L, b, polls, Quiet \cup Talk) /\ ToSet(b) = {}
    BY <2>3, NoneFits
  <2> QED
    BY <1>13, <2>1, <2>4 DEF Laid
<1>14. CASE p.decision # "NONE" /\ p.discipline = "NONE"
  <2>1. A = <<m>> /\ B = << >> /\ C = << >> /\ ~Intended(p)
    BY <1>10, <1>11, <1>14
  <2>2. Row(A)
    BY <2>1, RowOne
  <2>3. A \o B = A
    BY <2>1, <2>2, LineIs
  <2>4. b = <<m>>
    BY <1>12, <2>1, <2>2, <2>3, LineIs
  <2>5. Batch(L, b, polls, Quiet \cup Talk) /\ ToSet(b) = {m}
    BY <1>6, <2>4, OneFits
  <2>6. Ids(b) = {e.id : e \in ToSet(b)}
    BY <2>5, IdsOf DEF Batch
  <2> QED
    BY <1>2, <1>3, <1>5, <1>14, <2>1, <2>5, <2>6 DEF Laid
<1>15. CASE p.discipline # "NONE" /\ ~Intended(p)
  <2>1. A = <<m>> /\ B = <<d, r>> /\ C = << >>
    BY <1>10, <1>11, <1>15
  <2>2. A \o B = <<m, d, r>>
    BY <2>1, SmallRows
  <2>3. Row(<<m, d, r>>)
    BY RowThree
  <2>4. b = <<m, d, r>>
    BY <1>12, <2>1, <2>2, <2>3, LineIs
  <2>5. Batch(L, b, polls, Quiet \cup Talk)
    BY <1>6, <1>7, <1>8, <2>4, ThreeFit
  <2>6. ToSet(b) = {m, d, r} /\ Row(b)
    BY <2>4, RowThree
  <2>7. Ids(b) = {e.id : e \in ToSet(b)}
    BY <2>6, IdsOf
  <2> QED
    BY <1>2, <1>3, <1>5, <1>15, <2>5, <2>6, <2>7 DEF Laid
<1>16. CASE Intended(p)
  <2>1. A = <<m>> /\ B = <<d, r>> /\ C = <<i>>
    BY <1>10, <1>11, <1>16
  <2>2. A \o B = <<m, d, r>>
    BY <2>1, SmallRows
  <2>3. b = <<m, d, r, i>>
    <3>1. b = <<m, d, r>> \o <<i>>
      BY ONLY <1>12, <2>1, <2>2
    <3>2. <<m, d, r>> \o <<i>> = <<m, d, r, i>>
      BY SmallRows
    <3> QED
      BY ONLY <3>1, <3>2
  <2>4. Batch(L, b, polls, Quiet \cup Talk)
    BY <1>6, <1>7, <1>8, <1>9, <2>3, FourFit
  <2>5. ToSet(b) = {m, d, r, i} /\ Row(b)
    BY <2>3, RowFour
  <2>6. Ids(b) = {e.id : e \in ToSet(b)}
    BY <2>5, IdsOf
  <2> QED
    BY <1>2, <1>3, <1>5, <2>4, <2>5, <2>6 DEF Laid
<1> QED
  BY <1>13, <1>14, <1>15, <1>16

LEMMA JournalStep == ASSUME FunnelInv, JournalPlan PROVE FunnelInv'
<1>1. /\ step = "discuss" /\ queue = << >> /\ queue' = PlanRecords(plan) /\ step' = "plan"
      /\ written' = written /\ bar' = bar /\ scan' = scan /\ plan' = plan /\ polls' = polls
  BY DEF JournalPlan
<1>2. /\ Row(written) /\ polls \in Nat \ {0} /\ Standing(Line, polls) /\ DaysKept(ToSet(Line))
      /\ Holds(Line, polls, Quiet \cup Talk) /\ Seen(Line) /\ Meant(Line)
  <2>1. KindsBy(step) = Quiet \cup Talk
    BY <1>1 DEF KindsBy
  <2>2. polls \in Nat \ {0}
    BY <1>1, FunnelAssumption DEF FunnelInv, FunnelFiles, FunnelSteps
  <2>3. Holds(Line, polls, KindsBy(step)) /\ Seen(Line) /\ Meant(Line)
    BY <1>1 DEF FunnelInv, FunnelBar
  <2> QED
    BY <2>1, <2>2, <2>3 DEF FunnelInv, FunnelFiles
<1>3. PICK b : b = queue'
  OBVIOUS
<1>4. Batch(Line, b, polls, Quiet \cup Talk) /\ Laid(b, plan)
  <2>1. Sensible(plan)
    BY <1>2 DEF Meant, Sensible
  <2>2. PlanOf(b, plan)
    BY <1>1, <1>3, <2>1 DEF PlanOf
  <2> QED
    BY <1>2, <2>2, PlanFits
<1>5. \A r \in ToSet(b) : r.kind \in Planned /\ r.id[2] = polls /\ (r.kind = "INTENT" => r.says = plan.setup)
  BY <1>4 DEF Laid
<1>6. /\ Row(b) /\ Line = written /\ Standing(Line', polls)
      /\ ToSet(Line') = ToSet(Line) \cup ToSet(b) /\ Ids(Line') = Ids(Line) \cup Ids(b)
      /\ Holds(Line', polls, (Quiet \cup Talk) \cup Planned)
  BY <1>1, <1>2, <1>3, <1>4, <1>5, BatchJoins
<1>7. \A r \in ToSet(Line) : (r.id[2] = polls => r.kind \in Quiet \cup Talk) /\ Formed(r, polls)
  BY <1>2, HoldsIs
<1>8. Idle(ToSet(Line), ToSet(b))
  <2>1. \A r \in ToSet(Line) : r.kind = "EXECUTION" => r.id[2] # polls /\ \A m \in r.names : m[2] # polls
    BY <1>7 DEF Formed, Quiet, Talk
  <2> QED
    BY <1>5, <2>1 DEF Idle, Planned
<1>9. DaysKept(ToSet(Line')) /\ \A setup, at : Room(ToSet(Line), setup, at) => Room(ToSet(Line'), setup, at)
  BY <1>2, <1>6, <1>8, DaysKeptIdle
<1>10. FunnelFiles'
  BY <1>1, <1>3, <1>6, <1>9 DEF FunnelInv, FunnelFiles
<1>11. FunnelSteps'
  BY <1>1, <1>2 DEF FunnelSteps
<1>12. Seen(Line)'
  BY <1>1, <1>2, <1>6 DEF Seen
<1>13. Meant(Line)'
  <2>1. plan.resolved => plan.decision # "NONE" /\ <<"RESOLUTION", polls>> \in Ids(Line')
    BY <1>2, <1>6 DEF Meant
  <2>2. Intended(plan) => plan.discipline # "NONE" /\ Room(ToSet(Line'), plan.setup, bar)
    BY <1>2, <1>9 DEF Meant
  <2>3. plan.discipline # "NONE" => plan.decision # "NONE"
    BY <1>2 DEF Meant
  <2> QED
    BY <1>1, <2>1, <2>2, <2>3 DEF Meant, Intended
<1>14. Proposed(Line)'
  <2>1. \A i \in ToSet(Line') : i.kind = "INTENT" /\ i.id[2] = polls => i.says = plan.setup
    <3>1. \A i \in ToSet(Line) : i.id[2] = polls => i.kind # "INTENT"
      BY <1>7 DEF Quiet, Talk
    <3> QED
      BY <1>5, <1>6, <3>1
  <2>2. /\ plan.decision # "NONE" => <<"MASTER", polls>> \in Ids(Line')
        /\ plan.discipline # "NONE" => <<"DISCIPLINE", polls>> \in Ids(Line') /\ <<"RISK", polls>> \in Ids(Line')
        /\ Intended(plan) => <<"INTENT", polls>> \in Ids(Line')
    BY <1>4, <1>6 DEF Laid
  <2> QED
    BY <1>1, <2>1, <2>2 DEF Proposed, Intended
<1>15. FunnelBar'
  <2>1. KindsBy(step') = (Quiet \cup Talk) \cup Planned
    BY <1>1 DEF KindsBy
  <2>2. Holds(Line', polls', KindsBy(step'))
    BY <1>1, <1>6, <2>1
  <2> QED
    BY <1>1, <1>12, <1>13, <1>14, <2>2 DEF FunnelBar
<1> QED
  BY <1>10, <1>11, <1>15 DEF FunnelInv

LEMMA RowSame ==
  ASSUME NEW u, NEW w, Row(u), Row(w), Len(u) = Len(w), \A k \in 1..Len(u) : u[k] = w[k]
  PROVE  u = w
<1>1. u = [k \in 1..Len(u) |-> u[k]] /\ w = [k \in 1..Len(w) |-> w[k]]
  BY RowIs
<1> QED
  BY ONLY <1>1, Len(u) = Len(w), \A k \in 1..Len(u) : u[k] = w[k]

LEMMA RowAdd ==
  ASSUME NEW m, NEW d, NEW r
  PROVE  <<m>> \o <<d>> = <<m, d>> /\ <<m, d>> \o <<r>> = <<m, d, r>>
<1>1. <<m>> \o <<d>> = <<m, d>>
  <2>1. PICK s, t, u, w : s = <<m>> /\ t = <<d>> /\ u = s \o t /\ w = <<m, d>>
    OBVIOUS
  <2>2. Row(s) /\ Len(s) = 1 /\ s[1] = m /\ Row(t) /\ Len(t) = 1 /\ t[1] = d
    BY <2>1, RowOne
  <2>3. Joint(u, s, t)
    BY <2>1, <2>2, RowJoin DEF Joined
  <2>4. Row(u) /\ Len(u) = 2 /\ u[1] = m /\ \A k \in 1..1 : u[1 + k] = t[k]
    BY <2>2, <2>3 DEF Joint
  <2>5. Row(w) /\ Len(w) = 2 /\ w[1] = m /\ w[2] = d
    BY <2>1, RowTwo
  <2>6. u[1 + 1] = d /\ \A k \in 1..2 : k = 1 \/ k = 1 + 1
    BY <2>2, <2>4
  <2>7. u = w
    BY <2>4, <2>5, <2>6, RowSame
  <2> QED
    BY ONLY <2>1, <2>7
<1>2. <<m, d>> \o <<r>> = <<m, d, r>>
  <2>1. PICK s, t, u, w : s = <<m, d>> /\ t = <<r>> /\ u = s \o t /\ w = <<m, d, r>>
    OBVIOUS
  <2>2. Row(s) /\ Len(s) = 2 /\ s[1] = m /\ s[2] = d /\ Row(t) /\ Len(t) = 1 /\ t[1] = r
    BY <2>1, RowOne, RowTwo
  <2>3. Joint(u, s, t)
    BY <2>1, <2>2, RowJoin DEF Joined
  <2>4. Row(u) /\ Len(u) = 3 /\ u[1] = m /\ u[2] = d /\ \A k \in 1..1 : u[2 + k] = t[k]
    BY <2>2, <2>3 DEF Joint
  <2>5. Row(w) /\ Len(w) = 3 /\ w[1] = m /\ w[2] = d /\ w[3] = r
    BY <2>1, RowThree
  <2>6. u[2 + 1] = r /\ \A k \in 1..3 : k = 1 \/ k = 2 \/ k = 2 + 1
    BY <2>2, <2>4
  <2>7. u = w
    BY <2>4, <2>5, <2>6, RowSame
  <2> QED
    BY ONLY <2>1, <2>7
<1> QED
  BY <1>1, <1>2

(* What a cycle names has been told by then.                               *)
CycleNames ==
  {"SCAN", "CONTEXT"} \cup Has(plan.decision # "NONE", "MASTER")
    \cup (IF plan.discipline # "NONE" THEN {"DISCIPLINE", "RISK"} ELSE {})
    \cup (IF Intended(plan) THEN {"INTENT", "TRADE_PLAN", "EXECUTION"} ELSE {})
    \cup Has(plan.resolved, "RESOLUTION")

Ripe(L) == Seen(L) /\ Meant(L) /\ Proposed(L) /\ polls \in Nat \ {0}

Everything == (Quiet \cup Talk) \cup Planned

LEMMA CandidateFollows ==
  ASSUME NEW L, Ripe(L), scan.result \in Candidates, NEW before,
         Intended(plan) => <<"TRADE_PLAN", polls>> \in before /\ <<"EXECUTION", polls>> \in before
  PROVE  Follows(L, "CYCLE", CycleNames, before, polls, Everything)
<1>1. "CYCLE" \notin Everything /\ "CYCLE" # "RESOLUTION" /\ "CYCLE" \notin Quiet
  BY DEF Everything, Quiet, Talk, Planned
<1>2. <<"SCAN", polls>> \in Ids(L) /\ <<"CONTEXT", polls>> \in Ids(L)
  BY DEF Ripe, Seen
<1>3. /\ plan.decision # "NONE" => <<"MASTER", polls>> \in Ids(L)
      /\ plan.discipline # "NONE" =>
           plan.decision # "NONE" /\ <<"DISCIPLINE", polls>> \in Ids(L) /\ <<"RISK", polls>> \in Ids(L)
      /\ Intended(plan) => plan.discipline # "NONE" /\ <<"INTENT", polls>> \in Ids(L)
      /\ plan.resolved => plan.decision # "NONE" /\ <<"RESOLUTION", polls>> \in Ids(L)
  BY DEF Ripe, Meant, Proposed
<1>4. \A k \in CycleNames :
        \/ k \in {"SCAN", "CONTEXT"}
        \/ k = "MASTER" /\ plan.decision # "NONE"
        \/ k \in {"DISCIPLINE", "RISK"} /\ plan.discipline # "NONE"
        \/ k \in {"INTENT", "TRADE_PLAN", "EXECUTION"} /\ Intended(plan)
        \/ k = "RESOLUTION" /\ plan.resolved
  BY DEF CycleNames, Has
<1>5. \A k \in CycleNames : <<k, polls>> \in Ids(L) \/ <<k, polls>> \in before
  BY <1>2, <1>3, <1>4
<1>6. CycleNames \subseteq Quiet \/ <<"MASTER", polls>> \in Ids(L)
  <2>1. CASE plan.decision = "NONE"
    <3>1. plan.discipline = "NONE" /\ ~Intended(plan) /\ ~plan.resolved
      BY <1>3, <2>1
    <3> QED
      BY <1>4, <2>1, <3>1 DEF Quiet
  <2> QED
    BY <1>3, <2>1
<1> QED
  BY <1>1, <1>5, <1>6 DEF Follows

LEMMA QuietFits ==
  ASSUME NEW L, Ripe(L), NEW b, b = <<QuietCycle>>
  PROVE  Batch(L, b, polls, Everything) /\ \E x : ToSet(b) = {x} /\ x.kind = "CYCLE"
<1>1. PICK x, names : x = QuietCycle /\ names = {"SCAN"} \cup Has(scan.structure # "NONE", "CONTEXT")
  OBVIOUS
<1>2. x = Record("CYCLE", names, "QUIET")
  BY <1>1 DEF QuietCycle
<1>3. "CYCLE" \notin Everything /\ "CYCLE" # "RESOLUTION" /\ "CYCLE" \notin Quiet
  BY DEF Everything, Quiet, Talk, Planned
<1>4. names \subseteq Quiet /\ \A k \in names : <<k, polls>> \in Ids(L)
  BY <1>1 DEF Ripe, Seen, Has, Quiet
<1>5. Follows(L, "CYCLE", names, {}, polls, Everything)
  BY <1>3, <1>4 DEF Follows
<1>6. polls \in Nat \ {0}
  BY DEF Ripe
<1>7. Fits(L, x, {}, polls, Everything)
  BY <1>2, <1>5, <1>6, RecordFits
<1>8. Batch(L, b, polls, Everything) /\ ToSet(b) = {x}
  BY <1>1, <1>7, OneFits
<1>9. x.kind = "CYCLE"
  BY <1>2, RecordIs
<1> QED
  BY <1>8, <1>9

LEMMA CandidateFits ==
  ASSUME NEW L, Ripe(L), scan.result \in Candidates, ~Intended(plan), NEW b, b = <<CandidateCycle>>
  PROVE  Batch(L, b, polls, Everything) /\ \E x : ToSet(b) = {x} /\ x.kind = "CYCLE"
<1>1. PICK x : x = CandidateCycle
  OBVIOUS
<1>2. PICK says : x = Record("CYCLE", CycleNames, says)
  BY <1>1 DEF CandidateCycle, CycleNames
<1>3. polls \in Nat \ {0}
  BY DEF Ripe
<1>4. Fits(L, x, {}, polls, Everything)
  <2>1. Follows(L, "CYCLE", CycleNames, {}, polls, Everything)
    BY CandidateFollows
  <2> QED
    BY <1>2, <1>3, <2>1, RecordFits
<1>5. Batch(L, b, polls, Everything) /\ ToSet(b) = {x}
  BY <1>1, <1>4, OneFits
<1>6. x.kind = "CYCLE"
  BY <1>2, RecordIs
<1> QED
  BY <1>5, <1>6

(* The trade plan, the would-be execution of it, and the cycle.            *)
WouldSubmit(b, x, e, y) ==
  /\ ToSet(b) = {x, e, y} /\ x.kind = "TRADE_PLAN" /\ y.kind = "CYCLE"
  /\ e.kind = "EXECUTION" /\ e.at = bar /\ \A m \in e.names : m[2] = polls

LEMMA TradeFits ==
  ASSUME NEW L, Ripe(L), scan.result \in Candidates, Intended(plan),
         NEW b, b = <<TradePlan, Execution, CandidateCycle>>
  PROVE  Batch(L, b, polls, Everything) /\ \E x, e, y : WouldSubmit(b, x, e, y)
<1>1. PICK x, e, y : x = TradePlan /\ e = Execution /\ y = CandidateCycle
  OBVIOUS
<1>2. PICK says : y = Record("CYCLE", CycleNames, says)
  BY <1>1 DEF CandidateCycle, CycleNames
<1>3. /\ x = Record("TRADE_PLAN", {"SCAN", "INTENT", "MASTER", "DISCIPLINE", "RISK"}, plan.setup)
      /\ e = Record("EXECUTION", {"SCAN", "TRADE_PLAN", "INTENT"}, "WOULD_SUBMIT")
  BY <1>1 DEF TradePlan, Execution
<1>4. polls \in Nat \ {0}
  BY DEF Ripe
<1>5. /\ x.id = <<"TRADE_PLAN", polls>> /\ x.kind = "TRADE_PLAN"
      /\ e.id = <<"EXECUTION", polls>> /\ e.kind = "EXECUTION" /\ e.at = bar
      /\ e.names = {<<k, polls>> : k \in {"SCAN", "TRADE_PLAN", "INTENT"}}
      /\ y.id = <<"CYCLE", polls>> /\ y.kind = "CYCLE"
  BY <1>2, <1>3, RecordIs
<1>6. /\ "TRADE_PLAN" \notin Everything /\ "TRADE_PLAN" # "RESOLUTION" /\ "TRADE_PLAN" \notin Quiet
      /\ "TRADE_PLAN" \notin {"CYCLE", "EXECUTION"}
      /\ "EXECUTION" \notin Everything /\ "EXECUTION" # "RESOLUTION" /\ "EXECUTION" \notin Quiet
  BY DEF Everything, Quiet, Talk, Planned
<1>7. /\ <<"SCAN", polls>> \in Ids(L) /\ <<"MASTER", polls>> \in Ids(L) /\ <<"DISCIPLINE", polls>> \in Ids(L)
      /\ <<"RISK", polls>> \in Ids(L) /\ <<"INTENT", polls>> \in Ids(L)
  BY DEF Ripe, Seen, Meant, Proposed
<1>8. Fits(L, x, {}, polls, Everything) /\ x.id[1] = "TRADE_PLAN"
  <2>1. Follows(L, "TRADE_PLAN", {"SCAN", "INTENT", "MASTER", "DISCIPLINE", "RISK"}, {}, polls, Everything)
    BY <1>6, <1>7 DEF Follows
  <2> QED
    BY <1>3, <1>4, <2>1, RecordFits
<1>9. Fits(L, e, {x.id}, polls, Everything) /\ e.id[1] = "EXECUTION"
  <2>1. Follows(L, "EXECUTION", {"SCAN", "TRADE_PLAN", "INTENT"}, {x.id}, polls, Everything)
    BY <1>5, <1>6, <1>7 DEF Follows
  <2> QED
    BY <1>3, <1>4, <2>1, RecordFits
<1>10. Fits(L, y, {x.id, e.id}, polls, Everything) /\ y.id[1] = "CYCLE"
  <2>1. PICK before : before = {x.id, e.id}
    OBVIOUS
  <2>2. <<"TRADE_PLAN", polls>> \in before /\ <<"EXECUTION", polls>> \in before
    BY <1>5, <2>1
  <2>3. Follows(L, "CYCLE", CycleNames, before, polls, Everything)
    BY <2>2, CandidateFollows
  <2> QED
    BY <1>2, <1>4, <2>1, <2>3, RecordFits
<1>11. b = <<x, e, y>>
  BY <1>1
<1>12. Batch(L, b, polls, Everything)
  BY <1>8, <1>9, <1>10, <1>11, ThreeFit
<1>13. ToSet(b) = {x, e, y}
  BY <1>11, RowThree
<1>14. \A m \in e.names : m[2] = polls
  BY ONLY <1>5
<1> QED
  BY <1>5, <1>12, <1>13, <1>14 DEF WouldSubmit

(* Nothing of the poll in hand was executed yet, so the sink misses both.  *)
LEMMA SinkIsNew ==
  ASSUME Row(written), NEW m, Standing(written, m), Holds(written, polls, Everything)
  PROVE  SinkRecords = <<TradePlan, Execution>>
<1>1. PICK x, e : x = TradePlan /\ e = Execution
  OBVIOUS
<1>2. x.id = <<"TRADE_PLAN", polls>> /\ x.kind = "TRADE_PLAN" /\ e.id = <<"EXECUTION", polls>> /\ e.kind = "EXECUTION"
  <2>1. PICK setup : x = Record("TRADE_PLAN", {"SCAN", "INTENT", "MASTER", "DISCIPLINE", "RISK"}, setup)
    BY <1>1 DEF TradePlan
  <2>2. e = Record("EXECUTION", {"SCAN", "TRADE_PLAN", "INTENT"}, "WOULD_SUBMIT")
    BY <1>1 DEF Execution
  <2> QED
    BY <2>1, <2>2, RecordIs
<1>3. x.id[2] = polls /\ e.id[2] = polls
  BY ONLY <1>2
<1>4. \A r \in ToSet(written) : r.id[2] = polls => r.kind \in Everything
  BY HoldsIs
<1>5. x \notin ToSet(written) /\ e \notin ToSet(written)
  BY <1>2, <1>3, <1>4 DEF Everything, Quiet, Talk, Planned
<1>6. Missing(x) = <<x>> /\ Missing(e) = <<e>>
  BY <1>5 DEF Missing
<1>7. SinkRecords = Missing(x) \o Missing(e)
  BY <1>1 DEF SinkRecords
<1>8. SinkRecords = <<x>> \o <<e>>
  BY ONLY <1>6, <1>7
<1>9. <<x>> \o <<e>> = <<x, e>>
  BY RowAdd
<1> QED
  BY ONLY <1>1, <1>8, <1>9

LEMMA ConcludeStep == ASSUME FunnelInv, Conclude PROVE FunnelInv'
<1>1. /\ step = "plan" /\ queue = << >> /\ step' = "cycle"
      /\ queue' = IF scan.result \notin Candidates THEN <<QuietCycle>>
                  ELSE (IF Intended(plan) THEN SinkRecords ELSE << >>) \o <<CandidateCycle>>
      /\ written' = written /\ bar' = bar /\ scan' = scan /\ plan' = plan /\ polls' = polls
  BY DEF Conclude
<1>2. /\ Row(written) /\ polls \in Nat \ {0} /\ Standing(Line, polls) /\ DaysKept(ToSet(Line))
      /\ Holds(Line, polls, Everything) /\ Ripe(Line) /\ Line = written
  <2>1. KindsBy(step) = Everything
    BY <1>1 DEF KindsBy, Everything
  <2>2. polls \in Nat \ {0}
    BY <1>1, FunnelAssumption DEF FunnelInv, FunnelFiles, FunnelSteps
  <2>3. Holds(Line, polls, KindsBy(step)) /\ Seen(Line) /\ Meant(Line) /\ Proposed(Line)
    BY <1>1 DEF FunnelInv, FunnelBar
  <2>4. Row(written) /\ Standing(Line, polls) /\ DaysKept(ToSet(Line))
    BY DEF FunnelInv, FunnelFiles
  <2>5. Line = written
    BY <1>1, <2>4, LineIs DEF Line
  <2> QED
    BY <2>1, <2>2, <2>3, <2>4, <2>5 DEF Ripe
<1>3. PICK b : b = queue'
  OBVIOUS
<1>4. \/ scan.result \notin Candidates /\ b = <<QuietCycle>>
      \/ scan.result \in Candidates /\ ~Intended(plan) /\ b = <<CandidateCycle>>
      \/ scan.result \in Candidates /\ Intended(plan) /\ b = <<TradePlan, Execution, CandidateCycle>>
  <2>1. CASE scan.result \in Candidates /\ ~Intended(plan)
    <3>1. PICK y : y = CandidateCycle
      OBVIOUS
    <3>2. b = << >> \o <<y>>
      BY <1>1, <1>3, <2>1, <3>1
    <3>3. b = <<y>>
      BY ONLY <3>2
    <3> QED
      BY <2>1, <3>1, <3>3
  <2>2. CASE scan.result \in Candidates /\ Intended(plan)
    <3>1. PICK x, e, y : x = TradePlan /\ e = Execution /\ y = CandidateCycle
      OBVIOUS
    <3>2. SinkRecords = <<x, e>>
      BY <1>2, <3>1, SinkIsNew
    <3>3. b = SinkRecords \o <<y>>
      BY <1>1, <1>3, <2>2, <3>1
    <3>4. b = <<x, e>> \o <<y>>
      BY ONLY <3>2, <3>3
    <3>5. <<x, e>> \o <<y>> = <<x, e, y>>
      BY RowAdd
    <3>6. b = <<x, e, y>>
      BY ONLY <3>4, <3>5
    <3> QED
      BY <2>2, <3>1, <3>6
  <2> QED
    BY <1>1, <1>3, <2>1, <2>2
<1>5. \/ Batch(Line, b, polls, Everything) /\ \E x : ToSet(b) = {x} /\ x.kind = "CYCLE"
      \/ /\ Batch(Line, b, polls, Everything) /\ Intended(plan)
         /\ \E x, e, y : WouldSubmit(b, x, e, y)
  BY <1>2, <1>4, QuietFits, CandidateFits, TradeFits
<1>6. /\ Row(b) /\ Standing(Line', polls) /\ ToSet(Line') = ToSet(Line) \cup ToSet(b)
  BY <1>1, <1>2, <1>3, <1>5, BatchJoins
<1>7. DaysKept(ToSet(Line'))
  <2>1. CASE \E x : ToSet(b) = {x} /\ x.kind = "CYCLE"
    <3>1. Idle(ToSet(Line), ToSet(b))
      BY <2>1 DEF Idle
    <3> QED
      BY <1>2, <1>6, <3>1, DaysKeptIdle
  <2>2. CASE Intended(plan) /\ \E x, e, y : WouldSubmit(b, x, e, y)
    <3>1. PICK x, e, y : WouldSubmit(b, x, e, y)
      BY <2>2
    <3>2. /\ ToSet(b) = {x, e, y} /\ x.kind = "TRADE_PLAN" /\ y.kind = "CYCLE"
          /\ e.kind = "EXECUTION" /\ e.at = bar /\ \A m \in e.names : m[2] = polls
      BY <3>1 DEF WouldSubmit
    <3>3. PICK R, U : R = ToSet(Line) /\ U = R \cup {e}
      OBVIOUS
    <3>4. Room(R, plan.setup, e.at)
      BY <1>2, <2>2, <3>2, <3>3 DEF Ripe, Meant
    <3>5. \A i \in R : i.kind = "INTENT" /\ i.id \in e.names => i.says = plan.setup
      BY <1>2, <3>2, <3>3 DEF Ripe, Proposed
    <3>6. DaysKept(U)
      <4>1. IsFiniteSet(R) /\ DaysKept(R)
        BY <1>2, <3>3, HoldsIs
      <4> QED
        BY <3>2, <3>3, <3>4, <3>5, <4>1, DaysKeptWith
    <3>7. Idle(U, {x, y}) /\ ToSet(Line') = U \cup {x, y}
      BY <1>6, <3>2, <3>3 DEF Idle
    <3> QED
      BY <3>6, <3>7, DaysKeptIdle
  <2> QED
    BY <1>5, <2>1, <2>2
<1>8. FunnelFiles'
  BY <1>1, <1>3, <1>6, <1>7 DEF FunnelInv, FunnelFiles
<1>9. FunnelSteps'
  BY <1>1, <1>2 DEF FunnelSteps
<1>10. FunnelBar'
  BY <1>1 DEF FunnelBar
<1> QED
  BY <1>8, <1>9, <1>10 DEF FunnelInv

LEMMA FunnelStays == ASSUME FunnelInv, UNCHANGED funnelVars PROVE FunnelInv'
<1>1. /\ written' = written /\ queue' = queue /\ polls' = polls /\ step' = step
      /\ scan' = scan /\ plan' = plan /\ bar' = bar
  BY DEF funnelVars
<1>2. Line' = Line
  BY <1>1 DEF Line
<1>3. FunnelFiles'
  BY <1>1, <1>2 DEF FunnelInv, FunnelFiles
<1>4. FunnelSteps'
  BY <1>1 DEF FunnelInv, FunnelSteps
<1>5. FunnelBar'
  <2>1. FunnelBar
    BY DEF FunnelInv
  <2>2. /\ Seen(Line)' = Seen(Line) /\ Seen(written)' = Seen(written)
        /\ Meant(Line)' = Meant(Line) /\ Proposed(Line)' = Proposed(Line)
    BY <1>1, <1>2 DEF Seen, Meant, Proposed, Intended
  <2>3. Holds(Line, polls, KindsBy(step))' = Holds(Line, polls, KindsBy(step))
    BY <1>1, <1>2
  <2> QED
    BY <1>1, <2>1, <2>2, <2>3 DEF FunnelBar
<1> QED
  BY <1>3, <1>4, <1>5 DEF FunnelInv

(* Whatever is done with a bar, and wherever it is cut short.              *)
LEMMA FunnelStep == ASSUME FunnelInv, [FunnelNext]_funnelVars PROVE FunnelInv'
<1>1. CASE StartProcess
  BY <1>1, RestSteps
<1>2. CASE PollCompleted
  BY <1>2, PollStep
<1>3. CASE ScanBar
  BY <1>3, ScanStep
<1>4. CASE Write
  BY <1>4, WriteStep
<1>5. CASE DecideOnBar
  BY <1>5, DecideStep
<1>6. CASE DiscussionFails
  BY <1>6, DiscussionFailsStep
<1>7. CASE JournalPlan
  BY <1>7, JournalStep
<1>8. CASE Conclude
  BY <1>8, ConcludeStep
<1>9. CASE BarDone
  BY <1>9, RestSteps
<1>10. CASE Halt
  BY <1>10, HaltStep
<1>11. CASE UNCHANGED funnelVars
  BY <1>11, FunnelStays
<1> QED
  BY <1>1, <1>2, <1>3, <1>4, <1>5, <1>6, <1>7, <1>8, <1>9, <1>10, <1>11 DEF FunnelNext

LEMMA FunnelInvariant == FunnelSpec => []FunnelInv
<1>1. FunnelInit => FunnelInv
  BY FunnelStarts
<1>2. FunnelInv /\ [FunnelNext]_funnelVars => FunnelInv'
  BY FunnelStep
<1> QED
  BY <1>1, <1>2, PTL DEF FunnelSpec

(* The journal is the line without what is still to be appended.           *)
LEMMA JournalOfLine ==
  ASSUME FunnelInv
  PROVE  /\ Standing(written, polls) /\ DaysKept(ToSet(written))
         /\ polls \in Nat /\ polls <= MaxPolls
<1>1. Row(written) /\ Row(queue) /\ Standing(Line, polls) /\ DaysKept(ToSet(Line)) /\ polls \in 0..MaxPolls
  BY DEF FunnelInv, FunnelFiles
<1>2. Joint(Line, written, queue)
  BY <1>1, RowJoin DEF Line, Joined
<1>3. Len(written) \in Nat /\ Len(queue) \in Nat
  BY <1>1, RowIs
<1>4. Len(written) <= Len(Line) /\ (\A i \in 1..Len(written) : written[i] = Line[i])
      /\ ToSet(written) \subseteq ToSet(Line)
  BY <1>2, <1>3 DEF Joint
<1>5. Standing(written, polls)
  BY <1>1, <1>4, StandingBefore
<1>6. DaysKept(ToSet(written))
  <2>1. IsFiniteSet(ToSet(Line))
    BY <1>1, HoldsIs
  <2> QED
    BY <1>1, <1>4, <2>1, DaysKeptBelow
<1> QED
  BY <1>1, <1>5, <1>6, FunnelAssumption

(* Every cycle and every would-be execution in the shadow's journal can be *)
(* explained from what is journaled before it, and every completed round   *)
(* has heard both sides: whatever the bars show, whatever plan is handed   *)
(* over, and whichever append the process dies or fails at.                *)
THEOREM DecisionsExplained == FunnelSpec => []DecisionsOnRecord
<1>1. FunnelInv => DecisionsOnRecord
  <2> SUFFICES ASSUME FunnelInv PROVE DecisionsOnRecord
    OBVIOUS
  <2>1. Standing(written, polls) /\ polls \in Nat /\ polls <= MaxPolls
    BY JournalOfLine
  <2>2. Grounded
    BY <2>1, StandingGrounds
  <2>3. BothHeard
    BY <2>1, StandingHeard
  <2> QED
    BY <2>2, <2>3 DEF DecisionsOnRecord
<1> QED
  BY <1>1, FunnelInvariant, PTL

(* The entries a day holds keep to the cap of the Discipline Guard, and to *)
(* one entry of a setup when it forbids repetition, although each process  *)
(* knows of the day's entries only what the journal of the ones before it  *)
(* tells.                                                                  *)
THEOREM DaysOfEntriesKept == FunnelSpec => []DaysKept(ToSet(written))
<1>1. FunnelInv => DaysKept(ToSet(written))
  BY JournalOfLine
<1> QED
  BY <1>1, FunnelInvariant, PTL

(* Where the guard forbids to repeat a setup or a thesis, as it does unless*)
(* told otherwise, no day of the shadow holds a setup twice, nor more      *)
(* entries than its cap.                                                   *)
THEOREM ShadowDisciplineKept ==
  ASSUME Strict PROVE FunnelSpec => []ShadowKeepsDiscipline
<1>1. FunnelInv => ShadowKeepsDiscipline
  <2> SUFFICES ASSUME FunnelInv,
                      NEW r \in OfKind("EXECUTION"), NEW s \in OfKind("EXECUTION"),
                      DayOf(r.at) = DayOf(s.at)
               PROVE  /\ Cardinality({x \in OfKind("EXECUTION") : DayOf(x.at) = DayOf(r.at)}) <= Cadence.maxPerDay
                      /\ \A i, j \in OfKind("INTENT") :
                           r # s /\ i.id \in r.names /\ j.id \in s.names => i.says # j.says
    BY DEF ShadowKeepsDiscipline
  <2>1. CapKept(ToSet(written)) /\ SetupsApart(ToSet(written))
    BY JournalOfLine DEF DaysKept
  <2>2. /\ r \in ToSet(written) /\ r.kind = "EXECUTION"
        /\ s \in ToSet(written) /\ s.kind = "EXECUTION"
        /\ \A i \in OfKind("INTENT") : i \in ToSet(written) /\ i.kind = "INTENT"
    BY DEF OfKind
  <2>3. {x \in OfKind("EXECUTION") : DayOf(x.at) = DayOf(r.at)} = Executed(ToSet(written), r.at)
    BY DEF OfKind, Executed
  <2>4. Cardinality({x \in OfKind("EXECUTION") : DayOf(x.at) = DayOf(r.at)}) <= Cadence.maxPerDay
    BY <2>1, <2>2, <2>3 DEF CapKept
  <2>5. \A i, j \in OfKind("INTENT") :
          r # s /\ i.id \in r.names /\ j.id \in s.names => i.says # j.says
    BY <2>1, <2>2 DEF SetupsApart
  <2> QED
    BY <2>4, <2>5
<1> QED
  BY <1>1, FunnelInvariant, PTL

=============================================================================
