----------------------------- MODULE Reflections -----------------------------
(***************************************************************************)
(* From experiences to improvement proposals, by three commands that each  *)
(* read the records below them and append to a store of their own:         *)
(*   build-daily      experiences                     -> dailies           *)
(*   build-weekly     dailies, experiences            -> weeklies          *)
(*   build-proposals  weeklies, dailies, experiences  -> proposals         *)
(* A command reads its sources one after the other and computes from what  *)
(* it read, while the others go on; a record that differs from the latest  *)
(* of its subject supersedes it.  Stores only grow, so a reader remembers  *)
(* how far each reached.  How two appends of one subject fork a history is *)
(* in Governance: here the later of them is refused.                       *)
(*                                                                         *)
(* An experience is a trade of a day, won or lost, and a finding what the  *)
(* majority of a day's trades says, if there are enough.                   *)
(***************************************************************************)
EXTENDS Naturals, Sequences, FiniteSets, SequencesExt

CONSTANTS
  Facts,           (* experiences: [day, won]                              *)
  Early,           (* those that are there before any command              *)
  Weeks,           (* how many                                             *)
  WeekLength,      (* seven                                                *)
  MinSamples, MinDays, MinExperiences, MinWeeks,   (* policies             *)
  Builders,        (* processes                                            *)
  Ranges,          (* bound: the dates, by kind, that a command is given   *)
  MaxRevisions     (* bound: records of each history                       *)

ASSUME ReflectionPolicyAssumption ==
  MinSamples \in Nat \ {0} /\ MinDays >= 2 /\ MinExperiences \in Nat \ {0} /\ MinWeeks >= 2

VARIABLES
  experiences,     (* durable                                              *)
  dailies,         (* durable: by day, the inputs of each revision         *)
  weeklies,        (* durable: by week, each revision's revision of a day, *)
                   (* 0 for a missing one                                  *)
  proposals,       (* durable: by pattern key, the weekly revisions each   *)
                   (* rests on, 0 for a week that is none of them          *)
  builder          (* where each process is and what it has read           *)

reflectionVars == <<experiences, dailies, weeklies, proposals, builder>>

Days == 1..(Weeks * WeekLength)
DaysOf(week) == ((week - 1) * WeekLength + 1)..(week * WeekLength)

ASSUME ReflectionRangesAssumption ==
  /\ Weeks \in Nat /\ WeekLength \in Nat /\ Early \subseteq Facts
  /\ Ranges.DAILY \subseteq SUBSET Days /\ Ranges.WEEKLY \subseteq SUBSET (1..Weeks)

Keys == {"SUCCESS", "FAILURE"}

(* Proposals are appended in the order of their keys' hashes.              *)
KeyOrder == <<"FAILURE", "SUCCESS">>

(* What a reader has seen of each store.                                   *)
Unseen == [DAILY |-> [d \in Days |-> 0], WEEKLY |-> [w \in 1..Weeks |-> 0], EXPERIENCE |-> {}]

Resting == [kind |-> "NONE", reads |-> <<>>, seen |-> Unseen, todo |-> {}]

ReflectionInit ==
  /\ experiences = Early
  /\ dailies = [d \in Days |-> <<>>]
  /\ weeklies = [w \in 1..Weeks |-> <<>>]
  /\ proposals = [k \in Keys |-> <<>>]
  /\ builder = [b \in Builders |-> Resting]

-----------------------------------------------------------------------------
(* WHAT IS BUILT                                                           *)

(* build_daily_reflection: the experiences available during the day.       *)
Daily(seen, day) == {x \in seen.EXPERIENCE : x.day = day}

(* _grouped_trade_outcomes, behind its sample guard.                       *)
Finding(inputs) ==
  LET won  == Cardinality({x \in inputs : x.won})
      lost == Cardinality(inputs) - won
  IN CASE Cardinality(inputs) < MinSamples -> "INSUFFICIENT"
       [] Cardinality(inputs) >= MinSamples /\ won > lost -> "SUCCESS"
       [] Cardinality(inputs) >= MinSamples /\ won < lost -> "FAILURE"
       [] OTHER -> "NEUTRAL"

(* build_weekly_reflection: the terminal reflection of each day.           *)
Weekly(seen, week) == [d \in DaysOf(week) |-> seen.DAILY[d]]

Complete(weekly) == \A d \in DOMAIN weekly : weekly[d] > 0

Inputs(weekly) == UNION {dailies[d][weekly[d]] : d \in {e \in DOMAIN weekly : weekly[e] > 0}}

Support(weekly, key) == {d \in DOMAIN weekly : Finding(dailies[d][weekly[d]]) = key}

Evidence(weekly, key) == UNION {dailies[d][weekly[d]] : d \in Support(weekly, key)}

(* _patterns, of a complete week: enough days, enough experiences.         *)
HasPattern(weekly, key) ==
  /\ Complete(weekly)
  /\ Cardinality(Support(weekly, key)) >= MinDays
  /\ Cardinality(Evidence(weekly, key)) >= MinExperiences

(* build_improvement_proposals: the terminal reflections of the weeks that *)
(* show the pattern.                                                       *)
Showing(seen, key) ==
  {w \in 1..Weeks : seen.WEEKLY[w] > 0 /\ HasPattern(weeklies[w][seen.WEEKLY[w]], key)}

(* Mutant: every revision of a week is an observation.                     *)
EligibleMutant(seen, key) ==
  Cardinality({o \in (1..Weeks) \X (1..MaxRevisions) :
                 o[2] <= seen.WEEKLY[o[1]] /\ HasPattern(weeklies[o[1]][o[2]], key)}) >= MinWeeks

Eligible(seen, key) == Cardinality(Showing(seen, key)) >= MinWeeks

Proposal(seen, key) == [w \in 1..Weeks |-> IF w \in Showing(seen, key) THEN seen.WEEKLY[w] ELSE 0]

-----------------------------------------------------------------------------
(* THE COMMANDS                                                            *)

(* Mutant: experiences first.                                              *)
SourcesMutant(kind) ==
  CASE kind = "DAILY" -> <<"EXPERIENCE">>
    [] kind = "WEEKLY" -> <<"EXPERIENCE", "DAILY">>
    [] OTHER -> <<"WEEKLY", "DAILY", "EXPERIENCE">>

(* What each reads, in this order.                                         *)
Sources(kind) ==
  CASE kind = "DAILY" -> <<"EXPERIENCE">>
    [] kind = "WEEKLY" -> <<"DAILY", "EXPERIENCE">>
    [] OTHER -> <<"WEEKLY", "DAILY", "EXPERIENCE">>

Stored(store) ==
  CASE store = "EXPERIENCE" -> experiences
    [] store = "DAILY" -> [d \in Days |-> Len(dailies[d])]
    [] OTHER -> [w \in 1..Weeks |-> Len(weeklies[w])]

(* A command with its range of dates, and its first read.                  *)
Command(b) ==
  /\ builder[b].kind = "NONE"
  /\ \E kind \in {"DAILY", "WEEKLY", "PROPOSAL"} : \E subjects \in Ranges[kind] :
       LET first == Head(Sources(kind))
       IN builder' = [builder EXCEPT ![b] =
            [kind |-> kind, reads |-> Tail(Sources(kind)),
             seen |-> [Unseen EXCEPT ![first] = Stored(first)], todo |-> subjects]]
  /\ UNCHANGED <<experiences, dailies, weeklies, proposals>>

Read(b) ==
  /\ builder[b].reads # <<>>
  /\ LET store == Head(builder[b].reads)
     IN builder' = [builder EXCEPT ![b].seen[store] = Stored(store), ![b].reads = Tail(@)]
  /\ UNCHANGED <<experiences, dailies, weeklies, proposals>>

(* _validate_provenance: a source that is named and not seen raises.       *)
InSight(seen, kind, subject) ==
  CASE kind = "DAILY" -> TRUE
    [] kind = "WEEKLY" -> Inputs(Weekly(seen, subject)) \subseteq seen.EXPERIENCE
    [] OTHER -> \A w \in Showing(seen, KeyOrder[subject]) :
                  LET weekly == weeklies[w][seen.WEEKLY[w]]
                  IN /\ \A d \in Support(weekly, KeyOrder[subject]) : weekly[d] <= seen.DAILY[d]
                     /\ Evidence(weekly, KeyOrder[subject]) \subseteq seen.EXPERIENCE

(* A record that says what the latest says is not appended again.          *)
Superseding(chain, record) ==
  IF chain # <<>> /\ Last(chain) = record THEN {chain}
  ELSE IF Len(chain) < MaxRevisions THEN {Append(chain, record)} ELSE {}

Ready(b, kind) == builder[b].kind = kind /\ builder[b].reads = <<>>

(* The next subject, in ascending order.                                   *)
Subject(b) == CHOOSE s \in builder[b].todo : \A t \in builder[b].todo : s <= t

Done(b, subject) ==
  \/ builder[b].todo = {subject} /\ builder' = [builder EXCEPT ![b] = Resting]
  \/ builder[b].todo # {subject} /\ builder' = [builder EXCEPT ![b].todo = @ \ {subject}]

BuildDaily(b) ==
  /\ Ready(b, "DAILY")
  /\ \E chain \in Superseding(dailies[Subject(b)], Daily(builder[b].seen, Subject(b))) :
       dailies' = [dailies EXCEPT ![Subject(b)] = chain]
  /\ Done(b, Subject(b))
  /\ UNCHANGED <<experiences, weeklies, proposals>>

BuildWeekly(b) ==
  /\ Ready(b, "WEEKLY") /\ InSight(builder[b].seen, "WEEKLY", Subject(b))
  /\ \E chain \in Superseding(weeklies[Subject(b)], Weekly(builder[b].seen, Subject(b))) :
       weeklies' = [weeklies EXCEPT ![Subject(b)] = chain]
  /\ Done(b, Subject(b))
  /\ UNCHANGED <<experiences, dailies, proposals>>

(* All keys are assessed before the first proposal is appended.  There is  *)
(* none for a pattern that an operator has rejected (in Governance).       *)
BuildProposal(b) ==
  LET seen == builder[b].seen
      key  == KeyOrder[Subject(b)]
  IN
  /\ Ready(b, "PROPOSAL") /\ \A n \in DOMAIN KeyOrder : InSight(seen, "PROPOSAL", n)
  /\ \/ /\ Eligible(seen, key)
        /\ \E chain \in Superseding(proposals[key], Proposal(seen, key)) :
             proposals' = [proposals EXCEPT ![key] = chain]
     \/ UNCHANGED proposals
  /\ Done(b, Subject(b))
  /\ UNCHANGED <<experiences, dailies, weeklies>>

(* It raises or dies; what it has appended stays.                          *)
Abandon(b) ==
  /\ builder[b].kind # "NONE" /\ builder' = [builder EXCEPT ![b] = Resting]
  /\ UNCHANGED <<experiences, dailies, weeklies, proposals>>

(* An experience, of today or late.                                        *)
Experience ==
  /\ \E x \in Facts \ experiences : experiences' = experiences \cup {x}
  /\ UNCHANGED <<dailies, weeklies, proposals, builder>>

ReflectionNext ==
  \/ Experience
  \/ \E b \in Builders :
       Command(b) \/ Read(b) \/ BuildDaily(b) \/ BuildWeekly(b) \/ BuildProposal(b) \/ Abandon(b)

ReflectionSpec == ReflectionInit /\ [][ReflectionNext]_reflectionVars

-----------------------------------------------------------------------------
(* PROPERTIES                                                              *)

(* Every proposal that was ever recorded rests on distinct complete weeks  *)
(* of terminal or superseded reflections, on days of each whose findings   *)
(* agree, on enough experiences that are all there: whatever arrived late, *)
(* was revised, or was built at the same time.                             *)
ProposalsStandOnEvidence ==
  \A key \in Keys : \A n \in DOMAIN proposals[key] :
    LET weeks == {w \in 1..Weeks : proposals[key][n][w] > 0} IN
    /\ Cardinality(weeks) >= MinWeeks
    /\ \A w \in weeks :
         /\ proposals[key][n][w] \in DOMAIN weeklies[w]
         /\ LET weekly == weeklies[w][proposals[key][n][w]]
                days   == {d \in DaysOf(w) : weekly[d] \in DOMAIN dailies[d]}
                agree  == {d \in days : Finding(dailies[d][weekly[d]]) = key}
                trades == UNION {dailies[d][weekly[d]] : d \in agree}
            IN /\ days = DaysOf(w) /\ Cardinality(agree) >= MinDays
               /\ trades \subseteq experiences /\ Cardinality(trades) >= MinExperiences
               /\ \A x \in trades : x.day \in agree

(* Whatever is appended while a command reads, once it has read all of its *)
(* sources it misses none that is named: it never fails on provenance.     *)
SourcesInSight ==
  \A b \in Builders :
    builder[b].kind # "NONE" /\ builder[b].reads = <<>> =>
      \A subject \in builder[b].todo : InSight(builder[b].seen, builder[b].kind, subject)
=============================================================================
