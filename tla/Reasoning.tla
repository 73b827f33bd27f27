------------------------------ MODULE Reasoning ------------------------------
(***************************************************************************)
(* Explanations of reflections by a local language model: one request, the *)
(* attempts at it and the append-only store they are recorded in.  A       *)
(* caller is one run of run-reflection-explanation:                        *)
(*   idle -> looked -> [persisting ->] auditing -> idle                    *)
(* Each transaction of the store begins with BEGIN IMMEDIATE and is one    *)
(* step; what a caller has read before it may be old by then.  The call of *)
(* the provider touches nothing that is shared and goes with the read      *)
(* before it.  Nothing is read across requests.  Times and token counts    *)
(* are audit data: outside the identity of an attempt, not outside its     *)
(* bytes.  An answer that is lost before its file is written counts as     *)
(* given: whoever asks again must be given the same.                       *)
(***************************************************************************)
EXTENDS Naturals, Sequences

CONSTANTS
  Callers,        (* processes                                             *)
  AttemptKeys,
  Explanations,   (* contents of a ReflectionExplanation                   *)
  Unreadable,     (* contents that do not validate                         *)
  Allowed,        (* ids of the request's sources and context items        *)
  Sightings,      (* what the provider tells of itself                     *)
  Replies         (* what it completes with                                *)

NoResponse == "NONE"

ASSUME ReasoningAssumption ==
  /\ NoResponse \notin Explanations
  /\ \A seen \in Sightings :
       /\ seen.link \in {"OK", "HTTP", "TIMEOUT", "REFUSED", "OVERSIZED"}
       /\ {seen.json, seen.version, seen.digest} \subseteq BOOLEAN /\ seen.named \in Nat
  /\ \A reply \in Replies :
       /\ reply.link \in {"OK", "HTTP", "TIMEOUT", "REFUSED", "OVERSIZED"}
       /\ {reply.terminal, reply.thinking} \subseteq BOOLEAN
       /\ reply.content \in Explanations \cup {Unreadable}

VARIABLES
  asked,       (* durable: the request is there, asked for under these keys*)
  responses,   (* durable: llm_reasoning_responses                         *)
  attempts,    (* durable: llm_reasoning_attempts, by attempt_sequence     *)
  caller,      (* where each process is                                    *)
  answers      (* what callers were given: <<key, [status, response]>>     *)

reasoningVars == <<asked, responses, attempts, caller, answers>>

ReusePolicies == {"NEVER_REUSE", "REUSE_FIRST_COMPLETED_EXACT"}

Outcome(status, response) == [status |-> status, response |-> response]

Attempt(key, result) == [key |-> key, status |-> result.status, response |-> result.response]

(* A caller: its key and policy, the draft of its attempt, and whether     *)
(* that is appended inside the try of run_reflection_explanation.          *)
AtRest ==
  [at |-> "idle", key |-> NoResponse, policy |-> "NEVER_REUSE",
   draft |-> Outcome(NoResponse, NoResponse), inTry |-> FALSE]

ReasoningInit ==
  /\ asked = {} /\ responses = {} /\ attempts = <<>> /\ answers = {}
  /\ caller = [c \in Callers |-> AtRest]

Leave(c) == caller' = [caller EXCEPT ![c] = AtRest]

(* The attempt to be audited.                                              *)
Conclude(c, status, response, inTry) ==
  caller' = [caller EXCEPT ![c].at = "auditing", ![c].draft = Outcome(status, response),
                           ![c].inTry = inTry]

-----------------------------------------------------------------------------
(* THE PROVIDER                                                            *)

(* The transport's exceptions.                                             *)
LinkFailure ==
  [HTTP |-> "HTTP_ERROR", TIMEOUT |-> "TIMEOUT", REFUSED |-> "CONNECTION_ERROR",
   OVERSIZED |-> "INVALID_RESPONSE"]

(* OllamaProvider.verify_identity: the server's version, one model of the  *)
(* name, its digest.                                                       *)
Identity(seen) ==
  CASE seen.link # "OK" -> LinkFailure[seen.link]
    [] seen.link = "OK" /\ ~seen.json -> "INVALID_RESPONSE"
    [] seen.link = "OK" /\ seen.json /\ ~seen.version -> "MODEL_IDENTITY_MISMATCH"
    [] seen.link = "OK" /\ seen.json /\ seen.version /\ seen.named = 0 -> "MODEL_UNAVAILABLE"
    [] OTHER -> IF seen.named = 1 /\ seen.digest THEN "VERIFIED" ELSE "MODEL_IDENTITY_MISMATCH"

(* OllamaProvider.complete, and what the service asks of a completion.     *)
Completion(reply) ==
  CASE reply.link # "OK" -> LinkFailure[reply.link]
    [] reply.link = "OK" /\ (~reply.terminal \/ reply.thinking) -> "INVALID_RESPONSE"
    [] OTHER -> "RECEIVED"

(* ReflectionExplanation and from_request: it cites what it was shown.     *)
Valid(reply) == reply.content # Unreadable /\ reply.cites \subseteq Allowed

-----------------------------------------------------------------------------
(* THE STORE                                                               *)

Of(key) == {i \in DOMAIN attempts : attempts[i].key = key}

AttemptOf(key) == attempts[CHOOSE i \in Of(key) : TRUE]

(* _result: the attempt under a key, as callers are told of it.            *)
Recorded(key) ==
  IF Of(key) = {} THEN Outcome(NoResponse, NoResponse)
  ELSE Outcome(AttemptOf(key).status, AttemptOf(key).response)

Completed == {i \in DOMAIN attempts : attempts[i].status = "COMPLETED"}

(* Mutant: the last one.                                                   *)
FirstCompletedMutant ==
  IF Completed = {} THEN NoResponse
  ELSE attempts[CHOOSE i \in Completed : \A j \in Completed : j <= i].response

FirstCompleted ==
  IF Completed = {} THEN NoResponse
  ELSE attempts[CHOOSE i \in Completed : \A j \in Completed : i <= j].response

-----------------------------------------------------------------------------
(* THE SERVICE                                                             *)

(* The input is validated, the request recorded or found, and the attempts *)
(* at it are read: one under the key is the answer, also a failed one.     *)
Request(c) ==
  /\ caller[c].at = "idle"
  /\ \E key \in AttemptKeys, policy \in ReusePolicies :
       /\ asked' = asked \cup {key}
       /\ \/ /\ Of(key) # {}
             /\ answers' = answers \cup {<<key, Recorded(key)>>}
             /\ UNCHANGED caller
          \/ /\ Of(key) = {}
             /\ caller' = [caller EXCEPT ![c] = [AtRest EXCEPT !.at = "looked", !.key = key, !.policy = policy]]
             /\ UNCHANGED answers
  /\ UNCHANGED <<responses, attempts>>

(* The attempts are read again, for one that completed.                    *)
Reusable(c) == caller[c].policy = "REUSE_FIRST_COMPLETED_EXACT" /\ FirstCompleted # NoResponse

Reuse(c) ==
  /\ caller[c].at = "looked" /\ Reusable(c)
  /\ Conclude(c, "REUSED", FirstCompleted, FALSE)
  /\ UNCHANGED <<asked, responses, attempts, answers>>

(* The provider is asked who it is, then to complete.                      *)
Generate(c) ==
  /\ caller[c].at = "looked" /\ ~Reusable(c)
  /\ \/ \E seen \in Sightings :
          Identity(seen) # "VERIFIED" /\ Conclude(c, Identity(seen), NoResponse, FALSE)
     \/ /\ \E seen \in Sightings : Identity(seen) = "VERIFIED"
        /\ \E reply \in Replies :
             CASE Completion(reply) # "RECEIVED" -> Conclude(c, Completion(reply), NoResponse, FALSE)
               [] Completion(reply) = "RECEIVED" /\ ~Valid(reply) ->
                    Conclude(c, "INVALID_RESPONSE", NoResponse, TRUE)
               [] OTHER -> caller' = [caller EXCEPT ![c].at = "persisting",
                                                    ![c].draft = Outcome("COMPLETED", reply.content)]
  /\ UNCHANGED <<asked, responses, attempts, answers>>

(* An exception that nobody has a name for.                                *)
Unexpected(c) ==
  /\ \/ caller[c].at = "looked" /\ ~Reusable(c)
     \/ caller[c].at = "persisting"
  /\ Conclude(c, "PROVIDER_ERROR", NoResponse, FALSE)
  /\ UNCHANGED <<asked, responses, attempts, answers>>

(* append_response, in a transaction of its own.                           *)
Persist(c) ==
  /\ caller[c].at = "persisting"
  /\ responses' = responses \cup {caller[c].draft.response}
  /\ Conclude(c, "COMPLETED", caller[c].draft.response, TRUE)
  /\ UNCHANGED <<asked, attempts, answers>>

(* append_attempt.  A second attempt under a key is refused unless it is   *)
(* the first one to the byte.                                              *)
Appendable(c) ==
  /\ Of(caller[c].key) = {}
  /\ caller[c].draft.response # NoResponse => caller[c].draft.response \in responses

Give(c) ==
  /\ answers' = answers \cup {<<caller[c].key, caller[c].draft>>}
  /\ Leave(c)

AppendAttemptMutant(c) ==
  /\ caller[c].at = "auditing"
  /\ attempts' = Append(attempts, Attempt(caller[c].key, caller[c].draft))
  /\ Give(c)
  /\ UNCHANGED <<asked, responses>>

AppendAttempt(c) ==
  /\ caller[c].at = "auditing"
  /\ \/ Appendable(c) /\ attempts' = Append(attempts, Attempt(caller[c].key, caller[c].draft))
     \/ /\ Of(caller[c].key) # {} /\ Recorded(caller[c].key) = caller[c].draft
        /\ UNCHANGED attempts
  /\ Give(c)
  /\ UNCHANGED <<asked, responses>>

(* It raises: the key is taken, the clock went back between start and end, *)
(* the disk is full.  Inside the try that is an unexpected failure, which  *)
(* is audited in turn; outside it reaches the caller.                      *)
AuditRaises(c) ==
  /\ caller[c].at = "auditing"
  /\ IF caller[c].inTry THEN Conclude(c, "PROVIDER_ERROR", NoResponse, FALSE) ELSE Leave(c)
  /\ UNCHANGED <<asked, responses, attempts, answers>>

Die(c) ==
  /\ caller[c].at # "idle" /\ Leave(c)
  /\ UNCHANGED <<asked, responses, attempts, answers>>

ReasoningNext ==
  \E c \in Callers :
    \/ Request(c) \/ Reuse(c) \/ Generate(c) \/ Unexpected(c)
    \/ Persist(c) \/ AppendAttempt(c) \/ AuditRaises(c) \/ Die(c)

ReasoningSpec == ReasoningInit /\ [][ReasoningNext]_reasoningVars

-----------------------------------------------------------------------------
(* PROPERTIES                                                              *)

(* docs/llm_reasoning.md: "same attempt-key conflicts fail closed", and "a *)
(* later success appends after a failure; it never overwrites or converts  *)
(* the failed attempt".  Whoever asks under a key, in whatever overlap and *)
(* after whatever crash, is given the one outcome recorded for it.         *)
Outcomes ==
  [status : {"COMPLETED", "REUSED", "TIMEOUT", "CONNECTION_ERROR", "HTTP_ERROR", "MODEL_UNAVAILABLE",
             "MODEL_IDENTITY_MISMATCH", "INVALID_RESPONSE", "PROVIDER_ERROR"},
   response : Explanations \cup {NoResponse}]

OneAnswer == INSTANCE RecoverableRequest WITH
  Requests <- AttemptKeys, Nothing <- Outcome(NoResponse, NoResponse), Outcomes <- Outcomes,
  requested <- asked, outcome <- [key \in AttemptKeys |-> Recorded(key)], given <- answers

OneAnswerPerKey == OneAnswer!RequestSpec

(* The same document: reuse "returns the original response bytes" of "the  *)
(* first committed COMPLETED result".  Every attempt that reuses comes     *)
(* after a completed one and names the response of the first of these, and *)
(* each response an attempt names is on record and was received for it.    *)
ReusesTheFirst ==
  /\ \A i \in DOMAIN attempts :
       /\ attempts[i].status \in {"COMPLETED", "REUSED"} => attempts[i].response \in responses
       /\ attempts[i].status = "REUSED" =>
            \E j \in 1..(i - 1) :
              /\ attempts[j].status = "COMPLETED" /\ attempts[j].response = attempts[i].response
              /\ \A k \in 1..(j - 1) : attempts[k].status # "COMPLETED"
  /\ \A i, j \in DOMAIN attempts : attempts[i].key = attempts[j].key => i = j
=============================================================================
