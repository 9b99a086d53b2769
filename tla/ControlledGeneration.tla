------------------------- MODULE ControlledGeneration -------------------------
(***************************************************************************)
(* One Entity generation under its gates, against a provider that others   *)
(* use too: the local prompt gate, the reservation of the request id, the  *)
(* health, tokenizer and readiness gates, the one generate call, and what  *)
(* is written down of it.  Operators run readiness diagnostics; the        *)
(* provider keeps the latest of each kind and forgets them when it         *)
(* restarts.  A call may time out while the provider still works on it.    *)
(* The managed model (Bedrock) has no hardware gates.                      *)
(*   tagger/services/entity_generation.py, gpu_readiness.py,               *)
(*   entity_gpu_preflight.py, providers/{gpu_local,aws_bedrock,factory}.py *)
(***************************************************************************)
EXTENDS Naturals, FiniteSets

CONSTANTS Requests,
          Sizes,        \* numbers of prompt tokens that fit the target
          MaxRestarts,  \* bound: restarts of the provider
          MaxPassed,    \* bound: diagnostics that pass
          None

VARIABLES
  server,   \* the provider: which process it is, its version, the evidence it keeps
  job,      \* the run of each request
  inbox,    \* generate calls the provider has received and not answered
  attempt,  \* the StageExecutionAttempt of each request
  ran,      \* requests the model was run for (history)
  passed    \* diagnostics that have passed: process, kind, prompt tokens (history)

vars == <<server, job, inbox, attempt, ran, passed>>

Operation == {"load_only", "synthetic_long_context"}
NoEvidence == [op \in Operation |-> {}]
\* What comes back from a generate call: the answer of a run that is whole, that failed
\* its validation, or that may be truncated; a refusal, by the memory gates or for lack
\* of capacity or access; an answer of a shape that is not supported, or that cannot be
\* read; nothing, after a timeout or a broken connection.
Answer == {"whole", "invalid", "truncated", "refused", "unsupported", "malformed", "lost"}

Idle == [step |-> "idle", client |-> "gpu_local", careful |-> TRUE, size |-> 0,
         seen |-> None, answer |-> None]
NoAttempt == [status |-> "none", attempted |-> None]

Init == /\ server = [process |-> 0, expected |-> TRUE, evidence |-> NoEvidence]
        /\ job = [q \in Requests |-> Idle]
        /\ inbox = {}
        /\ attempt = [q \in Requests |-> NoAttempt]
        /\ ran = {} /\ passed = {}

Goto(q, step) == job' = [job EXCEPT ![q].step = step]

-----------------------------------------------------------------------------
\* The provider, outside this repository.
Restart(expected) ==
  /\ server.process < MaxRestarts
  /\ server' = [process |-> server.process + 1, expected |-> expected,
                evidence |-> NoEvidence]
  /\ inbox' = {q \in inbox : job[q].client # "gpu_local"}
  /\ UNCHANGED <<job, attempt, ran, passed>>

RunModel(q) ==
  /\ q \in inbox /\ q \notin ran
  /\ ran' = ran \cup {q}
  /\ UNCHANGED <<server, job, inbox, attempt, passed>>

\* run_readiness_diagnostic: an operator's command, for a token count of theirs.
Diagnose(op, size, ok) ==
  /\ ok => Cardinality(passed) < MaxPassed
  /\ server' = [server EXCEPT !.evidence[op] = IF ok THEN {size} ELSE {}]
  /\ passed' = IF ok THEN passed \cup {<<server.process, op, size>>} ELSE passed
  /\ UNCHANGED <<job, inbox, attempt, ran>>

-----------------------------------------------------------------------------
\* The factory gives a client; the local gate stands before the reservation, and an
\* incomplete prompt package ends the run with nothing written.
Plan(q, client, careful, size) ==
  /\ job[q] = Idle /\ attempt[q] = NoAttempt
  /\ job' = [job EXCEPT ![q] = [Idle EXCEPT !.step = "reserve", !.client = client,
                                            !.careful = careful, !.size = size]]
  /\ UNCHANGED <<server, inbox, attempt, ran, passed>>

LocalGateFails(q) ==
  /\ job[q].step = "reserve" /\ Goto(q, "over")
  /\ UNCHANGED <<server, inbox, attempt, ran, passed>>

ReserveRequest(q) ==
  /\ job[q].step = "reserve"
  /\ attempt' = [attempt EXCEPT ![q] = [status |-> "preflight_pending", attempted |-> "no"]]
  /\ Goto(q, IF job[q].client = "gpu_local" THEN "health" ELSE "generate")
  /\ UNCHANGED <<server, inbox, ran, passed>>

\* _persist_failure.
FailGate(q, status) ==
  /\ attempt' = [attempt EXCEPT ![q] = [status |-> status, attempted |-> "no"]]
  /\ Goto(q, "over")

\* _validate_provider_health; the request for it can fail.
HealthGate(q) ==
  /\ job[q].step = "health"
  /\ \/ server.expected /\ Goto(q, "tokenize") /\ UNCHANGED attempt
     \/ FailGate(q, "unavailable")
  /\ UNCHANGED <<server, inbox, ran, passed>>

\* tokenize_only and _validate_remote_tokenization: the count of this very prompt.
TokenGate(q) ==
  /\ job[q].step = "tokenize"
  /\ \/ Goto(q, IF job[q].careful THEN "ready" ELSE "generate") /\ UNCHANGED attempt
     \/ FailGate(q, "validation_failed")
  /\ UNCHANGED <<server, inbox, ran, passed>>

\* validate_latest_readiness_evidence: both kinds, of this many tokens.
EvidencedAnySize(evidence, size) == \A op \in Operation : evidence[op] # {}

Evidenced(evidence, size) == \A op \in Operation : size \in evidence[op]

\* health is asked a second time, for the evidence.
ReadinessGate(q) ==
  /\ job[q].step = "ready"
  /\ \/ /\ server.expected /\ Evidenced(server.evidence, job[q].size)
        /\ job' = [job EXCEPT ![q].step = "generate", ![q].seen = server.process]
        /\ UNCHANGED attempt
     \/ FailGate(q, "validation_failed")
  /\ UNCHANGED <<server, inbox, ran, passed>>

\* The one generate call.  The managed model is another machine; a call to it is kept
\* in the same inbox.
Send(q) ==
  /\ job[q].step = "generate"
  /\ inbox' = inbox \cup {q}
  /\ Goto(q, "waiting")
  /\ UNCHANGED <<server, attempt, ran, passed>>

Returns(q, answer) ==
  job' = [job EXCEPT ![q].step = "persist", ![q].answer = answer]

Respond(q, answer) ==
  /\ job[q].step = "waiting" /\ q \in inbox
  /\ answer # "lost"
  /\ answer \in {"whole", "invalid", "truncated"} => q \in ran
  /\ answer = "refused" => q \notin ran
  /\ Returns(q, answer)
  /\ inbox' = inbox \ {q}
  /\ UNCHANGED <<server, attempt, ran, passed>>

\* A timeout, or a connection that breaks; the provider may be at work or not.
Lose(q) ==
  /\ job[q].step = "waiting"
  /\ Returns(q, "lost")
  /\ UNCHANGED <<server, inbox, attempt, ran, passed>>

\* _normalize_response and _build_execution_result: only a whole answer of the expected
\* model counts, and what is said of the call is what the provider said.
GpuResultAssumed(answer) ==
  [status |-> CASE answer = "whole" -> "completed"
                [] answer \in {"invalid", "truncated", "unsupported"} -> "validation_failed"
                [] answer = "refused" -> "blocked"
                [] answer = "malformed" -> "error"
                [] answer = "lost" -> "unavailable",
   attempted |-> IF answer \in {"whole", "invalid", "truncated"} THEN "yes" ELSE "no"]

GpuResult(answer) ==
  [status |-> CASE answer = "whole" -> "completed"
                [] answer \in {"invalid", "truncated", "unsupported"} -> "validation_failed"
                [] answer = "refused" -> "blocked"
                [] answer = "malformed" -> "error"
                [] answer = "lost" -> "unavailable",
   attempted |-> CASE answer \in {"whole", "invalid", "truncated"} -> "yes"
                   [] answer = "refused" -> "no"
                   [] OTHER -> "unknown"]

\* _build_bedrock_execution_result: why the model stopped is not looked at, and a call
\* that did not come back counts as one that was not made; its error is one of AWS that
\* passes, or another.
BedrockResult(answer, passes) ==
  [status |-> CASE answer \in {"whole", "truncated"} -> "completed"
                [] answer \in {"invalid", "unsupported"} -> "validation_failed"
                [] answer = "malformed" -> "error"
                [] answer \in {"refused", "lost"} -> IF passes THEN "unavailable" ELSE "error",
   attempted |-> IF answer \in {"whole", "invalid", "truncated", "unsupported"}
                 THEN "yes" ELSE "no"]

PersistResult(q) ==
  /\ job[q].step = "persist"
  /\ \E passes \in BOOLEAN :
       attempt' = [attempt EXCEPT ![q] = IF job[q].client = "gpu_local"
                                         THEN GpuResult(job[q].answer)
                                         ELSE BedrockResult(job[q].answer, passes)]
  /\ Goto(q, "over")
  /\ UNCHANGED <<server, inbox, ran, passed>>

\* The process of a run dies; its attempt stays as it is, and its id is used up.
CrashRun(q) ==
  /\ job[q].step \notin {"idle", "over"}
  /\ Goto(q, "over")
  /\ UNCHANGED <<server, inbox, attempt, ran, passed>>

Next == \/ \E expected \in BOOLEAN : Restart(expected)
        \/ \E op \in Operation, size \in Sizes, ok \in BOOLEAN : Diagnose(op, size, ok)
        \/ \E q \in Requests :
             \/ RunModel(q)
             \/ \E c \in {"gpu_local", "aws_bedrock"}, careful \in BOOLEAN, n \in Sizes :
                  Plan(q, c, careful, n)
             \/ LocalGateFails(q) \/ ReserveRequest(q)
             \/ HealthGate(q) \/ TokenGate(q) \/ ReadinessGate(q)
             \/ Send(q) \/ Lose(q) \/ PersistResult(q) \/ CrashRun(q)
             \/ \E answer \in Answer : Respond(q, answer)

Spec == Init /\ [][Next]_vars

-----------------------------------------------------------------------------
(* An attempt on the GPU whose outcome is written down as without a model call had   *)
(* none, also where the call was lost and the provider went on with it.  (The        *)
(* reservation alone, left by a crash, and the attempts on Bedrock do not say so.)   *)
AuditTellsCalls ==
  \A q \in Requests :
    /\ job[q].client = "gpu_local" /\ attempt[q].attempted = "no"
    /\ attempt[q].status # "preflight_pending"
    => q \notin ran

(* Where readiness evidence is demanded, a call is made only if the process that     *)
(* was seen ready had passed both diagnostics for as many tokens as this prompt      *)
(* has, whatever diagnostics and restarts other operators mix in.                    *)
CallsWarranted ==
  \A q \in inbox :
    job[q].client = "gpu_local" /\ job[q].careful /\ job[q].step = "waiting"
      => \A op \in Operation : <<job[q].seen, op, job[q].size>> \in passed

=============================================================================
