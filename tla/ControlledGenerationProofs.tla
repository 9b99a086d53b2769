---------------------- MODULE ControlledGenerationProofs ----------------------
(* That the audit of a controlled generation does not deny a call, and that no   *)
(* call is made without the evidence demanded for it, for any number of          *)
(* requests, prompt sizes, restarts and diagnostics.                             *)
EXTENDS ControlledGeneration, TLAPS

Client == {"gpu_local", "aws_bedrock"}
\* The steps before the call, those of them that leave a reservation, and all.
Unwritten == {"idle", "reserve"}
Gated == {"health", "tokenize", "ready", "generate"}
Step == Unwritten \cup Gated \cup {"waiting", "persist", "over"}

Job == [step : Step, client : Client, careful : BOOLEAN, size : Sizes \cup {0},
        seen : Nat \cup {None}, answer : Answer \cup {None}]

TypeOK ==
  /\ server \in [process : Nat, expected : BOOLEAN, evidence : [Operation -> SUBSET Sizes]]
  /\ job \in [Requests -> Job]
  /\ DOMAIN attempt = Requests /\ inbox \subseteq Requests

\* The evidence the provider keeps is of its own process.
EvidenceEarned ==
  \A op \in Operation : \A size \in server.evidence[op] :
    <<server.process, op, size>> \in passed

\* A careful run that is past its readiness gate saw evidence for its size.
RunsWarranted ==
  \A q \in Requests :
    /\ job[q].client = "gpu_local" /\ job[q].careful /\ job[q].step \in {"generate", "waiting"}
    => \A op \in Operation : <<job[q].seen, op, job[q].size>> \in passed

\* Requests the model may have been run for, or may still be.
Called == inbox \cup ran

\* Before the call there is none; nothing is written of it before the last step.
NotYetCalled == \A q \in Requests : job[q].step \in Unwritten \cup Gated => q \notin Called
Pending == \A q \in Requests : job[q].step \in Gated \cup {"waiting", "persist"}
                                 => attempt[q].status = "preflight_pending"

\* A refusal was given instead of a run.
RefusedUncalled == \A q \in Requests :
  job[q].step = "persist" => /\ job[q].answer \in Answer
                             /\ job[q].answer = "refused" => q \notin Called

\* AuditTellsCalls with what the provider has still in its hands.
DeniedUncalled ==
  \A q \in Requests :
    /\ job[q].client = "gpu_local" /\ attempt[q].attempted = "no"
    /\ attempt[q].status # "preflight_pending"
    => q \notin Called

IInv == /\ TypeOK /\ EvidenceEarned /\ RunsWarranted
        /\ NotYetCalled /\ Pending /\ RefusedUncalled /\ DeniedUncalled

\* Names are told apart below by these definitions.
USE DEF Client, Unwritten, Gated, Step, Called

-----------------------------------------------------------------------------
LEMMA InitIInv == Init => IInv
<1> SUFFICES ASSUME Init PROVE IInv
  OBVIOUS
<1>1. Idle \in Job
  BY DEF Idle, Job
<1>2. TypeOK
  BY <1>1 DEF Init, TypeOK, NoEvidence
<1>3. EvidenceEarned
  BY DEF Init, EvidenceEarned, NoEvidence
<1>4. RunsWarranted /\ NotYetCalled /\ Pending /\ RefusedUncalled /\ DeniedUncalled
  BY DEF Init, Idle, RunsWarranted, NotYetCalled, Pending, RefusedUncalled, DeniedUncalled
<1> QED BY <1>2, <1>3, <1>4 DEF IInv

\* A run that moves on to another step, alone: what the parts of the invariant ask of the
\* step it has reached.
LEMMA GotoTypes == ASSUME TypeOK, NEW q \in Requests, NEW step \in Step, Goto(q, step)
                   PROVE /\ job' \in [Requests -> Job]
                         /\ job'[q].step = step /\ job'[q].client = job[q].client
                         /\ job'[q].careful = job[q].careful
                         /\ job'[q].size = job[q].size /\ job'[q].seen = job[q].seen
                         /\ \A p \in Requests \ {q} : job'[p] = job[p]
<1> DEFINE j == [job[q] EXCEPT !.step = step]
<1>1. /\ j \in Job /\ j.step = step /\ j.client = job[q].client
      /\ j.careful = job[q].careful /\ j.size = job[q].size /\ j.seen = job[q].seen
  BY DEF TypeOK, Job
<1>2. job' = [job EXCEPT ![q] = j]
  BY DEF Goto, TypeOK
<1> HIDE DEF j
<1> QED BY <1>1, <1>2 DEF TypeOK

-----------------------------------------------------------------------------
\* The provider and its operators.
LEMMA RestartKeeps == ASSUME IInv, NEW expected \in BOOLEAN, Restart(expected) PROVE IInv'
<1> USE DEF IInv, Restart
<1>1. TypeOK'
  BY DEF TypeOK, NoEvidence
<1>2. EvidenceEarned'
  BY DEF EvidenceEarned, NoEvidence
<1>3. inbox' \subseteq inbox
  OBVIOUS
<1>4. RunsWarranted'
  BY DEF RunsWarranted
<1>5. NotYetCalled' /\ Pending' /\ RefusedUncalled' /\ DeniedUncalled'
  BY <1>3 DEF NotYetCalled, Pending, RefusedUncalled, DeniedUncalled
<1> QED BY <1>1, <1>2, <1>4, <1>5

LEMMA RunModelKeeps == ASSUME IInv, NEW q \in Requests, RunModel(q) PROVE IInv'
<1> USE DEF IInv, RunModel
<1>1. (inbox \cup ran)' = inbox \cup ran
  OBVIOUS
<1>2. TypeOK' /\ EvidenceEarned' /\ RunsWarranted'
  BY DEF TypeOK, EvidenceEarned, RunsWarranted
<1>3. NotYetCalled' /\ Pending' /\ RefusedUncalled' /\ DeniedUncalled'
  BY <1>1 DEF NotYetCalled, Pending, RefusedUncalled, DeniedUncalled
<1> QED BY <1>2, <1>3

LEMMA DiagnoseKeeps == ASSUME IInv, NEW op \in Operation, NEW size \in Sizes,
                              NEW ok \in BOOLEAN, Diagnose(op, size, ok)
                       PROVE IInv'
<1> USE DEF IInv
<1>1. passed \subseteq passed' /\ UNCHANGED <<job, inbox, attempt, ran>>
  BY DEF Diagnose
<1>2. server' = [server EXCEPT !.evidence =
                   [server.evidence EXCEPT ![op] = IF ok THEN {size} ELSE {}]]
  BY DEF Diagnose, TypeOK
<1>3. TypeOK'
  BY <1>1, <1>2 DEF TypeOK
<1>4. EvidenceEarned'
  <2>1. ASSUME NEW o \in Operation, NEW s \in server'.evidence[o]
        PROVE <<server'.process, o, s>> \in passed'
    <3>1. CASE o = op
      BY <1>2, <2>1, <3>1 DEF Diagnose, TypeOK
    <3>2. CASE o # op
      BY <1>1, <1>2, <2>1, <3>2 DEF EvidenceEarned, TypeOK
    <3> QED BY <3>1, <3>2
  <2> QED BY <2>1 DEF EvidenceEarned
<1>5. RunsWarranted'
  BY <1>1 DEF RunsWarranted
<1>6. NotYetCalled' /\ Pending' /\ RefusedUncalled' /\ DeniedUncalled'
  BY <1>1 DEF NotYetCalled, Pending, RefusedUncalled, DeniedUncalled
<1> QED BY <1>3, <1>4, <1>5, <1>6

-----------------------------------------------------------------------------
\* The run of a request up to its call.
LEMMA PlanKeeps == ASSUME IInv, NEW q \in Requests, NEW client \in Client,
                          NEW careful \in BOOLEAN, NEW size \in Sizes,
                          Plan(q, client, careful, size)
                   PROVE IInv'
<1> USE DEF IInv
<1> DEFINE j == [Idle EXCEPT !.step = "reserve", !.client = client,
                             !.careful = careful, !.size = size]
<1>1. j \in Job /\ j.step = "reserve"
  BY DEF Job, Idle
<1> job[q].step = "idle"
  BY DEF Plan, Idle
<1>2. /\ job' = [job EXCEPT ![q] = j] /\ UNCHANGED <<server, inbox, attempt, ran, passed>>
  BY DEF Plan
<1> HIDE DEF j
<1>3. TypeOK' /\ EvidenceEarned'
  BY <1>1, <1>2 DEF TypeOK, EvidenceEarned
<1>4. RunsWarranted' /\ NotYetCalled' /\ Pending' /\ RefusedUncalled' /\ DeniedUncalled'
  BY <1>1, <1>2 DEF TypeOK, RunsWarranted, NotYetCalled, Pending, RefusedUncalled,
                    DeniedUncalled
<1> QED BY <1>3, <1>4

\* Nothing but the step of one run, and what is written of it, changes.
LEMMA StepKeeps ==
  ASSUME IInv, NEW q \in Requests, NEW step \in Step, Goto(q, step),
         UNCHANGED <<server, inbox, ran, passed>>,
         job[q].step \in Unwritten \cup Gated, step # "idle", step # "persist",
         DOMAIN attempt' = Requests,
         \A p \in Requests \ {q} : attempt'[p] = attempt[p],
         step \in Gated \cup {"waiting"} => attempt'[q].status = "preflight_pending",
         step \in {"generate", "waiting"} /\ job[q].client = "gpu_local" /\ job[q].careful
           => \A op \in Operation : <<job[q].seen, op, job[q].size>> \in passed
  PROVE IInv'
<1> USE DEF IInv
<1>1. job' \in [Requests -> Job] /\ \A p \in Requests \ {q} : job'[p] = job[p]
  BY GotoTypes
<1>2. /\ job'[q].step = step /\ job'[q].client = job[q].client
      /\ job'[q].careful = job[q].careful /\ job'[q].size = job[q].size
      /\ job'[q].seen = job[q].seen
  BY GotoTypes
<1>3. q \notin inbox \cup ran
  BY DEF NotYetCalled
<1>4. TypeOK' /\ EvidenceEarned'
  BY <1>1 DEF TypeOK, EvidenceEarned
<1>5. RunsWarranted'
  BY <1>1, <1>2 DEF RunsWarranted
<1>6. NotYetCalled' /\ Pending' /\ RefusedUncalled' /\ DeniedUncalled'
  BY <1>1, <1>2, <1>3 DEF NotYetCalled, Pending, RefusedUncalled, DeniedUncalled
<1> QED BY <1>4, <1>5, <1>6

LEMMA GatesKeep == ASSUME IInv, NEW q \in Requests,
                          LocalGateFails(q) \/ ReserveRequest(q) \/ HealthGate(q) \/ TokenGate(q)
                   PROVE IInv'
<1> USE DEF IInv
<1>1. CASE LocalGateFails(q)
  BY <1>1, StepKeeps DEF LocalGateFails, TypeOK
<1>2. CASE ReserveRequest(q)
  <2>1. /\ DOMAIN attempt' = Requests
        /\ \A p \in Requests \ {q} : attempt'[p] = attempt[p]
        /\ attempt'[q].status = "preflight_pending"
    BY <1>2 DEF ReserveRequest, TypeOK
  <2>2. CASE job[q].client = "gpu_local"
    BY <1>2, <2>1, <2>2, StepKeeps DEF ReserveRequest
  <2>3. CASE job[q].client # "gpu_local"
    BY <1>2, <2>1, <2>3, StepKeeps DEF ReserveRequest
  <2> QED BY <2>2, <2>3
<1>3. ASSUME NEW status, FailGate(q, status) PROVE
        /\ Goto(q, "over") /\ DOMAIN attempt' = Requests
        /\ \A p \in Requests \ {q} : attempt'[p] = attempt[p]
  BY <1>3 DEF FailGate, TypeOK
<1>4. CASE HealthGate(q)
  <2>1. CASE Goto(q, "tokenize") /\ UNCHANGED attempt
    BY <1>4, <2>1, StepKeeps DEF HealthGate, TypeOK, Pending
  <2>2. CASE FailGate(q, "unavailable")
    BY <1>3, <1>4, <2>2, StepKeeps DEF HealthGate
  <2> QED BY <1>4, <2>1, <2>2 DEF HealthGate
<1>5. CASE TokenGate(q)
  <2>1. CASE Goto(q, "ready") /\ job[q].careful /\ UNCHANGED attempt
    BY <1>5, <2>1, StepKeeps DEF TokenGate, TypeOK, Pending
  <2>2. CASE Goto(q, "generate") /\ ~job[q].careful /\ UNCHANGED attempt
    BY <1>5, <2>2, StepKeeps DEF TokenGate, TypeOK, Pending
  <2>3. CASE FailGate(q, "validation_failed")
    BY <1>3, <1>5, <2>3, StepKeeps DEF TokenGate
  <2> QED BY <1>5, <2>1, <2>2, <2>3 DEF TokenGate
<1> QED BY <1>1, <1>2, <1>4, <1>5

\* What the readiness gate saw was earned by the process it saw.
LEMMA ReadinessKeeps == ASSUME IInv, NEW q \in Requests, ReadinessGate(q) PROVE IInv'
<1> USE DEF IInv
<1>1. CASE FailGate(q, "validation_failed")
  <2>1. /\ Goto(q, "over") /\ DOMAIN attempt' = Requests
        /\ \A p \in Requests \ {q} : attempt'[p] = attempt[p]
    BY <1>1 DEF FailGate, TypeOK
  <2> QED BY <2>1, StepKeeps DEF ReadinessGate
<1>2. CASE /\ Evidenced(server.evidence, job[q].size) /\ UNCHANGED attempt
           /\ job' = [job EXCEPT ![q].step = "generate", ![q].seen = server.process]
  <2> DEFINE j == [job[q] EXCEPT !.step = "generate", !.seen = server.process]
  <2> job[q] \in Job /\ server.process \in Nat
    BY DEF TypeOK
  <2> j \in Job
    BY DEF Job
  <2>1. /\ j.step = "generate" /\ j.seen = server.process
        /\ j.size = job[q].size /\ j.client = job[q].client
    BY DEF Job
  <2>2. job' = [job EXCEPT ![q] = j]
    BY <1>2 DEF TypeOK
  <2>3. UNCHANGED <<server, inbox, attempt, ran, passed>> /\ job[q].step = "ready"
    BY <1>2 DEF ReadinessGate
  <2>4. \A op \in Operation : <<j.seen, op, j.size>> \in passed
    BY <1>2, <2>1 DEF Evidenced, EvidenceEarned
  <2> HIDE DEF j
  <2>5. TypeOK' /\ EvidenceEarned'
    BY <2>1, <2>2, <2>3 DEF TypeOK, EvidenceEarned
  <2>6. RunsWarranted'
    BY <2>2, <2>3, <2>4 DEF TypeOK, RunsWarranted
  <2>7. NotYetCalled' /\ Pending' /\ RefusedUncalled' /\ DeniedUncalled'
    BY <2>1, <2>2, <2>3 DEF TypeOK, NotYetCalled, Pending, RefusedUncalled, DeniedUncalled
  <2> QED BY <2>5, <2>6, <2>7
<1> QED BY <1>1, <1>2 DEF ReadinessGate

-----------------------------------------------------------------------------
\* The call, and what comes of it.
LEMMA SendKeeps == ASSUME IInv, NEW q \in Requests, Send(q) PROVE IInv'
<1> USE DEF IInv, Send
<1>1. job' \in [Requests -> Job] /\ \A p \in Requests \ {q} : job'[p] = job[p]
  BY GotoTypes
<1>2. /\ job'[q].step = "waiting" /\ job'[q].client = job[q].client
      /\ job'[q].careful = job[q].careful /\ job'[q].size = job[q].size
      /\ job'[q].seen = job[q].seen
  BY GotoTypes
<1>3. TypeOK' /\ EvidenceEarned'
  BY <1>1 DEF TypeOK, EvidenceEarned
<1>4. RunsWarranted'
  BY <1>1, <1>2 DEF RunsWarranted
<1>5. NotYetCalled' /\ Pending' /\ RefusedUncalled' /\ DeniedUncalled'
  BY <1>1, <1>2 DEF NotYetCalled, Pending, RefusedUncalled, DeniedUncalled
<1> QED BY <1>3, <1>4, <1>5

LEMMA AnswersKeep == ASSUME IInv, NEW q \in Requests, NEW answer \in Answer,
                            Respond(q, answer) \/ (Lose(q) /\ answer = "lost")
                     PROVE IInv'
<1> USE DEF IInv
<1> DEFINE j == [job[q] EXCEPT !.step = "persist", !.answer = answer]
<1>0. job[q] \in Job
  BY DEF TypeOK
<1>1. j \in Job
  BY <1>0 DEF Job
<1>2. j.step = "persist" /\ j.answer = answer /\ j.client = job[q].client
  BY <1>0 DEF Job
<1>3. job' = [job EXCEPT ![q] = j]
  BY DEF Respond, Lose, Returns, TypeOK
<1>4. /\ inbox' \subseteq inbox /\ UNCHANGED <<server, attempt, ran, passed>>
      /\ job[q].step = "waiting"
      /\ answer = "refused" => q \notin inbox' \cup ran'
  BY DEF Respond, Lose
<1> HIDE DEF j
<1>5. TypeOK' /\ EvidenceEarned'
  BY <1>1, <1>3, <1>4 DEF TypeOK, EvidenceEarned
<1>6. RunsWarranted'
  BY <1>2, <1>3, <1>4 DEF TypeOK, RunsWarranted
<1>7. NotYetCalled' /\ Pending' /\ RefusedUncalled' /\ DeniedUncalled'
  BY <1>2, <1>3, <1>4 DEF TypeOK, NotYetCalled, Pending, RefusedUncalled, DeniedUncalled
<1> QED BY <1>5, <1>6, <1>7

\* Only a refusal is written down as no call.
LEMMA ResultDenies == ASSUME NEW answer \in Answer, GpuResult(answer).attempted = "no"
                      PROVE answer = "refused"
  BY DEF Answer, GpuResult

LEMMA PersistKeeps == ASSUME IInv, NEW q \in Requests, PersistResult(q) PROVE IInv'
<1> USE DEF IInv, PersistResult
<1>1. job' \in [Requests -> Job] /\ \A p \in Requests \ {q} : job'[p] = job[p]
  BY GotoTypes
<1>2. job'[q].step = "over" /\ job'[q].client = job[q].client
  BY GotoTypes
<1>3. /\ DOMAIN attempt' = Requests /\ \A p \in Requests \ {q} : attempt'[p] = attempt[p]
      /\ job[q].client = "gpu_local" => attempt'[q] = GpuResult(job[q].answer)
  BY DEF TypeOK
<1>4. TypeOK' /\ EvidenceEarned'
  BY <1>1, <1>3 DEF TypeOK, EvidenceEarned
<1>5. RunsWarranted' /\ NotYetCalled' /\ Pending' /\ RefusedUncalled'
  BY <1>1, <1>2, <1>3 DEF RunsWarranted, NotYetCalled, Pending, RefusedUncalled
<1>6. DeniedUncalled'
  BY <1>1, <1>2, <1>3, ResultDenies DEF DeniedUncalled, RefusedUncalled
<1> QED BY <1>4, <1>5, <1>6

\* A process that dies leaves the reservation, which says nothing, or nothing at all.
LEMMA CrashKeeps == ASSUME IInv, NEW q \in Requests, CrashRun(q) PROVE IInv'
<1> USE DEF IInv, CrashRun
<1>1. job' \in [Requests -> Job] /\ \A p \in Requests \ {q} : job'[p] = job[p]
  BY GotoTypes
<1>2. job'[q].step = "over" /\ job'[q].client = job[q].client
  BY GotoTypes
<1>3. TypeOK' /\ EvidenceEarned'
  BY <1>1 DEF TypeOK, EvidenceEarned
<1>4. RunsWarranted' /\ NotYetCalled' /\ Pending' /\ RefusedUncalled' /\ DeniedUncalled'
  BY <1>1, <1>2 DEF RunsWarranted, NotYetCalled, Pending, RefusedUncalled, DeniedUncalled
<1> QED BY <1>3, <1>4

-----------------------------------------------------------------------------
LEMMA NextIInv == IInv /\ [Next]_vars => IInv'
<1> SUFFICES ASSUME IInv, [Next]_vars PROVE IInv'
  OBVIOUS
<1>1. CASE UNCHANGED vars
  BY <1>1 DEF vars, IInv, TypeOK, EvidenceEarned, RunsWarranted, NotYetCalled, Pending,
              RefusedUncalled, DeniedUncalled
<1>2. ASSUME NEW expected \in BOOLEAN, Restart(expected) PROVE IInv'
  BY <1>2, RestartKeeps
<1>3. ASSUME NEW op \in Operation, NEW size \in Sizes, NEW ok \in BOOLEAN, Diagnose(op, size, ok)
      PROVE IInv'
  BY <1>3, DiagnoseKeeps
<1>4. ASSUME NEW q \in Requests,
             \/ RunModel(q)
             \/ \E c \in {"gpu_local", "aws_bedrock"}, careful \in BOOLEAN, n \in Sizes :
                  Plan(q, c, careful, n)
             \/ LocalGateFails(q) \/ ReserveRequest(q)
             \/ HealthGate(q) \/ TokenGate(q) \/ ReadinessGate(q)
             \/ Send(q) \/ Lose(q) \/ PersistResult(q) \/ CrashRun(q)
             \/ \E answer \in Answer : Respond(q, answer)
      PROVE IInv'
  <2>1. "lost" \in Answer
    BY DEF Answer
  <2> QED BY <1>4, <2>1, RunModelKeeps, PlanKeeps, GatesKeep, ReadinessKeeps, SendKeeps,
             AnswersKeep, PersistKeeps, CrashKeeps
<1> QED BY <1>1, <1>2, <1>3, <1>4 DEF Next

LEMMA IInvAlways == Spec => []IInv
  BY InitIInv, NextIInv, PTL DEF Spec

\* No attempt on the GPU that is written down as without a model call had one, also when
\* the call was lost and the provider went on with it (entity_generation.py:733-882,
\* gpu_local.py:406-428).
THEOREM AuditAlwaysTellsCalls == Spec => []AuditTellsCalls
<1>1. IInv => AuditTellsCalls
  BY DEF IInv, DeniedUncalled, AuditTellsCalls
<1> QED BY <1>1, IInvAlways, PTL

\* A careful run's call has behind it both diagnostics, passed for its size by the process
\* it saw (gpu_readiness.py:79-150, entity_generation.py:221-258).
THEOREM CallsAlwaysWarranted == Spec => []CallsWarranted
<1>1. IInv => CallsWarranted
  BY DEF IInv, TypeOK, RunsWarranted, CallsWarranted
<1> QED BY <1>1, IInvAlways, PTL
=============================================================================
