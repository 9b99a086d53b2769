------------------------------ MODULE GpuLookup ------------------------------
(***************************************************************************)
(* Lookups on the remote machine.  It has one GPU: a lookup stops the      *)
(* provider that serves generations, runs the encoder, and starts the      *)
(* provider again whatever happened.  Every step is a remote command that  *)
(* may fail, or succeed and lose its answer, and is repeated while the     *)
(* failure looks like a broken connection.  Requests do not know of each   *)
(* other.                                                                  *)
(*   tagger/services/live_workflow.py (RemoteQwen3LookupRunner)            *)
(***************************************************************************)
EXTENDS Naturals

CONSTANTS Requests,
          MaxAttempts,  \* EMTL_REMOTE_COMMAND_ATTEMPTS
          MaxLookups    \* bound: lookups that begin

ASSUME AttemptAssumption == MaxAttempts \in Nat \ {0} /\ MaxLookups \in Nat

VARIABLES
  provider,  \* the process on port 8001
  job,       \* what each request is doing
  told,      \* an error about the provider has been reported since it last served (history)
  died,      \* the process of a lookup has died since then, and reported nothing (history)
  begun

vars == <<provider, job, told, died, begun>>

\* Loading: started, the port not open yet.  Dying: killed, the port not closed yet.
ProviderState == {"serving", "dying", "down", "loading"}
Listening == provider \in {"serving", "dying"}

\* The commands of a lookup in order; "wait" polls the health of the provider and
\* "choose" is the first generation that needs it.
Commands == {"stop", "copy", "encode", "fetch", "start"}
Steps == Commands \cup {"idle", "wait", "choose"}
Following(step) == CASE step = "stop" -> "copy"   [] step = "copy" -> "encode"
                     [] step = "encode" -> "fetch" [] step = "fetch" -> "start"
                     [] step = "start" -> "wait"

Job == [step : Steps, attempt : 1..MaxAttempts, chooser : BOOLEAN, failed : BOOLEAN]
Idle == [step |-> "idle", attempt |-> 1, chooser |-> FALSE, failed |-> FALSE]

Init == /\ provider = "serving"
        /\ job = [r \in Requests |-> Idle]
        /\ told = FALSE /\ died = FALSE /\ begun = 0

-----------------------------------------------------------------------------
\* run, from the chooser's handler, and proposal_similarity, from a review action;
\* nothing happens where the configuration is incomplete.
Begin(r, chooser) ==
  /\ job[r] = Idle /\ begun < MaxLookups
  /\ job' = [job EXCEPT ![r].step = "stop", ![r].chooser = chooser]
  /\ begun' = begun + 1
  /\ UNCHANGED <<provider, told, died>>

\* What a command does on the machine: kill what listens, start if nothing listens.
Effect(step) ==
  CASE step = "stop" /\ provider = "serving" -> "dying"
    [] step = "start" /\ ~Listening -> "loading"
    [] OTHER -> provider

\* _run_payload, when a command has failed for good: after the provider was stopped it
\* is started again in any case; a failure to stop or to start is the request's error.
GivenUpAtOnce(r) == /\ job' = [job EXCEPT ![r] = Idle]
                    /\ told' = (told \/ job[r].step \in {"stop", "start"})

GivenUp(r) ==
  IF job[r].step \in {"stop", "start"}
    THEN job' = [job EXCEPT ![r] = Idle] /\ told' = TRUE
    ELSE /\ job' = [job EXCEPT ![r].step = "start", ![r].attempt = 1, ![r].failed = TRUE]
         /\ UNCHANGED told

\* A command succeeds;
Succeed(r) ==
  /\ job[r].step \in Commands
  /\ provider' = Effect(job[r].step)
  /\ job' = [job EXCEPT ![r].step = Following(@), ![r].attempt = 1]
  /\ UNCHANGED <<told, died, begun>>

\* or the connection breaks, before the command or after it: it is repeated;
BreakForever(r) ==
  /\ job[r].step \in Commands
  /\ provider' \in {provider, Effect(job[r].step)}
  /\ UNCHANGED <<job, told, died, begun>>

Break(r) ==
  /\ job[r].step \in Commands
  /\ provider' \in {provider, Effect(job[r].step)}
  /\ IF job[r].attempt < MaxAttempts
       THEN job' = [job EXCEPT ![r].attempt = @ + 1] /\ UNCHANGED told
       ELSE GivenUp(r)
  /\ UNCHANGED <<died, begun>>

\* or it fails otherwise, or takes longer than it may: it is not repeated.
Fail(r) ==
  /\ job[r].step \in Commands
  /\ provider' \in {provider, Effect(job[r].step)}
  /\ GivenUp(r)
  /\ UNCHANGED <<died, begun>>

\* _start_provider polls until the provider is healthy, for fifteen minutes.
Healthy(r) ==
  /\ job[r].step = "wait" /\ provider = "serving"
  /\ job' = [job EXCEPT ![r] =
       IF job[r].chooser /\ ~job[r].failed THEN [Idle EXCEPT !.step = "choose"] ELSE Idle]
  /\ UNCHANGED <<provider, told, died, begun>>

Deadline(r) ==
  /\ job[r].step = "wait"
  /\ job' = [job EXCEPT ![r] = Idle] /\ told' = TRUE
  /\ UNCHANGED <<provider, died, begun>>

\* The chooser's generation: answered by a provider that serves, an error otherwise.
Choose(r) ==
  /\ job[r].step = "choose"
  /\ job' = [job EXCEPT ![r] = Idle]
  /\ told' = (told \/ provider # "serving")
  /\ UNCHANGED <<provider, died, begun>>

\* The process of the request dies; its "finally" dies with it, and nothing is reported.
Die(r) == /\ job[r] # Idle
          /\ job' = [job EXCEPT ![r] = Idle] /\ died' = TRUE
          /\ UNCHANGED <<provider, told, begun>>

\* The machine (external): a killed process exits, a started one comes up, or does not,
\* when an encoder has the GPU.
Exit == provider = "dying" /\ provider' = "down" /\ UNCHANGED <<job, told, died, begun>>
ComeUp == /\ provider = "loading" /\ provider' = "serving"
          /\ told' = FALSE /\ died' = FALSE
          /\ UNCHANGED <<job, begun>>
OutOfMemory == /\ provider = "loading" /\ \E r \in Requests : job[r].step = "encode"
               /\ provider' = "down" /\ UNCHANGED <<job, told, died, begun>>

Work(r) == Succeed(r) \/ Break(r) \/ Fail(r) \/ Healthy(r) \/ Deadline(r) \/ Choose(r)

Next == \/ \E r \in Requests : \/ Work(r) \/ Die(r)
                               \/ \E chooser \in BOOLEAN : Begin(r, chooser)
        \/ Exit \/ ComeUp \/ OutOfMemory

\* Every command has a timeout and the poll a deadline; processes exit and come up.
Spec == /\ Init /\ [][Next]_vars
        /\ \A r \in Requests : WF_vars(Work(r))
        /\ WF_vars(Exit) /\ WF_vars(ComeUp \/ OutOfMemory)

-----------------------------------------------------------------------------
TypeOK == /\ provider \in ProviderState /\ told \in BOOLEAN /\ died \in BOOLEAN
          /\ begun \in 0..MaxLookups
          /\ job \in [Requests -> Job]

\* The provider is never left down without a word: when nobody works, it is up or coming
\* up, or a request has failed with an error about it, however lookups overlap and
\* whichever of their commands fail (live_workflow.py:764-783).  Only the process of a
\* lookup that dies, and its "finally" with it, can leave it so.
NeverSilentlyDown ==
  (\A r \in Requests : job[r] = Idle) /\ provider \in {"down", "dying"} => told \/ died

\* Every lookup ends, with an answer or an error (live_workflow.py:834-851).
LookupEnds == \A r \in Requests : job[r] # Idle ~> job[r] = Idle
=============================================================================
