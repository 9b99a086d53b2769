------------------------------ MODULE MCServices ------------------------------
(* Components around the workflow that serve others and must go on: lookups on   *)
(* the remote GPU, the containers of the Registry API with their migrations, and *)
(* the orchestrator of a document.  They share no state: a behaviour moves one   *)
(* of them, and the others stay as they start.  Plans are made under the stages  *)
(* of ShortOrder; the states of a plan are looked at on those of PageOrder.      *)
EXTENDS GpuLookup, StageConfig

CONSTANTS Containers, Filled, None

\* Bounds (see the modules that use them).
CONSTANTS MaxCrashes, MaxDowngrades,  \* RegistryDeploy
          MaxResumes                  \* Orchestrator

\* Occurrences, what they need, and the future stage that needs them.
PageOrder == OrderWithout({"summary_keywords", "tag_assembler"})
PageRequires == RequiresWithout({"summary_keywords", "tag_assembler"})

\* The Entity row alone, for plans that overlap.
Dropped == DOMAIN STAGE_PROFILES \ {"entity_registry"}
ShortOrder == OrderWithout(Dropped)
ShortRequires == RequiresWithout(Dropped)

VARIABLES part,
          tables, version, tableRows, admins, run, crashes, downgrades,
          planRows, metadata, lock, made, latest, stale, planReq,
          pageRows, pageMetadata, pageLock, pageMade, pageLatest, pageStale, pageReq

gpu == vars
deploy == <<tables, version, tableRows, admins, run, crashes, downgrades>>
plans == <<planRows, metadata, lock, made, latest, stale, planReq>>
pages == <<pageRows, pageMetadata, pageLock, pageMade, pageLatest, pageStale, pageReq>>

Deploy == INSTANCE RegistryDeploy
            WITH rows <- tableRows
Plans == INSTANCE OrchestratorProofs
           WITH Workers <- Requests, Moves <- {"accepted"}, Workbench <- TRUE,
                Order <- ShortOrder, Requires <- ShortRequires,
                Future <- {}, Entity <- "entity_registry",
                rows <- planRows, req <- planReq
Page == INSTANCE OrchestratorProofs
          WITH Workers <- {}, Moves <- {"not_started", "checking", "accepted",
                                         "needs_rerun", "blocked"},
               Workbench <- FALSE, MaxResumes <- 0, Order <- PageOrder,
               Requires <- PageRequires, Future <- FUTURE_STAGES,
               Entity <- "entity_registry", rows <- pageRows, metadata <- pageMetadata,
               lock <- pageLock, made <- pageMade, latest <- pageLatest,
               stale <- pageStale, req <- pageReq

\* The stage profiles of both instances are in order.
ASSUME ProfilesInOrder == Plans!WellOrdered /\ Page!WellOrdered

\* None is no request.
ASSUME NoneAssumption == None \notin Requests

Parts == {"gpu", "deploy", "plans", "pages"}

MCInit == /\ part \in Parts
          /\ Init /\ Plans!Init /\ Page!Init
          /\ Deploy!Init /\ (part # "deploy" => version = "0001")

MCNext ==
  /\ UNCHANGED part
  /\ \/ part = "gpu" /\ Next /\ UNCHANGED <<deploy, plans, pages>>
     \/ part = "deploy" /\ Deploy!Next /\ UNCHANGED <<gpu, plans, pages>>
     \/ part = "plans" /\ Plans!Next /\ UNCHANGED <<gpu, deploy, pages>>
     \/ part = "pages" /\ Page!Next /\ UNCHANGED <<gpu, deploy, plans>>

\* The fairness of GpuLookup and RegistryDeploy, each in its part.
MCSpec ==
  /\ MCInit /\ [][MCNext]_<<part, gpu, deploy, plans, pages>>
  /\ \A r \in Requests : WF_gpu(part = "gpu" /\ Work(r))
  /\ WF_gpu(part = "gpu" /\ Exit) /\ WF_gpu(part = "gpu" /\ (ComeUp \/ OutOfMemory))
  /\ \A c \in Containers : WF_deploy(part = "deploy" /\ Deploy!Step(c))

\* The version of the database tells its tables (module RegistryDeploy).
VersionTellsSchema == part = "deploy" => Deploy!VersionTellsSchema

\* A migration that is not a downgrade keeps the rows (module RegistryDeploy).
RowsSurvive == Deploy!RowsSurvive

\* All containers come to serve, again after each crash (module RegistryDeploy).
AllServe == part = "deploy" => Deploy!AllServe

\* No resume is lost to another (module Orchestrator).
PlanKept == part = "plans" => Plans!PlanKept

\* A plan is never blocked (module Orchestrator).
NeverBlocked == part = "pages" => Page!NeverBlocked

\* The page shows a complete plan as accepted (module Orchestrator).
CompleteIsShown == part = "pages" => Page!CompleteIsShown
=============================================================================
