----------------------------- MODULE MCDocuments -----------------------------
(* Components that keep or compute data of a document beside the live workflow: *)
(* the closure of a stage selection, the clause row of the workbench, the file  *)
(* store of headword reviews (by one process, and by two at once), the export   *)
(* package, the registry behind its API, and the audit of a controlled          *)
(* generation.  They share no state: a behaviour moves one of them, and the     *)
(* others stay as they start.                                                   *)
EXTENDS DependencyClosure, StageConfig

CONSTANTS One, Two,        \* sets of one and of two processes
          Items, ActionIds, OneItem,
          Events, Headwords, Proposals,
          Tokens, Users, Keys, None

\* Bounds (see the modules that use them).
CONSTANTS MaxText, MaxAnswers, MaxPages,  \* ClauseWorkbench
          MaxAttempts, MaxRows, Marks, Followed,  \* WorkflowExport
          Sizes, MaxRestarts, MaxPassed   \* ControlledGeneration

\* The profiles list every requirement, so that their closure takes one step; here
\* each stage lists only the last ones before it, which makes the loop go around.
MCStages == DOMAIN STAGE_PROFILES
MCRequires == [STAGE_PROFILES EXCEPT
                 !.tag_assembler = {"occurrences_registry"},
                 !.key_narrative = {"summary_keywords", "tag_assembler"}]
MCNames == MCStages \cup {"unknown"}

VARIABLES part,
          live, source, table, row, clauseReq, clauseRuns, pages, raced, blessed,
          file, fileReq, shared, sharedReq,
          rows, attempts, notes, status, exportRuns, copy, package,
          stored, users, tokens, session, apiReq,
          server, generation, inbox, attempt, ran, passed

closure == vars
clause == <<live, source, table, row, clauseReq, clauseRuns, pages, raced, blessed>>
store == <<file, fileReq>>
overlap == <<shared, sharedReq>>
export == <<rows, attempts, notes, status, exportRuns, copy, package>>
api == <<stored, users, tokens, session, apiReq>>
control == <<server, generation, inbox, attempt, ran, passed>>

Clause == INSTANCE ClauseWorkbench
            WITH Workers <- Two, MaxRuns <- MaxAnswers,
                 req <- clauseReq, runs <- clauseRuns
Store == INSTANCE HeadwordStoreProofs
           WITH Ids <- Items, Workers <- One, req <- fileReq
Overlap == INSTANCE HeadwordStoreProofs
             WITH Ids <- OneItem, Workers <- Two,
                  file <- shared, req <- sharedReq
Export == INSTANCE WorkflowExport
            WITH MaxRuns <- MaxAttempts, Stage <- Followed, runs <- exportRuns
Api == INSTANCE RegistryApi
         WITH Requests <- Two, Parents <- "documentmetadata", Children <- "clause",
              req <- apiReq
Control == INSTANCE ControlledGenerationProofs
             WITH Requests <- One, job <- generation

\* None is apart from the records it stands in for, and one process is one.
ASSUME NoneAssumption ==
  /\ None \notin Events \cup Headwords
  /\ None \notin Store!Item \cup Store!Assignment \cup Store!Similarity
  /\ None \notin Overlap!Item \cup Overlap!Assignment \cup Overlap!Similarity
  /\ None \notin [owner : Users, used : BOOLEAN, revoked : BOOLEAN]
  /\ None \notin Clause!Output
ASSUME BoundsAssumption == MaxText \in Nat \ {0} /\ MaxAttempts \in Nat
ASSUME FollowedAssumption == /\ Followed \subseteq Export!StageNames
                             /\ "entity_registry" \in Followed
ASSUME OneAssumption == \A v, w \in One : v = w

Parts == {"closure", "clause", "store", "overlap", "export", "api", "control"}

MCInit == /\ part \in Parts
          /\ IF part = "closure" THEN Init
             ELSE selected = {"unknown"} /\ expanded = {} /\ pending = {} /\ result = "unknown_stage"
          /\ Clause!Init /\ (part # "clause" => live)
          /\ Store!Init /\ Overlap!Init /\ Export!Init /\ Control!Init
          /\ Api!Init /\ (part # "api" => stored = {})

MCNext ==
  /\ UNCHANGED part
  /\ \/ part = "closure" /\ Next /\ UNCHANGED <<clause, store, overlap, export, api, control>>
     \/ part = "clause" /\ Clause!Next /\ UNCHANGED <<closure, store, overlap, export, api, control>>
     \/ part = "store" /\ Store!Next /\ UNCHANGED <<closure, clause, overlap, export, api, control>>
     \/ part = "overlap" /\ Overlap!Next /\ UNCHANGED <<closure, clause, store, export, api, control>>
     \/ part = "export" /\ Export!Next /\ UNCHANGED <<closure, clause, store, overlap, api, control>>
     \/ part = "api" /\ Api!Next /\ UNCHANGED <<closure, clause, store, overlap, export, control>>
     \/ part = "control" /\ Control!Next /\ UNCHANGED <<closure, clause, store, overlap, export, api>>

MCSpec == /\ MCInit /\ [][MCNext]_<<part, closure, clause, store, overlap, export, api, control>>
          /\ WF_closure(part = "closure" /\ Next)

\* What apply reports as applied is the row's output (module ClauseWorkbench).
AppliedIsSound == part = "clause" => Clause!AppliedIsSound

\* A generated row is not overwritten by a seed (module ClauseWorkbench).
GeneratedKept == Clause!GeneratedKept

\* One process at a time: the file implements an append-only store (module ReviewStore).
StoreRefined == Store!StoreRefined

\* Processes that overlap: each stored item is still one its log explains.
StoredItemsSound == part = "overlap" => Overlap!StoredItemsSound

\* An attempt that an exported output names is in the audit (module WorkflowExport).
AuditCoversRuns == part = "export" => Export!AuditCoversRuns

\* A revoked token stays revoked (module RegistryApi).
RevokedForGood == Api!RevokedForGood

\* Of creates that race, one is let in, and its row stands (module RegistryApi).
CreatesStand == part = "api" => Api!CreatesStand

\* No attempt denies a model call that was made (module ControlledGeneration).
AuditTellsCalls == part = "control" => Control!AuditTellsCalls

\* No call without the evidence demanded for it (module ControlledGeneration).
CallsWarranted == part = "control" => Control!CallsWarranted
=============================================================================
