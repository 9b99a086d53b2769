# A TLA+ model of the EMTL historian workflow

This directory specifies, model-checks and proves properties of the program in
this repository. The program takes a historical document through a pipeline of
language-model stages (summary, entities, clauses, event cuts, event headwords,
occurrences, assembled tagset). Every stage writes a row of the database, a
historian reviews it, and only what was accepted is handed to the next stage and
to the export. The models, calls and files are slow, tabs and commands overlap,
and few handlers take a lock: what has to be right is which output may replace
which, and that a decision is about the output it is shown beside.

Paths below are under `src/emtl-historian-workflow/emtl_django/tagger/` unless
they start with `src/`.

## 1. Inventory

### Components, their state and their operations

| Component | State | Operations | What makes it correct |
|---|---|---|---|
| Entity generation and ledger (`services/entity_generation.py`, `entity_persistence.py`) | `StageOutput` row `entity_registry`; one `StageExecutionAttempt` row per request id | reserve, gates, one generate call, classify, persist, promote a recorded attempt | a request id is called at most once; only usable outcomes become candidates; accepted output is not replaced; recorded outcomes stand |
| Entity review (`live_workflow.py`, `entity_review_handoff.py`, `live_views.py`) | decisions and review inside the row's payload; `NewIdProposal` rows; an exported review file | decide a row, accept remaining, finalize, accept stage, propose, decide a proposal, export, import | the approval covers the rows it stands beside, decisions are not lost |
| Legacy workbench (`views.py`, `update_stage_output`) | the same rows | run-local, run-fixture, check, approve-pending, continue, request-rerun, proposal edits | never lets unreviewed output through |
| Event headword review item (`event_headword_review.py`) | item: state, revision, candidates, proposal, evidence, assignment, audit log; optionally a JSON file of items | create, seven review actions, accept remaining, repository save and replace | history, state and assignment agree; revisions are not lost |
| Live headword review (`live_workflow.py`, `live_views.py`) | payload of the `eventcut_extraction` row: cuts, dense lookup, items, accepted assignments | lookup and chooser, action, accept remaining, sync (also on showing the page), occurrence gate | items fit cuts; what leaves is final; edits stand |
| EventCut extraction (`eventcut_extraction.py`) | attempt row and eventcut row | reserve, generate, persist package | as the ledger |
| Dense lookup and remote GPU (`live_workflow.py`, `event_lookup_dense.py`) | one provider process on one remote machine, job directories | stop provider, encode, start provider, retry commands | the provider is up again for whoever needs it |
| Stage lifecycle (`live_workflow.py`, `live_views.py`, `clause_persistence.py`) | rows of summary, clause parser, occurrences, assembler; `Clause` rows | run, edit, accept, reset on a new source text | downstream rows come from accepted upstream rows |
| Clause application and revalidation (`clause_application.py`, two commands) | clause rows, provenance audit with hashes | plan, apply, recognise as applied | idempotent; nothing else changes |
| Orchestrator (`workflow_orchestrator.py`, `stage_config.py`) | snapshot in `Document.metadata` | dependency closure, plan, resume | the closure is the smallest one; no resume is lost; a plan is never stuck; the page agrees with it |
| Export and decisions (`export_contract.py`, `review_decisions.py`) | none | build package | what it names as the origin of an output is in its audit; `accepted_data` holds final things only |
| Providers, runner, preflights, readiness (`stage_runner.py`, `providers/`, `gpu_readiness.py`) | evidence in the provider process | health, tokenize, diagnose, generate | a call is warranted by evidence of this process and this size; the audit does not deny a call |
| Text parsing, validation, retrieval (`entity_output.py`, `entity_registry.py`, `entity_knowledge.py`, `stage_validation.py`) | none | pure functions | — |
| Registry API (`src/app`) and MCP client (`src/mcp-server`) | users, tokens, docx tables | create, read, delete, token create / use / revoke, login again on 401 | a revoked token stays revoked; of creates that race one is let in |
| Registry migrations (`src/app/alembic`, `src/Dockerfile`) | tables, `alembic_version` | stamp, upgrade, downgrade, first administrator | version and tables agree; rows survive; containers come to serve |
| Site, integrations, infrastructure | — | configuration, stubs, declarations | — |

### How they interact

Handlers communicate through database rows and through nothing else. The live page
(`live_views.py:135`) reads every row at the start of a request and passes the
objects on; what the handler then saves is a list of columns, and a JSON payload
is one column. Three kinds of writer follow from this, and the models keep
them apart:

* **locked**: reads again under `select_for_update` inside a transaction
  (`reserve`, `persist`, `promote`, `save_entity_review_decision`,
  `finalize_entity_review`, `propose_entity`, `import`, `save_source_document`,
  the persist of an extraction). One action.
* **read, then save whole**: the payload saved is the one read at the start
  (`accept_remaining_entities`, every headword handler, every stage run). One
  action per database access; in between the handler's copy is in `req`.
* **columns written back as read**: the legacy workbench saves `status` and
  `provenance` only. Also one action per access, with those columns in `req`.

A process may die or refuse between any two accesses (`Abandon`); the rows stay as
they are. The orchestrator, the source editor and the apply command lock the row of
the document as well, which keeps them apart from each other and from nobody else.

Three parts do not meet in the database. The commands on a review file read and
replace a whole JSON file. Lookups share one machine with one GPU and one provider
process. The Registry API is a service of its own with its own database, migrations
and containers, reached through the MCP server's client.

### Hard behaviours

Late results after an approval or after an edit of the source; stale whole-payload
saves by a second tab; plans, seeds and applications computed from rows that are not
locked; lost answers of commands and calls; containers that migrate one database at the
same time; a request id that is submitted twice; replays of recorded
attempts; review files older than the candidate; the two saves of a lookup; a page
that writes when it is shown. `PROJECT.json` lists them as hazards at the lines where
they bite.

## 2. Modules

| Module | What it is |
|---|---|
| `RequestLedger` | abstract specification of a request id: unused, reserved, recorded; at most one call, only under a reservation |
| `EntityRegistry` | the Entity Registry row, attempts, review, proposals, review file, and all handlers that write them |
| `HeadwordItem` | one review item as a pure state machine; what an item at rest must look like |
| `LiveHeadwords` | the eventcut row and the requests that work on it; uses `HeadwordItem` |
| `ReviewStore` | abstract specification of a store of review items: created once, then one action at a time on the item as it is |
| `HeadwordStore` | the JSON file of review items and the processes of the command that works on it; uses `HeadwordItem`, implements `ReviewStore` |
| `StageLifecycle` | the rows of Summary, Clause Parser, Occurrences and Assembler on the live page, their attempts and the document's clauses |
| `ClauseWorkbench` | the clause row under the older workbench, the seeds, and the commands that revalidate and apply a stored output |
| `WorkflowExport` | the queries of an export, the decision records and the package, beside the writers of what it reads |
| `StageConfig` | the stage profiles as values |
| `DependencyClosure` | the worklist loop of `dependency_closure` |
| `WorkflowPlan` | the plan for a selection of stages, and the status chips of the page, as operators on stage rows |
| `Orchestrator` | the metadata column of a document: resumes under a lock beside handlers without one; uses `WorkflowPlan` |
| `ControlledGeneration` | one Entity generation under its gates against a provider that restarts and loses answers |
| `GpuLookup` | lookups that stop and start the one provider |
| `RegistrySchema` | the registry's tables as `db.py` declares them, and the migrations' statements |
| `RegistryDeploy` | containers that stamp, migrate and serve one database |
| `RegistryApi` | requests to the Registry API, tokens, and clients that give up |
| `*Proofs` | the theorems about the module they are named after; `DocumentsProofs` and `ServicesProofs` are about the components that `MCDocuments` and `MCServices` hold |
| `MCEntityRegistry`, `MCLiveHeadwords`, `MCStageLifecycle` | symmetry sets for the runs |
| `MCDocuments`, `MCServices` | several components side by side in one run, see section 3 |

### EntityRegistry and the code

| Model | Code |
|---|---|
| `row.status`, `row.raw` | `StageOutput.status`; `raw_output`, known by the attempt it came from |
| `row.payload.attempt` | `entity_review.attempt_id` with the parsed `entity_output.tags` of that attempt |
| `row.payload.decisions` | `live_entity_decisions`, by row number (1-based here) |
| `row.payload.review`, `.reviewed` | `entity_review.state`; `review_rows` with the attempt they were made of |
| `row.approved` | `provenance.entity_registry.approved_for_downstream` |
| `attempts[q]` | the attempt row: outcome (`pending`, `usable`, `unusable`), number of parsed rows, version of the source text, disposition |
| `calls[q]` | generate requests the provider received (external; a history variable) |
| `file` | the review file that `export_entity_review_file` wrote last |
| `req[w]` | what handler `w` holds between two accesses |

`usable` stands for the condition of `entity_persistence.py:97-111` (complete
source package and either completed and valid, or real output with parsed rows);
the outcome of a call is any value of `Result`. A gate before the call
(`GateFails`) yields an unusable outcome without a call. The continue action of
the workbench merges the approval of pending proposals with the save of the
row, which nothing reads in between. Before the clause parser is accepted,
`continue` only writes `blocked`; whether it is accepted is left open
(nondeterministic), because the clause row belongs to another component.

### HeadwordItem, LiveHeadwords and the code

An item's fields are those of `create_review_item` (lines 297-318), without what
is only shown. `Results(item, action)` is `apply_review_action` as a set: every
item it can return over the arguments of a request, the empty set where it
raises. `Path`, `Replays` and `Warranted` are not code: they say what an item
must look like.

| Model | Code |
|---|---|
| `eventcut.payload.cuts` | valid `parsed_event_cuts` |
| `.items`, `.lookup` | `headword_review_store.items` by event cut; `lookup` numbers the lookup that made them, so that a property can tell items of two lookups apart |
| `.assigned` | `accepted_assignments` |
| `BeginLookup`, `SaveLookup`, `SaveItems` | the two saves of `run_dense_and_chooser` (136 and 161); encoder and chooser in between return any choice |
| `BeginHeadword`, `HeadwordAction` | `apply_headword_action`; the encoder runs between them when the action submits a proposal |
| `BeginShow`, `Show` | `live_views.py:75-76`, a GET that saves |
| `BeginOccurrence`, `Occurrence` | `run_occurrence` up to the generation; the payload it will work on is kept in `req` |

The `accept_stage` handler could name the eventcut row; no form of the live page
does (`templates/tagger/live_workbench.html`), so it is not an action here.

### StageLifecycle and the code

| Model | Code |
|---|---|
| `rows[s]` | `StageOutput` of the stage: status and output; an output is known by a number, who made it, the text and the accepted output it was made from, and whether it passed its validation |
| `clauses` | the `Clause` rows of the document: which output filled them, for which text |
| `attempts` | outputs that have a `StageExecutionAttempt` |
| `req[w]` | copies of the rows and the document that `live_views.py:135-137` takes when the request begins |
| `Begin`, `Ready`, `Answer`, `SaveRow`, `ReplaceClauses` | a run: gates, generation, attempt, row, and for the clause parser its clauses |
| `SaveSource` | `save_source_document`, which takes the document's lock and resets every row |
| `eligible` | whether the Entity row is eligible (`EntityRegistry`); it may change at any time |

`overlap` records whether two requests have ever been under way together. The properties
about the text, the accepted inputs and the clause table hold while they have not; with
overlapping requests the whole-row saves of section 1 break them in the manner of
`EntityStaleText`: a run saves over a row that was accepted, or whose text was replaced,
while the model worked. The page promises these things of requests one after the other
only, so the hazard is listed without a property. `AttemptsPrecedeRows` holds under any
overlap.

A run or an edit of the clause parser saves its row and replaces the clauses in a second
transaction; a request may die in between (`Abandon`). `torn` records that one did, until
the clauses are replaced or reset again; `ClausesFitRow` says that in no other way does the table
come apart from the row.

### ClauseWorkbench and the code

An output is graded by how far it reproduces its text (`Grade`): the grades are what
the different validators of the runner, of revalidation and of application tell
apart. `row.prov` keeps the provenance flags the code branches on. Each page of
`Pages` is one action of `update_stage_output` or of the workbench; the copy it saves
is `req[w].seen`. `Revalidate` and `Apply` are the commands, each one transaction with
the rows locked. `raced` and `blessed` are history. The actions that
run nothing (`SaveAction`: check, approve-pending, continue, request-rerun) save status
and provenance of that copy.

### HeadwordStore, ReviewStore and the code

`file` is the JSON file by item id with the ids of the logged actions. A process reads
it, computes, and replaces it in one rename (`Write`), so that reading and writing are
two actions. One process at a time implements `ReviewStore` (`StoreRefined`); two
processes lose updates, but what remains are items their own log explains
(`StoredItemsSound`).

### WorkflowExport and the code

Each query of `build_workflow_export` is an action, in the order of the code
(`ReadStages` ... `Assemble`); the rows, attempts, notes and proposals change in
between by the operations that write them elsewhere, reduced to what the package
shows. A row keeps the attempt its provenance names: a run that records an attempt saves
its row after it (`SaveOutput`); a live clause run and the workbench's local and fixture
runs leave a row that names none (`SaveUnrecorded`); seeds, resets, edits and reviews keep
what the provenance says (`Seed`, `Reset`, `Edit`, `Review`, `Finalize`). A checking row is
accepted on the live page (`Accept`), any row that needs no rerun on the workbench
(`Continue`), a merely loaded one included. An accepted output therefore need not have an
attempt; what the package promises (`AuditCoversRuns`) is that an attempt it names is
among those it hands over.

### Orchestrator, WorkflowPlan, DependencyClosure and the code

| Model | Code |
|---|---|
| `metadata` | `Document.metadata`: the change flag and `workflow_orchestrator` with its plan, number and the plan before |
| `lock` | `select_for_update` on the document |
| `BeginResume`, `MakePlan`, `Snapshot` | `resume_orchestration` |
| `EditText`, `MarkChanged`, `ClearChanged`, `UseSample` | the workbench's writers of the same column, which save the copy they read |
| `Plan`, `PlanState` | `build_orchestration_plan` on given rows |
| `Chip` | `pipeline_context`, what the page shows beside the plan |

`WorkflowPlan` takes the closure as a set (`ClosureOf`); `DependencyClosure` shows that
the loop of the code computes that set.

### ControlledGeneration, GpuLookup and the code

`server` is the provider process with the readiness evidence it keeps, which a restart
clears; the program of that server is not part of this repository, and the clients'
handling of its answers is what is modelled. `client = "bedrock"` skips the hardware
gates as the code does. `careful` is `require_readiness_evidence`, which the command
sets and the live page does not (`live_workflow.py:105`). In `GpuLookup`, a command may
fail before or after its effect, and is repeated up to `MaxAttempts` times while the
failure looks like a broken connection; the process on the port is dying, down,
loading or serving. A lookup's process may die with its `finally` (`Die`), which reports
nothing; `died` records it until the provider is up again.

An answer of generate is whole, invalid, truncated, refused, lost, unreadable
(`malformed`), or of a shape the client does not know (`unsupported`). What a
client reports depends on it (`GpuResult`, `BedrockResult`): an unsupported answer is a
failed validation for both, of a call that the GPU client calls unknown and the Bedrock
client calls made.

### RegistrySchema, RegistryDeploy, RegistryApi and the code

Tables are sets of references (column, table); columns without references are left
out. `Script` is the statements of both revisions in their order. A transaction sees
its own changes and holds the names it has touched; what PostgreSQL does with
collisions (waits, errors, deadlock detection) is external: a create waits for another
transaction's uncommitted create of the name, a drop only for another's drop, so that
`DROP TABLE IF EXISTS` passes by a table nobody has committed (`Blocks`). `RegistryApi` splits a
request at its database sessions: authenticate, time of last use, look, commit,
read back. Creates of one key that pass each other's look meet at the commit, where
the database refuses all but one (`CommitCreate`); the refused ones are answered as a bad
request, not as the conflict a look would have told. `CreatesStand` says that the one let
in keeps its row until a delete of the key.

## 3. Runs

| Run | Instance | Shows |
|---|---|---|
| `EntityReview` | 2 requests, 2 handlers, generation and review, 1 row, 1 edit of the source | ledger, protection, decisions and rows |
| `EntityWorkbench` | 2 requests, 1 handler of either page, up to 2 rows, 1 proposal | write-back handlers beside replays, locked decisions, imports; outputs of different length |
| `HeadwordTabs` | 1 event cut, 2 requests, 1 event, 3 batches | the life of an item under two tabs, replaced cuts and late saves |
| `HeadwordOneTab` | 2 event cuts, 1 request, 2 events, 3 batches | what holds while requests do not overlap |
| `Stages` | 2 requests, 2 texts, 3 outputs (2 once requests overlap) | provenance of rows, clauses and attempts; a death between two saves |
| `Documents` | parts: closure, clause row, review file by one and by two processes, export, API, generation | smallest closure and its termination; apply; seeds; refinement of the store; audits; tokens and keys |
| `Services` | parts: lookups, deployment, plans, pages | safety and liveness of what has to go on |
| `EntityStaleText`, `EntityStaleReview`, `HeadwordExport`, `HeadwordBulk`, `StageInvalid` | as above, smaller | the five disagreements of section 5 |

`Documents` and `Services` hold components that share no state. Their variable `part`
says which one moves; the others stay as they start, so that the states are the sum
of the parts' states and not their product. Each part's formulas are those of its own
module, under the values the `INSTANCE` gives; sets and bounds are constants of `MCDocuments` and
`MCServices`, so that what is proved of them is proved for all values, and the `.cfg` gives the
small ones below.

**Bounds and why they are enough.** Interference needs two handlers: one that read and
one that wrote in between; a third adds no new pair. Two requests give a candidate and
one that replaces it, or a replay of an older one. Two rows give an output that is
longer than the other and one decision out of range. One source edit separates an
attempt from the text. `MaxBatch` counts extractions and lookups; three allow cuts,
items for them, and one replacement of either under a request that still holds the old
payload. In `Stages`, three outputs allow an accepted input, what is made of it, and a
replacement; `MaxShared` counts outputs once requests overlap. In `ClauseWorkbench`,
two answers and three pages allow a save over another's and a reset beside both. In
`GpuLookup`, two attempts are one and its repetition; two lookups overlap in every way. In
`RegistryDeploy`, two containers, one crash and one downgrade; a database is fresh, as
`create_all` left it, or at the first revision. In `ControlledGeneration`, two prompt
sizes, one restart and two passed diagnostics, which is one of each kind, or one whose
size or process is wrong. In `Orchestrator`, two resumes by two processes, over the row
of one stage for the overlap (`plans`), and over all statuses of the rows of the four
stages without overlap (`pages`). For the loop of `DependencyClosure`, requirements are
thinned so that it goes around more than once. In `WorkflowExport`, an export follows one
filled row of three stages (`MaxRows`, `Followed`: the entity row, the event cuts, and the
clause row that names no attempt) and one attempt beside it (`MaxAttempts`); `Marks` keeps
one review state and one verdict. A row saved after its attempt, between two queries, is
the case that matters, and it needs one of each. Bounds are guards or sizes of sets, and
each is named where it is declared. Sets of requests, handlers, cuts, events and the
like are only compared, so that permuting them is sound; runs with liveness use no
symmetry.

**Deadlock** is checked except in `Documents` and `Services`, whose parts really end: the
closure returns, a bounded number of lookups, diagnostics, runs or pages is used up.

**Fairness** is assumed only where the code or its platform schedules the work itself:

* `GpuLookup`: a command in progress ends (it has a timeout), polling ends (it has a
  deadline), a killed process exits, a started one comes up or runs out of memory.
* `RegistryDeploy`: the cluster keeps its containers running, so that a container goes on.
* `DependencyClosure`: the loop runs.

All are weak. Requests of people are under no fairness: nobody has to click.

## 4. Proofs

`EntityRegistryProofs` proves, for all sets of requests, handlers and proposals
and all bounds, from the assumptions named in `EntityRegistry` (the bounds
are numbers, `None` is none of the other values, "accepted" is a decision):

* `InvariantHolds`: `Inductive` is an invariant.
* `TypeCorrect`, `DecisionsAlwaysFit`, `ReviewAlwaysCovers`,
  `RegistryAlwaysUsable`: the safety invariants, each a part of it.
* `AcceptedRawHolds`, `RecordedOutcomeHolds`: action properties, step by step
  from it.
* `LedgerImplemented`: the specification implements `RequestLedger` under
  the mapping `LedgerStage`.

Why the invariant is what it is. That decisions fit rows cannot be shown from the
row alone: `accept_remaining_entities` writes back a payload read long ago, so
every payload in memory must fit the attempts too (`PayloadsFit`). An attempt's
number of rows may only change while no payload shows it, so an attempt that is
shown has a recorded outcome, and a handler that still records one owns a pending
attempt that no other handler owns (`OwnedPending`). The ledger needs the same
ownership together with the fact that no call is made without a reservation
(`CallsReserved`). The step case is split by action; `HandlerMoves`,
`HandlersRest` and the like carry the part of the invariant about handlers.

`LiveHeadwordsProofs` proves, for all sets of cuts, requests, events and headwords and
every `MaxBatch`, from `HeadwordAssumption`, `BatchAssumption` and `AbsentAssumption`
(`None` is no item, assignment, event or other value, `MaxBatch` is a number):

* `InvariantHolds`: `Inductive` of `LiveHeadwords` is an invariant.
* `TypeCorrect`, `ItemsAlwaysWarranted`, `StoreAlwaysFits`, `OccurrencesFinal`:
  the safety invariants, which follow from it.
* `ExportAlwaysFinal`, `DecisionsAlwaysStand`, `EditsPreservedAlone`: what holds while
  requests come one at a time (`OneAtATime`: any two members of `Workers` are the same). That
  hypothesis is needed: with two requests the first and the last are violated
  (`HeadwordExport`, `HeadwordBulk`).

The argument has three layers. One item: `NewItemsSound` and `ResultsSound` say that
the chooser makes sound items and that `apply_review_action` makes sound items of
sound ones. That the audit log replays is kept by any step along a path
(`MovedReplays`); that the assignment is warranted needs to know what an open item
has prepared for its next action, a selection or a proposal with evidence
(`Prepared`), which is the strengthening. One payload: `SyncedGood` says that the
status sync keeps a payload good, and makes it final when it makes the row
accepted. All requests: a request saves whole what it read before, so the invariant
must hold of every payload in memory, not only of the row (`Safe`, equivalent to
`Inductive`). For one request at a time `Alone` adds that the payload in its hands is
the row's, unless an extraction or a new text has emptied the row meanwhile, and that the
row is not accepted between the two saves of a lookup; a whole save then changes no more
than the request was asked to.

`HeadwordStoreProofs` proves, with the lemmas of the first layer, cited through
`Live == INSTANCE LiveHeadwordsProofs`:

* `StoreAlwaysSound`: `StoredItemsSound` for any number of processes. A process writes a
  whole file, so the invariant (`WholeFile`) is about each copy about to be written as
  well as about the file.
* `StoreAlwaysRefines`: under one process at a time, every step maps to a step of
  `ReviewStore` or leaves the store alone. A copy about to be written is then one abstract
  action ahead of the file (`AllAhead`), which is what makes its write that action.

`StageLifecycleProofs` proves, for every number of requests and all bounds, from
`BoundAssumption` and `NoneAssumption` (the bounds are numbers, `None` is no output):

* `StageTypes`: the types, with what a request holds at each of its steps.
* `StageAttemptsPrecedeRows`: under any overlap. A request on its way to save a model's
  output has recorded the attempt, and attempts are only added (`Recorded`).
* `StageClausesFitRow`: while no two requests have overlapped. A request that has saved the
  row and not yet the clauses holds the row's output, and when there is none and none died
  there, row and clauses agree (`Fitting`).
* `StageUsesSource`, `StageReviewedInputs`, `StageAcceptedWasReviewed`: while no two
  requests have overlapped. Then at most one request is not idle (`overlap` would be
  set otherwise) and its copies of the rows are the rows themselves, which is the
  strengthening all three need: what a run read, it finds unchanged when it saves.

`OrchestratorProofs` proves, for any number of processes, stages and resumes:

* `PlanAlwaysKept`, if `None` is no process (`NoneApart`): while a plan is made the lock is
  held, nobody else writes the metadata, and the copy that will be continued is the
  metadata as it is (`PlanningLocked`); a handler without the lock that saves an older copy
  is what `stale` records.
* `PlanNeverBlocked`, `CompleteAlwaysShown`, for all stages and requirements that can be put
  in an order (`WellOrdered`): statements about the operators of `WorkflowPlan` over all
  rows. The first stage with something to do requires stages before it, those are in the
  closure, and they have nothing left to do. The profiles of `StageConfig` are so ordered
  (`ProfilesInOrder`, which TLC evaluates).

`ControlledGenerationProofs` proves `AuditAlwaysTellsCalls` and `CallsAlwaysWarranted` for any
number of requests, prompt sizes and restarts. Evidence that is kept names the process
and the size it was earned with (`EvidenceEarned`), and a run that is past its gates has
evidence for the process it saw ready (`RunsWarranted`); a restart gives the process
another name, so that what is in the inbox of a dead process stays warranted by the
evidence of that time. What an attempt says is a matter of the step a run has
reached: it writes "no call" only from steps before the call (`NotYetCalled`,
`RefusedUncalled`, `DeniedUncalled`).

`DocumentsProofs` is about the parts of `MCDocuments`. The lemmas `...Moves` say that a behaviour
of `MCSpec` is, for every part, one that starts and moves as that part's module says;
with them each theorem below is one of the composition, under the name its run checks.

* Closure: `ClosureTypes`, `ClosureSmallest`, for every finite set of stages and every requirement
  relation. What is expanded and no longer pending has all its requirements expanded, and
  every closed set around the selection is around what is expanded. That the loop ends is
  checked, not proved.
* Registry API: `RevokedAlwaysStays`, `CreatesAlwaysStand`, for any tokens, users, keys and
  requests. The first needs that whoever is about to write the time of last use does so of
  a token that exists (`TouchesToken`); the second is inductive with the types: a commit
  that finds its key free is the only create of it that was let in, or a delete came between.
* Export: `PackagesAudited`, for all stages followed, marks and bounds. Every row names an
  attempt that is stored, or none; rows are read before attempts, and attempts are only
  added, so the copy of the rows stays behind the copy of the attempts at every step of the
  package (`Behind`).
* Clause row: `AppliedAlwaysSound`, `GeneratedAlwaysKept`, for any handlers, answers and pages.
  `AppliedIsSound` is inductive once the types are known, because every save that is not an
  application takes the claim back. The second needs that a row called a placeholder holds
  no output while no page has raced, and nor does one a reset has seeded (`SeedsEmpty`), and
  that who is about to keep an answer has one (`Answered`).
* Review file and generation: `OneProcessRefines`, `OverlapSound`, `AuditTells`,
  `AllCallsWarranted` carry the theorems of `HeadwordStoreProofs` and `ControlledGenerationProofs` over.

`ServicesProofs` is about the parts of `MCServices`, in the same way.

* Lookups: `LookupTypes`, `ProviderNeverSilentlyDown`, for any requests, lookups and attempts. The
  provider is down only between somebody's stop and start; as long as it is, a request is
  at work that will start it, an error has been reported, or a lookup's process has died
  (`SomeoneMends`).
* Plans: `PlansAlwaysKept`, `PlansNeverBlocked`, `CompletePlansShown` carry those of
  `OrchestratorProofs` over; the hypotheses are discharged from `NoneAssumption` and
  `ProfilesInOrder`.
* Deployment: `VersionAlwaysTells`, `RowsAlwaysSurvive`, for any containers, tables with rows,
  crashes and downgrades. The invariant `DeployInv` has three
  parts. `RunOK`: what a container has left to do is a rest of a script that, with what
  its transaction did already, creates and drops exactly what the version it read lacks
  (`Upgrading`) or has too much (`Reverses`). `NamesOK`: no two transactions hold a name,
  what one has dropped is there, and none of what it has created is, unless it has
  dropped that first. `SchemaOK`: under version 0001 the tables are those of the models, or
  the older database's as it was stamped, with nobody serving yet. Together they decide the
  case the property is about: a container commits only if the version it read still
  stands, or stands again after a downgrade, and then what it has dropped are tables of
  the older database, over which nobody has served.

The hypotheses are the named assumptions: bounds are numbers (`BoundsAssumption`,
`AttemptAssumption`, `BatchAssumption` and the like), `None` is none of the records it
stands in for (`NoneAssumption`, `AbsentAssumption`), and the set `One` has at most one process
(`OneAssumption`, for the refinement of the store). The runs evaluate all of them.

Every safety property that a run checks and finds to hold is stated by a theorem. Only
model-checked is liveness (`LookupEnds`, `AllServe`, `Answers`), which is out of
reach of the provers used here. The violated properties are, of course, not theorems.

## 5. Where code and documents disagree

* **A revised text and a late generation** (`EntityStaleText`). "Existing bot
  outputs were reset so downstream results use the revised text" is the notice of
  `save_source`; a generation that started before it persists afterwards, becomes
  the candidate, and can be approved. The attempt keeps the fingerprint of its
  text; `persist_entity_registry_attempt` does not compare it.
* **Accept remaining** (`EntityStaleReview`, `HeadwordBulk`). Both bulk actions
  write back what they read, so an edit or rejection saved by another tab in
  between is lost, although notice and README say that edits and rejects
  are preserved.
* **Exported assignments** (`HeadwordExport`). The second save of a lookup has no
  status; when another tab completes the review of the previous items between the
  two saves, the row stays `accepted` over items nobody reviewed, and the export
  takes the old assignments as final.

* **Failed validation** (`StageInvalid`). The integration guide says of failed validation:
  "do not apply it as accepted stage data". A summary, occurrence or assembler run with
  raw output puts it in the row for review whatever its validation says, and
  `accept_stage` asks only that there is output.

Not a finding, and worth knowing: promoting an attempt rewrites its disposition
and the flag that it was applied, while outcome, rows and source stand
(`RecordedOutcomeStands`). The integration guide asks for append-only attempts of a
database that does not exist yet.

## 6. Not modelled, and why

* `run-backend-stub` (records an outcome that is never usable), the pages' rendering,
  downloads, uploads, correction notes, reads of the Registry API.
* Wording, hashes, timestamps, provenance texts. A hash is equal exactly when what
  was hashed is.
* SQLite ignores `select_for_update`; there a locked handler is serialised by the
  database's single writer, with errors where PostgreSQL would wait. The models
  describe the production database.
* Ranking, embeddings, prompts, and what a model answers: any answer is possible.
* Parsing of model output: only whether it is usable, how many rows it has, and how far
  it covers its source.
* The GPU provider's server: it is not in this repository. What its clients may see of
  it is modelled (`ControlledGeneration`, `GpuLookup`). The runner asks it for its
  version also for a managed model (`entity_generation.py:441-458`).
* Integrations, the Django site and the infrastructure: protocols without an
  implementation, settings, and declarations.

Hazards in `PROJECT.json` without a property carry the reason. Most are states the
program reaches, and nothing in the repository says what should hold of them: an update
of the review file lost to a second process, a run that saves over a row accepted
meanwhile, a plan made from rows that are not locked, an approval beside a pending
proposal. The models contain these steps; the properties that would exclude them are not
stated because nothing promises them.

## 7. Plan

Every module of the first plan is written. What would come next:

1. A composition of `StageLifecycle` with `EntityRegistry` in place of the variable
   `eligible`, once the state spaces allow it; the gate only reads, so that little is
   expected of it.
2. Proofs: `Stages` and `EntityReview` have properties that hold only while requests do not
   overlap, or for accepted rows; the largest set of handlers that may overlap without
   breaking them could be stated and proved.
3. The remaining operations of the older workbench (uploads, notes) and of the Registry
   API (updates and reads), which are single accesses.
