----------------------------- MODULE Orchestrator -----------------------------
(***************************************************************************)
(* The workflow plan that is kept in the metadata of a document.  The      *)
(* command workflow_orchestrator_resume and the source editor of the live  *)
(* page hold the row of the document while they work; the handlers of the  *)
(* sample workbench write the copy of the metadata they read before.  The  *)
(* stage rows change under all of them (StageLifecycle, EntityRegistry).   *)
(*   tagger/services/workflow_orchestrator.py, tagger/views.py,            *)
(*   tagger/services/live_workflow.py                                      *)
(***************************************************************************)
EXTENDS WorkflowPlan

CONSTANTS Workers,     \* processes that can be under way at once
          Moves,       \* bound: the statuses a stage row moves to
          Workbench,   \* whether handlers of the sample workbench are among them
          MaxResumes   \* bound: plans made

VARIABLES
  rows,       \* the stage outputs
  metadata,   \* Document.metadata: change flag and workflow_orchestrator (the text in it
              \* is left out)
  lock,       \* who holds the row of the document
  made,       \* plans resumed (history)
  latest,     \* the plans of the last two resumes (history)
  stale,      \* the workbench has saved a metadata column without a plan that another
              \* request had stored in it (history)
  req

vars == <<rows, metadata, lock, made, latest, stale, req>>

NoPlan == [plan |-> None, count |-> 0, previous |-> None]
Idle == [op |-> "idle", read |-> [changed |-> FALSE, orchestrator |-> NoPlan],
         requested |-> {}, plan |-> None]

Init == /\ rows = [s \in Stages |-> None]
        /\ metadata = Idle.read
        /\ lock = None
        /\ made = 0 /\ latest = <<None, None>> /\ stale = FALSE
        /\ req = [w \in Workers |-> Idle]

-----------------------------------------------------------------------------
\* A stage row changes: created, run, accepted, reset; eligibility of an accepted
\* Entity row comes and goes with its review.
RowMoves(s) ==
  /\ \E st \in Moves, e \in BOOLEAN :
       /\ e => s = Entity /\ st = "accepted"
       /\ rows' = [rows EXCEPT ![s] = [status |-> st, eligible |-> e]]
  /\ UNCHANGED <<metadata, lock, made, latest, stale, req>>

\* resume_orchestration takes the lock and reads the metadata,
BeginResumeUnlocked(w, R) ==
  /\ req[w] = Idle /\ made < MaxResumes
  /\ lock' = w
  /\ req' = [req EXCEPT ![w] = [Idle EXCEPT !.op = "plan", !.read = metadata,
                                            !.requested = R]]
  /\ UNCHANGED <<rows, metadata, made, latest, stale>>

BeginResume(w, R) ==
  /\ req[w] = Idle /\ made < MaxResumes
  /\ lock = None /\ lock' = w
  /\ req' = [req EXCEPT ![w] = [Idle EXCEPT !.op = "plan", !.read = metadata,
                                            !.requested = R]]
  /\ UNCHANGED <<rows, metadata, made, latest, stale>>

\* plans on the rows as they are then,
MakePlan(w) ==
  /\ req[w].op = "plan"
  /\ req' = [req EXCEPT ![w].op = "snapshot", ![w].plan = Plan(rows, req[w].requested)]
  /\ UNCHANGED <<rows, metadata, lock, made, latest, stale>>

\* and stores the plan with its number and the fingerprint of the one before it.
Snapshot(w) ==
  /\ req[w].op = "snapshot"
  /\ metadata' = [req[w].read EXCEPT !.orchestrator =
       [plan |-> req[w].plan, count |-> @.count + 1, previous |-> @.plan]]
  /\ made' = made + 1 /\ latest' = <<latest[2], req[w].plan>>
  /\ lock' = None
  /\ req' = [req EXCEPT ![w] = Idle]
  /\ UNCHANGED <<rows, stale>>

\* save_source_document of the live page locks too (and resets every row).
SaveSource(w) ==
  /\ req[w] = Idle /\ lock = None
  /\ rows' = [s \in Stages |-> [status |-> IF s \in Future THEN "blocked" ELSE "not_started",
                                eligible |-> FALSE]]
  /\ UNCHANGED <<metadata, lock, made, latest, stale, req>>

\* The workbench reads the document when the request arrives, without a lock,
BeginEdit(w, op) ==
  /\ Workbench /\ req[w] = Idle
  /\ req' = [req EXCEPT ![w] = [Idle EXCEPT !.op = op, !.read = metadata]]
  /\ UNCHANGED <<rows, metadata, lock, made, latest, stale>>

Outdated(w) == metadata.orchestrator # req[w].read.orchestrator

\* and saves the metadata column with a new text (_replace_document_working_source_text,
\* then _mark_source_text_changed on the same object) or without its change flag, where
\* that was set (_clear_source_text_change_flag).
EditText(w) ==
  /\ req[w].op = "edit" /\ lock = None
  /\ metadata' = req[w].read
  /\ stale' = (stale \/ Outdated(w))
  /\ req' = [req EXCEPT ![w].op = "mark", ![w].read = metadata']
  /\ UNCHANGED <<rows, lock, made, latest>>

MarkChanged(w) ==
  /\ req[w].op = "mark" /\ lock = None
  /\ metadata' = [req[w].read EXCEPT !.changed = TRUE]
  /\ stale' = (stale \/ Outdated(w))
  /\ req' = [req EXCEPT ![w] = Idle]
  /\ UNCHANGED <<rows, lock, made, latest>>

ClearChanged(w) ==
  /\ req[w].op = "clear" /\ lock = None
  /\ metadata' = IF req[w].read.changed THEN [req[w].read EXCEPT !.changed = FALSE]
                 ELSE metadata
  /\ stale' = (stale \/ (req[w].read.changed /\ Outdated(w)))
  /\ req' = [req EXCEPT ![w] = Idle]
  /\ UNCHANGED <<rows, lock, made, latest>>

\* use_sample stores the sample's metadata in one transaction, whatever was kept in it.
UseSample(w) ==
  /\ Workbench /\ req[w] = Idle /\ lock = None
  /\ metadata' = Idle.read
  /\ stale' = (stale \/ metadata.orchestrator # NoPlan)
  /\ UNCHANGED <<rows, lock, made, latest, req>>

\* A process dies; its transaction is rolled back and the lock with it.
Abandon(w) == /\ req[w] # Idle
              /\ req' = [req EXCEPT ![w] = Idle]
              /\ lock' = IF lock = w THEN None ELSE lock
              /\ UNCHANGED <<rows, metadata, made, latest, stale>>

Resuming(w) == (\E R \in SUBSET Stages \ {{}} : BeginResume(w, R)) \/ MakePlan(w) \/ Snapshot(w)

Next == \/ \E s \in Stages : RowMoves(s)
        \/ \E w \in Workers :
             \/ Resuming(w) \/ SaveSource(w)
             \/ (\E op \in {"edit", "clear"} : BeginEdit(w, op))
             \/ EditText(w) \/ MarkChanged(w) \/ ClearChanged(w) \/ UseSample(w)
             \/ Abandon(w)

Spec == Init /\ [][Next]_vars

-----------------------------------------------------------------------------
\* The lock is held exactly while a plan is made; plans and metadata are of their kinds.
TypeOK == /\ rows \in Rows
          /\ lock \in Workers \cup {None}
          /\ \A w \in Workers : req[w].op \in {"plan", "snapshot"} <=> lock = w
          /\ metadata.changed \in BOOLEAN
          /\ metadata.orchestrator.count \in 0..MaxResumes /\ made \in 0..MaxResumes
          /\ \A w \in Workers : req[w].op = "snapshot" => req[w].plan # None

(* No resume is lost to another that overlaps it: the stored plan is the latest one   *)
(* made, carries its number and names the one before it, unless the workbench has     *)
(* saved over it what it had read before, or the sample (workflow_orchestrator.py:    *)
(* 119-136).                                                                          *)
PlanKept == stale \/ /\ metadata.orchestrator.count = made
                     /\ metadata.orchestrator.plan = latest[2]
                     /\ metadata.orchestrator.previous = latest[1]

\* The state "blocked" of a plan is never the answer: the first stage with something
\* to do has everything it requires (workflow_orchestrator.py:93).
NeverBlocked == \A R \in SUBSET Stages : PlanState(rows, R) # "blocked"

\* A plan that says it is complete is one whose every stage the page shows as accepted:
\* no chip beside it asks for anything (stage_config.py:239-325).
CompleteIsShown ==
  \A R \in SUBSET Stages : PlanState(rows, R) = "complete" =>
    \A s \in ClosureOf[R] \ Future : Chip(rows, ClosureOf[R], s) = "accepted"
=============================================================================
