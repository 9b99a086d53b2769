----------------------------- MODULE WorkflowPlan -----------------------------
(***************************************************************************)
(* The stages of the workflow, what each requires, and what is computed    *)
(* from them: the closure of a selection, the plan of the orchestrator and *)
(* the pipeline the workbench page shows beside that plan.                 *)
(*   tagger/stage_config.py, tagger/services/workflow_orchestrator.py      *)
(***************************************************************************)
EXTENDS Naturals, Sequences, FiniteSets

CONSTANTS Order,     \* WORKFLOW_STAGE_ORDER, a sequence of stages
          Requires,  \* Requires[s]: the stages whose output s is made from
          Future,    \* stages whose chatbot is not written yet
          Entity,    \* the stage with a downstream approval of its own
          None

Stages == {Order[i] : i \in DOMAIN Order}

Precedence == {p \in Stages \X Stages :
                \E i, j \in DOMAIN Order : i < j /\ Order[i] = p[1] /\ Order[j] = p[2]}
Before(s, t) == <<s, t>> \in Precedence

\* What is expected of the constants: the order lists each stage once, after the stages
\* it requires; every stage has an entry in Requires.
WellOrdered ==
  /\ DOMAIN Order = 1..Len(Order)
  /\ Requires \in [Stages -> SUBSET Stages]
  /\ \A s \in Stages : \A r \in Requires[s] : Before(r, s)
  /\ \A s, t \in Stages : Before(s, t) => ~Before(t, s) /\ s # t
  /\ \A s, t \in Stages : s = t \/ Before(s, t) \/ Before(t, s)
  /\ Future \subseteq Stages /\ None \notin Stages

Status == {"not_started", "loaded", "checking", "accepted", "needs_rerun", "blocked"}

\* A StageOutput as the plan sees it; None where the document has no row of the stage.
Rows == [Stages -> [status : Status, eligible : BOOLEAN] \cup {None}]

-----------------------------------------------------------------------------
Closed(C) == \A s \in C : Requires[s] \subseteq C

\* dependency_closure: "the smallest public-stage set required by the user's
\* selection"; module DependencyClosure has the loop that computes it.
ClosureOf == [R \in SUBSET Stages |->
               {s \in Stages : \A C \in SUBSET Stages : R \subseteq C /\ Closed(C) => s \in C}]

\* What a selection lacks (dependency_warnings, missing_required_stages).
Lacking(s, available) == Requires[s] \ available

Warned(selected) == {s \in selected : Lacking(s, selected) # {} \/ s \in Future}

-----------------------------------------------------------------------------
\* build_orchestration_plan: what can be reused, what each stage waits for, and the
\* first stage with something left to do.
StatusOf(rows, s) == IF rows[s] = None THEN "not_started" ELSE rows[s].status

Reusable(rows, s) == /\ StatusOf(rows, s) = "accepted"
                     /\ s = Entity => rows[s].eligible

ReusableBeforeAsked(rows, R, s) ==
  {t \in R : Before(t, s) /\ Reusable(rows, t)}

ReusableBefore(rows, R, s) ==
  {t \in ClosureOf[R] : Before(t, s) /\ Reusable(rows, t)}

StageAction(rows, R, s) ==
  IF Reusable(rows, s) THEN "reuse_accepted"
  ELSE IF Lacking(s, ReusableBefore(rows, R, s)) # {} THEN "wait_for_dependencies"
  ELSE CASE StatusOf(rows, s) = "checking"    -> "await_human_review"
         [] StatusOf(rows, s) = "needs_rerun" -> "rerun"
         [] StatusOf(rows, s) = "blocked"     -> "retry_after_dependency_recheck"
         [] OTHER -> "run"

\* next_step: the first in order that is not reused.
IsNextAsked(rows, R, s) ==
  /\ s \in R
  /\ StageAction(rows, R, s) # "reuse_accepted"
  /\ \A t \in R : Before(t, s) => StageAction(rows, R, t) = "reuse_accepted"

IsNext(rows, R, s) ==
  /\ s \in ClosureOf[R]
  /\ StageAction(rows, R, s) # "reuse_accepted"
  /\ \A t \in ClosureOf[R] : Before(t, s) => StageAction(rows, R, t) = "reuse_accepted"

PlanState(rows, R) ==
  LET next == {StageAction(rows, R, s) : s \in {t \in Stages : IsNext(rows, R, t)}}
  IN CASE next = {} -> "complete"
       [] "wait_for_dependencies" \in next -> "blocked"
       [] "await_human_review" \in next -> "waiting_for_review"
       [] OTHER -> "ready"

\* What the fingerprint is taken of; equal fingerprints are equal plans.
Plan(rows, R) ==
  [requested |-> R,
   steps |-> [s \in ClosureOf[R] |-> [status |-> StatusOf(rows, s), row |-> rows[s] # None,
                                      action |-> StageAction(rows, R, s)]],
   state |-> PlanState(rows, R)]

-----------------------------------------------------------------------------
\* pipeline_context: the chip of a stage on the workbench page, where the selection is
\* a closure already; a future stage is warned about but shown as future first.
Chip(rows, selected, s) ==
  CASE s \in Future -> "future"
    [] s \notin Future /\ StatusOf(rows, s) = "accepted" -> "accepted"
    [] s \notin Future /\ StatusOf(rows, s) = "checking" -> "checking"
    [] s \notin Future /\ StatusOf(rows, s) = "needs_rerun" -> "edit requested"
    [] s \notin Future /\ StatusOf(rows, s) = "blocked" -> "blocked"
    [] OTHER -> IF s \in Warned(selected) THEN "needs prerequisites"
                ELSE IF s \in selected THEN "selected" ELSE "available"
=============================================================================
