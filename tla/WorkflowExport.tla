---------------------------- MODULE WorkflowExport ----------------------------
(***************************************************************************)
(* The export package of a document.  build_workflow_export reads stage    *)
(* rows, execution attempts, review notes, proposals, the approved user    *)
(* entities and the clauses in separate queries and in that order, without *)
(* a transaction; runs and reviews of other requests commit in between.    *)
(* The package says what is accepted, what was decided, and keeps the      *)
(* attempts as audit.                                                      *)
(*   tagger/services/export_contract.py,                                   *)
(*   tagger/services/review_decisions.py                                   *)
(***************************************************************************)
EXTENDS Naturals, FiniteSets

CONSTANTS Proposals,  \* bound: proposals of new entities
          MaxRuns,    \* bound: runs of stages that record an attempt
          MaxRows,    \* bound: rows that hold something at once
          Marks,      \* bound: review states and verdicts that are distinguished
          Stage,      \* bound: stages whose rows are followed, among StageNames
          None

StageNames ==
         {"summary_keywords", "entity_registry", "clause_parser", "eventcut_extraction",
          "occurrences_registry", "tag_assembler", "key_narrative"}
\* The live runs of these record an attempt; a person may edit the output of those.
Recorded == Stage \ {"clause_parser", "key_narrative"}
Editable == {"summary_keywords", "clause_parser", "occurrences_registry", "tag_assembler"}
\* The stages of stage_config, which have a page on the workbench; the last is future work.
Profiled == Stage \ {"eventcut_extraction"}
Loaded(s) == IF s = "key_narrative" THEN "blocked" ELSE "loaded"

VARIABLES
  rows,      \* the StageOutput rows of the document
  attempts,  \* the runs that have a StageExecutionAttempt
  notes,     \* stages with a ReviewNote that asks for a rerun
  status,    \* the status of each NewIdProposal
  runs,
  copy,      \* what the export has read so far
  package    \* the package that the last step has built

db == <<rows, attempts, notes, status, runs>>
vars == <<db, copy, package>>

\* The review kept on a row: what was said of its entities (entity_review.review_rows),
\* or the states of its event headword items.
Said == [entity_registry      |-> {"accepted", "edited", "rejected"},
         eventcut_extraction  |-> {"llm_selected_candidate", "accepted_existing_headword",
                                   "provisional_headword_pending_review"},
         occurrences_registry |-> {"accepted_llm_choice", "rejected_all_candidates",
                                   "held_for_later", "proposed_new_headword_pending_review"}]
Verdicts == {"pending", "approved", "rejected", "needs_edit"}
Reviews(s) == {{d} : d \in Said[s] \cap Marks}
ReviewOf(c, s) == IF s \in Stage THEN c.stages[s].review ELSE {}
\* A row: run is the attempt that its provenance names, 0 for none; fixture, whether the
\* provenance calls the payload a placeholder.
Statuses == {"not_started", "loaded", "checking", "accepted", "needs_rerun", "blocked"}
Blank == [status |-> "not_started", run |-> 0, fixture |-> FALSE, eligible |-> FALSE,
          review |-> {}]
\* An export that has read nothing.
Fresh == [at |-> "stages", stages |-> [s \in Stage |-> Blank], attempts |-> {},
          notes |-> {}, status |-> [p \in Proposals |-> "none"], approved |-> {}]

Init == /\ rows = [s \in Stage |-> Blank]
        /\ attempts = {} /\ notes = {}
        /\ status = [p \in Proposals |-> "none"]
        /\ runs = 0
        /\ copy = Fresh
        /\ package = None

-----------------------------------------------------------------------------
\* build_review_decisions_for_export.
Decision(type, target, final) == [type |-> type, target |-> target, final |-> final]

StageAccepts(c) ==
  {Decision("accept", s, TRUE) : s \in {s \in Stage : c.stages[s].status = "accepted"}}

StageReruns(c) == {Decision("request_rerun", s, FALSE) : s \in c.notes}

NewIds(c) ==
  LET Type == [approved |-> "accept", rejected |-> "reject", needs_edit |-> "edit"]
  IN {Decision(Type[c.status[p]], p, c.status[p] # "needs_edit") :
        p \in {p \in Proposals : c.status[p] \in DOMAIN Type}}

\* Every reviewed row, whether or not the registry is accepted.
EntityRows(c) ==
  {Decision(d, "entity_row", TRUE) : d \in ReviewOf(c, "entity_registry")}

\* The live items of EventCut, and only without any the older review of occurrences.
HeadwordType(state) ==
  CASE state = "accepted_existing_headword" -> "accept_candidate"
    [] state = "provisional_headword_pending_review" -> "propose_new"
    [] OTHER -> "review_in_progress"

OlderType(state) ==
  CASE state = "accepted_llm_choice" -> "accept_candidate"
    [] state = "rejected_all_candidates" -> "reject_candidates"
    [] state = "held_for_later" -> "hold"
    [] state = "proposed_new_headword_pending_review" -> "propose_new"

EventHeadwords(c) ==
  LET live  == ReviewOf(c, "eventcut_extraction")
      older == ReviewOf(c, "occurrences_registry")
  IN IF live # {}
     THEN {Decision(HeadwordType(i), "headword", i # "llm_selected_candidate") : i \in live}
     ELSE {Decision(OlderType(i), "headword",
                    i \in {"accepted_llm_choice", "rejected_all_candidates"}) : i \in older}

Decisions(c) == StageAccepts(c) \cup StageReruns(c) \cup NewIds(c)
                \cup EntityRows(c) \cup EventHeadwords(c)

Accepted(c) == {s \in Stage : c.stages[s].status = "accepted"}

\* What other requests commit.  _stage_record, _attempt_record, _proposal_record and
\* _note_record copy these fields into the package unchanged.
Room(s) == rows[s] # Blank \/ Cardinality({t \in Stage : rows[t] # Blank}) < MaxRows

Save(s, row) == /\ Room(s)
                /\ rows' = [rows EXCEPT ![s] = row]
                /\ UNCHANGED <<attempts, notes, runs, copy>>

SaveAttempt ==
  /\ runs < MaxRuns
  /\ runs' = runs + 1
  /\ attempts' = attempts \cup {runs + 1}
  /\ UNCHANGED <<rows, notes, status, copy>>

\* A run that records its attempt saves its row after it, and forgets the review; what
\* EventCut extracts is there for the lookup, or is not.
SaveOutput(s, r) ==
  /\ s \in Recorded /\ r \in attempts /\ \A t \in Stage : rows[t].run # r
  /\ \E st \in IF s = "eventcut_extraction" THEN {"loaded", "blocked"} ELSE {"checking"} :
       Save(s, [Blank EXCEPT !.run = r, !.status = st])
  /\ UNCHANGED status

\* A live clause run, and the local and fixture runs of the workbench, leave a row that
\* names no attempt.
SaveUnrecorded(s) == /\ s \in Profiled /\ Save(s, [Blank EXCEPT !.status = "checking"])
                     /\ UNCHANGED status

\* The seed of the sample creates rows and restores those that are fixtures, a reset
\* restores every row; both keep what else the provenance says, the attempt included.
Seed(s) ==
  /\ s \in Profiled /\ (rows[s] = Blank \/ rows[s].fixture)
  /\ Save(s, [rows[s] EXCEPT !.fixture = TRUE, !.eligible = FALSE,
       !.status = IF rows[s] = Blank THEN Loaded(s) ELSE rows[s].status,
       !.review = IF s = "occurrences_registry" THEN rows[s].review ELSE {}])
  /\ UNCHANGED status

Reset(s) ==
  /\ Save(s, [rows[s] EXCEPT !.fixture = TRUE, !.eligible = FALSE, !.status = Loaded(s),
                !.review = IF s \in Profiled THEN {} ELSE rows[s].review])
  /\ UNCHANGED status

\* A person edits the text of an output, has headwords looked up, or checks a row; its
\* provenance still names the attempt.
Edit(s) ==
  /\ s \in Profiled \ Editable => rows[s].status # "accepted"
  /\ Save(s, [rows[s] EXCEPT !.status = "checking"]) /\ UNCHANGED status

\* Decisions on event headwords: those of EventCut set the row's status
\* (sync_eventcut_review_status), the older ones of the workbench do not.
Review(s, review) ==
  /\ s # "entity_registry"
  /\ Save(s, [rows[s] EXCEPT !.review = review,
       !.status = IF s # "eventcut_extraction" THEN rows[s].status
                  ELSE IF "llm_selected_candidate" \in review THEN "checking" ELSE "accepted"])
  /\ UNCHANGED status

\* The review of the entities, of none where none was tagged, is finalized or imported;
\* the row is eligible downstream.
Finalize(review) ==
  /\ Save("entity_registry", [rows["entity_registry"] EXCEPT
                                !.status = "accepted", !.eligible = TRUE, !.review = review])
  /\ UNCHANGED status

\* accept_stage, of a row that is checking.
Accept(s) == /\ s # "entity_registry" /\ rows[s].status = "checking"
             /\ Save(s, [rows[s] EXCEPT !.status = "accepted"]) /\ UNCHANGED status

\* The workbench approves the proposals that are pending, on demand or as it continues
\* with the entities; their review in the payload it does not save.
Approved == [p \in Proposals |-> IF status[p] = "pending" THEN "approved" ELSE status[p]]

ApprovePending == status' = Approved /\ UNCHANGED <<rows, attempts, notes, runs, copy>>

\* It continues with any row but one that needs a rerun, if what the stage requires was
\* accepted when the page was read.
Continued(s) == CASE s = "key_narrative" -> {"blocked"}
                  [] s \in {"occurrences_registry", "tag_assembler"} -> {"accepted", "blocked"}
                  [] OTHER -> {"accepted"}

Continue(s, st) ==
  /\ s \in Profiled /\ rows[s].status # "needs_rerun"
  /\ Save(s, [rows[s] EXCEPT !.status = st])
  /\ status' = IF s = "entity_registry" THEN Approved ELSE status

\* A note, or none, asks for a rerun (bound: one note; no query falls between the saves
\* of note and row).
RequestRerun(s, note) ==
  /\ s \in Profiled /\ Room(s) /\ notes = {} /\ rows[s].status # "accepted"
  /\ notes' = notes \cup note
  /\ rows' = [rows EXCEPT ![s].status = "needs_rerun"]
  /\ UNCHANGED <<attempts, status, runs, copy>>

\* propose_user_entity reopens the review and keeps its rows.
Propose(p) ==
  /\ Room("entity_registry") /\ status[p] = "none"
  /\ status' = [status EXCEPT ![p] = "pending"]
  /\ rows' = [rows EXCEPT !["entity_registry"].status = "checking",
                          !["entity_registry"].eligible = FALSE]
  /\ UNCHANGED <<attempts, notes, runs, copy>>

Decide(p, verdict) ==
  /\ status[p] # "none"
  /\ status' = [status EXCEPT ![p] = verdict]
  /\ UNCHANGED <<rows, attempts, notes, runs, copy>>

\* Saving the source text resets the rows and deletes the proposals (the clauses, read
\* last, are left out).
SaveSource ==
  /\ rows' = [s \in Stage |-> Blank]
  /\ status' = [p \in Proposals |-> "none"]
  /\ UNCHANGED <<attempts, notes, runs, copy>>

-----------------------------------------------------------------------------
\* The queries of build_workflow_export, one step each.
Took(at) == copy.at = at /\ package' = None /\ UNCHANGED db

ReadStages == Took("stages") /\ copy' = [copy EXCEPT !.at = "attempts", !.stages = rows]

ReadAttempts ==
  Took("attempts") /\ copy' = [copy EXCEPT !.at = "notes", !.attempts = attempts]

ReadNotesLazily ==
  Took("notes") /\ copy' = [copy EXCEPT !.at = "proposals", !.notes = notes, !.stages = rows]

ReadNotes == Took("notes") /\ copy' = [copy EXCEPT !.at = "proposals", !.notes = notes]

ReadProposals ==
  Took("proposals") /\ copy' = [copy EXCEPT !.at = "approved", !.status = status]

\* build_entity_downstream_package asks for the approved proposals again, if the copy
\* of the Entity row is eligible.
ReadApproved ==
  /\ Took("approved")
  /\ copy' = [copy EXCEPT !.at = "clauses",
                !.approved = IF copy.stages["entity_registry"].status = "accepted"
                                /\ copy.stages["entity_registry"].eligible
                             THEN {p \in Proposals : status[p] = "approved"} ELSE {}]

\* The package of copies c: accepted data, review and audit; of an output, the attempt
\* that its provenance names.
Package(c) ==
  [accepted |-> [s \in Accepted(c) |-> c.stages[s].run],
   entities |-> c.approved, decisions |-> Decisions(c),
   final |-> {d \in Decisions(c) : d.final},
   outputs |-> [s \in Stage |-> c.stages[s].run],
   audit |-> c.attempts]

Assemble ==
  /\ copy.at = "clauses"
  /\ package' = Package(copy)
  /\ copy' = Fresh
  /\ UNCHANGED db

Commit == \/ SaveAttempt
          \/ \E s \in Stage : \/ \E r \in 1..MaxRuns : SaveOutput(s, r)
                              \/ SaveUnrecorded(s) \/ Seed(s) \/ Reset(s)
                              \/ Edit(s) \/ Accept(s)
                              \/ \E st \in Continued(s) : Continue(s, st)
                              \/ \E note \in SUBSET {s} : RequestRerun(s, note)
          \/ \E s \in Stage \cap DOMAIN Said : \E review \in Reviews(s) : Review(s, review)
          \/ \E review \in {{}} \cup Reviews("entity_registry") : Finalize(review)
          \/ \E p \in Proposals :
               \/ Propose(p)
               \/ \E v \in Verdicts \cap Marks : Decide(p, v)
          \/ ApprovePending \/ SaveSource

\* The package is what build_workflow_export returns: it is gone with the next step.
Next == \/ Commit /\ package' = None
        \/ ReadStages \/ ReadAttempts \/ ReadNotes \/ ReadProposals
        \/ ReadApproved \/ Assemble

Spec == Init /\ [][Next]_vars

-----------------------------------------------------------------------------
\* Whatever runs, edits and reviews commit while a package is being read, each attempt
\* that the provenance of one of its stage outputs names is in its audit; an output
\* without one (a clause run, a local run, a fixture) names none.
AuditCoversRuns ==
  package # None =>
    /\ \A s \in Stage : package.outputs[s] \in package.audit \cup {0}
    /\ \A s \in DOMAIN package.accepted : package.accepted[s] \in package.audit \cup {0}

=============================================================================
