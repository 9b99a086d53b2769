--------------------------- MODULE EntityRegistry ---------------------------
(***************************************************************************)
(* The Entity Registry stage of one document: the StageOutput row, the     *)
(* attempts that fill it, the human review that approves it, and every     *)
(* request handler that writes it.  A handler that takes a row lock        *)
(* (select_for_update) is one action; a handler that reads the row, works, *)
(* and saves later is one action per database access, so that handlers of  *)
(* two tabs, two users or a tab and a management command interleave.       *)
(*                                                                         *)
(* Source paths below are under                                            *)
(* src/emtl-historian-workflow/emtl_django/tagger/.                        *)
(***************************************************************************)
EXTENDS Integers, FiniteSets

CONSTANTS Requests,    \* request ids; an attempt is known by its request id
          Workers,     \* request handlers that can be under way at once
          Proposals,   \* user proposals (NewIdProposal rows) ever created
          Decisions,   \* bound: the row decisions a reviewer takes
          Clients,     \* bound: which kinds of handler are at work
          MaxRows,     \* bound: rows (tags) in one parsed model output
          MaxSource,   \* bound: edits of the source text
          None

ASSUME BoundsAssumption == /\ Decisions \subseteq {"accepted", "edited", "rejected"}
                           /\ "accepted" \in Decisions
                           /\ Clients \subseteq {"generation", "review", "workbench"}
                           /\ MaxRows \in Nat
                           /\ MaxSource \in Nat
VARIABLES
  source,     \* version of the document's working source text
  row,        \* the entity_registry StageOutput row
  attempts,   \* StageExecutionAttempt rows, by request id
  calls,      \* generate calls the model provider received, by request id
  proposals,  \* status of each user proposal
  file,       \* the exported review file, None when there is none
  req         \* what each request handler holds between two database accesses

vars == <<source, row, attempts, calls, proposals, file, req>>

Status == {"not_started", "checking", "accepted", "needs_rerun", "blocked"}
ReviewState == {"none", "review_candidate", "approved"}
ProposalStatus == {"absent", "pending", "approved", "rejected", "needs_edit", "deleted"}

(* pending: reserved, no outcome yet.  usable: complete source package, and  *)
(* either completed and valid, or real model output with parsed rows that a  *)
(* human can review; entity_persistence.py:97-111.                           *)
Execution == {"pending", "usable", "unusable"}
Disposition == {"recorded_only", "applied_to_checking", "invalid_not_applied",
                "accepted_protected"}

AttemptId == Requests \cup {None}
RawId == AttemptId \cup {"fixture"}
Reviews == UNION {[D -> Decisions] : D \in SUBSET (1..MaxRows)}
Reviewed == [of : AttemptId, rows : Reviews]
Payload == [attempt : AttemptId, decisions : Reviews, review : ReviewState,
            reviewed : Reviewed \cup {None}]
Row == [status : Status, raw : RawId, payload : Payload, approved : BOOLEAN]
Attempt == [execution : Execution, rows : 0..MaxRows, source : 0..MaxSource,
            disposition : Disposition]
File == [attempt : AttemptId, raw : RawId]
Result == [execution : {"usable"}, rows : 0..MaxRows]
            \cup [execution : {"unusable"}, rows : {0}]

ASSUME NoneAssumption ==
  None \notin Requests \cup Proposals \cup Attempt \cup Reviewed \cup Result \cup File

Op == {"idle", "run", "generate", "persist", "accept", "finalize",
       "accept_remaining", "approve_proposals", "approve_own", "ignore", "run_local",
       "check", "request_rerun", "approve_pending", "write_back", "continue"}
Handler == [op : Op, status : Status, payload : Payload, approved : BOOLEAN,
            request : AttemptId, source : 0..MaxSource,
            result : Result \cup {None}, proposal : Proposals \cup {None}]

NoReview == [i \in {} |-> "accepted"]
EmptyPayload == [attempt |-> None, decisions |-> NoReview, review |-> "none",
                 reviewed |-> None]
ResetRow == [status |-> "not_started", raw |-> None, payload |-> EmptyPayload,
             approved |-> FALSE]
Idle == [op |-> "idle", status |-> "not_started", payload |-> EmptyPayload,
         approved |-> FALSE, request |-> None, source |-> 0, result |-> None,
         proposal |-> None]

Init ==
  /\ source = 0
  /\ row = ResetRow
  /\ attempts = [q \in Requests |-> None]
  /\ calls = [q \in Requests |-> 0]
  /\ proposals = [p \in Proposals |-> "absent"]
  /\ file = None
  /\ req = [w \in Workers |-> Idle]

-----------------------------------------------------------------------------
(* Helpers *)

\* Number of parsed rows (entity_output.tags) a payload carries.
RowsOf(p) == IF p.attempt = None THEN 0 ELSE attempts[p.attempt].rows

\* The gate every downstream stage asks: entity_downstream_is_eligible.
Eligible(r) == /\ r.status = "accepted"
               /\ r.payload.review = "approved"
               /\ r.payload.reviewed # None
               /\ r.approved

\* A payload written from attempt q: a review candidate without decisions.
CandidateMerged(q) == [status |-> "checking", raw |-> q, approved |-> FALSE,
                       payload |-> [row.payload EXCEPT !.attempt = q,
                                                       !.review = "review_candidate"]]

Candidate(q) == [status |-> "checking", raw |-> q, approved |-> FALSE,
                 payload |-> [EmptyPayload EXCEPT !.attempt = q,
                                                  !.review = "review_candidate"]]

\* Is the recorded outcome fit to become the review candidate?
Usable(execution) == execution = "usable"

\* What a handler reads when it starts, and keeps until it saves.
Begin(w, h) == /\ req[w] = Idle
               /\ req' = [req EXCEPT ![w] = h]
               /\ UNCHANGED <<source, row, attempts, calls, proposals, file>>

Finish(w) == req' = [req EXCEPT ![w] = Idle]

ApprovePending == proposals' = [p \in Proposals |->
                     IF proposals[p] = "pending" THEN "approved" ELSE proposals[p]]

-----------------------------------------------------------------------------
(* Controlled generation: reserve, gates, one generate call, persist *)

\* The status is checked on the row as the handler read it, and not again.
BeginRun(w) == /\ row.status # "accepted"
               /\ Begin(w, [Idle EXCEPT !.op = "run", !.source = source])

\* The request id is claimed under the row lock, and claimed once.
ReserveAgain(w, q) ==
  /\ req[w].op = "run"
  /\ attempts' = [attempts EXCEPT ![q] =
       [execution |-> "pending", rows |-> 0, source |-> req[w].source,
        disposition |-> "recorded_only"]]
  /\ req' = [req EXCEPT ![w] = [Idle EXCEPT !.op = "generate", !.request = q]]
  /\ UNCHANGED <<source, row, calls, proposals, file>>

Reserve(w, q) ==
  /\ req[w].op = "run"
  /\ attempts[q] = None
  /\ attempts' = [attempts EXCEPT ![q] =
       [execution |-> "pending", rows |-> 0, source |-> req[w].source,
        disposition |-> "recorded_only"]]
  /\ req' = [req EXCEPT ![w] = [Idle EXCEPT !.op = "generate", !.request = q]]
  /\ UNCHANGED <<source, row, calls, proposals, file>>

\* A health, tokenizer, readiness or fingerprint gate fails: the failure is what
\* will be persisted and the model is not called.
GateFails(w) ==
  /\ req[w].op = "generate"
  /\ req' = [req EXCEPT ![w].op = "persist",
                        ![w].result = [execution |-> "unusable", rows |-> 0]]
  /\ UNCHANGED <<source, row, attempts, calls, proposals, file>>

\* The one generate call and the classification of its response.
Generate(w, result) ==
  /\ req[w].op = "generate"
  /\ calls' = [calls EXCEPT ![req[w].request] = @ + 1]
  /\ req' = [req EXCEPT ![w].op = "persist", ![w].result = result]
  /\ UNCHANGED <<source, row, attempts, proposals, file>>

\* persist_entity_registry_attempt, under the row lock: an accepted row is left
\* alone, a usable outcome replaces the candidate, any other is only recorded.
PersistUnprotected(q, a) ==
  LET disposition == IF Usable(a.execution) THEN "applied_to_checking"
                     ELSE "invalid_not_applied"
  IN /\ attempts' = [attempts EXCEPT ![q] = [a EXCEPT !.disposition = disposition]]
     /\ row' = IF disposition = "applied_to_checking" THEN Candidate(q) ELSE row

PersistAnything(q, a) ==
  LET disposition == IF row.status = "accepted" THEN "accepted_protected"
                     ELSE "applied_to_checking"
  IN /\ attempts' = [attempts EXCEPT ![q] = [a EXCEPT !.disposition = disposition]]
     /\ row' = IF disposition = "applied_to_checking" THEN Candidate(q) ELSE row

PersistAttempt(q, a) ==
  LET disposition == IF row.status = "accepted" THEN "accepted_protected"
                     ELSE IF Usable(a.execution) THEN "applied_to_checking"
                     ELSE "invalid_not_applied"
  IN /\ attempts' = [attempts EXCEPT ![q] = [a EXCEPT !.disposition = disposition]]
     /\ row' = IF disposition = "applied_to_checking" THEN Candidate(q) ELSE row

Persist(w) ==
  /\ req[w].op = "persist"
  /\ LET q == req[w].request
     IN PersistAttempt(q, [attempts[q] EXCEPT !.execution = req[w].result.execution,
                                              !.rows = req[w].result.rows])
  /\ Finish(w)
  /\ UNCHANGED <<source, calls, proposals, file>>

\* The management command that replays a recorded outcome; a transaction that
\* is rolled back when the outcome is not eligible.
Promote(q) ==
  /\ attempts[q] # None
  /\ row.status = "accepted" \/ Usable(attempts[q].execution)
  /\ PersistAttempt(q, attempts[q])
  /\ UNCHANGED <<source, calls, proposals, file, req>>

-----------------------------------------------------------------------------
(* The human review of the live page *)

\* One row decision, checked and saved under the row lock.
SaveDecisionUnchecked(i, d) ==
  /\ row' = [row EXCEPT !.payload.decisions =
               [j \in DOMAIN row.payload.decisions \cup {i} |->
                  IF j = i THEN d ELSE row.payload.decisions[j]]]
  /\ UNCHANGED <<source, attempts, calls, proposals, file, req>>

SaveDecision(i, d) ==
  /\ i \in 1..RowsOf(row.payload)
  /\ row' = [row EXCEPT !.payload.decisions =
               [j \in DOMAIN row.payload.decisions \cup {i} |->
                  IF j = i THEN d ELSE row.payload.decisions[j]]]
  /\ UNCHANGED <<source, attempts, calls, proposals, file, req>>

Approved(payload, reviewed) == [payload EXCEPT !.review = "approved",
                                               !.reviewed = reviewed]

\* finalize_entity_review, under the row lock: the number of decisions is
\* compared with the number of rows; the status is not looked at.
FinalizeDecided(w) ==
  /\ row' = [row EXCEPT !.status = "accepted", !.approved = TRUE,
       !.payload = Approved(row.payload, [of |-> row.payload.attempt,
                                          rows |-> row.payload.decisions])]
  /\ Finish(w)
  /\ UNCHANGED <<source, attempts, calls, proposals, file>>

FinalizeReview(w) ==
  /\ Cardinality(DOMAIN row.payload.decisions) = RowsOf(row.payload)
  /\ row' = [row EXCEPT !.status = "accepted", !.approved = TRUE,
       !.payload = Approved(row.payload,
          [of |-> row.payload.attempt,
           rows |-> [i \in 1..RowsOf(row.payload) |-> row.payload.decisions[i]]])]
  /\ Finish(w)
  /\ UNCHANGED <<source, attempts, calls, proposals, file>>

\* accept_stage: the status of the row as the request read it.
BeginAccept(w) == /\ row.status = "checking"
                  /\ Begin(w, [Idle EXCEPT !.op = "accept"])

AcceptStage(w) == req[w].op = "accept" /\ FinalizeReview(w)

\* finalize_entity: no proposal may be pending when the request looks.
BeginFinalize(w) == /\ \A p \in Proposals : proposals[p] # "pending"
                    /\ Begin(w, [Idle EXCEPT !.op = "finalize"])

Finalize(w) == req[w].op = "finalize" /\ FinalizeReview(w)

\* accept_remaining_entities: no lock; the payload the request read is completed
\* and saved whole, and then the pending proposals are approved.
BeginAcceptRemaining(w) == Begin(w, [Idle EXCEPT !.op = "accept_remaining",
                                                 !.payload = row.payload])

Completed(p) == [p EXCEPT !.decisions =
  [i \in DOMAIN p.decisions \cup 1..RowsOf(p) |->
     IF i \in DOMAIN p.decisions THEN p.decisions[i] ELSE "accepted"]]

AcceptRemaining(w) ==
  /\ req[w].op = "accept_remaining"
  /\ row' = [row EXCEPT !.payload = Completed(req[w].payload)]
  /\ req' = [req EXCEPT ![w] = [Idle EXCEPT !.op = "approve_proposals"]]
  /\ UNCHANGED <<source, attempts, calls, proposals, file>>

ApproveProposals(w) ==
  /\ req[w].op = "approve_proposals"
  /\ ApprovePending
  /\ Finish(w)
  /\ UNCHANGED <<source, row, attempts, calls, file>>

-----------------------------------------------------------------------------
(* User proposals *)

\* propose_entity, under the row lock: the review is reopened.  The live page
\* then approves its own proposal, in a second step.
Propose(w, p) ==
  /\ req[w] = Idle
  /\ proposals[p] = "absent"
  /\ proposals' = [proposals EXCEPT ![p] = "pending"]
  /\ row' = [row EXCEPT !.status = "checking", !.approved = FALSE,
                        !.payload.review = "review_candidate"]
  /\ \/ UNCHANGED req
     \/ req' = [req EXCEPT ![w] = [Idle EXCEPT !.op = "approve_own", !.proposal = p]]
  /\ UNCHANGED <<source, attempts, calls, file>>

Exists(p) == proposals[p] \notin {"absent", "deleted"}

ApproveOwn(w) ==
  /\ req[w].op = "approve_own"
  /\ Exists(req[w].proposal)
  /\ proposals' = [proposals EXCEPT ![req[w].proposal] = "approved"]
  /\ Finish(w)
  /\ UNCHANGED <<source, row, attempts, calls, file>>

DecideProposal(p, status) ==
  /\ Exists(p)
  /\ proposals' = [proposals EXCEPT ![p] = status]
  /\ UNCHANGED <<source, row, attempts, calls, file, req>>

-----------------------------------------------------------------------------
(* The review file: exported, edited by hand, imported *)

ExportReview ==
  /\ row.status = "checking"
  /\ row.payload.review = "review_candidate"
  /\ file' = [attempt |-> row.payload.attempt, raw |-> row.raw]
  /\ UNCHANGED <<source, row, attempts, calls, proposals, req>>

\* The decisions of the file become the review, under the row lock.
ImportAnything(decisions) ==
  /\ file # None
  /\ row.status = "checking"
  /\ row' = [row EXCEPT !.status = "accepted", !.approved = TRUE,
       !.payload = Approved(row.payload, [of |-> file.attempt, rows |-> decisions])]
  /\ UNCHANGED <<source, attempts, calls, proposals, file, req>>

ImportReview(decisions) ==
  /\ file # None
  /\ row.status = "checking"
  /\ file.attempt = row.payload.attempt
  /\ file.raw = row.raw
  /\ DOMAIN decisions = 1..RowsOf(row.payload)
  /\ row' = [row EXCEPT !.status = "accepted", !.approved = TRUE,
       !.payload = Approved(row.payload, [of |-> file.attempt, rows |-> decisions])]
  /\ UNCHANGED <<source, attempts, calls, proposals, file, req>>

-----------------------------------------------------------------------------
(* The source editor *)

\* One transaction: the text is replaced, every stage row is reset, the
\* proposals are deleted.  Attempts are kept.
SaveSource ==
  /\ source < MaxSource
  /\ source' = source + 1
  /\ row' = ResetRow
  /\ proposals' = [p \in Proposals |-> IF Exists(p) THEN "deleted" ELSE proposals[p]]
  /\ UNCHANGED <<attempts, calls, file, req>>

-----------------------------------------------------------------------------
(* The legacy workbench: the row is read, and columns of it written back *)

\* An accepted row is not worked on, and no runner starts before the clause
\* parser is accepted: the provenance alone is written back as read.
BeginIgnore(w) == Begin(w, [Idle EXCEPT !.op = "ignore", !.approved = row.approved])

Ignore(w) ==
  /\ req[w].op = "ignore"
  /\ row' = [row EXCEPT !.approved = req[w].approved]
  /\ Finish(w)
  /\ UNCHANGED <<source, attempts, calls, proposals, file>>

BeginRunLocal(w) == /\ row.status # "accepted"
                    /\ Begin(w, [Idle EXCEPT !.op = "run_local", !.source = source])

\* run-local: no reservation, a fresh request id.
RunLocal(w, q, result) ==
  /\ req[w].op = "run_local"
  /\ attempts[q] = None
  /\ PersistAttempt(q, [execution |-> result.execution, rows |-> result.rows,
                        source |-> req[w].source, disposition |-> "recorded_only"])
  /\ Finish(w)
  /\ UNCHANGED <<source, calls, proposals, file>>

\* run-fixture, also on an accepted row: the sample replaces every column.
RunFixture ==
  /\ row' = [ResetRow EXCEPT !.status = "checking", !.raw = "fixture"]
  /\ UNCHANGED <<source, attempts, calls, proposals, file, req>>

\* check and request-rerun.
BeginMark(w, op) == /\ row.status # "accepted"
                    /\ Begin(w, [Idle EXCEPT !.op = op, !.approved = row.approved])

Mark(w) ==
  /\ req[w].op \in {"check", "request_rerun"}
  /\ row' = [row EXCEPT !.approved = req[w].approved,
       !.status = IF req[w].op = "check" THEN "checking" ELSE "needs_rerun"]
  /\ Finish(w)
  /\ UNCHANGED <<source, attempts, calls, proposals, file>>

\* approve-pending writes the status and the provenance back as read; so does
\* continue on a row that waits for its rerun; continue before the clause parser is
\* accepted writes the status blocked.
BeginWriteBack(w) ==
  \E op \in {"approve_pending", "write_back"}, status \in {row.status, "blocked"} :
    /\ op = "approve_pending" => status = row.status
    /\ op = "write_back" => status \in {"needs_rerun", "blocked"}
    /\ Begin(w, [Idle EXCEPT !.op = op, !.status = status, !.approved = row.approved])

WriteBack(w) ==
  /\ \/ req[w].op = "approve_pending" /\ ApprovePending
     \/ req[w].op = "write_back" /\ UNCHANGED proposals
  /\ row' = [row EXCEPT !.status = req[w].status, !.approved = req[w].approved]
  /\ Finish(w)
  /\ UNCHANGED <<source, attempts, calls, file>>

\* continue: the approval is set on the payload in memory, and the payload is not
\* among the columns saved.
BeginContinue(w) == /\ row.status # "needs_rerun"
                    /\ Begin(w, [Idle EXCEPT !.op = "continue"])

Continue(w) ==
  /\ req[w].op = "continue"
  /\ row' = [row EXCEPT !.status = "accepted", !.approved = TRUE]
  /\ ApprovePending
  /\ Finish(w)
  /\ UNCHANGED <<source, attempts, calls, file>>

-----------------------------------------------------------------------------
\* A handler refuses, raises or dies between two database accesses.
Abandon(w) == /\ req[w] # Idle
              /\ Finish(w)
              /\ UNCHANGED <<source, row, attempts, calls, proposals, file>>

Generation(w) == \/ BeginRun(w)
                 \/ \E q \in Requests : Reserve(w, q)
                 \/ GateFails(w)
                 \/ \E result \in Result : Generate(w, result)
                 \/ Persist(w)

Review(w) == \/ BeginAccept(w) \/ AcceptStage(w)
             \/ BeginFinalize(w) \/ Finalize(w)
             \/ BeginAcceptRemaining(w) \/ AcceptRemaining(w) \/ ApproveProposals(w)
             \/ \E p \in Proposals : Propose(w, p)
             \/ ApproveOwn(w)

Workbench(w) == \/ BeginIgnore(w) \/ Ignore(w)
                \/ BeginRunLocal(w)
                \/ \E q \in Requests, result \in Result : RunLocal(w, q, result)
                \/ \E op \in {"check", "request_rerun"} : BeginMark(w, op)
                \/ Mark(w)
                \/ BeginWriteBack(w) \/ WriteBack(w)
                \/ BeginContinue(w) \/ Continue(w)

Next == \/ \E w \in Workers : \/ "generation" \in Clients /\ Generation(w)
                              \/ "review" \in Clients /\ Review(w)
                              \/ "workbench" \in Clients /\ Workbench(w)
                              \/ Abandon(w)
        \/ \E q \in Requests : Promote(q)
        \/ \E i \in 0..MaxRows + 1, d \in Decisions : SaveDecision(i, d)
        \/ \E p \in Proposals, status \in {"pending", "approved", "rejected", "needs_edit"} :
             DecideProposal(p, status)
        \/ "workbench" \in Clients /\ RunFixture
        \/ ExportReview
        \/ \E decisions \in Reviews : ImportReview(decisions)
        \/ SaveSource

Spec == Init /\ [][Next]_vars

-----------------------------------------------------------------------------
(* Properties *)

\* Every column holds a value the handlers can read back: in particular no
\* decision is ever filed under an index that is not a row number.
TypeOK ==
  /\ source \in 0..MaxSource
  /\ row \in Row
  /\ attempts \in [Requests -> Attempt \cup {None}]
  /\ calls \in [Requests -> Nat]
  /\ proposals \in [Proposals -> ProposalStatus]
  /\ file \in File \cup {None}
  /\ req \in [Workers -> Handler]

\* The decisions a payload holds are about rows of the attempt it shows, whoever
\* replaced the candidate or wrote an older payload back in the meantime: the
\* index lookup of finalize_entity_review (live_workflow.py:381) cannot fail.
DecisionsFit(p) == DOMAIN p.decisions \subseteq 1..RowsOf(p)

DecisionsFitRows == DecisionsFit(row.payload)

\* A recorded review decides every row of the output it stands beside, and
\* was made of that very attempt: what entity_downstream_is_eligible lets
\* downstream stages read (entity_review_handoff.py) is never a review of
\* other rows, although replays, imports and stale whole-payload saves
\* replace the payload between the decisions and the approval.
ReviewFits(p) == p.reviewed # None => /\ p.reviewed.of = p.attempt
                                      /\ DOMAIN p.reviewed.rows = 1..RowsOf(p)

ReviewCoversRows == ReviewFits(row.payload)

\* What the row shows came from an attempt whose outcome was recorded as usable:
\* an incomplete, failed or still pending attempt never becomes the candidate,
\* even through a replay of it (entity_persistence.py:113-124, 224).
CandidateUsable(p) == p.attempt # None => /\ attempts[p.attempt] # None
                                          /\ Usable(attempts[p.attempt].execution)

OnlyUsableRegistry == CandidateUsable(row.payload)

\* "An already accepted StageOutput is immutable here" (entity_persistence.py:84):
\* the model output of an accepted row gives way to no other attempt's output,
\* whichever runner, replay or tab saves late; only an edit of the source text or
\* the sample fixture clears it.
AcceptedRawImmutable ==
  [][row.status = "accepted" => row'.raw \in {row.raw, None, "fixture"}]_vars

\* A request id is one reservation, at most one generate call and one recorded
\* outcome, over crashes, duplicates and replays (RequestLedger).
LedgerStage(q) == IF attempts[q] = None THEN "unused"
                  ELSE IF attempts[q].execution = "pending" THEN "reserved"
                  ELSE "recorded"

Ledger == INSTANCE RequestLedger WITH ledger <- [q \in Requests |-> LedgerStage(q)],
                                      sent <- calls

LedgerRefined == Ledger!Spec

\* A recorded attempt is evidence: the outcome, the parsed rows and the source text
\* it reports are never rewritten, by a late record, a replay, a duplicate request id
\* or an edit of the source ("prior attempts are immutable when next attempt is
\* created", tests/test_entity_controlled_generation.py:694).  Only the note of what
\* was done with it (disposition) may change.
RecordedOutcomeStands ==
  [][\A q \in Requests : LedgerStage(q) = "recorded" =>
       /\ attempts'[q] # None
       /\ attempts'[q].execution = attempts[q].execution
       /\ attempts'[q].rows = attempts[q].rows
       /\ attempts'[q].source = attempts[q].source]_vars

\* Why the above hold, as one induction.  The handlers between a reservation and
\* its record own distinct pending attempts; the provider is called under such an
\* ownership only; and not just the row but every payload a handler holds, to save
\* it whole later, fits the attempts (live_workflow.py:354-366).
Owns(w) == req[w].op \in {"generate", "persist"}

OwnedPending ==
  /\ \A w \in Workers : Owns(w) =>
       /\ req[w].request \in Requests
       /\ attempts[req[w].request] # None
       /\ attempts[req[w].request].execution = "pending"
       /\ req[w].op = "generate" => calls[req[w].request] = 0
       /\ req[w].op = "persist" => req[w].result # None
  /\ \A v, w \in Workers : Owns(v) /\ Owns(w) /\ v # w => req[v].request # req[w].request

CallsReserved == \A q \in Requests : /\ calls[q] \in {0, 1}
                                     /\ attempts[q] = None => calls[q] = 0

Fits(p) == CandidateUsable(p) /\ DecisionsFit(p) /\ ReviewFits(p)

PayloadsFit == Fits(row.payload) /\ \A w \in Workers : Fits(req[w].payload)

Inductive == TypeOK /\ OwnedPending /\ CallsReserved /\ PayloadsFit

\* "Existing bot outputs were reset so downstream results use the revised text"
\* (live_views.py:145): an approved registry was generated from the text the
\* document has now.
SourceEditInvalidates ==
  Eligible(row) /\ row.payload.attempt # None
    => attempts[row.payload.attempt].source = source

\* "edits and rejects were preserved" (live_views.py:207): accepting the remaining
\* rows leaves the decision of every row that was rejected or edited.
RejectsPreserved ==
  [][\A w \in Workers : AcceptRemaining(w) =>
       \A i \in DOMAIN row.payload.decisions :
         row.payload.decisions[i] \in {"edited", "rejected"}
           => /\ i \in DOMAIN row'.payload.decisions
              /\ row'.payload.decisions[i] = row.payload.decisions[i]]_vars
=============================================================================
