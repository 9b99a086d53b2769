---------------------------- MODULE StageLifecycle ----------------------------
(***************************************************************************)
(* The Summary, Clause Parser, Occurrence Registry and Assembler rows of   *)
(* one document on the live page, the source text they are made from and   *)
(* the table of its clauses.  A request reads the document and all rows    *)
(* when it starts; a run then waits for a language model; what is saved in *)
(* the end is decided by the copies the request started with.  The Entity  *)
(* row and the event headwords (modules EntityRegistry, LiveHeadwords)     *)
(* appear as gates only.                                                   *)
(*   tagger/services/live_workflow.py, tagger/live_views.py,               *)
(*   tagger/services/summary_assembler_generation.py,                      *)
(*   tagger/services/occurrence_generation.py                              *)
(***************************************************************************)
EXTENDS Naturals, FiniteSets

CONSTANTS Workers,   \* requests that can be under way at once
          MaxText,   \* bound: versions of the source text
          MaxOut,    \* bound: outputs generated or typed in
          MaxShared, \* the same once two requests have overlapped
          None

ASSUME BoundAssumption == MaxText \in Nat \ {0} /\ MaxOut \in Nat /\ MaxShared \in 0..MaxOut

Stage == {"summary", "clause", "occurrence", "assembler"}

VARIABLES
  source,     \* version of metadata.working_source_text
  rows,       \* rows[s]: the StageOutput row of stage s
  clauses,    \* the Clause table of the document: which output filled it, for which text
  attempts,   \* outputs that have a StageExecutionAttempt
  eligible,   \* whether the Entity row is eligible for downstream use (external)
  made,       \* outputs so far; numbers them
  decided,    \* outputs a historian has accepted (history)
  overlap,    \* whether a request has begun while another was under way (history)
  torn,       \* a request has died before its clauses followed its row, and neither has
              \* been written since (history)
  req         \* what each request holds between two accesses

db == <<source, rows, clauses, attempts, decided>>
vars == <<db, eligible, made, overlap, torn, req>>

(* An output: where it comes from, the version of the text its request had    *)
(* read, the clause or occurrence output it was made from, and what its       *)
(* validation said.                                                           *)
Output == [id : 1..MaxOut, by : {"model", "human"}, text : 1..MaxText,
           base : 0..MaxOut, valid : BOOLEAN]
ASSUME NoneAssumption == None \notin Output

Status == {"not_started", "checking", "accepted"}
Row == [status : Status, out : Output \cup {None}]
Blank == [status |-> "not_started", out |-> None]
Table == [id : 0..MaxOut, text : 1..MaxText]
Op == {"idle", "run", "edit", "accept", "save", "replace"}
Request == [op : Op, stage : Stage, seen : [Stage -> Row], text : 1..MaxText,
            eligible : BOOLEAN, out : Output \cup {None}]
Idle == [op |-> "idle", stage |-> "summary", seen |-> [s \in Stage |-> Blank],
         text |-> 1, eligible |-> FALSE, out |-> None]

\* An uploaded document: its paragraphs are its clauses.
Init == /\ source = 1
        /\ rows = [s \in Stage |-> Blank]
        /\ clauses = [id |-> 0, text |-> 1]
        /\ attempts = {} /\ decided = {}
        /\ eligible = FALSE
        /\ made = 0
        /\ overlap = FALSE /\ torn = FALSE
        /\ req = [w \in Workers |-> Idle]

-----------------------------------------------------------------------------
\* A request reads the document and its rows; kept are the rows it goes on to use.
Uses(op, stage) == IF op = "accept" THEN {stage}
                   ELSE CASE stage = "occurrence" -> {"clause"}
                          [] stage = "assembler"  -> {"clause", "occurrence"}
                          [] OTHER -> {}

\* A request of w begins, maybe while others wait for a model or for the database; a
\* bound on the outputs keeps overlapping histories short.
Overlaps(w) == /\ overlap' = (overlap \/ \E v \in Workers \ {w} : req[v] # Idle)
               /\ overlap' => made <= MaxShared

Begin(w, op, stage) ==
  /\ req[w] = Idle
  /\ Overlaps(w)
  /\ req' = [req EXCEPT ![w] = [op |-> op, stage |-> stage,
               seen |-> [s \in Stage |-> IF s \in Uses(op, stage) THEN rows[s] ELSE Blank],
               text |-> source, eligible |-> eligible, out |-> None]]
  /\ UNCHANGED <<db, eligible, made, torn>>

Finish(w) == req' = [req EXCEPT ![w] = Idle]

\* The gates of run_occurrence and run_assembler, and of an edit of occurrences, are
\* evaluated on the rows that were read.
ReadyUnaccepted(r) ==
  CASE r.stage = "occurrence" -> r.seen["clause"].out # None /\ r.eligible
    [] r.stage = "assembler"  -> r.seen["occurrence"].out # None /\ r.eligible
    [] OTHER -> TRUE

Ready(r) ==
  CASE r.stage = "occurrence" -> r.seen["clause"].status = "accepted" /\ r.eligible
    [] r.stage = "assembler"  -> /\ r.seen["clause"].status = "accepted"
                                 /\ r.seen["occurrence"].status = "accepted"
                                 /\ r.eligible
    [] OTHER -> TRUE

\* What the output of a request is made from.
BaseOf(r) ==
  LET above == CASE r.stage = "occurrence" -> r.seen["clause"].out
                 [] r.stage = "assembler"  -> r.seen["occurrence"].out
                 [] OTHER -> None
  IN IF above = None THEN 0 ELSE above.id

Made(r, by, valid) == [id |-> made + 1, by |-> by, text |-> r.text,
                       base |-> BaseOf(r), valid |-> valid]

Saving(w, by, valid) ==
  req' = [req EXCEPT ![w] = [Idle EXCEPT !.op = "save", !.stage = req[w].stage,
                                         !.out = Made(req[w], by, valid)]]

Bound == IF overlap THEN MaxShared ELSE MaxOut

-----------------------------------------------------------------------------
\* The model answers a run.  A Clause Parser answer must be complete and cover the
\* source; of the other stages an attempt is recorded, and any answer with text in it
\* goes on to the row, whatever its validation said.
AnswerUnrecorded(w, valid) ==
  /\ req[w].op = "run" /\ Ready(req[w])
  /\ made < Bound
  /\ req[w].stage = "clause" => valid
  /\ made' = made + 1
  /\ Saving(w, "model", valid)
  /\ attempts' = IF req[w].stage = "summary" THEN attempts \cup {made + 1} ELSE attempts
  /\ UNCHANGED <<source, rows, clauses, eligible, overlap, torn, decided>>

Answer(w, valid) ==
  /\ req[w].op = "run" /\ Ready(req[w])
  /\ made < Bound
  /\ req[w].stage = "clause" => valid
  /\ made' = made + 1
  /\ Saving(w, "model", valid)
  /\ attempts' = IF req[w].stage = "clause" THEN attempts ELSE attempts \cup {made + 1}
  /\ UNCHANGED <<source, rows, clauses, eligible, overlap, torn, decided>>

\* The text editor: Clause, Occurrence and Assembler text is validated, the latter
\* against whatever the occurrence row held.
Edit(w) ==
  /\ req[w].op = "edit"
  /\ made < Bound
  /\ req[w].stage = "occurrence" => Ready(req[w])
  /\ req[w].stage = "assembler" => req[w].seen["occurrence"].out # None
  /\ made' = made + 1
  /\ Saving(w, "human", TRUE)
  /\ UNCHANGED <<db, eligible, overlap, torn>>

\* The row is overwritten with the output, for review.
SaveRowKeepingStatus(w) ==
  /\ req[w].op = "save"
  /\ rows' = [rows EXCEPT ![req[w].stage] =
       [status |-> IF rows[req[w].stage].status = "not_started" THEN "checking" ELSE @.status,
        out |-> req[w].out]]
  /\ IF req[w].stage = "clause" THEN req' = [req EXCEPT ![w].op = "replace"] ELSE Finish(w)
  /\ UNCHANGED <<source, clauses, attempts, decided, eligible, made, overlap, torn>>

SaveRowAlone(w) ==
  /\ req[w].op = "save"
  /\ rows' = [rows EXCEPT ![req[w].stage] = [status |-> "checking", out |-> req[w].out]]
  /\ IF req[w].stage = "clause" /\ req[w].out.by = "model"
       THEN req' = [req EXCEPT ![w].op = "replace"] ELSE Finish(w)
  /\ UNCHANGED <<source, clauses, attempts, decided, eligible, made, overlap, torn>>

SaveRow(w) ==
  /\ req[w].op = "save"
  /\ rows' = [rows EXCEPT ![req[w].stage] = [status |-> "checking", out |-> req[w].out]]
  /\ IF req[w].stage = "clause" THEN req' = [req EXCEPT ![w].op = "replace"] ELSE Finish(w)
  /\ UNCHANGED <<source, clauses, attempts, decided, eligible, made, overlap, torn>>

\* The clauses follow in a transaction of their own.
ReplaceClauses(w) ==
  /\ req[w].op = "replace"
  /\ clauses' = [id |-> req[w].out.id, text |-> req[w].out.text]
  /\ torn' = FALSE
  /\ Finish(w)
  /\ UNCHANGED <<source, rows, attempts, decided, eligible, made, overlap>>

\* accept_stage: the status that was read must be checking; only the status (and the
\* provenance) is saved.
Accept(w) ==
  LET s == req[w].stage
  IN /\ req[w].op = "accept"
     /\ req[w].seen[s].status = "checking"
     /\ rows' = [rows EXCEPT ![s].status = "accepted"]
     /\ decided' = decided \cup {req[w].seen[s].out.id}
     /\ Finish(w)
     /\ UNCHANGED <<source, clauses, attempts, eligible, made, overlap, torn>>

\* save_source_document resets everything in one transaction.
SaveSourceKeepingClauses(w) ==
  /\ req[w] = Idle
  /\ source < MaxText
  /\ Overlaps(w)
  /\ source' = source + 1
  /\ rows' = [s \in Stage |-> Blank]
  /\ eligible' = FALSE
  /\ UNCHANGED <<clauses, attempts, decided, made, torn, req>>

SaveSource(w) ==
  /\ req[w] = Idle
  /\ source < MaxText
  /\ Overlaps(w)
  /\ source' = source + 1
  /\ rows' = [s \in Stage |-> Blank]
  /\ clauses' = [id |-> 0, text |-> source + 1]
  /\ eligible' = FALSE /\ torn' = FALSE
  /\ UNCHANGED <<attempts, decided, made, req>>

\* The Entity row is finalized or goes back to review (module EntityRegistry).
EntityMoves == /\ eligible' = ~eligible
               /\ UNCHANGED <<db, made, overlap, torn, req>>

\* A request refuses, its call fails, or its process dies.
Abandon(w) == /\ req[w] # Idle
              /\ Finish(w)
              /\ torn' = (torn \/ req[w].op = "replace")
              /\ UNCHANGED <<db, eligible, made, overlap>>

Next == \/ EntityMoves
        \/ \E w \in Workers :
             \/ \E op \in {"run", "edit", "accept"}, s \in Stage : Begin(w, op, s)
             \/ \E valid \in BOOLEAN : Answer(w, valid)
             \/ Edit(w) \/ SaveRow(w) \/ ReplaceClauses(w) \/ Accept(w)
             \/ SaveSource(w) \/ Abandon(w)

Spec == Init /\ [][Next]_vars

-----------------------------------------------------------------------------
(* Properties *)

\* Every column holds a value of its kind, and a request that is about to save has
\* something to save.
TypeOK == /\ source \in 1..MaxText
          /\ rows \in [Stage -> Row]
          /\ clauses \in Table
          /\ attempts \subseteq 1..MaxOut /\ decided \subseteq 1..MaxOut
          /\ eligible \in BOOLEAN
          /\ made \in 0..MaxOut
          /\ overlap \in BOOLEAN /\ torn \in BOOLEAN
          /\ req \in [Workers -> Request]
          /\ \A w \in Workers : req[w].op \in {"save", "replace"} => req[w].out # None
          /\ \A s \in Stage : rows[s].status = "checking" => rows[s].out # None
          /\ \A w \in Workers, s \in Stage :
               req[w].seen[s].status = "checking" => req[w].seen[s].out # None

\* A trace of every answer survives: however runs, edits and resets overlap and die,
\* a model's summary, occurrence or assembler output is in its row only when the
\* attempt that produced it has been recorded before (live_workflow.py:560-583).
AttemptsPrecedeRows ==
  \A s \in Stage \ {"clause"} :
    rows[s].out # None /\ rows[s].out.by = "model" => rows[s].out.id \in attempts

\* The clause row and the clause table are written one after the other, each in a
\* transaction of its own (live_workflow.py:87-95, 479-480).  They hold the same output,
\* but for a request that is between the two or has died there, and then until the next
\* run, edit or reset of the text; if no two requests overlapped.
OutputId(out) == IF out = None THEN 0 ELSE out.id

ClausesFitRow ==
  \/ overlap \/ torn \/ \E w \in Workers : req[w].op = "replace"
  \/ clauses.id = OutputId(rows["clause"].out)

\* "Existing bot outputs were reset so downstream results use the revised text"
\* (live_views.py:145): while every request ends before the next begins, everything on
\* the page was made from the text it shows.
UsesSource == \/ overlap
              \/ /\ \A s \in Stage : rows[s].out # None => rows[s].out.text = source
                 /\ clauses.text = source

\* "A downstream service consumes accepted or explicitly reviewed upstream data, never
\* an unreviewed model response" (docs/AERITH_INTEGRATION_GUIDE.md:24): what the model
\* made occurrences or an assembled tagset from, a historian had accepted, if no two
\* requests overlapped.
ReviewedInputs ==
  \/ overlap
  \/ \A s \in {"occurrence", "assembler"} :
       rows[s].out # None /\ rows[s].out.by = "model" => rows[s].out.base \in decided

\* An accepted row shows an output that was itself accepted: a later run or edit opens
\* the row again (live_workflow.py:407-417, 576-581), if no two requests overlapped.
AcceptedWasReviewed ==
  \/ overlap
  \/ \A s \in Stage : rows[s].status = "accepted" =>
                        rows[s].out # None /\ rows[s].out.id \in decided

\* "Validated E/A/Q output accepted by the reviewer" (integrations/handoff_map.json:121)
\* and "Every accepted E/A/Q line is preserved exactly and in order"
\* (handoff_map.json:133): what is accepted has passed its validation.
AcceptedIsValid ==
  \A s \in {"occurrence", "assembler"} :
    rows[s].status = "accepted" => rows[s].out.valid
=============================================================================
