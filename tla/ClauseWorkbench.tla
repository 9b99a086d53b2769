--------------------------- MODULE ClauseWorkbench ---------------------------
(***************************************************************************)
(* The Clause Parser row of one document and the table of its clauses: the *)
(* pages of the workbench, the live page's run, and the two commands that  *)
(* check a stored output again and apply it.  A page reads the row when    *)
(* its request starts and saves it later from that copy, with no lock; a   *)
(* command works in one transaction with the row, and apply the document,  *)
(* locked.                                                                 *)
(*   tagger/views.py, tagger/services/stage_runner.py,                     *)
(*   tagger/services/clause_application.py, clause_revalidation.py,        *)
(*   tagger/management/commands/apply_clause_stage_output.py,              *)
(*   tagger/management/commands/revalidate_clause_stage_output.py          *)
(***************************************************************************)
EXTENDS Naturals

CONSTANTS Workers,   \* requests that can be under way at once
          MaxText,   \* bound: versions of the source text
          MaxRuns,   \* bound: answers of providers
          MaxPages,  \* bound: requests that begin
          None

VARIABLES
  live,     \* whether the document was uploaded; else it is the sample
  source,   \* version of metadata.working_source_text
  table,    \* the Clause table of the document
  row,      \* the StageOutput row
  req,      \* what each request holds between two accesses
  runs,     \* answers so far
  pages,    \* requests so far
  raced,    \* a page has saved over a row changed since it was read, or amid a reset (history)
  blessed   \* apply succeeded and nothing was written since (history)

vars == <<live, source, table, row, req, runs, pages, raced, blessed>>

(* What a parser output says of the text it was generated from: it reproduces it  *)
(* exactly; or up to white space or numbering; or there is no header boundary in   *)
(* the text to check it against; or it does not reproduce the text.  Two          *)
(* exact outputs may differ in where they split.                                   *)
Grade == {"exact", "loose", "plain", "bad"}
Output == {out \in [text : 1..MaxText, grade : Grade, split : 1..2] :
             out.grade # "exact" => out.split = 1}

\* validate_clause_coverage against the text the output was made from
Covering(out) == out.grade # "bad"

\* Rows generated from an output, or paragraphs of the text (None); after use_sample
\* both, since the sample's paragraphs are added to what is there.
Table == [out : Output \cup {None}, mixed : BOOLEAN]
Materialized(out) == table = [out |-> out, mixed |-> FALSE]
Paragraphs == [out |-> None, mixed |-> FALSE]

\* provenance: where the payload came from, how the last execution ended, whether the
\* clauses were applied, the audit of apply, and the baseline of revalidate.
Provenance == [placeholder : BOOLEAN, executed : {"no", "completed", "failed"},
               real : BOOLEAN, applied : BOOLEAN, audit : Output \cup {None},
               baseline : [out : Output, text : 1..MaxText] \cup {None}]
Unexecuted == [placeholder |-> FALSE, executed |-> "no", real |-> FALSE,
               applied |-> FALSE, audit |-> None, baseline |-> None]

\* out is None for a fixture or nothing; covered is payload.coverage_validation.valid.
Status == {"not_started", "loaded", "checking", "accepted", "needs_rerun"}
Row == [status : Status, out : Output \cup {None}, covered : BOOLEAN, prov : Provenance]
Blank == [status |-> "not_started", out |-> None, covered |-> FALSE, prov |-> Unexecuted]
Seeded == [Blank EXCEPT !.status = "loaded", !.prov.placeholder = TRUE]

Pages == {"run", "fixture", "live", "check", "continue", "approve", "rerun", "accept",
          "seed", "reset", "edit"}
Idle == [op |-> "idle", seen |-> Blank, text |-> 1, out |-> None]
Request == [op : Pages \cup {"idle", "ignored", "replace", "save", "failed", "saveLive",
                             "replaceLive", "reread", "status", "text"},
            seen : Row, text : 1..MaxText, out : Output \cup {None}]

Init == /\ live \in BOOLEAN
        /\ source = 1 /\ table = Paragraphs
        /\ row = IF live THEN Blank ELSE Seeded
        /\ req = [w \in Workers |-> Idle]
        /\ runs = 0 /\ pages = 0 /\ raced = FALSE /\ blessed = FALSE

-----------------------------------------------------------------------------
\* A page's request reads the row and the document.  In an accepted row the page
\* ignores check, rerun and run, and still saves the copy it has read.
Ignored(op, status) == status = "accepted" /\ op \in {"check", "rerun", "run"}

Begin(w, op) ==
  /\ req[w] = Idle /\ pages < MaxPages
  /\ pages' = pages + 1
  /\ op \in {"live", "accept"} => live
  /\ op = "accept" => row.status = "checking"
  /\ req' = [req EXCEPT ![w] = [op |-> IF Ignored(op, row.status) THEN "ignored" ELSE op,
                                seen |-> row, text |-> source, out |-> None]]
  /\ UNCHANGED <<live, source, table, row, runs, raced, blessed>>

Turn(w, op) == req' = [req EXCEPT ![w].op = op]
Done(w) == req' = [req EXCEPT ![w] = Idle]

\* ChatbotStageRunner.run: the provider answers or does not.  The workbench applies an
\* answer that covers the text; the live page keeps no other.
Answer(w, out) ==
  /\ req[w].op \in {"run", "live"} /\ runs < MaxRuns
  /\ out.text = req[w].text
  /\ req[w].op = "live" => Covering(out)
  /\ runs' = runs + 1
  /\ req' = [req EXCEPT ![w].out = out,
               ![w].op = CASE req[w].op = "live" -> "saveLive"
                           [] Covering(out) -> "replace"
                           [] OTHER -> "save"]
  /\ UNCHANGED <<live, source, table, row, pages, raced, blessed>>

Fail(w) == /\ req[w].op = "run" /\ Turn(w, "failed")
           /\ UNCHANGED <<live, source, table, row, runs, pages, raced, blessed>>

\* replace_document_clauses: before the row is saved on the workbench, after it on the
\* live page.
ReplaceClauses(w) ==
  /\ req[w].op \in {"replace", "replaceLive"}
  /\ table' = [out |-> req[w].out, mixed |-> FALSE]
  /\ IF req[w].op = "replace" THEN Turn(w, "save") ELSE Done(w)
  /\ blessed' = FALSE
  /\ UNCHANGED <<live, source, row, runs, pages, raced>>

\* A page saves fields of its copy over the row.
Save(w, saved) == /\ row' = saved
                  /\ raced' = (raced \/ req[w].seen # row
                                     \/ \E v \in Workers \ {w} : req[v].op \in {"reread", "status"})
                  /\ blessed' = FALSE
                  /\ UNCHANGED <<live, source, table, runs, pages>>

Executed(real, applied) == [Unexecuted EXCEPT !.executed = "completed", !.real = real,
                                              !.applied = applied]

\* An answer replaces payload, output and provenance, for review.
SaveRunMerged(w) ==
  /\ req[w].op \in {"save", "saveLive", "fixture"}
  /\ LET out == req[w].out
         covered == out # None /\ Covering(out)
         prov == Executed(out # None, covered /\ req[w].op = "save")
     IN Save(w, [status |-> "checking", out |-> out, covered |-> covered,
                 prov |-> [prov EXCEPT !.placeholder = req[w].seen.prov.placeholder]])
  /\ IF req[w].op = "saveLive" THEN Turn(w, "replaceLive") ELSE Done(w)

SaveRun(w) ==
  /\ req[w].op \in {"save", "saveLive", "fixture"}
  /\ LET out == req[w].out
         covered == out # None /\ Covering(out)
     IN Save(w, [status |-> "checking", out |-> out, covered |-> covered,
                 prov |-> Executed(out # None, covered /\ req[w].op = "save")])
  /\ IF req[w].op = "saveLive" THEN Turn(w, "replaceLive") ELSE Done(w)

\* No answer: the whole copy is saved, its provenance updated.
SaveFailure(w) ==
  /\ req[w].op = "failed"
  /\ Save(w, [req[w].seen EXCEPT !.prov.placeholder = FALSE, !.prov.executed = "failed",
                                 !.prov.real = FALSE])
  /\ Done(w)

\* The other actions save the status and the provenance of the copy, an ignored one the
\* provenance alone; a row that waits for a rerun cannot be continued, and the approval
\* of pending items, of which this stage has none, saves the status as it was read.
SaveAction(w) ==
  LET seen == req[w].seen
      status == CASE req[w].op = "check" -> "checking"
                  [] req[w].op = "rerun" -> "needs_rerun"
                  [] req[w].op = "ignored" -> row.status
                  [] req[w].op = "accept" -> "accepted"
                  [] req[w].op = "approve" -> seen.status
                  [] OTHER -> IF seen.status = "needs_rerun" THEN seen.status ELSE "accepted"
  IN /\ req[w].op \in {"check", "continue", "approve", "rerun", "accept", "ignored"}
     /\ Save(w, [row EXCEPT !.status = status, !.prov = seen.prov])
     /\ Done(w)

\* _seed_stage_outputs_for_document: a GET restores the fixture where provenance calls
\* the payload a placeholder; a reset does so in any case,
Fixture(w) == [row EXCEPT !.out = None, !.covered = FALSE,
                 !.prov = [req[w].seen.prov EXCEPT !.placeholder = TRUE, !.real = FALSE]]

SkipSeed(w) ==
  /\ req[w].op = "seed" /\ ~req[w].seen.prov.placeholder /\ Done(w)
  /\ UNCHANGED <<live, source, table, row, runs, pages, raced, blessed>>

SaveSeed(w) ==
  /\ req[w].op \in {"seed", "reset"}
  /\ req[w].op = "seed" => req[w].seen.prov.placeholder
  /\ Save(w, Fixture(w))
  /\ IF req[w].op = "reset" THEN Turn(w, "reread") ELSE Done(w)

\* and _reset_stage_outputs_for_document goes on to read the row again and reset its
\* status; the keys of earlier executions and of apply stay in provenance.
Reread(w) == /\ req[w].op = "reread"
             /\ req' = [req EXCEPT ![w].op = "status", ![w].seen = row]
             /\ UNCHANGED <<live, source, table, row, runs, pages, raced, blessed>>

SaveReset(w) ==
  /\ req[w].op = "status"
  /\ Save(w, [row EXCEPT !.status = "loaded",
                !.prov = [req[w].seen.prov EXCEPT !.placeholder = TRUE, !.real = FALSE]])
  /\ Done(w)

\* use_sample restores the sample's text and paragraphs and goes on with a reset.
UseSample(w) ==
  /\ req[w] = Idle /\ ~live /\ pages < MaxPages
  /\ pages' = pages + 1
  /\ source' = 1
  /\ table' = IF table.out = None THEN table ELSE [table EXCEPT !.mixed = TRUE]
  /\ req' = [req EXCEPT ![w] = [Idle EXCEPT !.op = "reset", !.seen = row]]
  /\ blessed' = FALSE
  /\ UNCHANGED <<live, row, runs, raced>>

\* update_source_text on the workbench, which also opens uploaded documents, replaces the
\* clauses, then the text;
ReplaceParagraphs(w) ==
  /\ req[w].op = "edit"
  /\ table' = Paragraphs /\ Turn(w, "text") /\ blessed' = FALSE
  /\ UNCHANGED <<live, source, row, runs, pages, raced>>

SaveText(w) ==
  /\ req[w].op = "text" /\ source < MaxText
  /\ source' = source + 1 /\ Done(w) /\ blessed' = FALSE
  /\ UNCHANGED <<live, table, row, runs, pages, raced>>

\* save_source_document on the live page is one transaction and resets the row.
SaveLiveText(w) ==
  /\ req[w].op = "edit" /\ live /\ source < MaxText
  /\ source' = source + 1 /\ table' = Paragraphs /\ row' = Blank
  /\ Done(w) /\ blessed' = FALSE
  /\ UNCHANGED <<live, runs, pages, raced>>

\* A request may die between two accesses.
Abandon(w) == /\ req[w] # Idle /\ Done(w)
              /\ UNCHANGED <<live, source, table, row, runs, pages, raced, blessed>>

-----------------------------------------------------------------------------
\* revalidate_clause_stage_output: the stored output of a completed execution, under
\* review, must reproduce the text as it is now.
Revalidate ==
  /\ row.status = "checking" /\ row.prov.executed = "completed"
  /\ row.out # None /\ row.out.grade \in {"exact", "loose"} /\ row.out.text = source
  /\ row' = [row EXCEPT !.covered = TRUE,
                        !.prov.baseline = [out |-> row.out, text |-> source]]
  /\ blessed' = (blessed /\ row' = row)
  /\ UNCHANGED <<live, source, table, req, runs, pages, raced>>

\* build_clause_application_plan: what every application requires,
Applicable ==
  /\ row.prov.executed = "completed" /\ row.prov.real
  /\ row.out # None /\ row.out.grade = "exact" /\ row.out.text = source
  /\ row.covered
  /\ row.prov.baseline = [out |-> row.out, text |-> source]

\* what makes it one that was made already,
AlreadyApplied == row.prov.applied /\ row.status = "accepted"
Idempotent == Materialized(row.out) /\ row.prov.audit = row.out

\* and what a row must be to be applied.
ReadyUnchecked == row.status = "checking"

Ready == row.status = "checking" /\ (row.prov.applied => Materialized(row.out))

\* apply_clause_stage_output
Apply ==
  /\ Applicable
  /\ \/ /\ AlreadyApplied /\ Idempotent
        /\ UNCHANGED <<table, row>>
     \/ /\ ~AlreadyApplied /\ Ready
        /\ table' = IF row.prov.applied THEN table ELSE [out |-> row.out, mixed |-> FALSE]
        /\ row' = [row EXCEPT !.status = "accepted", !.prov.applied = TRUE,
                              !.prov.audit = row.out]
  /\ blessed' = TRUE
  /\ UNCHANGED <<live, source, req, runs, pages, raced>>

Next == \/ \E w \in Workers :
             \/ \E op \in Pages : Begin(w, op)
             \/ \E out \in Output : Answer(w, out)
             \/ Fail(w) \/ ReplaceClauses(w) \/ SaveRun(w) \/ SaveFailure(w) \/ SaveAction(w)
             \/ SkipSeed(w) \/ SaveSeed(w) \/ Reread(w) \/ SaveReset(w) \/ UseSample(w)
             \/ ReplaceParagraphs(w) \/ SaveText(w) \/ SaveLiveText(w) \/ Abandon(w)
        \/ Revalidate \/ Apply

Spec == Init /\ [][Next]_vars

-----------------------------------------------------------------------------
\* Overlapping runs can leave the row and the clause table of different outputs, and
\* stale pages can write old flags back; what apply reports as applied is all the same
\* the row's output, in the clause table, reproducing the text as it is, and apply
\* would recognize it (clause_application.py:40-186).
AppliedIsSound ==
  blessed => /\ row.status = "accepted" /\ row.out # None
             /\ Materialized(row.out)
             /\ row.out.text = source /\ Covering(row.out)
             /\ Applicable /\ AlreadyApplied /\ Idempotent

\* Looking at a page never puts the fixture over a generated output: unless a page saved
\* a copy of an older row, only a reset, a fixture run or an edit of the text takes an
\* output away (views.py:297-353).
GeneratedKept ==
  [][ ~raced' /\ row.out # None /\ row'.out = None =>
        \E w \in Workers : /\ req[w].op \in {"reset", "fixture", "edit"}
                           /\ req'[w] # req[w] ]_vars
=============================================================================
