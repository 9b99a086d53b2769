---------------------------- MODULE LiveHeadwords ----------------------------
(***************************************************************************)
(* The Event headword review of the live page: the eventcut_extraction row *)
(* of one document, whose payload holds the event cuts, the review items   *)
(* and the accepted assignments, and the requests that work on it.  None   *)
(* of the review requests takes a lock: each reads the row, works, which   *)
(* for a lookup or a proposal means a run on a remote machine, and saves   *)
(* the whole payload it read, so that requests of two tabs interleave.     *)
(*   tagger/services/live_workflow.py, tagger/live_views.py,               *)
(*   tagger/services/eventcut_extraction.py                                *)
(***************************************************************************)
EXTENDS HeadwordItem, FiniteSets

CONSTANTS Cuts,       \* identities of event cuts
          Workers,    \* requests that can be under way at once
          MaxBatch    \* bound: extractions plus lookups that reach the row

ASSUME BatchAssumption == MaxBatch \in Nat

VARIABLES
  eventcut,   \* the eventcut_extraction StageOutput row
  batch,      \* extractions and lookups so far; tags the items of a lookup
  req         \* what each request holds between two database accesses

vars == <<eventcut, batch, req>>

(* cuts: parsed_event_cuts that are valid.  items: the headword_review_store, *)
(* by event cut, and lookup, the lookup that made it.  assigned:              *)
(* accepted_assignments, by event cut.                                        *)
Payload == [cuts : SUBSET Cuts, lookup : 0..MaxBatch,
            items : [Cuts -> Item \cup {None}],
            assigned : [Cuts -> Assignment \cup {None}]]
Nothing == [c \in Cuts |-> None]
EmptyPayload == [cuts |-> {}, lookup |-> 0, items |-> Nothing, assigned |-> Nothing]
Present(f) == {c \in Cuts : f[c] # None}

Status == {"not_started", "loaded", "blocked", "checking", "accepted"}
Op == {"idle", "lookup", "choose", "headword", "accept_remaining", "show", "occurrence",
       "generate"}
Row == [status : Status, payload : Payload]
Request == [op : Op, payload : Payload]
Idle == [op |-> "idle", payload |-> EmptyPayload]

Init == /\ eventcut = [status |-> "not_started", payload |-> EmptyPayload]
        /\ batch = 0
        /\ req = [w \in Workers |-> Idle]

-----------------------------------------------------------------------------
\* A request reads the row ...
Begin(w, op) == /\ req[w] = Idle
                /\ req' = [req EXCEPT ![w] = [op |-> op, payload |-> eventcut.payload]]
                /\ UNCHANGED <<eventcut, batch>>

Finish(w) == req' = [req EXCEPT ![w] = Idle]

\* ... and sync_eventcut_review_status saves what it made of it: the payload, and the
\* status the payload deserves.
CompleteNonEmpty(items) == Present(items) # {}

Complete(items) == /\ Present(items) # {}
                   /\ \A c \in Present(items) : /\ items[c].state \in Terminal
                                               /\ items[c].assignment # None

Synced(payload) ==
  [status |-> IF Complete(payload.items) THEN "accepted" ELSE "checking",
   payload |-> [payload EXCEPT !.assigned =
     [c \in Cuts |-> IF Complete(payload.items) /\ payload.items[c] # None
                     THEN payload.items[c].assignment ELSE None]]]

SaveSynced(w, items) ==
  /\ eventcut' = Synced([req[w].payload EXCEPT !.items = items])
  /\ Finish(w)
  /\ UNCHANGED batch

-----------------------------------------------------------------------------
\* EventCut extraction, under the row lock: the package replaces the payload.  It is valid
\* when every cut of it is, with or without any; the valid ones are kept in either case.
ExtractMerging(cuts, valid) ==
  /\ batch < MaxBatch
  /\ batch' = batch + 1
  /\ eventcut' = [status |-> IF valid THEN "loaded" ELSE "blocked",
                  payload |-> [eventcut.payload EXCEPT !.cuts = cuts]]
  /\ UNCHANGED req

Extract(cuts, valid) ==
  /\ batch < MaxBatch
  /\ batch' = batch + 1
  /\ eventcut' = [status |-> IF valid THEN "loaded" ELSE "blocked",
                  payload |-> [EmptyPayload EXCEPT !.cuts = cuts]]
  /\ UNCHANGED req

\* The source editor resets the row.
ResetSource ==
  /\ eventcut' = [status |-> "not_started", payload |-> EmptyPayload]
  /\ UNCHANGED <<batch, req>>

\* run_dense_and_chooser: the dense lookup of the cuts that were read is saved with
\* the status checking, over whatever the row holds by now ...
BeginLookup(w) == eventcut.payload.cuts # {} /\ Begin(w, "lookup")

SaveLookupQuietly(w) ==
  /\ req[w].op = "lookup"
  /\ eventcut' = [eventcut EXCEPT !.payload = req[w].payload]
  /\ req' = [req EXCEPT ![w].op = "choose"]
  /\ UNCHANGED batch

SaveLookup(w) ==
  /\ req[w].op = "lookup"
  /\ eventcut' = [status |-> "checking", payload |-> req[w].payload]
  /\ req' = [req EXCEPT ![w].op = "choose"]
  /\ UNCHANGED batch

\* ... and after one chooser call per cut the fresh items are saved; this time the
\* status is not among the columns.
SaveItems(w, chosen) ==
  /\ req[w].op = "choose"
  /\ batch < MaxBatch
  /\ DOMAIN chosen = req[w].payload.cuts
  /\ batch' = batch + 1
  /\ eventcut' = [eventcut EXCEPT !.payload =
       [req[w].payload EXCEPT !.lookup = batch + 1,
          !.items = [c \in Cuts |-> IF c \in DOMAIN chosen THEN chosen[c] ELSE None]]]
  /\ Finish(w)

\* apply_headword_action; for a proposal the encoder runs between read and save.
BeginHeadword(w) == Begin(w, "headword")

HeadwordAction(w, c, action) ==
  /\ req[w].op = "headword"
  /\ req[w].payload.items[c] # None
  /\ \E item \in Results(req[w].payload.items[c], action) :
       SaveSynced(w, [req[w].payload.items EXCEPT ![c] = item])

BeginAcceptRemaining(w) == Begin(w, "accept_remaining")

AcceptRemaining(w) == /\ req[w].op = "accept_remaining"
                      /\ SaveSynced(w, AcceptUntouched(req[w].payload.items))

\* Showing the page saves the row as well, when there is something to review.
BeginShow(w) == Present(eventcut.payload.items) # {} /\ Begin(w, "show")

Show(w) == req[w].op = "show" /\ SaveSynced(w, req[w].payload.items)

\* run_occurrence saves the row first, and generates occurrences from the payload it
\* saved when that made the row accepted.
BeginOccurrence(w) == Begin(w, "occurrence")

Occurrence(w) ==
  /\ req[w].op = "occurrence"
  /\ eventcut' = Synced(req[w].payload)
  /\ req' = [req EXCEPT ![w] =
       IF eventcut'.status = "accepted"
       THEN [op |-> "generate", payload |-> eventcut'.payload] ELSE Idle]
  /\ UNCHANGED batch

\* A request refuses, raises or dies between two database accesses, or is done.
Abandon(w) == /\ req[w] # Idle
              /\ Finish(w)
              /\ UNCHANGED <<eventcut, batch>>

Next == \/ \E cuts \in SUBSET Cuts, valid \in BOOLEAN : Extract(cuts, valid)
        \/ ResetSource
        \/ \E w \in Workers :
             \/ BeginLookup(w) \/ SaveLookup(w)
             \/ \E chosen \in [req[w].payload.cuts -> NewItems] : SaveItems(w, chosen)
             \/ BeginHeadword(w)
             \/ \E c \in Present(req[w].payload.items), action \in Actions :
                  HeadwordAction(w, c, action)
             \/ BeginAcceptRemaining(w) \/ AcceptRemaining(w)
             \/ BeginShow(w) \/ Show(w)
             \/ BeginOccurrence(w) \/ Occurrence(w)
             \/ Abandon(w)

Spec == Init /\ [][Next]_vars

-----------------------------------------------------------------------------
(* Properties *)

\* Every column and every payload in memory holds values of the expected kind: no
\* item is accepted without a candidate to accept.
TypeOK == /\ eventcut \in Row
          /\ batch \in 0..MaxBatch
          /\ req \in [Workers -> Request]

\* The payloads of the row and of every request under way.
Payloads == {eventcut.payload} \cup {req[w].payload : w \in Workers}

\* Every review item, in the row and in the hands of every request, has an audit log
\* that replays to the state and revision it shows, and an assignment that this
\* history warrants: apply_review_action (event_headword_review.py:368-519) leaves no
\* item half changed, and no tab that saves late mixes two histories into one item.
ItemsWarranted ==
  \A p \in Payloads : \A c \in Present(p.items) :
     Replays(p.items[c]) /\ Warranted(p.items[c])

\* The review items are those of the event cuts they are shown beside, all of them
\* or none, and assignments are for these cuts, although extractions, lookups and
\* late saves replace the payload independently: the lookup of a cut by the id of
\* its item in sync_eventcut_review_status (live_workflow.py:263) cannot miss.
StoreFitsCuts ==
  \A p \in Payloads : /\ Present(p.items) \in {{}, p.cuts}
                       /\ Present(p.assigned) \subseteq Present(p.items)

\* "Every Event headword must have a final human decision" (live_workflow.py:284): a
\* generation of occurrences works on a payload in which every event cut has a final
\* item and is assigned what that item says.
Final(p) == /\ p.cuts # {}
            /\ \A c \in p.cuts : /\ p.items[c] # None /\ p.items[c].state \in Terminal
                                  /\ p.assigned[c] = p.items[c].assignment

OccurrenceFinal == \A w \in Workers : req[w].op = "generate" => Final(req[w].payload)

\* Why the above hold, as one induction: whatever payload a request holds, to save it
\* whole later, is as good as the row's, down to each open item, which has what its
\* next action needs (live_workflow.py:187-240).
PayloadsSound == \A p \in Payloads : \A c \in Present(p.items) : Sound(p.items[c])

Inductive == TypeOK /\ PayloadsSound /\ StoreFitsCuts /\ OccurrenceFinal

\* What the workflow export hands over as accepted event assignments, the
\* assignments of an accepted row (export_contract.py:59-63), are the final decisions
\* of all items under review.
ExportFinal == eventcut.status = "accepted" => Final(eventcut.payload)

\* A final decision stands until a new lookup, extraction or source text replaces the
\* items: no other action of the page changes or revokes it.
DecisionsStand ==
  [][\A c \in Present(eventcut.payload.items) :
       eventcut.payload.items[c].state \in Terminal
         => \/ eventcut'.payload.lookup # eventcut.payload.lookup
            \/ eventcut'.payload.items[c] = eventcut.payload.items[c]]_vars

\* "Accept-all-remaining actions that preserve prior edits and rejects"
\* (README.md:12): accepting the remaining headwords leaves every item of the same
\* lookup that a historian has already worked on.
EditsPreserved ==
  [][\A w \in Workers : AcceptRemaining(w) =>
       \A c \in Present(eventcut.payload.items) :
         /\ eventcut.payload.items[c].log # <<>>
         /\ eventcut'.payload.lookup = eventcut.payload.lookup
         => eventcut'.payload.items[c] = eventcut.payload.items[c]]_vars
=============================================================================
