------------------------- MODULE LiveHeadwordsProofs -------------------------
(***************************************************************************)
(* Proofs about HeadwordItem and LiveHeadwords, for every set of event     *)
(* cuts, requests, events and headwords and every number of batches.       *)
(* Inductive is the inductive invariant; the safety properties follow.     *)
(***************************************************************************)
EXTENDS LiveHeadwords, SequenceTheorems, TLAPS

-----------------------------------------------------------------------------
(* One review item *)

LEMMA NewItemsSound ==
  ASSUME NEW item \in NewItems
  PROVE  Sound(item)
<1>1. PICK candidates \in SUBSET Events \ {{}} : \E selected \in candidates \cup {None} :
             item = NewItem(candidates, selected)
  BY DEF NewItems
<1>2. PICK selected \in candidates \cup {None} : item = NewItem(candidates, selected)
  BY <1>1
<1>3. item \in Item
  BY <1>2 DEF NewItem, Item, State
<1>4. Replays(item)
  BY <1>2 DEF NewItem, Replays
<1>5. Warranted(item) /\ Prepared(item)
  BY <1>2 DEF NewItem, Warranted, Prepared, Terminal
<1>6. QED
  BY <1>3, <1>4, <1>5 DEF Sound

\* A step along a path keeps the audit log complete.
LEMMA MovedReplays ==
  ASSUME NEW item \in Item, Replays(item), NEW action \in Actions, NEW to \in State,
         <<item.state, action, to>> \in Path
  PROVE  /\ Moved(item, action, to) \in Item
         /\ Replays(Moved(item, action, to))
<1>. DEFINE entry == [action |-> action, from |-> item.state, to |-> to]
            log == Append(item.log, entry)
            moved == Moved(item, action, to)
<1>1. item.state \in State /\ item.revision \in Nat /\ item.log \in Seq(Entry)
  BY DEF Item
<1>2. entry \in Entry
  BY <1>1 DEF Entry
<1>3. /\ log \in Seq(Entry)
      /\ Len(log) = Len(item.log) + 1
      /\ \A k \in 1..Len(item.log) : log[k] = item.log[k]
      /\ log[Len(item.log) + 1] = entry
  BY <1>1, <1>2
<1>4. moved = [item EXCEPT !.state = to, !.revision = item.revision + 1, !.log = log]
  BY DEF Moved
<1>. HIDE DEF entry, log, moved
<1>9. /\ moved.log = log /\ moved.state = to /\ moved.revision = item.revision + 1
      /\ moved.selected = item.selected /\ moved.candidates = item.candidates
      /\ moved \in Item
  <2>1. item.revision + 1 \in Nat /\ log \in Seq(Entry)
    BY <1>1, <1>3
  <2>2. /\ moved.log = log /\ moved.state = to /\ moved.revision = item.revision + 1
        /\ moved.selected = item.selected /\ moved.candidates = item.candidates
    BY <1>4 DEF Item
  <2>3. moved \in Item
    BY <2>1, <1>4 DEF Item
  <2>4. QED
    BY <2>2, <2>3
<1>5. Len(moved.log) = moved.revision
  BY <1>1, <1>3, <1>9 DEF Replays
<1>6. moved.state = moved.log[Len(moved.log)].to /\ moved.log # <<>>
  BY <1>1, <1>3, <1>9 DEF entry
<1>7. ASSUME NEW k \in 1..Len(log)
      PROVE  /\ <<log[k].from, log[k].action, log[k].to>> \in Path
             /\ log[k].from = IF k > 1 THEN log[k - 1].to
                              ELSE IF item.selected = None THEN "llm_none_fit"
                              ELSE "llm_selected_candidate"
  <2>1. CASE k \in 1..Len(item.log)
    <3>1. log[k] = item.log[k] /\ (k > 1 => log[k - 1] = item.log[k - 1])
      BY <2>1, <1>1, <1>3
    <3>2. QED
      BY <2>1, <3>1 DEF Replays
  <2>2. CASE k = Len(item.log) + 1
    <3>1. log[k] = [action |-> action, from |-> item.state, to |-> to]
      BY <2>2, <1>3 DEF entry
    <3>2. CASE item.log = <<>>
      <4>1. item.state = NewItem(item.candidates, item.selected).state /\ k = 1
        BY <2>2, <3>2 DEF Replays
      <4>2. QED
        BY <3>1, <4>1 DEF NewItem
    <3>3. CASE item.log # <<>>
      <4>1. item.state = item.log[Len(item.log)].to
        BY <3>3 DEF Replays
      <4>2. Len(item.log) \in 1..Len(item.log)
        BY <3>3, <1>1
      <4>3. k > 1 /\ log[k - 1] = item.log[Len(item.log)]
        BY <2>2, <4>2, <1>3
      <4>4. QED
        BY <3>1, <4>1, <4>3
    <3>4. QED
      BY <3>2, <3>3
  <2>3. QED
    BY <2>1, <2>2, <1>1, <1>3
<1>8. QED
  BY <1>5, <1>6, <1>7, <1>9 DEF Replays, NewItem, moved

\* Filling in an assignment or a proposal leaves the history alone.
LEMMA FilledReplays ==
  ASSUME NEW item \in Item, Replays(item)
  PROVE  /\ \A event \in Events \cup Headwords, source \in Source :
              /\ Assigned(item, event, source) \in Item
              /\ Replays(Assigned(item, event, source))
         /\ \A headword \in Headwords, matches \in SUBSET Events :
              /\ Proposed(item, headword, matches) \in Item
              /\ Replays(Proposed(item, headword, matches))
<1>1. ASSUME NEW event \in Events \cup Headwords, NEW source \in Source
      PROVE  /\ Assigned(item, event, source) \in Item
             /\ Replays(Assigned(item, event, source))
  BY DEF Assigned, Item, Assignment, Replays
<1>2. ASSUME NEW headword \in Headwords, NEW matches \in SUBSET Events
      PROVE  /\ Proposed(item, headword, matches) \in Item
             /\ Replays(Proposed(item, headword, matches))
  BY DEF Proposed, Item, Similarity, Replays
<1>3. QED
  BY <1>1, <1>2

\* Which action is enabled where, as the paths say.
LEMMA EnabledStates ==
  ASSUME NEW state \in State, NEW action \in Enabled(state)
  PROVE  /\ state \notin Terminal
         /\ action = "accept" => state = "llm_selected_candidate"
         /\ action = "edit" => state \in {"llm_selected_candidate", "llm_none_fit"}
         /\ action = "reject" => state = "llm_selected_candidate"
         /\ action \in {"choose_top_k", "submit_proposal"} => state = "editing_headword"
         /\ action \in {"choose_similar_existing", "confirm_new_proposal"} =>
              state = "proposal_similarity_review"
BY DEF State, Enabled, Terminal

\* A step that decides the item is sound when its source warrants the event.
LEMMA AssignedSound ==
  ASSUME NEW item \in Item, Replays(item), NEW event \in Events \cup Headwords,
         NEW source \in Source, NEW action \in Actions, NEW to \in Terminal,
         <<item.state, action, to>> \in Path,
         source = "llm_accept" => event = item.selected,
         source = "top_k_override" => event \in item.candidates,
         source = "proposal_similarity_match" => event \in item.similarity.matches,
         source = "user_confirmed_provisional" =>
           to = "provisional_headword_pending_review" /\ event = item.similarity.query
  PROVE  Sound(Moved(Assigned(item, event, source), action, to))
<1>. DEFINE assigned == Assigned(item, event, source)
            moved == Moved(assigned, action, to)
<1>1. assigned \in Item /\ Replays(assigned)
  BY FilledReplays
<1>2. /\ assigned.state = item.state /\ assigned.selected = item.selected
      /\ assigned.candidates = item.candidates /\ assigned.similarity = item.similarity
      /\ assigned.assignment = [event |-> event, source |-> source]
  BY DEF Assigned, Item
<1>3. to \in State
  BY DEF Terminal, State
<1>4. moved \in Item /\ Replays(moved)
  BY <1>1, <1>2, <1>3, MovedReplays
<1>5. /\ moved.state = to /\ moved.selected = item.selected
      /\ moved.candidates = item.candidates /\ moved.similarity = item.similarity
      /\ moved.assignment = [event |-> event, source |-> source]
  BY <1>1, <1>2 DEF Moved, Item
<1>6. moved.assignment # None
  BY <1>5, AbsentAssumption DEF Assignment
<1>. HIDE DEF assigned, moved
<1>7. Warranted(moved)
  BY <1>5, <1>6 DEF Warranted
<1>8. Prepared(moved)
  BY <1>5 DEF Prepared, Terminal
<1>9. QED
  BY <1>4, <1>7, <1>8 DEF Sound, assigned, moved

\* A step that leaves the item open is sound when it prepared the next one.
LEMMA OpenSound ==
  ASSUME NEW item \in Item, Replays(item), item.assignment = None, NEW action \in Actions,
         NEW to \in State \ Terminal, <<item.state, action, to>> \in Path,
         to # "llm_selected_candidate",
         to = "proposal_similarity_review" => /\ item.proposal # None
                                              /\ item.similarity # None
                                              /\ item.similarity.query = item.proposal
  PROVE  Sound(Moved(item, action, to))
<1>. DEFINE moved == Moved(item, action, to)
<1>1. moved \in Item /\ Replays(moved)
  BY MovedReplays
<1>2. /\ moved.state = to /\ moved.proposal = item.proposal
      /\ moved.similarity = item.similarity /\ moved.assignment = None
  BY DEF Moved, Item
<1>. HIDE DEF moved
<1>3. Warranted(moved) /\ Prepared(moved)
  BY <1>2 DEF Warranted, Prepared
<1>4. QED
  BY <1>1, <1>3 DEF Sound, moved

LEMMA AcceptSound ==
  ASSUME NEW item, Sound(item), item.state = "llm_selected_candidate"
  PROVE  Sound(Accept(item))
<1>1. item \in Item /\ Replays(item) /\ item.selected \in Events
  BY DEF Sound, Prepared, Item
<1>2. <<item.state, "accept", "accepted_existing_headword">> \in Path
  BY DEF Path
<1>3. QED
  BY <1>1, <1>2, AssignedSound DEF Accept, Actions, Source, Terminal

\* Every outcome of apply_review_action is sound.
LEMMA ResultsSound ==
  ASSUME NEW item, Sound(item), NEW action \in Actions, NEW result \in Results(item, action)
  PROVE  Sound(result)
<1>1. /\ item \in Item /\ Replays(item) /\ item.state \in State
      /\ action \in Enabled(item.state) /\ item.state \notin Terminal
  BY EnabledStates DEF Sound, Results, Item
<1>2. item.assignment = None
  BY <1>1 DEF Sound, Warranted
<1>3. CASE action = "accept"
  <2>1. result = Accept(item)
    BY <1>1, <1>3 DEF Results
  <2>2. QED
    BY <2>1, <1>1, <1>3, EnabledStates, AcceptSound
<1>4. CASE action \in {"edit", "reject"}
  <2>1. result = Moved(item, action, "editing_headword")
    BY <1>1, <1>4 DEF Results
  <2>2. <<item.state, action, "editing_headword">> \in Path
    BY <1>1, <1>4, EnabledStates DEF Path
  <2>3. QED
    BY <2>1, <2>2, <1>1, <1>2, OpenSound DEF State, Terminal
<1>5. CASE action = "choose_top_k"
  <2>1. PICK event \in item.candidates :
          result = Moved(Assigned(item, event, "top_k_override"), action,
                         "accepted_existing_headword")
    BY <1>1, <1>5 DEF Results
  <2>2. event \in Events
    BY <1>1 DEF Item
  <2>3. <<item.state, action, "accepted_existing_headword">> \in Path
    BY <1>1, <1>5, EnabledStates DEF Path
  <2>4. QED
    BY <2>1, <2>2, <2>3, <1>1, AssignedSound DEF Source, Terminal
<1>6. CASE action = "submit_proposal"
  <2>1. PICK pair \in Headwords \X SUBSET Events :
          result = Moved(Proposed(item, pair[1], pair[2]), action,
                         "proposal_similarity_review")
    BY <1>1, <1>6 DEF Results
  <2>. DEFINE proposed == Proposed(item, pair[1], pair[2])
  <2>2. pair[1] \in Headwords /\ pair[2] \in SUBSET Events
    BY <2>1
  <2>3. proposed \in Item /\ Replays(proposed)
    BY <2>2, <1>1, FilledReplays
  <2>4. /\ proposed.state = item.state /\ proposed.assignment = item.assignment
        /\ proposed.proposal = pair[1]
        /\ proposed.similarity = [query |-> pair[1], matches |-> pair[2]]
    BY <1>1 DEF Proposed, Item
  <2>5. proposed.proposal # None /\ proposed.similarity # None
    BY <2>2, <2>4, HeadwordAssumption, AbsentAssumption DEF Similarity
  <2>6. <<item.state, action, "proposal_similarity_review">> \in Path
    BY <1>1, <1>6, EnabledStates DEF Path
  <2>. HIDE DEF proposed
  <2>7. Sound(Moved(proposed, action, "proposal_similarity_review"))
    BY <2>3, <2>4, <2>5, <2>6, <1>2, OpenSound DEF State, Terminal
  <2>8. QED
    BY <2>1, <2>7 DEF proposed
<1>7. CASE action = "choose_similar_existing"
  <2>1. PICK event \in item.similarity.matches :
          result = Moved(Assigned(item, event, "proposal_similarity_match"), action,
                         "accepted_existing_headword")
    BY <1>1, <1>7 DEF Results
  <2>2. item.state = "proposal_similarity_review"
    BY <1>1, <1>7, EnabledStates
  <2>3. item.similarity \in Similarity
    BY <2>2, <1>1 DEF Sound, Prepared, Item
  <2>4. event \in Events
    BY <2>1, <2>3 DEF Similarity
  <2>5. <<item.state, action, "accepted_existing_headword">> \in Path
    BY <2>2, <1>7 DEF Path
  <2>6. QED
    BY <2>1, <2>4, <2>5, <1>1, AssignedSound DEF Source, Terminal
<1>8. CASE action = "confirm_new_proposal"
  <2>1. result = Moved(Assigned(item, item.proposal, "user_confirmed_provisional"), action,
                       "provisional_headword_pending_review")
    BY <1>1, <1>8 DEF Results
  <2>2. item.state = "proposal_similarity_review"
    BY <1>1, <1>8, EnabledStates
  <2>3. item.proposal \in Headwords /\ item.similarity.query = item.proposal
    BY <2>2, <1>1 DEF Sound, Prepared, Item
  <2>4. <<item.state, action, "provisional_headword_pending_review">> \in Path
    BY <2>2, <1>8 DEF Path
  <2>5. QED
    BY <2>1, <2>3, <2>4, <1>1, AssignedSound DEF Source, Terminal
<1>9. QED
  BY <1>3, <1>4, <1>5, <1>6, <1>7, <1>8 DEF Actions

\* Accepting the remaining headwords keeps every item sound and adds or drops none.
LEMMA AcceptUntouchedSound ==
  ASSUME NEW items \in [Cuts -> Item \cup {None}],
         \A c \in Present(items) : Sound(items[c])
  PROVE  /\ AcceptUntouched(items) \in [Cuts -> Item \cup {None}]
         /\ Present(AcceptUntouched(items)) = Present(items)
         /\ \A c \in Present(items) : Sound(AcceptUntouched(items)[c])
<1>. DEFINE accepted == AcceptUntouched(items)
<1>1. /\ accepted = [c \in Cuts |-> accepted[c]]
      /\ \A c \in Cuts : accepted[c] =
           IF items[c] # None /\ items[c].state = "llm_selected_candidate"
           THEN Accept(items[c]) ELSE items[c]
  BY DEF AcceptUntouched
<1>. HIDE DEF accepted
<1>2. ASSUME NEW c \in Present(items)
      PROVE  c \in Cuts /\ items[c] # None /\ Sound(accepted[c])
  <2>1. c \in Cuts /\ items[c] # None /\ Sound(items[c])
    BY DEF Present
  <2>2. CASE items[c].state = "llm_selected_candidate"
    BY <2>1, <2>2, <1>1, AcceptSound
  <2>3. CASE items[c].state # "llm_selected_candidate"
    BY <2>1, <2>3, <1>1
  <2>4. QED
    BY <2>1, <2>2, <2>3
<1>3. \A c \in Present(items) : accepted[c] \in Item /\ accepted[c] # None
  BY <1>2, AbsentAssumption DEF Sound
<1>4. \A c \in Cuts \ Present(items) : accepted[c] = None
  BY <1>1 DEF Present
<1>5. \A c \in Cuts : accepted[c] \in Item \cup {None}
  BY <1>3, <1>4
<1>6. accepted \in [Cuts -> Item \cup {None}]
  BY <1>1, <1>5
<1>7. Present(accepted) = Present(items)
  BY <1>3, <1>4 DEF Present
<1>8. QED
  BY <1>2, <1>6, <1>7 DEF accepted

-----------------------------------------------------------------------------
(* Payloads *)

\* What Inductive says of the payload of the row and of each request.
Good(p) == /\ p \in Payload
           /\ \A c \in Present(p.items) : Sound(p.items[c])
           /\ Present(p.items) \in {{}, p.cuts}
           /\ Present(p.assigned) \subseteq Present(p.items)

LEMMA EmptyGood ==
  ASSUME NEW cuts \in SUBSET Cuts
  PROVE  Good([EmptyPayload EXCEPT !.cuts = cuts]) /\ Good(EmptyPayload)
<1>1. Present(Nothing) = {} /\ Nothing \in [Cuts -> Item \cup {None}]
      /\ Nothing \in [Cuts -> Assignment \cup {None}]
  BY DEF Present, Nothing
<1>2. 0 \in 0..MaxBatch
  BY BatchAssumption
<1>3. QED
  BY <1>1, <1>2 DEF Good, EmptyPayload, Payload

\* Replacing the items by sound ones of the same event cuts.
LEMMA ItemsGood ==
  ASSUME NEW p, Good(p), NEW items \in [Cuts -> Item \cup {None}],
         \A c \in Present(items) : Sound(items[c]),
         Present(items) = Present(p.items)
  PROVE  Good([p EXCEPT !.items = items])
BY DEF Good, Payload

\* What sync_eventcut_review_status saves: a payload as good as the one it was given,
\* and final when the status says accepted.
LEMMA SyncedGood ==
  ASSUME NEW p, Good(p)
  PROVE  /\ Synced(p) \in Row
         /\ Good(Synced(p).payload)
         /\ Synced(p).status = "accepted" => Final(Synced(p).payload)
<1>. DEFINE assigned == [c \in Cuts |-> IF Complete(p.items) /\ p.items[c] # None
                                        THEN p.items[c].assignment ELSE None]
            saved == [p EXCEPT !.assigned = assigned]
<1>1. p \in Payload /\ p.items \in [Cuts -> Item \cup {None}]
  BY DEF Good, Payload
<1>2. \A c \in Cuts : assigned[c] \in Assignment \cup {None}
                      /\ (assigned[c] # None => p.items[c] # None)
  BY <1>1 DEF Item
<1>3. assigned \in [Cuts -> Assignment \cup {None}]
      /\ Present(assigned) \subseteq Present(p.items)
  BY <1>2 DEF Present
<1>4. Synced(p).payload = saved
      /\ Synced(p).status = (IF Complete(p.items) THEN "accepted" ELSE "checking")
      /\ Synced(p) = [status |-> Synced(p).status, payload |-> saved]
  BY DEF Synced
<1>5. ASSUME Complete(p.items)
      PROVE  \A c \in Present(p.items) : assigned[c] = p.items[c].assignment
  BY <1>5 DEF Present
<1>. HIDE DEF assigned
<1>6. /\ saved \in Payload /\ saved.items = p.items /\ saved.cuts = p.cuts
      /\ saved.assigned = assigned
  BY <1>1, <1>3 DEF Payload
<1>. HIDE DEF saved
<1>7. Good(saved)
  BY <1>3, <1>6 DEF Good
<1>8. Complete(p.items) => Final(saved)
  <2>1. SUFFICES ASSUME Complete(p.items) PROVE Final(saved)
    OBVIOUS
  <2>2. Present(p.items) # {} /\ Present(p.items) = p.cuts
    BY <2>1 DEF Complete, Good
  <2>3. \A c \in p.cuts : /\ p.items[c] # None /\ p.items[c].state \in Terminal
                          /\ assigned[c] = p.items[c].assignment
    BY <2>1, <2>2, <1>5 DEF Complete, Present
  <2>4. QED
    BY <2>2, <2>3, <1>6 DEF Final
<1>9. QED
  BY <1>4, <1>6, <1>7, <1>8 DEF Row, Status

-----------------------------------------------------------------------------
(* The invariant, by payload *)

\* The two sides of the induction: the database row and the requests under way.
RowSafe == eventcut \in Row /\ Good(eventcut.payload) /\ batch \in 0..MaxBatch
RequestSafe(r) == r \in Request /\ Good(r.payload) /\ (r.op = "generate" => Final(r.payload))
Safe == /\ RowSafe
        /\ req \in [Workers -> Request]
        /\ \A w \in Workers : RequestSafe(req[w])

LEMMA InductiveIsSafe == Inductive <=> Safe
<1>1. (\A p \in Payloads : Good(p)) <=>
        Good(eventcut.payload) /\ \A w \in Workers : Good(req[w].payload)
  BY DEF Payloads
<1>2. TypeOK => \A p \in Payloads : p \in Payload
  BY DEF TypeOK, Payloads, Row, Request
<1>3. TypeOK => ((PayloadsSound /\ StoreFitsCuts) <=> \A p \in Payloads : Good(p))
  BY <1>2 DEF PayloadsSound, StoreFitsCuts, Good
<1>4. QED
  BY <1>1, <1>3 DEF Inductive, TypeOK, OccurrenceFinal, Safe, RowSafe, RequestSafe

LEMMA IdleSafe == RequestSafe(Idle)
<1>1. Good(EmptyPayload)
  BY EmptyGood
<1>2. QED
  BY <1>1 DEF Good, RequestSafe, Request, Idle, Op

LEMMA InitSafe == Init => Safe
<1>1. Good(EmptyPayload)
  BY EmptyGood
<1>2. 0 \in 0..MaxBatch
  BY BatchAssumption
<1>3. QED
  BY <1>1, <1>2, IdleSafe DEF Init, Safe, RowSafe, RequestSafe, Row, Status, Good

\* A step that leaves the row sound and gives one request a sound state is safe.
LEMMA OneRequest ==
  ASSUME Safe, RowSafe', NEW w \in Workers, NEW r, RequestSafe(r),
         req' = [req EXCEPT ![w] = r]
  PROVE  Safe'
<1>1. r \in Request
  BY DEF RequestSafe
<1>2. req' \in [Workers -> Request] /\ \A v \in Workers : req'[v] = r \/ req'[v] = req[v]
  BY <1>1 DEF Safe
<1>3. \A v \in Workers : RequestSafe(req'[v])
  BY <1>2 DEF Safe
<1>4. QED
  BY <1>2, <1>3 DEF Safe, RequestSafe, RowSafe

-----------------------------------------------------------------------------
(* The steps *)

LEMMA BeginSafe ==
  ASSUME Safe, NEW w \in Workers, NEW op \in Op \ {"generate"}, Begin(w, op)
  PROVE  Safe'
<1>1. RowSafe'
  BY DEF Begin, Safe, RowSafe
<1>2. RequestSafe([op |-> op, payload |-> eventcut.payload])
  BY DEF Safe, RowSafe, Row, RequestSafe, Request
<1>3. QED
  BY <1>1, <1>2, OneRequest DEF Begin

LEMMA SaveSyncedSafe ==
  ASSUME Safe, NEW w \in Workers, NEW items \in [Cuts -> Item \cup {None}],
         \A c \in Present(items) : Sound(items[c]),
         Present(items) = Present(req[w].payload.items), SaveSynced(w, items)
  PROVE  Safe'
<1>1. Good([req[w].payload EXCEPT !.items = items])
  BY ItemsGood DEF Safe, RequestSafe
<1>2. RowSafe'
  BY <1>1, SyncedGood DEF SaveSynced, Safe, RowSafe
<1>3. QED
  BY <1>2, IdleSafe, OneRequest DEF SaveSynced, Finish

LEMMA SaveItemsSafe ==
  ASSUME Safe, NEW w \in Workers, NEW chosen \in [req[w].payload.cuts -> NewItems],
         SaveItems(w, chosen)
  PROVE  Safe'
<1>. DEFINE p == req[w].payload
            items == [c \in Cuts |-> IF c \in DOMAIN chosen THEN chosen[c] ELSE None]
            saved == [p EXCEPT !.lookup = batch + 1, !.items = items]
<1>1. Good(p) /\ p \in Payload /\ p.cuts \subseteq Cuts
  BY DEF Safe, RequestSafe, Good, Payload
<1>2. batch + 1 \in 0..MaxBatch
  BY BatchAssumption DEF SaveItems, Safe, RowSafe
<1>3. ASSUME NEW c \in p.cuts
      PROVE  Sound(items[c]) /\ items[c] \in Item /\ items[c] # None
  <2>1. items[c] = chosen[c] /\ chosen[c] \in NewItems
    BY <1>1
  <2>2. QED
    BY <2>1, NewItemsSound, AbsentAssumption DEF Sound
<1>4. \A c \in Cuts \ p.cuts : items[c] = None
  OBVIOUS
<1>5. items \in [Cuts -> Item \cup {None}] /\ Present(items) = p.cuts
  <2>1. \A c \in Cuts : items[c] \in Item \cup {None}
    BY <1>3, <1>4
  <2>. HIDE DEF saved
  <2>2. items = [c \in Cuts |-> items[c]]
    OBVIOUS
  <2>3. Present(items) = p.cuts
    BY <1>1, <1>3, <1>4 DEF Present
  <2>4. QED
    BY <2>1, <2>2, <2>3
<1>6. eventcut' = [eventcut EXCEPT !.payload = saved] /\ batch' = batch + 1
  BY DEF SaveItems
<1>. HIDE DEF items
<1>7. Present(p.assigned) \subseteq p.cuts
  BY <1>1 DEF Good
<1>8. Good(saved)
  <2>1. /\ saved \in Payload /\ saved.items = items /\ saved.cuts = p.cuts
        /\ saved.assigned = p.assigned
    BY <1>1, <1>2, <1>5 DEF Payload
  <2>. HIDE DEF saved, p
  <2>2. QED
    BY <2>1, <1>3, <1>5, <1>7 DEF Good
<1>. HIDE DEF saved
<1>9. RowSafe'
  BY <1>2, <1>6, <1>8 DEF Safe, RowSafe, Row, Good
<1>10. QED
  BY <1>9, IdleSafe, OneRequest DEF SaveItems, Finish

LEMMA HeadwordActionSafe ==
  ASSUME Safe, NEW w \in Workers, NEW c \in Present(req[w].payload.items),
         NEW action \in Actions, HeadwordAction(w, c, action)
  PROVE  Safe'
<1>. DEFINE items == req[w].payload.items
<1>1. items \in [Cuts -> Item \cup {None}] /\ c \in Cuts /\ items[c] # None
      /\ \A d \in Present(items) : Sound(items[d])
  BY DEF Safe, RequestSafe, Good, Payload, Present
<1>2. PICK item \in Results(items[c], action) : SaveSynced(w, [items EXCEPT ![c] = item])
  BY DEF HeadwordAction
<1>3. Sound(item) /\ item \in Item /\ item # None
  <2>1. Sound(item)
    BY <1>1, <1>2, ResultsSound
  <2>2. QED
    BY <2>1, AbsentAssumption DEF Sound
<1>4. /\ [items EXCEPT ![c] = item] \in [Cuts -> Item \cup {None}]
      /\ Present([items EXCEPT ![c] = item]) = Present(items)
      /\ \A d \in Present(items) : Sound([items EXCEPT ![c] = item][d])
  BY <1>1, <1>3 DEF Present
<1>5. QED
  BY <1>2, <1>4, SaveSyncedSafe

LEMMA OccurrenceSafe ==
  ASSUME Safe, NEW w \in Workers, Occurrence(w)
  PROVE  Safe'
<1>. DEFINE row == Synced(req[w].payload)
<1>1. /\ row \in Row /\ Good(row.payload)
      /\ row.status = "accepted" => Final(row.payload)
  BY SyncedGood DEF Safe, RequestSafe
<1>2. /\ eventcut' = row /\ batch' = batch
      /\ req' = [req EXCEPT ![w] = IF row.status = "accepted"
                                   THEN [op |-> "generate", payload |-> row.payload]
                                   ELSE Idle]
  BY DEF Occurrence
<1>. HIDE DEF row
<1>3. RowSafe'
  BY <1>1, <1>2 DEF Safe, RowSafe
<1>4. CASE row.status = "accepted"
  <2>1. RequestSafe([op |-> "generate", payload |-> row.payload])
    BY <1>1, <1>4 DEF RequestSafe, Request, Row, Op
  <2>2. QED
    BY <2>1, <1>2, <1>3, <1>4, OneRequest
<1>5. CASE row.status # "accepted"
  BY <1>2, <1>3, <1>5, IdleSafe, OneRequest
<1>6. QED
  BY <1>4, <1>5

LEMMA StepSafe == Safe /\ [Next]_vars => Safe'
<1>. SUFFICES ASSUME Safe, [Next]_vars PROVE Safe'
  OBVIOUS
<1>1. ASSUME NEW cuts \in SUBSET Cuts, NEW valid \in BOOLEAN, Extract(cuts, valid)
      PROVE  Safe'
  <2>1. Good([EmptyPayload EXCEPT !.cuts = cuts])
    BY EmptyGood
  <2>2. batch' \in 0..MaxBatch
    BY <1>1, BatchAssumption DEF Extract, Safe, RowSafe
  <2>3. RowSafe'
    BY <1>1, <2>1, <2>2 DEF Extract, RowSafe, Row, Status, Good
  <2>4. QED
    BY <1>1, <2>3 DEF Extract, Safe, RequestSafe
<1>2. ASSUME ResetSource PROVE Safe'
  <2>1. Good(EmptyPayload)
    BY EmptyGood
  <2>2. RowSafe'
    BY <1>2, <2>1 DEF ResetSource, Safe, RowSafe, Row, Status, Good
  <2>3. QED
    BY <1>2, <2>2 DEF ResetSource, Safe, RequestSafe
<1>3. ASSUME NEW w \in Workers,
             \/ BeginLookup(w) \/ BeginHeadword(w) \/ BeginAcceptRemaining(w)
             \/ BeginShow(w) \/ BeginOccurrence(w)
      PROVE  Safe'
  BY <1>3, BeginSafe DEF BeginLookup, BeginHeadword, BeginAcceptRemaining, BeginShow,
                         BeginOccurrence, Op
<1>4. ASSUME NEW w \in Workers, SaveLookup(w) PROVE Safe'
  <2>1. RequestSafe(req[w]) /\ req[w] \in Request
    BY DEF Safe
  <2>2. RowSafe'
    BY <1>4, <2>1 DEF SaveLookup, Safe, RowSafe, RequestSafe, Row, Status, Good
  <2>3. RequestSafe([req[w] EXCEPT !.op = "choose"])
    BY <2>1 DEF RequestSafe, Request, Op
  <2>4. QED
    BY <1>4, <2>2, <2>3, OneRequest DEF SaveLookup
<1>5. ASSUME NEW w \in Workers, NEW chosen \in [req[w].payload.cuts -> NewItems],
             SaveItems(w, chosen)
      PROVE  Safe'
  BY <1>5, SaveItemsSafe
<1>6. ASSUME NEW w \in Workers, NEW c \in Present(req[w].payload.items),
             NEW action \in Actions, HeadwordAction(w, c, action)
      PROVE  Safe'
  BY <1>6, HeadwordActionSafe
<1>7. ASSUME NEW w \in Workers, AcceptRemaining(w) \/ Show(w) PROVE Safe'
  <2>. DEFINE items == req[w].payload.items
  <2>1. items \in [Cuts -> Item \cup {None}] /\ \A c \in Present(items) : Sound(items[c])
    BY DEF Safe, RequestSafe, Good, Payload
  <2>2. CASE AcceptRemaining(w)
    BY <2>1, <2>2, AcceptUntouchedSound, SaveSyncedSafe DEF AcceptRemaining
  <2>3. CASE Show(w)
    BY <2>1, <2>3, SaveSyncedSafe DEF Show
  <2>4. QED
    BY <1>7, <2>2, <2>3
<1>8. ASSUME NEW w \in Workers, Occurrence(w) PROVE Safe'
  BY <1>8, OccurrenceSafe
<1>9. ASSUME NEW w \in Workers, Abandon(w) PROVE Safe'
  <2>1. RowSafe'
    BY <1>9 DEF Abandon, Safe, RowSafe
  <2>2. QED
    BY <1>9, <2>1, IdleSafe, OneRequest DEF Abandon, Finish
<1>10. CASE UNCHANGED vars
  BY <1>10 DEF vars, Safe, RowSafe, RequestSafe
<1>11. QED
  BY <1>1, <1>2, <1>3, <1>4, <1>5, <1>6, <1>7, <1>8, <1>9, <1>10 DEF Next

-----------------------------------------------------------------------------
(* One request at a time *)

\* Two tabs can revoke a decision or export an unfinished review; the last three
\* theorems are about one request at a time.
OneAtATime == \A v, w \in Workers : v = w

\* What a request that nobody overtakes knows: the payload in its hands is the row's,
\* unless an extraction or a new source text emptied the row; and between the two saves
\* of a lookup the row is not accepted.
InHand(r) == /\ r.op = "choose" => eventcut.status # "accepted"
             /\ r.op # "idle" /\ Present(eventcut.payload.items) # {}
                  => r.payload = eventcut.payload

\* Items come from a lookup that has been counted.
Counted(p) == p.lookup <= batch /\ (Present(p.items) # {} => p.lookup # 0)

Alone == /\ Safe
         /\ ExportFinal
         /\ Counted(eventcut.payload)
         /\ \A w \in Workers : Counted(req[w].payload) /\ InHand(req[w])

LEMMA EmptyCounted ==
  ASSUME NEW cuts, batch \in Nat
  PROVE  /\ Present(EmptyPayload.items) = {} /\ EmptyPayload.lookup = 0
         /\ Present([EmptyPayload EXCEPT !.cuts = cuts].items) = {}
         /\ [EmptyPayload EXCEPT !.cuts = cuts].lookup = 0
         /\ Counted(EmptyPayload) /\ Counted([EmptyPayload EXCEPT !.cuts = cuts])
BY DEF Counted, EmptyPayload, Present, Nothing

LEMMA BatchCounts == Safe => batch \in Nat /\ batch + 1 > batch
BY BatchAssumption DEF Safe, RowSafe

LEMMA InitAlone == Init => Alone
<1>. SUFFICES ASSUME Init PROVE Alone
  OBVIOUS
<1>1. Safe
  BY InitSafe
<1>2. Counted(EmptyPayload) /\ Present(EmptyPayload.items) = {}
  BY <1>1, EmptyCounted, BatchCounts
<1>3. Counted(eventcut.payload) /\ eventcut.status = "not_started"
  BY <1>2 DEF Init
<1>4. ASSUME NEW w \in Workers PROVE Counted(req[w].payload) /\ InHand(req[w])
  <2>1. req[w] = Idle /\ Idle.op = "idle" /\ Idle.payload = EmptyPayload
    BY DEF Init, Idle
  <2>2. QED
    BY <1>2, <2>1 DEF InHand
<1>5. QED
  BY <1>1, <1>3, <1>4 DEF Alone, ExportFinal

\* The sole request moved: what the new state owes is about that request and the row.
LEMMA AloneMoved ==
  ASSUME OneAtATime, Alone, Safe', NEW w \in Workers, NEW r,
         req' = [req EXCEPT ![w] = r],
         ExportFinal', Counted(eventcut.payload)',
         (r.payload.lookup <= batch' /\ (Present(r.payload.items) # {} => r.payload.lookup # 0)),
         r.op = "choose" => eventcut'.status # "accepted",
         r.op # "idle" /\ Present(eventcut'.payload.items) # {}
           => r.payload = eventcut'.payload
  PROVE  Alone'
<1>1. \A v \in Workers : v = w /\ req'[v] = r
  BY DEF OneAtATime, Alone, Safe
<1>2. ASSUME NEW v \in Workers PROVE (Counted(req[v].payload) /\ InHand(req[v]))'
  BY <1>1 DEF Counted, InHand, Present
<1>3. QED
  BY <1>2 DEF Alone

\* A request that is done owes nothing more.
LEMMA AloneDone ==
  ASSUME OneAtATime, Alone, Safe', NEW w \in Workers, Finish(w),
         ExportFinal', Counted(eventcut.payload)', batch' >= batch
  PROVE  Alone'
<1>1. Idle.op = "idle" /\ Idle.payload = EmptyPayload
  BY DEF Idle
<1>2. batch' \in Nat
  BY BatchAssumption DEF Safe, RowSafe
<1>3. EmptyPayload.lookup <= batch' /\ Present(EmptyPayload.items) = {}
  <2>1. EmptyPayload.lookup = 0 /\ EmptyPayload.items = Nothing
    BY DEF EmptyPayload
  <2>2. QED
    BY <1>2, <2>1 DEF Present, Nothing
<1>4. QED
  BY <1>1, <1>3, AloneMoved DEF Finish

\* The row and the counter stay: so does what is known of the row.
LEMMA RowKept ==
  ASSUME Alone, UNCHANGED <<eventcut, batch>>
  PROVE  ExportFinal' /\ Counted(eventcut.payload)'
BY DEF Alone, ExportFinal, Counted, Final, Present

\* A save of the review's items keeps their lookup, and is accepted only when final.
LEMMA SyncedAlone ==
  ASSUME OneAtATime, Alone, NEW w \in Workers, NEW items, SaveSynced(w, items),
         LET p == [req[w].payload EXCEPT !.items = items]
         IN  Good(p) /\ Present(items) = Present(req[w].payload.items),
         Safe'
  PROVE  Alone'
<1>. DEFINE p == [req[w].payload EXCEPT !.items = items]
<1>1. req[w].payload \in Payload /\ Counted(req[w].payload)
  BY DEF Alone, Safe, RequestSafe, Good
<1>2. p.lookup = req[w].payload.lookup /\ p.items = items
  BY <1>1 DEF Payload
<1>3. Synced(p).status = "accepted" => Final(Synced(p).payload)
  BY SyncedGood
<1>4. Synced(p).payload.lookup = p.lookup /\ Synced(p).payload.items = p.items
  <2>1. p \in Payload
    BY DEF Good
  <2>. HIDE DEF p
  <2>2. QED
    BY <2>1 DEF Synced, Payload
<1>5. eventcut' = Synced(p) /\ batch' = batch /\ Finish(w)
  BY DEF SaveSynced
<1>. HIDE DEF p
<1>6. ExportFinal'
  BY <1>3, <1>5 DEF ExportFinal, Final
<1>7. Counted(eventcut.payload)'
  BY <1>1, <1>2, <1>4, <1>5 DEF Counted, Present
<1>8. batch' >= batch
  BY <1>5, BatchCounts DEF Alone
<1>9. QED
  BY <1>5, <1>6, <1>7, <1>8, AloneDone

\* The three requests that save the items they changed keep every decided item.
LEMMA SavesKeepDecided ==
  ASSUME Safe, NEW w \in Workers,
         \/ \E c \in Present(req[w].payload.items), action \in Actions :
              HeadwordAction(w, c, action)
         \/ AcceptRemaining(w)
         \/ Show(w)
  PROVE  \E items \in [Cuts -> Item \cup {None}] :
           /\ SaveSynced(w, items)
           /\ Present(items) = Present(req[w].payload.items)
           /\ Good([req[w].payload EXCEPT !.items = items])
           /\ \A c \in Present(items) :
                req[w].payload.items[c].state \in Terminal
                  => items[c] = req[w].payload.items[c]
<1>. DEFINE items == req[w].payload.items
            Keeps(new) == \A c \in Present(new) : items[c].state \in Terminal
                                                    => new[c] = items[c]
<1>1. /\ Good(req[w].payload) /\ items \in [Cuts -> Item \cup {None}]
      /\ \A d \in Present(items) : Sound(items[d])
  BY DEF Safe, RequestSafe, Good, Payload
<1>2. ASSUME NEW c \in Present(items), NEW action \in Actions, HeadwordAction(w, c, action)
      PROVE  \E new \in [Cuts -> Item \cup {None}] :
               /\ SaveSynced(w, new) /\ Present(new) = Present(items)
               /\ Good([req[w].payload EXCEPT !.items = new]) /\ Keeps(new)
  <2>1. PICK item \in Results(items[c], action) : SaveSynced(w, [items EXCEPT ![c] = item])
    BY <1>2 DEF HeadwordAction
  <2>2. c \in Cuts /\ items[c] # None /\ Sound(items[c])
    BY <1>1 DEF Present
  <2>3. Sound(item)
    BY <2>1, <2>2, ResultsSound
  <2>4. item \in Item /\ item # None
    BY <2>3, AbsentAssumption DEF Sound
  <2>5. items[c].state \notin Terminal
    BY <2>1, <2>2, EnabledStates DEF Sound, Item, Results
  <2>. DEFINE new == [items EXCEPT ![c] = item]
  <2>6. /\ new \in [Cuts -> Item \cup {None}] /\ Present(new) = Present(items)
        /\ \A d \in Present(new) : Sound(new[d])
    BY <1>1, <2>2, <2>3, <2>4 DEF Present
  <2>7. Keeps(new)
    BY <1>1, <2>5, <2>6 DEF Present
  <2>8. Good([req[w].payload EXCEPT !.items = new])
    <3>. HIDE DEF new, items
    <3>1. Present(new) = Present(req[w].payload.items)
      BY <2>6 DEF items
    <3>2. QED
      BY <1>1, <2>6, <3>1, ItemsGood
  <2>9. QED
    BY <2>1, <2>6, <2>7, <2>8
<1>3. ASSUME AcceptRemaining(w)
      PROVE  LET new == AcceptUntouched(items)
             IN  /\ new \in [Cuts -> Item \cup {None}]
                 /\ SaveSynced(w, new) /\ Present(new) = Present(items)
                 /\ Good([req[w].payload EXCEPT !.items = new]) /\ Keeps(new)
  <2>. DEFINE new == AcceptUntouched(items)
  <2>1. /\ new \in [Cuts -> Item \cup {None}] /\ Present(new) = Present(items)
        /\ \A d \in Present(items) : Sound(new[d])
    BY <1>1, AcceptUntouchedSound
  <2>2. Keeps(new)
    BY <1>1 DEF AcceptUntouched, Present, Terminal
  <2>3. SaveSynced(w, new)
    BY <1>3 DEF AcceptRemaining
  <2>. HIDE DEF new
  <2>4. Good([req[w].payload EXCEPT !.items = new])
    BY <1>1, <2>1, ItemsGood
  <2>5. QED
    BY <2>1, <2>2, <2>3, <2>4 DEF new
<1>4. ASSUME Show(w)
      PROVE  /\ SaveSynced(w, items) /\ Keeps(items)
             /\ Good([req[w].payload EXCEPT !.items = items])
  BY <1>1, <1>4, ItemsGood DEF Show
<1>5. QED
  BY <1>1, <1>2, <1>3, <1>4

LEMMA StepAlone == OneAtATime /\ Alone /\ [Next]_vars => Alone'
<1>. SUFFICES ASSUME OneAtATime, Alone, [Next]_vars PROVE Alone'
  OBVIOUS
<1>1. /\ Safe /\ Safe' /\ ExportFinal /\ batch \in Nat /\ batch' \in Nat /\ batch + 1 > batch
      /\ Counted(eventcut.payload)
      /\ \A w \in Workers : Counted(req[w].payload) /\ InHand(req[w])
  <2>1. Safe /\ Safe'
    BY StepSafe DEF Alone
  <2>2. batch \in Nat /\ batch + 1 > batch
    BY <2>1, BatchCounts
  <2>3. batch' \in Nat
    BY <2>1, BatchAssumption DEF Safe, RowSafe
  <2>4. QED
    BY <2>1, <2>2, <2>3 DEF Alone
\* Extraction and a new source text leave a row without items.
<1>2. ASSUME UNCHANGED req, eventcut'.status \in {"not_started", "loaded", "blocked"},
             Present(eventcut'.payload.items) = {}, eventcut'.payload.lookup = 0,
             batch' >= batch
      PROVE  Alone'
  <2>1. ExportFinal'
    BY <1>2 DEF ExportFinal
  <2>2. Counted(eventcut.payload)'
    BY <1>1, <1>2 DEF Counted, Present
  <2>3. ASSUME NEW w \in Workers PROVE (Counted(req[w].payload) /\ InHand(req[w]))'
    <3>1. Counted(req[w].payload)'
      <4>1. req[w].payload.lookup \in Nat
        BY <1>1, BatchAssumption DEF Safe, RequestSafe, Good, Payload
      <4>2. QED
        BY <4>1, <1>1, <1>2 DEF Counted, Present
    <3>2. InHand(req[w])'
      BY <1>2 DEF InHand, Present
    <3>3. QED
      BY <3>1, <3>2
  <2>4. QED
    BY <1>1, <2>1, <2>2, <2>3 DEF Alone
<1>3. ASSUME NEW cuts \in SUBSET Cuts, NEW valid \in BOOLEAN, Extract(cuts, valid)
      PROVE  Alone'
  <2>1. batch' = batch + 1 /\ UNCHANGED req
    BY <1>3 DEF Extract
  <2>2. /\ eventcut'.payload = [EmptyPayload EXCEPT !.cuts = cuts]
        /\ eventcut'.status \in {"not_started", "loaded", "blocked"}
    BY <1>3 DEF Extract
  <2>3. Present(eventcut'.payload.items) = {} /\ eventcut'.payload.lookup = 0
    BY <1>1, <2>2, EmptyCounted
  <2>4. QED
    BY <1>1, <1>2, <2>1, <2>2, <2>3
<1>4. ASSUME ResetSource PROVE Alone'
  <2>1. /\ eventcut'.payload = EmptyPayload /\ UNCHANGED <<batch, req>>
        /\ eventcut'.status \in {"not_started", "loaded", "blocked"}
    BY <1>4 DEF ResetSource
  <2>2. Present(eventcut'.payload.items) = {} /\ eventcut'.payload.lookup = 0
    BY <1>1, <2>1, EmptyCounted
  <2>3. QED
    BY <1>1, <1>2, <2>1, <2>2
<1>5. ASSUME NEW w \in Workers, NEW op \in Op \ {"choose"}, Begin(w, op) PROVE Alone'
  <2>. DEFINE r == [op |-> op, payload |-> eventcut.payload]
  <2>1. req' = [req EXCEPT ![w] = r] /\ UNCHANGED <<eventcut, batch>>
    BY <1>5 DEF Begin
  <2>2. r.op # "choose" /\ r.payload = eventcut.payload
    OBVIOUS
  <2>3. ExportFinal' /\ Counted(eventcut.payload)'
    BY <2>1, RowKept
  <2>. HIDE DEF r
  <2>4. QED
    BY <1>1, <2>1, <2>2, <2>3, AloneMoved DEF Counted
<1>6. ASSUME NEW w \in Workers,
             \/ BeginLookup(w) \/ BeginHeadword(w) \/ BeginAcceptRemaining(w)
             \/ BeginShow(w) \/ BeginOccurrence(w)
      PROVE  Alone'
  BY <1>5, <1>6 DEF BeginLookup, BeginHeadword, BeginAcceptRemaining, BeginShow,
                    BeginOccurrence, Op
<1>7. ASSUME NEW w \in Workers, SaveLookup(w) PROVE Alone'
  <2>. DEFINE r == [req[w] EXCEPT !.op = "choose"]
  <2>1. /\ eventcut' = [status |-> "checking", payload |-> req[w].payload]
        /\ batch' = batch /\ req' = [req EXCEPT ![w] = r]
    BY <1>7 DEF SaveLookup
  <2>2. r.payload = req[w].payload
    BY <1>1 DEF Safe, Request
  <2>3. ExportFinal'
    BY <2>1 DEF ExportFinal
  <2>4. Counted(eventcut.payload)'
    BY <1>1, <2>1 DEF Counted, Present
  <2>. HIDE DEF r
  <2>5. QED
    BY <1>1, <2>1, <2>2, <2>3, <2>4, AloneMoved DEF Counted
<1>8. ASSUME NEW w \in Workers, NEW chosen \in [req[w].payload.cuts -> NewItems],
             SaveItems(w, chosen)
      PROVE  Alone'
  <2>1. /\ req[w].op = "choose" /\ batch' = batch + 1 /\ Finish(w)
        /\ eventcut'.status = eventcut.status /\ eventcut'.payload.lookup = batch + 1
    <3>1. eventcut \in Row /\ req[w].payload \in Payload
      BY <1>1 DEF Safe, RowSafe, RequestSafe, Good
    <3>2. QED
      BY <1>8, <3>1 DEF SaveItems, Row, Payload
  <2>2. ExportFinal'
    BY <1>1, <2>1 DEF InHand, ExportFinal
  <2>3. Counted(eventcut.payload)'
    BY <1>1, <2>1 DEF Counted, Present
  <2>4. QED
    BY <1>1, <2>1, <2>2, <2>3, AloneDone
<1>9. ASSUME NEW w \in Workers,
             \/ \E c \in Present(req[w].payload.items), action \in Actions :
                  HeadwordAction(w, c, action)
             \/ AcceptRemaining(w)
             \/ Show(w)
      PROVE  Alone'
  BY <1>1, <1>9, SavesKeepDecided, SyncedAlone
<1>10. ASSUME NEW w \in Workers, Occurrence(w) PROVE Alone'
  <2>. DEFINE row == Synced(req[w].payload)
  <2>1. /\ Good(req[w].payload) /\ req[w].payload \in Payload /\ Counted(req[w].payload)
    BY <1>1 DEF Safe, RequestSafe, Good
  <2>2. /\ row.status = "accepted" => Final(row.payload)
        /\ row.payload.lookup = req[w].payload.lookup
        /\ row.payload.items = req[w].payload.items
    BY <2>1, SyncedGood DEF Synced, Payload
  <2>3. /\ eventcut' = row /\ batch' = batch
        /\ req' = [req EXCEPT ![w] = IF row.status = "accepted"
                                     THEN [op |-> "generate", payload |-> row.payload]
                                     ELSE Idle]
    BY <1>10 DEF Occurrence
  <2>. HIDE DEF row
  <2>4. ExportFinal'
    BY <2>2, <2>3 DEF ExportFinal, Final
  <2>5. Counted(eventcut.payload)'
    BY <2>1, <2>2, <2>3 DEF Counted, Present
  <2>6. CASE row.status = "accepted"
    <3>. DEFINE r == [op |-> "generate", payload |-> row.payload]
    <3>1. req' = [req EXCEPT ![w] = r] /\ r.op = "generate" /\ r.payload = eventcut'.payload
      BY <2>3, <2>6
    <3>. HIDE DEF r
    <3>2. /\ r.payload.lookup <= batch'
          /\ Present(r.payload.items) # {} => r.payload.lookup # 0
      <4>1. /\ eventcut'.payload.lookup <= batch'
            /\ Present(eventcut'.payload.items) # {} => eventcut'.payload.lookup # 0
        BY <2>5 DEF Counted, Present
      <4>2. QED
        BY <3>1, <4>1
    <3>3. QED
      BY <1>1, <2>4, <2>5, <3>1, <3>2, AloneMoved
  <2>7. CASE row.status # "accepted"
    <3>1. Finish(w) /\ batch' >= batch
      BY <1>1, <2>3, <2>7 DEF Finish
    <3>2. QED
      BY <1>1, <2>4, <2>5, <3>1, AloneDone
  <2>8. QED
    BY <2>6, <2>7
<1>11. ASSUME NEW w \in Workers, Abandon(w) PROVE Alone'
  <2>1. UNCHANGED <<eventcut, batch>> /\ Finish(w)
    BY <1>11 DEF Abandon
  <2>2. QED
    BY <1>1, <2>1, RowKept, AloneDone
<1>12. CASE UNCHANGED vars
  BY <1>1, <1>12 DEF vars, Alone, ExportFinal, Counted, InHand, Final, Present
<1>13. QED
  BY <1>3, <1>4, <1>6, <1>7, <1>8, <1>9, <1>10, <1>11, <1>12 DEF Next

\* A decided item of the row outlives every step but a new lookup, extraction or text.
LEMMA StepKeepsDecided ==
  ASSUME OneAtATime, Alone, Alone', [Next]_vars,
         NEW c \in Present(eventcut.payload.items),
         eventcut.payload.items[c].state \in Terminal
  PROVE  \/ eventcut'.payload.lookup # eventcut.payload.lookup
         \/ eventcut'.payload.items[c] = eventcut.payload.items[c]
<1>. DEFINE Kept == eventcut'.payload.items[c] = eventcut.payload.items[c]
            Renewed == eventcut'.payload.lookup # eventcut.payload.lookup
<1>1. /\ Safe /\ batch \in Nat /\ batch + 1 > batch
      /\ eventcut.payload.lookup \in Nat /\ eventcut.payload.lookup <= batch
      /\ eventcut.payload.lookup # 0
      /\ \A w \in Workers : Good(req[w].payload) /\ req[w].payload \in Payload /\ InHand(req[w])
  <2>1. Safe /\ batch \in Nat /\ batch + 1 > batch
    BY BatchCounts DEF Alone
  <2>2. eventcut.payload.lookup \in Nat
    BY <2>1, BatchAssumption DEF Safe, RowSafe, Good, Payload
  <2>3. eventcut.payload.lookup <= batch /\ eventcut.payload.lookup # 0
    BY DEF Alone, Counted
  <2>4. \A w \in Workers : Good(req[w].payload) /\ req[w].payload \in Payload /\ InHand(req[w])
    BY DEF Alone, Safe, RequestSafe, Good
  <2>5. QED
    BY <2>1, <2>2, <2>3, <2>4
<1>2. ASSUME NEW cuts \in SUBSET Cuts, NEW valid \in BOOLEAN, Extract(cuts, valid)
      PROVE  Renewed
  BY <1>1, <1>2, EmptyCounted DEF Extract
<1>3. ASSUME ResetSource PROVE Renewed
  BY <1>1, <1>3, EmptyCounted DEF ResetSource
<1>4. ASSUME NEW w \in Workers, req[w].op # "idle" PROVE req[w].payload = eventcut.payload
  BY <1>1, <1>4 DEF InHand
<1>5. ASSUME NEW w \in Workers, SaveLookup(w) PROVE Kept
  BY <1>4, <1>5 DEF SaveLookup
<1>6. ASSUME NEW w \in Workers, NEW chosen \in [req[w].payload.cuts -> NewItems],
             SaveItems(w, chosen)
      PROVE  Renewed
  <2>1. eventcut'.payload.lookup = batch + 1
    <3>1. eventcut \in Row /\ req[w].payload \in Payload
      BY <1>1 DEF Safe, RowSafe
    <3>2. QED
      BY <1>6, <3>1 DEF SaveItems, Row, Payload
  <2>2. QED
    BY <1>1, <2>1
<1>7. ASSUME NEW w \in Workers,
             \/ \E d \in Present(req[w].payload.items), action \in Actions :
                  HeadwordAction(w, d, action)
             \/ AcceptRemaining(w)
             \/ Show(w)
      PROVE  Kept
  <2>1. req[w].payload = eventcut.payload
    BY <1>4, <1>7 DEF HeadwordAction, AcceptRemaining, Show
  <2>2. PICK items \in [Cuts -> Item \cup {None}] :
          /\ SaveSynced(w, items)
          /\ Present(items) = Present(req[w].payload.items)
          /\ Good([req[w].payload EXCEPT !.items = items])
          /\ \A d \in Present(items) : req[w].payload.items[d].state \in Terminal
                                         => items[d] = req[w].payload.items[d]
    BY <1>1, <1>7, SavesKeepDecided
  <2>3. items[c] = eventcut.payload.items[c]
    BY <2>1, <2>2
  <2>4. eventcut'.payload.items = items
    BY <1>1, <2>2 DEF SaveSynced, Synced, Payload
  <2>5. QED
    BY <2>3, <2>4
<1>8. ASSUME NEW w \in Workers, Occurrence(w) PROVE Kept
  <2>1. req[w].payload = eventcut.payload
    BY <1>4, <1>8 DEF Occurrence
  <2>2. eventcut'.payload.items = req[w].payload.items
    BY <1>1, <1>8 DEF Occurrence, Synced, Payload
  <2>3. QED
    BY <2>1, <2>2
<1>9. ASSUME UNCHANGED eventcut PROVE Kept
  BY <1>9
<1>10. QED
  BY <1>2, <1>3, <1>5, <1>6, <1>7, <1>8, <1>9
     DEF Next, BeginLookup, BeginHeadword, BeginAcceptRemaining, BeginShow,
         BeginOccurrence, Begin, Abandon, vars

\* An item with a history has left the state in which the bulk action accepts it.
LEMMA UntouchedLeavesWorked ==
  ASSUME NEW items, NEW c \in DOMAIN items, Sound(items[c]), items[c].log # <<>>
  PROVE  AcceptUntouched(items)[c] = items[c]
<1>. DEFINE log == items[c].log
<1>1. log \in Seq(Entry) /\ log # <<>> /\ Replays(items[c])
  BY DEF Sound, Item
<1>2. Len(log) \in 1..Len(log)
  BY <1>1
<1>3. /\ <<log[Len(log)].from, log[Len(log)].action, log[Len(log)].to>> \in Path
      /\ items[c].state = log[Len(log)].to
  BY <1>1, <1>2 DEF Replays
<1>. HIDE DEF log
<1>4. items[c].state # "llm_selected_candidate"
  BY <1>3 DEF Path
<1>5. QED
  BY <1>4 DEF AcceptUntouched

\* One request at a time, the bulk action touches no item that has been worked on.
LEMMA BulkKeepsWorked ==
  ASSUME Alone, NEW w \in Workers, AcceptRemaining(w),
         NEW c \in Present(eventcut.payload.items), eventcut.payload.items[c].log # <<>>
  PROVE  eventcut'.payload.items[c] = eventcut.payload.items[c]
<1>1. req[w].payload = eventcut.payload
  BY DEF Alone, InHand, AcceptRemaining
<1>2. /\ eventcut.payload \in Payload /\ c \in DOMAIN eventcut.payload.items
      /\ Sound(eventcut.payload.items[c])
  BY DEF Alone, Safe, RowSafe, Good, Payload, Present
<1>3. eventcut'.payload.items = AcceptUntouched(eventcut.payload.items)
  BY <1>1, <1>2 DEF AcceptRemaining, SaveSynced, Synced, Payload
<1>4. QED
  BY <1>2, <1>3, UntouchedLeavesWorked

-----------------------------------------------------------------------------
(* Theorems *)

\* Whatever requests interleave, the row and every payload held in memory stay typed,
\* sound and fitting, and a generation of occurrences works on final decisions.
THEOREM InvariantHolds == Spec => []Inductive
<1>1. Spec => []Safe
  BY InitSafe, StepSafe, PTL DEF Spec
<1>2. QED
  BY <1>1, InductiveIsSafe, PTL

\* The columns and the payloads in memory have their types.
THEOREM TypeCorrect == Spec => []TypeOK
<1>1. Inductive => TypeOK
  BY DEF Inductive
<1>2. QED
  BY <1>1, InvariantHolds, PTL

\* Each review item has the audit log and the assignment its history warrants, in the
\* row and in the hands of every request.
THEOREM ItemsAlwaysWarranted == Spec => []ItemsWarranted
<1>1. Inductive => ItemsWarranted
  BY DEF Inductive, PayloadsSound, ItemsWarranted, Sound
<1>2. QED
  BY <1>1, InvariantHolds, PTL

\* Items are those of all the event cuts beside them or there are none, and only
\* reviewed cuts have assignments.
THEOREM StoreAlwaysFits == Spec => []StoreFitsCuts
<1>1. Inductive => StoreFitsCuts
  BY DEF Inductive
<1>2. QED
  BY <1>1, InvariantHolds, PTL

\* Occurrences are only generated from a payload whose cuts all have final decisions.
THEOREM OccurrencesFinal == Spec => []OccurrenceFinal
<1>1. Inductive => OccurrenceFinal
  BY DEF Inductive
<1>2. QED
  BY <1>1, InvariantHolds, PTL

\* The assignments of an accepted row, which the export hands over, are the final
\* decisions of all items under review, while one request is under way at a time.
THEOREM ExportAlwaysFinal == ASSUME OneAtATime PROVE Spec => []ExportFinal
<1>1. Alone /\ [Next]_vars => Alone'
  BY StepAlone
<1>2. Alone => ExportFinal
  BY DEF Alone
<1>3. QED
  BY <1>1, <1>2, InitAlone, PTL DEF Spec

\* One request at a time, a final decision is changed only by what replaces the items.
THEOREM DecisionsAlwaysStand == ASSUME OneAtATime PROVE Spec => DecisionsStand
<1>1. Alone /\ [Next]_vars => Alone'
  BY StepAlone
<1>2. Alone /\ Alone' /\ [Next]_vars
        => [\A c \in Present(eventcut.payload.items) :
              eventcut.payload.items[c].state \in Terminal
                => \/ eventcut'.payload.lookup # eventcut.payload.lookup
                   \/ eventcut'.payload.items[c] = eventcut.payload.items[c]]_vars
  BY StepKeepsDecided
<1>3. QED
  BY <1>1, <1>2, InitAlone, PTL DEF Spec, DecisionsStand

\* What README.md:12 promises of accept-all-remaining holds one request at a time: only
\* an overlapping save (run HeadwordBulk) makes it overwrite an edit.
THEOREM EditsPreservedAlone == ASSUME OneAtATime PROVE Spec => EditsPreserved
<1>1. Alone /\ [Next]_vars => Alone'
  BY StepAlone
<1>2. Alone /\ [Next]_vars
        => [\A w \in Workers : AcceptRemaining(w) =>
              \A c \in Present(eventcut.payload.items) :
                /\ eventcut.payload.items[c].log # <<>>
                /\ eventcut'.payload.lookup = eventcut.payload.lookup
                => eventcut'.payload.items[c] = eventcut.payload.items[c]]_vars
  BY BulkKeepsWorked
<1>3. QED
  BY <1>1, <1>2, InitAlone, PTL DEF Spec, EditsPreserved
=============================================================================
