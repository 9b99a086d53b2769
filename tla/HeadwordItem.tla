---------------------------- MODULE HeadwordItem ----------------------------
(***************************************************************************)
(* One Event headword review item and what apply_review_action makes of    *)
(* it: the chooser model selected one of the supplied candidates for an    *)
(* event cut, or none, and a historian accepts the selection, picks        *)
(* another candidate, or proposes a new headword, which must first be      *)
(* compared with the controlled vocabulary by the encoder.                 *)
(*   tagger/services/event_headword_review.py                              *)
(***************************************************************************)
EXTENDS Naturals, Sequences

CONSTANTS Events,      \* events of the controlled vocabulary
          Headwords,   \* normalized texts of proposed headwords
          None

ASSUME HeadwordAssumption == None \notin Events \cup Headwords

State == {"llm_selected_candidate", "llm_none_fit", "editing_headword",
          "proposal_similarity_review", "accepted_existing_headword",
          "provisional_headword_pending_review"}
Terminal == {"accepted_existing_headword", "provisional_headword_pending_review"}
Actions == {"accept", "edit", "reject", "choose_top_k", "submit_proposal",
            "choose_similar_existing", "confirm_new_proposal"}
Source == {"llm_accept", "top_k_override", "proposal_similarity_match",
           "user_confirmed_provisional"}

(* An assignment names an event of the vocabulary or, when provisional, the   *)
(* proposed headword that gets a fresh NEW-E id.                              *)
Assignment == [event : Events \cup Headwords, source : Source]
Similarity == [query : Headwords, matches : SUBSET Events]
Entry == [action : Actions, from : State, to : State]
Item == [candidates : SUBSET Events, selected : Events \cup {None}, state : State,
         revision : Nat, proposal : Headwords \cup {None},
         similarity : Similarity \cup {None},
         assignment : Assignment \cup {None}, log : Seq(Entry)]

ASSUME AbsentAssumption == None \notin Item \cup Assignment \cup Similarity

\* create_review_item: the chooser took one of the candidates, or none of them.
NewItemAsDecided(candidates, selected) ==
  [candidates |-> candidates, selected |-> selected,
   state |-> IF selected = None THEN "none_of_these_fit" ELSE "llm_selected_candidate",
   revision |-> 0, proposal |-> None, similarity |-> None, assignment |-> None,
   log |-> <<>>]

NewItem(candidates, selected) ==
  [candidates |-> candidates, selected |-> selected,
   state |-> IF selected = None THEN "llm_none_fit" ELSE "llm_selected_candidate",
   revision |-> 0, proposal |-> None, similarity |-> None, assignment |-> None,
   log |-> <<>>]

NewItems == UNION {{NewItem(candidates, selected) : selected \in candidates \cup {None}} :
                     candidates \in SUBSET Events \ {{}}}

\* allowed_actions, the enabled ones; view_top_k is always allowed and changes
\* nothing.
EnabledAlways(state) ==
  IF state \in Terminal THEN {} ELSE {"accept", "edit", "reject", "choose_top_k"}

Enabled(state) ==
  CASE state = "llm_selected_candidate" -> {"accept", "edit", "reject"}
    [] state = "llm_none_fit" -> {"edit"}
    [] state = "editing_headword" -> {"submit_proposal", "choose_top_k"}
    [] state = "proposal_similarity_review" -> {"choose_similar_existing", "confirm_new_proposal"}
    [] OTHER -> {}

\* Every applied action raises the revision and appends to the audit log; a logged
\* action that was retried under a stale revision never gets here.
Moved(item, action, to) ==
  [item EXCEPT !.state = to, !.revision = @ + 1,
               !.log = Append(@, [action |-> action, from |-> item.state, to |-> to])]

Assigned(item, event, source) ==
  [item EXCEPT !.assignment = [event |-> event, source |-> source]]

Accept(item) == Moved(Assigned(item, item.selected, "llm_accept"),
                      "accept", "accepted_existing_headword")

\* The proposed headword and the evidence the encoder returned for that very
\* headword enter the item together.
Proposed(item, headword, matches) ==
  [item EXCEPT !.proposal = headword,
               !.similarity = [query |-> headword, matches |-> matches]]

\* All the items apply_review_action can return for an action, over the arguments a
\* request may carry; none when the action is not enabled or an argument is refused.
Results(item, action) ==
  IF action \notin Enabled(item.state) THEN {}
  ELSE CASE action = "accept" -> IF item.selected = None THEN {} ELSE {Accept(item)}
         [] action \in {"edit", "reject"} -> {Moved(item, action, "editing_headword")}
         [] action = "choose_top_k" ->
              {Moved(Assigned(item, event, "top_k_override"), action,
                     "accepted_existing_headword") : event \in item.candidates}
         [] action = "submit_proposal" ->
              {Moved(Proposed(item, pair[1], pair[2]), action, "proposal_similarity_review") :
                 pair \in Headwords \X SUBSET Events}
         [] action = "choose_similar_existing" ->
              {Moved(Assigned(item, event, "proposal_similarity_match"), action,
                     "accepted_existing_headword") : event \in item.similarity.matches}
         [] action = "confirm_new_proposal" ->
              IF None \in {item.proposal, item.similarity} THEN {} ELSE
              {Moved(Assigned(item, item.proposal, "user_confirmed_provisional"), action,
                     "provisional_headword_pending_review")}

\* accept_remaining_items, over the items of some event cuts (None where a cut has
\* none): selections nobody has touched are accepted, all others returned as they are.
AcceptSelected(items) ==
  [c \in DOMAIN items |-> IF items[c] # None /\ items[c].selected # None
                          THEN Accept(items[c]) ELSE items[c]]

AcceptUntouched(items) ==
  [c \in DOMAIN items |-> IF items[c] # None /\ items[c].state = "llm_selected_candidate"
                          THEN Accept(items[c]) ELSE items[c]]

-----------------------------------------------------------------------------
(* What an item must look like at rest *)

\* The paths a historian can take, whatever the code enables.
Path == {<<"llm_selected_candidate", "accept", "accepted_existing_headword">>,
         <<"llm_selected_candidate", "edit", "editing_headword">>,
         <<"llm_selected_candidate", "reject", "editing_headword">>,
         <<"llm_none_fit", "edit", "editing_headword">>,
         <<"editing_headword", "choose_top_k", "accepted_existing_headword">>,
         <<"editing_headword", "submit_proposal", "proposal_similarity_review">>,
         <<"proposal_similarity_review", "choose_similar_existing",
           "accepted_existing_headword">>,
         <<"proposal_similarity_review", "confirm_new_proposal",
           "provisional_headword_pending_review">>}

\* The audit log tells the whole story of the item: one entry per revision, from the
\* chooser's decision to the state the item is in, along the paths above.
Replays(item) ==
  LET log == item.log
  IN /\ Len(log) = item.revision
     /\ \A k \in 1..Len(log) :
          /\ <<log[k].from, log[k].action, log[k].to>> \in Path
          /\ log[k].from = IF k > 1 THEN log[k - 1].to
                           ELSE IF item.selected = None THEN "llm_none_fit"
                           ELSE "llm_selected_candidate"
     /\ item.state = IF log = <<>>
                     THEN NewItem(item.candidates, item.selected).state
                     ELSE log[Len(log)].to

\* A final item is assigned, an open one is not, and the assignment is warranted: an
\* event among the candidates or among the encoder's matches, or a new headword that
\* was compared with the vocabulary under that very name.
Warranted(item) ==
  /\ item.assignment # None <=> item.state \in Terminal
  /\ item.assignment # None =>
       /\ item.assignment.source = "llm_accept" => item.assignment.event = item.selected
       /\ item.assignment.source = "top_k_override" =>
            item.assignment.event \in item.candidates
       /\ item.assignment.source = "proposal_similarity_match" =>
            item.assignment.event \in item.similarity.matches
       /\ item.assignment.source = "user_confirmed_provisional" =>
            /\ item.state = "provisional_headword_pending_review"
            /\ item.assignment.event = item.similarity.query

\* What an open item waits for is there: a selection that can be accepted, and a
\* proposal with the encoder's evidence for it.
Prepared(item) ==
  /\ item.state = "llm_selected_candidate" => item.selected # None
  /\ item.state = "proposal_similarity_review" =>
       /\ item.proposal # None
       /\ item.similarity # None
       /\ item.similarity.query = item.proposal

Sound(item) == item \in Item /\ Replays(item) /\ Warranted(item) /\ Prepared(item)
=============================================================================
