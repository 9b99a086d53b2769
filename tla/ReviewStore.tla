----------------------------- MODULE ReviewStore -----------------------------
(***************************************************************************)
(* What a store of review items promises: an item is created, and then     *)
(* changes by one review action at a time, each taken on the item as it    *)
(* is, or by a bulk acceptance, which accepts selections nobody has        *)
(* touched and leaves every other item alone.                              *)
(*   tagger/services/event_headword_review.py                              *)
(***************************************************************************)
EXTENDS HeadwordItem

CONSTANTS Ids, ActionIds

VARIABLE store

Init == store = [i \in Ids |-> None]

\* Initialize an item, for the first time or again.
Create(i, item) == store' = [store EXCEPT ![i] = [item |-> item, ids |-> <<>>]]

\* One action of one historian.
Act(i, action, id) ==
  /\ store[i] # None
  /\ \A k \in DOMAIN store[i].ids : store[i].ids[k] # id
  /\ \E item \in Results(store[i].item, action) :
       store' = [store EXCEPT ![i] = [item |-> item, ids |-> Append(@.ids, id)]]

\* Accept what the model selected and nobody has looked at.
Untouched(i) == store[i] # None /\ store[i].ids = <<>> /\ store[i].item.selected # None

AcceptAll ==
  store' = [i \in Ids |-> IF Untouched(i)
                          THEN [item |-> Accept(store[i].item), ids |-> <<"bulk">>]
                          ELSE store[i]]

\* (What changes nothing is a stutter.)
Next == /\ store' # store
        /\ \/ \E i \in Ids : \/ \E item \in NewItems : Create(i, item)
                             \/ \E action \in Actions, id \in ActionIds : Act(i, action, id)
           \/ AcceptAll

Spec == Init /\ [][Next]_store
=============================================================================
