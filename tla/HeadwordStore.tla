---------------------------- MODULE HeadwordStore ----------------------------
(***************************************************************************)
(* The review items in a JSON file, and the processes of the management    *)
(* command that initialize them, apply one review action to one of them or *)
(* accept all untouched ones.  Each process reads the whole file, checks   *)
(* what it read, and replaces the whole file in one rename; nothing keeps  *)
(* two processes apart, and one may die before the rename.                 *)
(*   tagger/services/event_headword_review.py:198-271, 368-399, 527-551    *)
(*   tagger/management/commands/event_headword_review_action.py            *)
(***************************************************************************)
EXTENDS HeadwordItem, FiniteSets, SequencesExt

CONSTANTS Ids,        \* item ids
          ActionIds,  \* action ids users attach to their actions
          Workers     \* processes that can run at once

VARIABLES file,   \* file[i]: the stored item with the ids of its logged actions
          req     \* what each process holds between two accesses to the file

vars == <<file, req>>

Stored == [item : Item, ids : Seq(ActionIds \cup {"bulk"})]
Idle == [op |-> "idle"]

\* A file that is missing reads as one without items.
Init == /\ file = [i \in Ids |-> None]
        /\ req = [w \in Workers |-> Idle]

Become(w, state) == /\ req' = [req EXCEPT ![w] = state]
                    /\ UNCHANGED file

\* Every mutation ends by writing the payload it read and changed over the file.
Writing(payload) == [op |-> "write", payload |-> payload]

\* initialize: the id must be new, or the overwrite flag given.
Initialize(w, i, item, overwrite) ==
  /\ req[w] = Idle
  /\ file[i] = None \/ overwrite
  /\ Become(w, Writing([file EXCEPT ![i] = [item |-> item, ids |-> <<>>]]))

\* get, then apply_review_action: the caller's revision must be the item's, and its
\* action id new to the item.
ApplyRepeated(w, i, action, id, expected) ==
  /\ req[w] = Idle
  /\ file[i] # None
  /\ file[i].item.revision = expected
  /\ \E item \in Results(file[i].item, action) :
       Become(w, [op |-> "save", id |-> i, expected |-> expected,
                  updated |-> [item |-> item, ids |-> Append(file[i].ids, id)]])

Apply(w, i, action, id, expected) ==
  /\ req[w] = Idle
  /\ file[i] # None
  /\ file[i].item.revision = expected
  /\ id \notin {file[i].ids[k] : k \in DOMAIN file[i].ids}
  /\ \E item \in Results(file[i].item, action) :
       Become(w, [op |-> "save", id |-> i, expected |-> expected,
                  updated |-> [item |-> item, ids |-> Append(file[i].ids, id)]])

\* save reads the file again and compares the revision before it writes.
Save(w) ==
  /\ req[w].op = "save"
  /\ file[req[w].id] # None
  /\ file[req[w].id].item.revision = req[w].expected
  /\ Become(w, Writing([file EXCEPT ![req[w].id] = req[w].updated]))

\* all, then accept_remaining_items over what was read.
AcceptRemaining(w) ==
  LET items == [i \in Ids |-> IF file[i] = None THEN None ELSE file[i].item]
      after == AcceptUntouched(items)
  IN /\ req[w] = Idle
     /\ Become(w, [op |-> "bulk", updated |->
          [i \in Ids |-> IF after[i] = items[i] THEN file[i]
                         ELSE [item |-> after[i], ids |-> Append(file[i].ids, "bulk")]]])

\* replace_all reads the file again, but compares only which items there are.
Present(f) == {i \in Ids : f[i] # None}

ReplaceItems(w) ==
  /\ req[w].op = "bulk"
  /\ Present(file) = Present(req[w].updated)
  /\ Become(w, Writing(req[w].updated))

\* The temporary file is renamed over the file.
Write(w) == /\ req[w].op = "write"
            /\ file' = req[w].payload
            /\ req' = [req EXCEPT ![w] = Idle]

\* A process is refused or dies before the rename: the file is as it was.
Abandon(w) == req[w] # Idle /\ Become(w, Idle)

Next == \E w \in Workers :
          \/ \E i \in Ids, item \in NewItems, overwrite \in BOOLEAN :
               Initialize(w, i, item, overwrite)
          \/ \E i \in Present(file), action \in Actions, id \in ActionIds, expected \in 0..3 :
               Apply(w, i, action, id, expected)
          \/ Save(w) \/ AcceptRemaining(w) \/ ReplaceItems(w) \/ Write(w) \/ Abandon(w)

Spec == Init /\ [][Next]_vars

-----------------------------------------------------------------------------
(* Properties *)

TypeOK == /\ file \in [Ids -> Stored \cup {None}]
          /\ \A w \in Workers : /\ req[w].op \in {"idle", "save", "bulk", "write"}
                                /\ req[w].op = "write" =>
                                     req[w].payload \in [Ids -> Stored \cup {None}]

\* Whatever processes overlap and die, an item of the file has a history that replays
\* to its state (apply_review_action, event_headword_review.py:368-519), one action id
\* per entry, and no action id twice: a retried command is not applied again.
StoredItemsSound ==
  \A i \in Present(file) :
    /\ Sound(file[i].item)
    /\ Len(file[i].ids) = Len(file[i].item.log)
    /\ \A j, k \in DOMAIN file[i].ids : j # k => file[i].ids[j] # file[i].ids[k]

\* One process at a time implements the abstract store of ReviewStore.
Abstract == INSTANCE ReviewStore WITH store <- file
StoreRefined == Abstract!Spec
=============================================================================
