------------------------- MODULE HeadwordStoreProofs -------------------------
(***************************************************************************)
(* Proofs about HeadwordStore: for every set of processes, item ids,       *)
(* action ids, events and headwords what the file holds is sound, and one  *)
(* process at a time implements ReviewStore.                               *)
(***************************************************************************)
EXTENDS HeadwordStore, TLAPS

-----------------------------------------------------------------------------
(* The lemmas on review items stand in LiveHeadwordsProofs, which works on *)
(* the same HeadwordItem; its variables do not occur in them.              *)

Live == INSTANCE LiveHeadwordsProofs
          WITH Cuts <- Ids, MaxBatch <- 0, eventcut <- file, batch <- 0

LEMMA SameConstants ==
  /\ State = Live!State /\ Terminal = Live!Terminal /\ Actions = Live!Actions
  /\ Source = Live!Source /\ Path = Live!Path
BY DEF State, Live!State, Terminal, Live!Terminal, Actions, Live!Actions,
       Source, Live!Source, Path, Live!Path

LEMMA SameItems == Item = Live!Item /\ NewItems = Live!NewItems
<1>1. Item = Live!Item
  BY SameConstants DEF Item, Live!Item, Assignment, Live!Assignment,
                       Similarity, Live!Similarity, Entry, Live!Entry
<1>2. NewItems = Live!NewItems
  BY DEF NewItems, Live!NewItems, NewItem, Live!NewItem
<1>3. QED
  BY <1>1, <1>2

LEMMA SameAccept == ASSUME NEW item PROVE Accept(item) = Live!Accept(item)
BY DEF Accept, Live!Accept, Moved, Live!Moved, Assigned, Live!Assigned

LEMMA SameResults ==
  ASSUME NEW item, NEW action
  PROVE  Results(item, action) = Live!Results(item, action)
<1>1. \A s : Enabled(s) = Live!Enabled(s)
  BY DEF Enabled, Live!Enabled
<1>2. /\ \A i, a, t : Moved(i, a, t) = Live!Moved(i, a, t)
      /\ \A i, a, t : Assigned(i, a, t) = Live!Assigned(i, a, t)
      /\ \A i, a, t : Proposed(i, a, t) = Live!Proposed(i, a, t)
  BY DEF Moved, Live!Moved, Assigned, Live!Assigned, Proposed, Live!Proposed
<1>3. CASE action = "accept"
  BY <1>1, <1>3, SameAccept DEF Results, Live!Results
<1>4. CASE action \in {"edit", "reject"}
  BY <1>1, <1>2, <1>4 DEF Results, Live!Results
<1>5. CASE action = "choose_top_k"
  BY <1>1, <1>2, <1>5 DEF Results, Live!Results
<1>6. CASE action = "submit_proposal"
  BY <1>1, <1>2, <1>6 DEF Results, Live!Results
<1>7. CASE action = "choose_similar_existing"
  BY <1>1, <1>2, <1>7 DEF Results, Live!Results
<1>8. CASE action = "confirm_new_proposal"
  BY <1>1, <1>2, <1>8 DEF Results, Live!Results
<1>9. CASE action \notin Actions
  BY <1>1, <1>9 DEF Results, Live!Results, Enabled, Live!Enabled, Actions
<1>10. QED
  BY <1>3, <1>4, <1>5, <1>6, <1>7, <1>8, <1>9 DEF Actions

LEMMA SameSound == ASSUME NEW item PROVE Sound(item) <=> Live!Sound(item)
<1>1. Replays(item) <=> Live!Replays(item)
  BY SameConstants DEF Replays, Live!Replays, NewItem, Live!NewItem
<1>2. Warranted(item) <=> Live!Warranted(item)
  BY SameConstants DEF Warranted, Live!Warranted
<1>3. Prepared(item) <=> Live!Prepared(item)
  BY SameConstants DEF Prepared, Live!Prepared
<1>4. QED
  BY <1>1, <1>2, <1>3, SameItems DEF Sound, Live!Sound

LEMMA LiveAssumptions ==
  /\ None \notin Events \cup Headwords
  /\ 0 \in Nat
  /\ None \notin Live!Item \cup Live!Assignment \cup Live!Similarity
<1>1. Assignment = Live!Assignment /\ Similarity = Live!Similarity
  BY SameConstants DEF Assignment, Live!Assignment, Similarity, Live!Similarity
<1>2. QED
  BY <1>1, SameItems, HeadwordAssumption, AbsentAssumption

\* A new item, every outcome of apply_review_action and an acceptance in bulk are sound.
LEMMA NewItemsSound == \A item \in NewItems : Sound(item) /\ item.log = <<>>
<1>1. ASSUME NEW item \in NewItems PROVE Sound(item)
  <2>1. Live!Sound(item)
    BY LiveAssumptions, SameItems, Live!NewItemsSound
  <2>2. QED
    BY <2>1, SameSound
<1>2. ASSUME NEW item \in NewItems PROVE item.log = <<>>
  BY DEF NewItems, NewItem
<1>3. QED
  BY <1>1, <1>2

LEMMA ResultsSound ==
  ASSUME NEW item, Sound(item), NEW action \in Actions, NEW result \in Results(item, action)
  PROVE  Sound(result)
<1>1. Live!Sound(item) /\ action \in Live!Actions /\ result \in Live!Results(item, action)
  BY SameSound, SameConstants, SameResults
<1>2. Live!Sound(result)
  BY <1>1, LiveAssumptions, Live!ResultsSound
<1>3. QED
  BY <1>2, SameSound

LEMMA AcceptSound ==
  ASSUME NEW item, Sound(item), item.state = "llm_selected_candidate"
  PROVE  Sound(Accept(item))
<1>1. Live!Sound(item)
  BY SameSound
<1>2. Live!Sound(Live!Accept(item))
  BY <1>1, LiveAssumptions, Live!AcceptSound
<1>3. QED
  BY <1>2, SameSound, SameAccept

\* Every outcome has one more entry in its audit log.
LEMMA ResultsLogged ==
  ASSUME NEW item \in Item, NEW action \in Actions, NEW result \in Results(item, action)
  PROVE  Len(result.log) = Len(item.log) + 1
<1>1. \A to : /\ Len(Moved(item, action, to).log) = Len(item.log) + 1
              /\ \A event, source :
                   Len(Moved(Assigned(item, event, source), action, to).log) = Len(item.log) + 1
              /\ \A headword, matches :
                   Len(Moved(Proposed(item, headword, matches), action, to).log)
                     = Len(item.log) + 1
  <2>1. item.log \in Seq(Entry) /\ item \in [{"candidates", "selected", "state", "revision",
          "proposal", "similarity", "assignment", "log"} -> {item[f] : f \in DOMAIN item}]
    BY DEF Item
  <2>2. QED
    BY <2>1 DEF Moved, Assigned, Proposed
<1>2. \/ \E to : result = Moved(item, action, to)
      \/ \E to, event, source : result = Moved(Assigned(item, event, source), action, to)
      \/ \E to, headword, matches :
           result = Moved(Proposed(item, headword, matches), action, to)
  <2>1. CASE action = "accept"
    BY <2>1 DEF Results, Accept
  <2>2. CASE action \in {"edit", "reject"}
    BY <2>2 DEF Results
  <2>3. CASE action = "choose_top_k"
    BY <2>3 DEF Results
  <2>4. CASE action = "submit_proposal"
    BY <2>4 DEF Results
  <2>5. CASE action = "choose_similar_existing"
    BY <2>5 DEF Results
  <2>6. CASE action = "confirm_new_proposal"
    BY <2>6 DEF Results
  <2>7. QED
    BY <2>1, <2>2, <2>3, <2>4, <2>5, <2>6 DEF Actions
<1>3. QED
  BY <1>1, <1>2

\* An item still shows the model's selection exactly when nobody has worked on it.
LEMMA SelectedIsUntouched ==
  ASSUME NEW item, Sound(item)
  PROVE  item.state = "llm_selected_candidate" <=> item.log = <<>> /\ item.selected # None
<1>1. item.log \in Seq(Entry) /\ Replays(item)
  BY DEF Sound, Item
<1>2. CASE item.log = <<>>
  BY <1>1, <1>2 DEF Replays, NewItem
<1>3. CASE item.log # <<>>
  <2>1. Len(item.log) \in 1..Len(item.log)
    BY <1>1, <1>3
  <2>2. item.state = item.log[Len(item.log)].to
    BY <1>1, <1>3 DEF Replays
  <2>3. \E from, action : <<from, action, item.state>> \in Path
    BY <1>1, <2>1, <2>2 DEF Replays
  <2>4. QED
    BY <1>3, <2>3 DEF Path
<1>4. QED
  BY <1>2, <1>3

\* An acceptance changes an item that waits for it.
LEMMA AcceptMoves ==
  ASSUME NEW item \in Item
  PROVE  /\ Accept(item).state = "accepted_existing_headword"
         /\ Len(Accept(item).log) = Len(item.log) + 1
<1>1. item.log \in Seq(Entry)
  BY DEF Item
<1>2. QED
  BY <1>1 DEF Accept, Moved, Assigned, Item

-----------------------------------------------------------------------------
(* What the file holds, and what the processes are about to write *)

\* A stored entry is an item with a history that replays, one action id per step.
Whole(entry) ==
  /\ entry \in Stored
  /\ Sound(entry.item)
  /\ Len(entry.ids) = Len(entry.item.log)
  /\ \A j, k \in DOMAIN entry.ids : j # k => entry.ids[j] # entry.ids[k]

WholeFile(f) == /\ f \in [Ids -> Stored \cup {None}]
                /\ \A i \in Present(f) : Whole(f[i])

Holds(state) ==
  /\ state.op \in {"idle", "save", "bulk", "write"}
  /\ state.op = "save" => state.id \in Ids /\ Whole(state.updated)
  /\ state.op = "bulk" => WholeFile(state.updated)
  /\ state.op = "write" => WholeFile(state.payload)

Inductive == /\ WholeFile(file)
             /\ req = [w \in Workers |-> req[w]]
             /\ \A w \in Workers : Holds(req[w])

LEMMA InitInductive == Init => Inductive
<1>1. SUFFICES ASSUME Init PROVE Inductive
  OBVIOUS
<1>2. WholeFile(file)
  BY <1>1 DEF Init, WholeFile, Present
<1>3. QED
  BY <1>1, <1>2 DEF Init, Inductive, Holds, Idle

\* Writing one whole entry into a whole file leaves it whole.
LEMMA EntryWritten ==
  ASSUME NEW f, WholeFile(f), NEW i \in Ids, NEW entry, Whole(entry)
  PROVE  WholeFile([f EXCEPT ![i] = entry])
<1>1. [f EXCEPT ![i] = entry] \in [Ids -> Stored \cup {None}]
  BY DEF WholeFile, Whole
<1>2. QED
  BY <1>1 DEF WholeFile, Present

\* Appending a new id keeps the ids of an entry apart.
LEMMA IdAppended ==
  ASSUME NEW S, NEW ids \in Seq(S), NEW id \in S,
         \A j, k \in DOMAIN ids : j # k => ids[j] # ids[k],
         \A k \in DOMAIN ids : ids[k] # id
  PROVE  /\ Append(ids, id) \in Seq(S)
         /\ Len(Append(ids, id)) = Len(ids) + 1
         /\ \A j, k \in DOMAIN Append(ids, id) :
              j # k => Append(ids, id)[j] # Append(ids, id)[k]
<1>1. /\ Append(ids, id) \in Seq(S) /\ Len(Append(ids, id)) = Len(ids) + 1
      /\ Len(ids) \in Nat
      /\ DOMAIN ids = 1..Len(ids) /\ DOMAIN Append(ids, id) = 1..(Len(ids) + 1)
      /\ \A k \in 1..Len(ids) : Append(ids, id)[k] = ids[k]
      /\ Append(ids, id)[Len(ids) + 1] = id
  OBVIOUS
<1>. DEFINE longer == Append(ids, id)
<1>. HIDE DEF longer
<1>2. ASSUME NEW j \in 1..(Len(ids) + 1), NEW k \in 1..(Len(ids) + 1), j # k
      PROVE  longer[j] # longer[k]
  <2>1. CASE j \in 1..Len(ids) /\ k \in 1..Len(ids)
    BY <1>1, <1>2, <2>1 DEF longer
  <2>2. CASE j = Len(ids) + 1 /\ k \in 1..Len(ids)
    BY <1>1, <2>2 DEF longer
  <2>3. CASE k = Len(ids) + 1 /\ j \in 1..Len(ids)
    BY <1>1, <2>3 DEF longer
  <2>4. QED
    BY <1>1, <1>2, <2>1, <2>2, <2>3
<1>3. QED
  BY <1>1, <1>2 DEF longer

\* One step of a process on a state where nothing else moved.
LEMMA Becomes ==
  ASSUME Inductive, NEW w \in Workers, NEW state, Holds(state), Become(w, state)
  PROVE  Inductive'
<1>1. file' = file /\ req' = [req EXCEPT ![w] = state]
  BY DEF Become
<1>2. WholeFile(file)'
  BY <1>1 DEF Inductive, WholeFile, Present
<1>3. \A v \in Workers : req'[v] = IF v = w THEN state ELSE req[v]
  BY <1>1 DEF Inductive
<1>4. QED
  BY <1>1, <1>2, <1>3 DEF Inductive

LEMMA InitializeHolds ==
  ASSUME Inductive, NEW i \in Ids, NEW item \in NewItems
  PROVE  Holds(Writing([file EXCEPT ![i] = [item |-> item, ids |-> <<>>]]))
<1>1. Whole([item |-> item, ids |-> <<>>])
  BY NewItemsSound DEF Whole, Stored, Sound
<1>2. QED
  BY <1>1, EntryWritten DEF Inductive, Holds, Writing

LEMMA ApplyHolds ==
  ASSUME Inductive, NEW i \in Present(file), NEW action \in Actions, NEW id \in ActionIds,
         id \notin {file[i].ids[k] : k \in DOMAIN file[i].ids},
         NEW item \in Results(file[i].item, action)
  PROVE  Whole([item |-> item, ids |-> Append(file[i].ids, id)])
<1>1. Whole(file[i]) /\ i \in Ids
  BY DEF Inductive, WholeFile, Present
<1>2. file[i].ids \in Seq(ActionIds \cup {"bulk"}) /\ file[i].item \in Item
  BY <1>1 DEF Whole, Stored
<1>3. Sound(item) /\ Len(item.log) = Len(file[i].item.log) + 1
  BY <1>1, <1>2, ResultsSound, ResultsLogged DEF Whole
<1>4. /\ Append(file[i].ids, id) \in Seq(ActionIds \cup {"bulk"})
      /\ Len(Append(file[i].ids, id)) = Len(file[i].ids) + 1
      /\ \A j, k \in DOMAIN Append(file[i].ids, id) :
           j # k => Append(file[i].ids, id)[j] # Append(file[i].ids, id)[k]
  BY <1>1, <1>2, IdAppended DEF Whole
<1>5. item \in Item
  BY <1>3 DEF Sound
<1>6. QED
  BY <1>1, <1>3, <1>4, <1>5 DEF Whole, Stored

\* What accept_remaining makes of the items it read, entry by entry.
Accepted ==
  LET items == [i \in Ids |-> IF file[i] = None THEN None ELSE file[i].item]
      after == AcceptUntouched(items)
  IN [i \in Ids |-> IF after[i] = items[i] THEN file[i]
                    ELSE [item |-> after[i], ids |-> Append(file[i].ids, "bulk")]]

Waiting(i) == file[i] # None /\ file[i].ids = <<>> /\ file[i].item.selected # None

LEMMA AcceptedEntries ==
  ASSUME Inductive
  PROVE  Accepted = [i \in Ids |-> IF Waiting(i)
                                   THEN [item |-> Accept(file[i].item), ids |-> <<"bulk">>]
                                   ELSE file[i]]
<1>. DEFINE items == [i \in Ids |-> IF file[i] = None THEN None ELSE file[i].item]
            after == AcceptUntouched(items)
<1>1. \A i \in Ids : after[i] = IF items[i] # None /\ items[i].state = "llm_selected_candidate"
                                THEN Accept(items[i]) ELSE items[i]
  BY DEF AcceptUntouched
<1>. HIDE DEF after
<1>2. ASSUME NEW i \in Ids
      PROVE  (IF after[i] = items[i] THEN file[i]
              ELSE [item |-> after[i], ids |-> Append(file[i].ids, "bulk")])
             = IF Waiting(i) THEN [item |-> Accept(file[i].item), ids |-> <<"bulk">>]
               ELSE file[i]
  <2>1. CASE file[i] = None
    BY <2>1, <1>1 DEF Waiting
  <2>2. CASE file[i] # None
    <3>1. Whole(file[i])
      BY <2>2 DEF Inductive, WholeFile, Present
    <3>2. /\ file[i].item \in Item /\ file[i].item # None /\ items[i] = file[i].item
          /\ file[i].ids \in Seq(ActionIds \cup {"bulk"})
          /\ file[i].item.log \in Seq(Entry)
      BY <2>2, <3>1, AbsentAssumption DEF Whole, Stored, Item
    <3>3. file[i].ids = <<>> <=> file[i].item.log = <<>>
      BY <3>1, <3>2 DEF Whole
    <3>4. Waiting(i) <=> file[i].item.state = "llm_selected_candidate"
      BY <2>2, <3>1, <3>3, SelectedIsUntouched DEF Whole, Waiting
    <3>5. CASE Waiting(i)
      <4>1. after[i] = Accept(file[i].item)
        BY <1>1, <3>2, <3>4, <3>5
      <4>2. Accept(file[i].item) # file[i].item
        BY <3>2, <3>4, <3>5, AcceptMoves
      <4>3. Append(file[i].ids, "bulk") = <<"bulk">>
        BY <3>5 DEF Waiting
      <4>4. QED
        BY <4>1, <4>2, <4>3, <3>2, <3>5
    <3>6. CASE ~Waiting(i)
      BY <1>1, <3>2, <3>4, <3>6
    <3>7. QED
      BY <3>5, <3>6
  <2>3. QED
    BY <2>1, <2>2
<1>3. QED
  BY <1>2 DEF Accepted, after

LEMMA AcceptedWhole == Inductive => WholeFile(Accepted)
<1>1. SUFFICES ASSUME Inductive PROVE WholeFile(Accepted)
  OBVIOUS
<1>2. ASSUME NEW i \in Ids, Waiting(i)
      PROVE  Whole([item |-> Accept(file[i].item), ids |-> <<"bulk">>])
  <2>1. Whole(file[i]) /\ file[i].item \in Item /\ file[i].item.log \in Seq(Entry)
    BY <1>1, <1>2 DEF Inductive, WholeFile, Present, Waiting, Whole, Stored, Item
  <2>2. file[i].item.log = <<>> /\ file[i].item.selected # None
    BY <1>2, <2>1 DEF Waiting, Whole
  <2>3. Sound(Accept(file[i].item))
    BY <2>1, <2>2, SelectedIsUntouched, AcceptSound DEF Whole
  <2>4. Len(Accept(file[i].item).log) = 1
    <3>1. Len(Accept(file[i].item).log) = Len(file[i].item.log) + 1
      BY <2>1, AcceptMoves
    <3>2. QED
      BY <2>2, <3>1
  <2>5. QED
    BY <2>3, <2>4 DEF Whole, Stored, Sound
<1>. DEFINE accepted == Accepted
<1>3. \A i \in Ids : accepted[i] = IF Waiting(i)
                                   THEN [item |-> Accept(file[i].item), ids |-> <<"bulk">>]
                                   ELSE file[i]
  BY <1>1, AcceptedEntries
<1>4. accepted = [i \in Ids |-> accepted[i]]
  BY DEF Accepted
<1>. HIDE DEF accepted
<1>5. ASSUME NEW i \in Ids
      PROVE  /\ accepted[i] \in Stored \cup {None}
             /\ accepted[i] # None => Whole(accepted[i])
  <2>1. CASE Waiting(i)
    <3>1. accepted[i] = [item |-> Accept(file[i].item), ids |-> <<"bulk">>]
      BY <1>3, <2>1
    <3>2. Whole(accepted[i])
      BY <1>2, <2>1, <3>1
    <3>3. QED
      BY <3>2 DEF Whole
  <2>2. CASE ~Waiting(i)
    BY <1>1, <1>3, <2>2 DEF Inductive, WholeFile, Present
  <2>3. QED
    BY <2>1, <2>2
<1>6. WholeFile(accepted)
  BY <1>4, <1>5 DEF WholeFile, Present
<1>7. QED
  BY <1>6 DEF accepted

LEMMA StepInductive == Inductive /\ [Next]_vars => Inductive'
<1>. SUFFICES ASSUME Inductive, [Next]_vars PROVE Inductive'
  OBVIOUS
<1>1. ASSUME NEW w \in Workers, NEW i \in Ids, NEW item \in NewItems, NEW overwrite \in BOOLEAN,
             Initialize(w, i, item, overwrite)
      PROVE  Inductive'
  BY <1>1, InitializeHolds, Becomes DEF Initialize
<1>2. ASSUME NEW w \in Workers, NEW i \in Present(file), NEW action \in Actions,
             NEW id \in ActionIds, NEW expected \in 0..3, Apply(w, i, action, id, expected)
      PROVE  Inductive'
  <2>1. PICK item \in Results(file[i].item, action) :
          Become(w, [op |-> "save", id |-> i, expected |-> expected,
                     updated |-> [item |-> item, ids |-> Append(file[i].ids, id)]])
    BY <1>2 DEF Apply
  <2>2. Whole([item |-> item, ids |-> Append(file[i].ids, id)])
    BY <1>2, ApplyHolds DEF Apply
  <2>3. QED
    BY <2>1, <2>2, Becomes DEF Holds, Present
<1>3. ASSUME NEW w \in Workers, Save(w) PROVE Inductive'
  <2>1. req[w].id \in Ids /\ Whole(req[w].updated)
    BY <1>3 DEF Inductive, Holds, Save
  <2>2. Holds(Writing([file EXCEPT ![req[w].id] = req[w].updated]))
    BY <2>1, EntryWritten DEF Inductive, Holds, Writing
  <2>3. QED
    BY <1>3, <2>2, Becomes DEF Save
<1>4. ASSUME NEW w \in Workers, AcceptRemaining(w) PROVE Inductive'
  <2>1. Become(w, [op |-> "bulk", updated |-> Accepted])
    BY <1>4 DEF AcceptRemaining, Accepted
  <2>2. QED
    BY <2>1, AcceptedWhole, Becomes DEF Holds
<1>5. ASSUME NEW w \in Workers, ReplaceItems(w) PROVE Inductive'
  <2>1. Holds(Writing(req[w].updated))
    BY <1>5 DEF Inductive, Holds, ReplaceItems, Writing
  <2>2. QED
    BY <1>5, <2>1, Becomes DEF ReplaceItems
<1>6. ASSUME NEW w \in Workers, Write(w) PROVE Inductive'
  <2>1. WholeFile(req[w].payload) /\ file' = req[w].payload
        /\ req' = [req EXCEPT ![w] = Idle]
    BY <1>6 DEF Inductive, Holds, Write
  <2>2. WholeFile(file)'
    BY <2>1 DEF WholeFile, Present
  <2>3. \A v \in Workers : req'[v] = IF v = w THEN Idle ELSE req[v]
    BY <2>1 DEF Inductive
  <2>4. Holds(Idle)
    BY DEF Holds, Idle
  <2>5. QED
    BY <2>1, <2>2, <2>3, <2>4 DEF Inductive
<1>7. ASSUME NEW w \in Workers, Abandon(w) PROVE Inductive'
  <2>1. Holds(Idle)
    BY DEF Holds, Idle
  <2>2. QED
    BY <1>7, <2>1, Becomes DEF Abandon
<1>8. CASE UNCHANGED vars
  BY <1>8 DEF vars, Inductive, WholeFile, Present
<1>9. QED
  BY <1>1, <1>2, <1>3, <1>4, <1>5, <1>6, <1>7, <1>8 DEF Next

-----------------------------------------------------------------------------
(* One process at a time implements ReviewStore *)

OneAtATime == \A v, w \in Workers : v = w

LEMMA AbstractResults ==
  ASSUME NEW item, NEW action
  PROVE  Results(item, action) = Abstract!Results(item, action)
<1>1. \A s : Enabled(s) = Abstract!Enabled(s)
  BY DEF Enabled, Abstract!Enabled
<1>2. /\ \A i, a, t : Moved(i, a, t) = Abstract!Moved(i, a, t)
      /\ \A i, a, t : Assigned(i, a, t) = Abstract!Assigned(i, a, t)
      /\ \A i, a, t : Proposed(i, a, t) = Abstract!Proposed(i, a, t)
  BY DEF Moved, Abstract!Moved, Assigned, Abstract!Assigned, Proposed, Abstract!Proposed
<1>3. Accept(item) = Abstract!Accept(item)
  BY <1>2 DEF Accept, Abstract!Accept
<1>4. CASE action = "accept"
  BY <1>1, <1>3, <1>4 DEF Results, Abstract!Results
<1>5. CASE action \in {"edit", "reject"}
  BY <1>1, <1>2, <1>5 DEF Results, Abstract!Results
<1>6. CASE action = "choose_top_k"
  BY <1>1, <1>2, <1>6 DEF Results, Abstract!Results
<1>7. CASE action = "submit_proposal"
  BY <1>1, <1>2, <1>7 DEF Results, Abstract!Results
<1>8. CASE action = "choose_similar_existing"
  BY <1>1, <1>2, <1>8 DEF Results, Abstract!Results
<1>9. CASE action = "confirm_new_proposal"
  BY <1>1, <1>2, <1>9 DEF Results, Abstract!Results
<1>10. CASE action \notin Actions
  BY <1>1, <1>10 DEF Results, Abstract!Results, Enabled, Abstract!Enabled, Actions
<1>11. QED
  BY <1>4, <1>5, <1>6, <1>7, <1>8, <1>9, <1>10 DEF Actions

\* What an action of one historian may make of the entry of one item.
MayAct(f, i, entry) ==
  /\ i \in Ids
  /\ f[i] # None
  /\ \E action \in Actions, id \in ActionIds :
       /\ \A k \in DOMAIN f[i].ids : f[i].ids[k] # id
       /\ \E item \in Results(f[i].item, action) :
            entry = [item |-> item, ids |-> Append(f[i].ids, id)]

\* What a process holds is one step of the abstract store ahead of the file, which no
\* other process has written since it was read.
OneStep(payload) ==
  \/ \E i \in Ids, item \in NewItems :
       payload = [file EXCEPT ![i] = [item |-> item, ids |-> <<>>]]
  \/ \E i \in Ids, entry \in Stored :
       MayAct(file, i, entry) /\ payload = [file EXCEPT ![i] = entry]
  \/ payload = Accepted

Ahead(state) ==
  /\ state.op = "save" => MayAct(file, state.id, state.updated)
  /\ state.op = "bulk" => state.updated = Accepted
  /\ state.op = "write" => OneStep(state.payload)

AllAhead == \A w \in Workers : Ahead(req[w])

\* What is one step ahead of the file stays so while the file stands.
LEMMA StillAhead ==
  ASSUME file' = file, NEW state, Ahead(state), NEW v \in Workers, req'[v] = state
  PROVE  Ahead(req[v])'
<1>1. Accepted' = Accepted
  BY DEF Accepted
<1>2. ASSUME OneStep(state.payload) PROVE OneStep(req[v].payload)'
  <2>1. CASE \E i \in Ids, item \in NewItems :
               state.payload = [file EXCEPT ![i] = [item |-> item, ids |-> <<>>]]
    BY <2>1 DEF OneStep
  <2>2. CASE \E i \in Ids, entry \in Stored :
               MayAct(file, i, entry) /\ state.payload = [file EXCEPT ![i] = entry]
    <3>1. PICK i \in Ids, entry \in Stored :
            MayAct(file, i, entry) /\ state.payload = [file EXCEPT ![i] = entry]
      BY <2>2
    <3>2. Stored' = Stored /\ req'[v].payload = [file' EXCEPT ![i] = entry]
      BY <3>1
    <3>3. MayAct(file', i, entry)
      BY <3>1
    <3>4. QED
      BY <3>2, <3>3 DEF OneStep
  <2>3. CASE state.payload = Accepted
    BY <2>3, <1>1 DEF OneStep
  <2>4. QED
    BY <1>2, <2>1, <2>2, <2>3 DEF OneStep
<1>3. ASSUME MayAct(file, state.id, state.updated)
      PROVE  MayAct(file, req[v].id, req[v].updated)'
  BY <1>3 DEF MayAct
<1>4. QED
  BY <1>1, <1>2, <1>3 DEF Ahead

LEMMA BecomesAhead ==
  ASSUME OneAtATime, Inductive, NEW w \in Workers, NEW state, Ahead(state), Become(w, state)
  PROVE  AllAhead'
<1>1. file' = file /\ \A v \in Workers : req'[v] = state
  BY DEF Become, Inductive, OneAtATime
<1>2. \A v \in Workers : Ahead(req[v])'
  BY <1>1, StillAhead
<1>3. QED
  BY <1>2 DEF AllAhead

LEMMA StepAhead ==
  ASSUME OneAtATime, Inductive, AllAhead, [Next]_vars
  PROVE  AllAhead'
<1>1. ASSUME NEW w \in Workers, NEW i \in Ids, NEW item \in NewItems, NEW overwrite \in BOOLEAN,
             Initialize(w, i, item, overwrite)
      PROVE  AllAhead'
  <2>1. Ahead(Writing([file EXCEPT ![i] = [item |-> item, ids |-> <<>>]]))
    BY DEF Ahead, Writing, OneStep
  <2>2. QED
    BY <1>1, <2>1, BecomesAhead DEF Initialize
<1>2. ASSUME NEW w \in Workers, NEW i \in Present(file), NEW action \in Actions,
             NEW id \in ActionIds, NEW expected \in 0..3, Apply(w, i, action, id, expected)
      PROVE  AllAhead'
  <2>1. PICK item \in Results(file[i].item, action) :
          Become(w, [op |-> "save", id |-> i, expected |-> expected,
                     updated |-> [item |-> item, ids |-> Append(file[i].ids, id)]])
    BY <1>2 DEF Apply
  <2>2. MayAct(file, i, [item |-> item, ids |-> Append(file[i].ids, id)])
    BY <1>2 DEF Apply, MayAct, Present
  <2>3. QED
    BY <2>1, <2>2, BecomesAhead DEF Ahead
<1>3. ASSUME NEW w \in Workers, Save(w) PROVE AllAhead'
  <2>1. /\ MayAct(file, req[w].id, req[w].updated) /\ req[w].id \in Ids
        /\ req[w].updated \in Stored
    BY <1>3 DEF AllAhead, Ahead, Save, Inductive, Holds, Whole
  <2>2. Ahead(Writing([file EXCEPT ![req[w].id] = req[w].updated]))
    BY <2>1 DEF Ahead, Writing, OneStep
  <2>3. QED
    BY <1>3, <2>2, BecomesAhead DEF Save
<1>4. ASSUME NEW w \in Workers, AcceptRemaining(w) PROVE AllAhead'
  <2>1. Become(w, [op |-> "bulk", updated |-> Accepted])
    BY <1>4 DEF AcceptRemaining, Accepted
  <2>2. QED
    BY <2>1, BecomesAhead DEF Ahead
<1>5. ASSUME NEW w \in Workers, ReplaceItems(w) PROVE AllAhead'
  <2>1. Ahead(Writing(req[w].updated))
    BY <1>5 DEF AllAhead, Ahead, ReplaceItems, Writing, OneStep
  <2>2. QED
    BY <1>5, <2>1, BecomesAhead DEF ReplaceItems
<1>6. ASSUME NEW w \in Workers, Write(w) PROVE AllAhead'
  <2>1. \A v \in Workers : req'[v] = Idle
    BY <1>6 DEF Write, Inductive, OneAtATime
  <2>2. QED
    BY <2>1 DEF AllAhead, Ahead, Idle
<1>7. ASSUME NEW w \in Workers, Abandon(w) PROVE AllAhead'
  <2>1. Ahead(Idle)
    BY DEF Ahead, Idle
  <2>2. QED
    BY <1>7, <2>1, BecomesAhead DEF Abandon
<1>8. CASE UNCHANGED vars
  <2>1. file' = file /\ req' = req
    BY <1>8 DEF vars
  <2>2. \A w \in Workers : Ahead(req[w])'
    BY <2>1, StillAhead DEF AllAhead
  <2>3. QED
    BY <2>2 DEF AllAhead
<1>9. QED
  BY <1>1, <1>2, <1>3, <1>4, <1>5, <1>6, <1>7, <1>8 DEF Next

\* Only the rename moves the file, and it moves it one abstract step.
LEMMA WriteRefines ==
  ASSUME Inductive, NEW payload, OneStep(payload), payload # file, file' = payload
  PROVE  Abstract!Next
<1>1. CASE \E i \in Ids, item \in NewItems :
             payload = [file EXCEPT ![i] = [item |-> item, ids |-> <<>>]]
  <2>1. NewItems = Abstract!NewItems
    BY DEF NewItems, Abstract!NewItems, NewItem, Abstract!NewItem
  <2>2. QED
    BY <1>1, <2>1 DEF Abstract!Next, Abstract!Create
<1>2. CASE \E i \in Ids, entry \in Stored :
             MayAct(file, i, entry) /\ payload = [file EXCEPT ![i] = entry]
  <2>1. PICK i \in Ids, entry \in Stored :
          MayAct(file, i, entry) /\ payload = [file EXCEPT ![i] = entry]
    BY <1>2
  <2>2. PICK action \in Actions, id \in ActionIds :
          /\ file[i] # None
          /\ \A k \in DOMAIN file[i].ids : file[i].ids[k] # id
          /\ \E item \in Results(file[i].item, action) :
               entry = [item |-> item, ids |-> Append(file[i].ids, id)]
    BY <2>1 DEF MayAct
  <2>3. file' = [file EXCEPT ![i] = entry] /\ i \in DOMAIN file
    BY <2>1 DEF Inductive, WholeFile
  <2>4. action \in Abstract!Actions
    BY DEF Actions, Abstract!Actions
  <2>5. Abstract!Act(i, action, id)
    BY <2>2, <2>3, AbstractResults DEF Abstract!Act
  <2>6. QED
    BY <2>4, <2>5 DEF Abstract!Next
<1>3. CASE payload = Accepted
  <2>1. \A item : Accept(item) = Abstract!Accept(item)
    BY DEF Accept, Abstract!Accept, Moved, Abstract!Moved, Assigned, Abstract!Assigned
  <2>2. Abstract!AcceptAll
    BY <1>3, <2>1, AcceptedEntries DEF Abstract!AcceptAll, Abstract!Untouched, Waiting
  <2>3. QED
    BY <2>2 DEF Abstract!Next
<1>4. QED
  BY <1>1, <1>2, <1>3 DEF OneStep

LEMMA StepRefines ==
  ASSUME Inductive, AllAhead, [Next]_vars
  PROVE  [Abstract!Next]_file
<1>1. ASSUME NEW w \in Workers, Write(w) PROVE [Abstract!Next]_file
  <2>1. OneStep(req[w].payload) /\ file' = req[w].payload
    BY <1>1 DEF AllAhead, Ahead, Write
  <2>2. QED
    BY <2>1, WriteRefines
<1>2. CASE UNCHANGED file
  BY <1>2
<1>3. QED
  BY <1>1, <1>2 DEF Next, vars, Become, Initialize, Apply, Save, AcceptRemaining,
                    ReplaceItems, Abandon

-----------------------------------------------------------------------------
(* Theorems *)

\* However many processes overlap, and wherever one dies: each item of the file has a
\* history that replays to its state, and no action of a historian is in it twice.
THEOREM StoreAlwaysSound == Spec => []StoredItemsSound
<1>1. Inductive => StoredItemsSound
  BY DEF Inductive, WholeFile, Whole, StoredItemsSound
<1>2. QED
  BY <1>1, InitInductive, StepInductive, PTL DEF Spec

\* One process at a time: what the file goes through is a behaviour of ReviewStore, in
\* which an item is created, moves by one review action taken on it as it is, or is
\* accepted in bulk when nobody has touched it.
THEOREM StoreAlwaysRefines == ASSUME OneAtATime PROVE Spec => StoreRefined
<1>1. Init => Inductive /\ AllAhead /\ Abstract!Init
  <2>1. Init => AllAhead
    BY DEF Init, AllAhead, Ahead, Idle
  <2>2. QED
    BY <2>1, InitInductive DEF Init, Abstract!Init
<1>2. (Inductive /\ AllAhead) /\ [Next]_vars => (Inductive /\ AllAhead)'
  BY StepInductive, StepAhead
<1>3. (Inductive /\ AllAhead) /\ [Next]_vars => [Abstract!Next]_file
  BY StepRefines
<1>4. QED
  BY <1>1, <1>2, <1>3, PTL DEF Spec, StoreRefined, Abstract!Spec
=============================================================================
