---------------------------- MODULE RequestLedger ----------------------------
(***************************************************************************)
(* What the controlled generation of a stage promises about a request id,  *)
(* whatever crashes, retries and duplicate submissions do: the id is used  *)
(* for one attempt, the model is called at most once for it, and once its  *)
(* outcome is recorded it is never called again.                           *)
(*   emtl_django/tagger/services/entity_generation.py:82-311               *)
(*   emtl_django/tagger/services/entity_persistence.py:42-201              *)
(***************************************************************************)
EXTENDS Naturals

CONSTANT Requests

VARIABLES ledger,   \* ledger[q]: how far request q has come
          sent      \* sent[q]: how many generate calls the provider got for q

Init == /\ ledger = [q \in Requests |-> "unused"]
        /\ sent = [q \in Requests |-> 0]

\* The request id is claimed in the database before anything is sent.
Reserve(q) == /\ ledger[q] = "unused"
              /\ ledger' = [ledger EXCEPT ![q] = "reserved"]
              /\ UNCHANGED sent

\* The one generate call, under a reservation.
Call(q) == /\ ledger[q] = "reserved"
           /\ sent[q] = 0
           /\ sent' = [sent EXCEPT ![q] = 1]
           /\ UNCHANGED ledger

\* The outcome is written down; an attempt of the legacy workbench is written
\* down without a reservation.
Record(q) == /\ ledger[q] # "recorded"
             /\ ledger' = [ledger EXCEPT ![q] = "recorded"]
             /\ UNCHANGED sent

Next == \E q \in Requests : Reserve(q) \/ Call(q) \/ Record(q)

Spec == Init /\ [][Next]_<<ledger, sent>>
=============================================================================
