-------------------------- MODULE MCEntityRegistry --------------------------
(* EntityRegistry on small sets of requests, handlers and proposals. *)
EXTENDS EntityRegistry, TLC

\* Requests and handlers are interchangeable.
Symmetry == Permutations(Requests) \cup Permutations(Workers)
=============================================================================
