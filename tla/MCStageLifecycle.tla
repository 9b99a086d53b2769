--------------------------- MODULE MCStageLifecycle ---------------------------
(* StageLifecycle with one or two requests. *)
EXTENDS StageLifecycle, TLC

\* Requests are interchangeable.
Symmetry == Permutations(Workers)
=============================================================================
