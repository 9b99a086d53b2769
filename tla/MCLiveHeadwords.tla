--------------------------- MODULE MCLiveHeadwords ---------------------------
(* LiveHeadwords on a few event cuts, requests and vocabulary entries. *)
EXTENDS LiveHeadwords, TLC

\* Event cuts, requests, events and proposed headwords are interchangeable.
Symmetry == Permutations(Cuts) \cup Permutations(Workers) \cup
            Permutations(Events) \cup Permutations(Headwords)
=============================================================================
