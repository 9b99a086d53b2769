--------------------------- MODULE DependencyClosure ---------------------------
(***************************************************************************)
(* The loop of dependency_closure (tagger/stage_config.py:152): stages are *)
(* popped from a worklist in whatever order the set was listed, and what   *)
(* they require is added to the result and to the worklist once.  A        *)
(* selection with a stage the workflow does not know is refused.           *)
(***************************************************************************)
EXTENDS FiniteSets

CONSTANTS Names,     \* stage names a caller may ask for
          Stages,    \* those of STAGE_PROFILES
          Requires

ASSUME StagesAssumption == Stages \subseteq Names /\ IsFiniteSet(Names)
ASSUME RequiresAssumption == Requires \in [Stages -> SUBSET Stages]

VARIABLES selected, expanded, pending, result
vars == <<selected, expanded, pending, result>>

Results == {"none", "returned", "unknown_stage"}

Init == /\ selected \in SUBSET Names
        /\ expanded = selected /\ pending = selected
        /\ result = "none"

Go == result = "none" /\ selected \subseteq Stages

Refuse == /\ result = "none"
          /\ ~(selected \subseteq Stages)
          /\ result' = "unknown_stage"
          /\ UNCHANGED <<selected, expanded, pending>>

PopForgetting(s) ==
  /\ Go /\ s \in pending
  /\ expanded' = expanded \cup Requires[s]
  /\ pending' = pending \ {s}
  /\ UNCHANGED <<selected, result>>

PopKeeping(s) ==
  /\ Go /\ s \in pending
  /\ expanded' = expanded \cup Requires[s]
  /\ pending' = pending \cup (Requires[s] \ expanded)
  /\ UNCHANGED <<selected, result>>

Pop(s) ==
  /\ Go /\ s \in pending
  /\ expanded' = expanded \cup Requires[s]
  /\ pending' = (pending \ {s}) \cup (Requires[s] \ expanded)
  /\ UNCHANGED <<selected, result>>

Return == /\ Go /\ pending = {}
          /\ result' = "returned"
          /\ UNCHANGED <<selected, expanded, pending>>

Next == Refuse \/ Return \/ \E s \in Stages : Pop(s)

\* A sequential call: it goes on while it can.
Spec == Init /\ [][Next]_vars /\ WF_vars(Next)

-----------------------------------------------------------------------------
Closed(C) == \A s \in C : Requires[s] \subseteq C

TypeOK == /\ selected \subseteq Names
          /\ result \in Results
          /\ selected \subseteq Stages =>
               /\ expanded \subseteq Stages /\ pending \subseteq expanded

\* Nothing is in the result that the selection does not need, in any order of the
\* worklist: every closed set around the selection is around the result.
NothingExtra ==
  selected \subseteq Stages =>
    \A C \in SUBSET Stages : selected \subseteq C /\ Closed(C) => expanded \subseteq C

\* What is returned holds the selection and all it requires, transitively.
ReturnsClosed ==
  result = "returned" => selected \subseteq expanded /\ Closed(expanded)

\* What is returned is "the smallest public-stage set required by the user's selection"
\* (stage_config.py:153), for every selection and in any order of the worklist.
ReturnsSmallest == ReturnsClosed /\ NothingExtra

\* The worklist runs dry, and an unknown stage is refused, for every selection.
Answers == <>(IF selected \subseteq Stages THEN result = "returned"
                                           ELSE result = "unknown_stage")
=============================================================================
