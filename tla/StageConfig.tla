------------------------------ MODULE StageConfig ------------------------------
(* The stage profiles of tagger/stage_config.py as values. *)
EXTENDS Naturals, Sequences

STAGE_PROFILES == [
  summary_keywords     |-> {},
  entity_registry      |-> {},
  clause_parser        |-> {},
  occurrences_registry |-> {"clause_parser", "entity_registry"},
  tag_assembler        |-> {"clause_parser", "entity_registry", "occurrences_registry"},
  key_narrative        |-> {"summary_keywords", "entity_registry", "clause_parser",
                            "occurrences_registry"}]

WORKFLOW_STAGE_ORDER == <<"summary_keywords", "entity_registry", "clause_parser",
                          "occurrences_registry", "tag_assembler", "key_narrative">>

FUTURE_STAGES == {"key_narrative"}

\* The order and the requirements without the stages in a set.
OrderWithout(S) == SelectSeq(WORKFLOW_STAGE_ORDER, LAMBDA s : s \notin S)
RequiresWithout(S) ==
  [s \in DOMAIN STAGE_PROFILES \ S |-> STAGE_PROFILES[s] \ S]
=============================================================================
