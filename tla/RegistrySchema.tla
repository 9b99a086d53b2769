---------------------------- MODULE RegistrySchema ----------------------------
(***************************************************************************)
(* The tables of the registry, written down twice: the models the API uses *)
(* and the two revisions a container applies before it starts the API.     *)
(* A table is the set of its references, pairs of a column and the table   *)
(* whose key it holds; columns that refer to nothing are left out.         *)
(*   app/db.py, app/alembic/versions/                                      *)
(***************************************************************************)
EXTENDS Sequences

ClauseRef == <<"clause_id", "clause">>
DocRef == <<"doc_id", "documentmetadata">>
TermRef(column) == <<column, "mastervocabularylist">>
PlaceRef(column) == <<column, "locations">>

Dwelling == {PlaceRef("residence_id"), PlaceRef("work_location_id")}
Belonging == {TermRef("affiliation_id")} \cup Dwelling
Crew == {PlaceRef("home_port_id"), <<"shipmaster_id", "person">>, <<"shipowner_id", "person">>}

-----------------------------------------------------------------------------
\* db.py.
AuthModels == [user |-> {}, apitoken |-> {<<"user_id", "user">>}]

MasterModels ==
  [documentmetadata |-> {},
   clause |-> {DocRef},
   mastervocabularylist |-> {},
   locations |-> {PlaceRef("located_in_id")},
   person |-> {<<"identity_id", "socialidentity">>} \cup Belonging,
   socialidentity |-> {},
   vesselnames |-> Crew,
   relationship |-> {}]

OccurrenceModels ==
  [mentions |-> {ClauseRef, TermRef("item_id")},
   personoccurrence |-> {ClauseRef, <<"person_id", "person">>,
                         <<"identity_id", "socialidentity">>} \cup Belonging,
   vesseloccurrence |-> {ClauseRef, <<"vessel_id", "vesselnames">>} \cup Crew,
   socialidentityoccurrence |->
     {ClauseRef, <<"social_identity_id", "socialidentity">>,
      <<"secondary_identity_id", "socialidentity">>, TermRef("attribute_id")} \cup Belonging]

StatementModels ==
  [eventoccurrence |->
     {ClauseRef, TermRef("event_id"), TermRef("attribute_id"), PlaceRef("place_where_id"),
      PlaceRef("place_from_id"), PlaceRef("place_to_id")},
   relationshipoccurrence |-> {ClauseRef, <<"relationship_id", "relationship">>},
   attributeoccurrence |-> {ClauseRef, TermRef("attribute_id")},
   quantifiedstatementoccurrence |->
     {ClauseRef, TermRef("q_id"), TermRef("unit_id"), TermRef("per_unit_id")}]

DocumentModels ==
  [summary |-> {DocRef}, keyword |-> {},
   keywordoccurrence |-> {DocRef, <<"keyword_id", "keyword">>}, chatrecord |-> {DocRef}]

-----------------------------------------------------------------------------
\* A statement of a revision.
Create(table, references) == [op |-> "create", table |-> table, references |-> references]
DropLegacy(table) == [op |-> "drop cascade", table |-> table, references |-> {}]
Drop(table) == [op |-> "drop", table |-> table, references |-> {}]
Each(op(_), tables) == [i \in DOMAIN tables |-> op(tables[i])]

\* 0001_baseline.
Baseline == <<Create("user", {}), Create("apitoken", {<<"user_id", "user">>})>>

\* 0002_docx_tables: what create_all left behind goes, children first,
LegacyTables ==
  <<"person", "mentions", "ocurrences", "vesselnames", "entity", "relationship",
    "socialidentity", "things", "intangibles", "institutions", "temporalexpressions",
    "concepts", "locations", "occupation", "office", "status", "residence", "worklocation",
    "mastervocabularylist">>

\* and the tables of the reference document are created, parents first.
CreateMasters ==
  <<Create("documentmetadata", {}),
    Create("clause", {DocRef}),
    Create("mastervocabularylist", {}),
    Create("locations", {PlaceRef("located_in_id")}),
    Create("socialidentity", {}),
    Create("person", {<<"identity_id", "socialidentity">>} \cup Belonging),
    Create("vesselnames", Crew),
    Create("relationship", {})>>

CreateOccurrences ==
  <<Create("mentions", {ClauseRef, TermRef("item_id")}),
    Create("personoccurrence", {ClauseRef, <<"person_id", "person">>,
                                <<"identity_id", "socialidentity">>} \cup Belonging),
    Create("vesseloccurrence", {ClauseRef, <<"vessel_id", "vesselnames">>} \cup Crew),
    Create("socialidentityoccurrence",
           {ClauseRef, <<"social_identity_id", "socialidentity">>,
            <<"secondary_identity_id", "socialidentity">>, TermRef("attribute_id")}
             \cup Belonging)>>

CreateStatements ==
  <<Create("eventoccurrence",
           {ClauseRef, TermRef("event_id"), TermRef("attribute_id"), PlaceRef("place_where_id"),
            PlaceRef("place_from_id"), PlaceRef("place_to_id")}),
    Create("relationshipoccurrence", {ClauseRef, <<"relationship_id", "relationship">>}),
    Create("attributeoccurrence", {ClauseRef, TermRef("attribute_id")}),
    Create("quantifiedstatementoccurrence",
           {ClauseRef, TermRef("q_id"), TermRef("unit_id"), TermRef("per_unit_id")})>>

CreateDocumentPartsUnlinked ==
  <<Create("summary", {DocRef}), Create("keyword", {}),
    Create("keywordoccurrence", {<<"keyword_id", "keyword">>}), Create("chatrecord", {DocRef})>>

CreateDocumentParts ==
  <<Create("summary", {DocRef}), Create("keyword", {}),
    Create("keywordoccurrence", {DocRef, <<"keyword_id", "keyword">>}),
    Create("chatrecord", {DocRef})>>

DocxTables == Each(DropLegacy, LegacyTables) \o CreateMasters \o CreateOccurrences
                \o CreateStatements \o CreateDocumentParts

\* and dropped in the reverse order by its downgrade.
DowngradeDocx ==
  Each(Drop, <<"chatrecord", "keywordoccurrence", "keyword", "summary",
               "quantifiedstatementoccurrence", "attributeoccurrence",
               "relationshipoccurrence", "eventoccurrence", "socialidentityoccurrence",
               "vesseloccurrence", "personoccurrence", "mentions", "relationship",
               "vesselnames", "person", "socialidentity", "locations",
               "mastervocabularylist", "clause", "documentmetadata">>)
=============================================================================
