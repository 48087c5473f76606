-------------------------- MODULE MCDatabaseGuards --------------------------
(***************************************************************************)
(* Databases of the first migration and what is written into them on the   *)
(* last; the rows of two canonical kinds with two contents; one value.     *)
(***************************************************************************)
EXTENDS SchemaMigrations, ProjectionGuards, ValueGuards, TLC

CONSTANTS N1, N2, M1, C1, C2, V1, V2, Ev1, Ev2, H1, K1, K2, X1, B1, B2

MCEntity == {N1, N2}
MCParameter == {M1}
MCTableOf == [i \in {N1, N2, M1} |-> IF i = M1 THEN "parameters" ELSE "actors"]
MCContent == {C1, C2}
MCPin == {V1, V2}
MCEvent == {Ev1, Ev2}
MCHeader == {H1}
MCDefinition == {K1, K2}
MCValue == {X1}
MCContext == {B1, B2}

\* A value that its header explains; the header with and without a level; the
\* definition that loses its code.
MCLasting ==
    {[table |-> "value", row |-> X1,
      new |-> [header |-> H1, definition |-> K1, context |-> B1, present |-> TRUE,
               confident |-> FALSE, rationale |-> "text"]]}
    \cup {[table |-> "header", row |-> H1,
           new |-> [context |-> B1, known |-> k, referenced |-> TRUE, categories |-> "none"]] :
             k \in BOOLEAN}
    \cup {[table |-> "definition", row |-> K1, new |-> FALSE]}

\* K2 never has the code; while a statement is open the rows are like those that
\* it writes.
FewValueRows ==
    /\ K2 \notin categorical
    /\ open # {} =>
        /\ headers[H1].context = B1 /\ headers[H1].referenced
        /\ headers[H1].categories \in {"none", "exact"}
        /\ values[X1] # Nothing =>
              /\ values[X1].definition = K1 /\ values[X1].context = B1
              /\ values[X1].rationale = "text" /\ values[X1].present

Plain(T) == [t \in T |-> {}]
Empty == Plain({})
Legacy(marked, plain) == Filled(Empty, 1, marked @@ Plain(plain))

\* A project with values, and one that the Studio writes.
Assessed ==
    [legacy |-> Legacy("Project" :> {"demo"} @@ "AssessmentSet" :> {"expert"}
                         @@ "ParameterValue" :> {"present", "explained"}
                         @@ "AuditEvent" :> {"parameter_value", "assessment_set"},
                       {"TimeSlice", "ParameterDefinition", "EvidenceSource", "EvidenceLink",
                        "Scenario", "ScenarioOverride"}),
     later |-> "ImportRun" :> {"workspace", "definition_version", "target_experiment",
                               "target_assessment_set", "committed"}
                 @@ Plain({"DataGap"})]
Authored ==
    [legacy |-> Empty,
     later |-> "Project" :> {"language", "explicit"}
                 @@ "ProjectDefinitionVersion" :> {"validated", "stamped"}
                 @@ "AuditEvent" :> {"definition", "definition_version"}
                 @@ "ImportRun" :> {"package", "definition_version", "committed"}
                 @@ "ParameterDefinition" :> {"definition_version"}
                 @@ Plain({"FactCategory"})]

\* A value with a rationale of spaces.
Unexplained ==
    [legacy |-> Legacy("ParameterValue" :> {"present", "explained", "blank"},
                       {"Project", "TimeSlice", "ParameterDefinition", "AssessmentSet"}),
     later |-> Empty]

\* Documents, facts and chat.
Documented ==
    [legacy |-> Legacy(Empty, {"Project"}),
     later |-> "Document" :> {"rooted"}
                 @@ "DocumentContentVariant" :> {"document_content"}
                 @@ "TextFragment" :> {"exact", "content_variant", "provable"}
                 @@ Plain({"Source", "DocumentVersion", "DocumentContent", "Fact",
                           "FactEvidence"})]
Talked ==
    [legacy |-> Legacy(Empty, {"Project"}),
     later |-> "Document" :> {"rooted"}
                 @@ "TextFragment" :> {"exact", "content_variant"}
                 @@ "ChatCitation" :> {"fragment", "document_version", "quote"}
                 @@ Plain({"Source", "DocumentVersion", "DocumentContentVariant",
                           "ChatConversation", "ChatMessage"})]
Helped ==
    [legacy |-> Legacy(Empty, {"Project"}),
     later |-> "HelpTopic" :> {"studio"} @@ "UIHelpBinding" :> {"global"}
                 @@ "ChatCitation" :> {"fact"}
                 @@ Plain({"ChatConversation", "ChatMessage", "Fact"})]

\* Assessments: canonical, and with profiles of power.
Canonical ==
    [legacy |-> Legacy("AssessmentSet" :> {"expert"},
                       {"Project", "TimeSlice", "ParameterDefinition"}),
     later |-> "Actor" :> {"canonical"}
                 @@ "ParameterValue" :> {"present", "grounded", "actor_element_assessment"}
                 @@ Plain({"AnalyticalElement", "ActorElementAssessment", "ActorElementRole",
                           "AssessmentEvidence", "Fact"})]
Powerful ==
    [legacy |-> Legacy("AssessmentSet" :> {"expert"}, {"Project", "TimeSlice"}),
     later |-> Plain({"Actor", "AnalyticalElement", "ActorElementAssessment", "PowerProfile",
                      "PowerComponent", "Fact", "PowerComponentEvidence"})]

MCSample ==
    {Assessed, Authored, Unexplained, Documented, Talked, Helped, Canonical, Powerful}

-----------------------------------------------------------------------------
\* The three are checked side by side, one at a time.
MigrationsRest == level = 1 /\ sample = Powerful /\ database = Powerful.legacy
GuardsRest ==
    /\ vendor = "sqlite" /\ generation = 17 /\ entries = {} /\ events = {}
    /\ bypassed = FALSE
    /\ pinned = [pin |-> V1, complete |-> FALSE]
ValuesRest ==
    /\ dialect = "sqlite" /\ guarded = FALSE /\ categorical = {}
    /\ headers = [i \in MCHeader |-> [context |-> B1, known |-> FALSE, referenced |-> FALSE,
                                      categories |-> "none"]]
    /\ values = [x \in MCValue |-> Nothing]
    /\ open = {} /\ missed = {} /\ loose = {} /\ counted = FALSE

DatabaseInit ==
    \/ MigrationsInit /\ GuardsRest /\ ValuesRest
    \/ MigrationsRest /\ GuardsInit /\ ValuesRest
    \/ MigrationsRest /\ GuardsRest /\ ValuesInit

DatabaseRest == MigrationsRest /\ GuardsRest /\ ValuesRest

databaseVars == <<migrationVars, guardVars, valueVars>>

DatabaseNext ==
    \/ GuardsRest /\ ValuesRest /\ MigrationsNext /\ UNCHANGED <<guardVars, valueVars>>
    \/ MigrationsRest /\ ValuesRest /\ GuardsNext /\ UNCHANGED <<migrationVars, valueVars>>
    \/ /\ MigrationsRest /\ GuardsRest
       /\ ValuesNext /\ FewValueRows'
       /\ UNCHANGED <<migrationVars, guardVars>>

DatabaseSpec == DatabaseInit /\ [][DatabaseNext]_databaseVars
=============================================================================
