-------------------------- MODULE SchemaMigrations --------------------------
(***************************************************************************)
(* The migrations of the database, forward and back, and what they do to   *)
(* the rows that they find.  A deployment starts with the tables of the    *)
(* first migration; the program as it is now works on those of the last.   *)
(***************************************************************************)
EXTENDS DomainTables

CONSTANTS
    Sample    \* a database of the first migration, and rows written on the last

VARIABLES
    level,     \* the last migration applied
    database,  \* the row of each table that has one
    sample     \* of this database

migrationVars == <<level, database, sample>>

-----------------------------------------------------------------------------
(* The schemas: new tables, and references that are added or replaced.       *)

Each(tables, r) == tables \X {r}

Altered(schema, new, changes) ==
    [t \in DOMAIN schema \cup new |->
        {r \in IF t \in DOMAIN schema THEN schema[t] ELSE {} :
            \A c \in changes : ~(c[1] = t /\ c[2].field = r.field)}
          \cup {c[2] : c \in {d \in changes : d[1] = t}}]

\* 0001: values and evidence
InitialValueTables == {"AssessmentSet", "ParameterDefinition", "Project", "ParticipantGroup",
                       "ParameterValue"}
InitialValueReferences ==
    Each({"AssessmentSet", "ParameterDefinition", "ParticipantGroup", "ParameterValue"}, InProject)
      \cup Each({"ParameterValue"}, Holds("assessment_set", "AssessmentSet"))
      \cup Each({"ParameterValue"}, Holds("parameter_definition", "ParameterDefinition"))
      \cup Each({"ParameterValue"}, Holds("time_slice", "TimeSlice"))

InitialLogTables == {"EvidenceSource", "EvidenceLink", "CalculationStrategyDefinition",
                     "AuditEvent"}
InitialLogReferences ==
    Each({"EvidenceSource", "EvidenceLink", "AuditEvent"}, InProject)
      \cup Each({"EvidenceLink"}, Holds("source", "EvidenceSource"))
      \cup Each({"EvidenceLink"}, Follows("parameter_value", "ParameterValue"))
      \cup Each({"CalculationStrategyDefinition"}, MayFollow("project", "Project"))
      \cup Each({"AuditEvent"}, MayForget("assessment_set", "AssessmentSet"))
      \cup Each({"AuditEvent"}, MayForget("parameter_value", "ParameterValue"))

\* ... and scenarios.
InitialScenarioTables ==
    {"ProjectLock", "ProjectSchemaVersion", "Scenario", "ScenarioOverride", "TensionPoint",
     "GroupTensionRelation", "TimeSlice"}
InitialScenarioReferences ==
    Each(InitialScenarioTables, InProject)
      \cup Each({"Scenario"}, Holds("assessment_set", "AssessmentSet"))
      \cup Each({"Scenario"}, Holds("base_assessment_set", "AssessmentSet"))
      \cup Each({"Scenario"}, Holds("time_slice", "TimeSlice"))
      \cup Each({"ScenarioOverride"}, Holds("parameter_definition", "ParameterDefinition"))
      \cup Each({"ScenarioOverride"}, Follows("scenario", "Scenario"))
      \cup Each({"GroupTensionRelation"}, Holds("participant_group", "ParticipantGroup"))
      \cup Each({"GroupTensionRelation"}, Holds("tension_point", "TensionPoint"))

InitialTables == InitialValueTables \cup InitialLogTables \cup InitialScenarioTables
InitialReferences ==
    InitialValueReferences \cup InitialLogReferences \cup InitialScenarioReferences
Initial == Altered([t \in {} |-> {}], InitialTables, InitialReferences)

\* 0002: the workspace and what is in it
ActorTables == {"Actor", "ActorElementAssessment", "ActorElementRole", "ActorRelation",
                "AnalyticalElement"}
TalkTables == {"AssessmentEvidence", "ChatCitation", "ChatConversation", "ChatMessage", "DataGap",
               "Document", "DocumentContent", "DocumentVersion"}
FactTables == {"Experiment", "ExpertProfile", "Fact", "FactEvidence", "HelpTopic", "ImportRun"}
PowerTables ==
    {"LegacyCompatibilityReceipt", "ParameterValueEvidence", "PowerComponent",
     "PowerComponentEvidence", "PowerProfile", "ProjectDefinitionVersion", "ProjectPublication",
     "ProjectWorkspace", "Source", "TextFragment", "UIHelpBinding"}

\* ... who refers to whom
ActorReferences ==
    Each({"ActorElementAssessment"}, Holds("actor", "Actor"))
      \cup Each({"ActorElementAssessment"}, Holds("assessment_set", "AssessmentSet"))
      \cup Each({"ActorElementAssessment"}, Holds("time_slice", "TimeSlice"))
      \cup Each({"ActorElementAssessment"}, Holds("element", "AnalyticalElement"))
      \cup Each({"ActorElementAssessment"}, Holds("experiment", "Experiment"))
      \cup Each({"ParameterValue"}, MayHold("actor_element_assessment", "ActorElementAssessment"))
      \cup Each({"ActorElementRole"}, Follows("actor", "Actor"))
      \cup Each({"ActorElementRole"}, Follows("element", "AnalyticalElement"))
      \cup Each({"ActorRelation"}, Holds("source_actor", "Actor"))
      \cup Each({"ActorRelation"}, Holds("target_actor", "Actor"))
      \cup Each({"AssessmentEvidence"}, Follows("assessment", "ActorElementAssessment"))
      \cup Each({"ChatMessage"}, Follows("conversation", "ChatConversation"))
      \cup Each({"ChatCitation"}, Follows("message", "ChatMessage"))
      \cup Each({"DocumentVersion"}, Holds("document", "Document"))
      \cup Each({"DocumentContent"}, Holds("document_version", "DocumentVersion"))
      \cup Each({"ChatCitation"}, MayHold("document_version", "DocumentVersion"))
      \cup Each({"Experiment"}, Holds("assessment_set", "AssessmentSet"))
      \cup Each({"Experiment"}, Holds("expert_profile", "ExpertProfile"))
      \cup Each({"Fact"}, MayHold("experiment", "Experiment"))
      \cup Each({"ChatCitation"}, MayHold("fact", "Fact"))
      \cup Each({"AssessmentEvidence"}, Holds("fact", "Fact"))
      \cup Each({"FactEvidence"}, Follows("fact", "Fact"))

PowerReferences ==
    Each({"ParameterValueEvidence", "PowerComponentEvidence"}, Holds("fact", "Fact"))
      \cup Each({"ParameterValueEvidence"}, Follows("parameter_value", "ParameterValue"))
      \cup Each({"PowerComponentEvidence"}, Follows("component", "PowerComponent"))
      \cup Each({"PowerProfile"}, Holds("assessment", "ActorElementAssessment"))
      \cup Each({"PowerComponent"}, Follows("profile", "PowerProfile"))
      \cup Each({"ProjectDefinitionVersion", "ProjectPublication", "ProjectWorkspace"}, InProject)
      \cup Each({"ProjectPublication", "ProjectWorkspace"},
                Holds("definition_version", "ProjectDefinitionVersion"))

\* ... the workspace that everything is in
Homeless == {"HelpTopic", "ProjectDefinitionVersion", "ProjectPublication", "ProjectWorkspace"}
Rehoused == {"AssessmentSet", "AuditEvent", "ParameterValue", "TimeSlice"}
WorkspaceReferences ==
    Each((ActorTables \cup TalkTables \cup FactTables \cup PowerTables) \ Homeless, Owned)
      \cup Each(Rehoused, MayFollow("workspace", "ProjectWorkspace"))

\* ... and the documents.
SourceReferences ==
    Each({"Document"}, Holds("source", "Source"))
      \cup Each({"TextFragment"}, Holds("document_version", "DocumentVersion"))
      \cup Each({"FactEvidence"}, Holds("fragment", "TextFragment"))
      \cup Each({"ChatCitation"}, MayHold("fragment", "TextFragment"))
      \cup Each({"UIHelpBinding"}, Holds("help_topic", "HelpTopic"))

FoundationTables == ActorTables \cup TalkTables \cup FactTables \cup PowerTables
FoundationReferences ==
    ActorReferences \cup PowerReferences \cup WorkspaceReferences \cup SourceReferences
Foundation == Altered(Initial, FoundationTables, FoundationReferences)

\* 0003
RequiredReferences == Each(Rehoused, Owned)
Required == Altered(Foundation, {}, RequiredReferences)

\* 0005
TermTables == {"LegacyTermMapping", "TerminologyEntry"}
CompletedReferences ==
    Each(TermTables, Owned)
      \cup Each({"LegacyTermMapping"}, MayHold("terminology_entry", "TerminologyEntry"))
Completed == Altered(Required, TermTables, CompletedReferences)

\* 0009: what history refers to is held.
KeptTables ==
    {"AssessmentEvidence", "AuditEvent", "ChatCitation", "ChatMessage", "DocumentContent",
     "DocumentVersion", "Fact", "FactEvidence", "ImportRun", "LegacyCompatibilityReceipt",
     "LegacyTermMapping", "ParameterValueEvidence", "PowerComponentEvidence",
     "TerminologyEntry", "TextFragment", "UIHelpBinding"}
RestrictingReferences ==
    Each(KeptTables, Kept)
      \cup Each({"AssessmentEvidence"}, Holds("assessment", "ActorElementAssessment"))
      \cup Each({"AuditEvent"}, MayHold("assessment_set", "AssessmentSet"))
      \cup Each({"AuditEvent"}, MayHold("parameter_value", "ParameterValue"))
      \cup Each({"AuditEvent"}, Holds("project", "Project"))
      \cup Each({"ChatCitation"}, Holds("message", "ChatMessage"))
      \cup Each({"ChatMessage"}, Holds("conversation", "ChatConversation"))
      \cup Each({"FactEvidence"}, Holds("fact", "Fact"))
      \cup Each({"ParameterValueEvidence"}, Holds("parameter_value", "ParameterValue"))
      \cup Each({"PowerComponentEvidence"}, Holds("component", "PowerComponent"))
Restricting == Altered(Completed, {}, RestrictingReferences)

\* 0010
ReceiptedReferences ==
    Each({"ImportRun"}, MayHold("target_assessment_set", "AssessmentSet"))
      \cup Each({"ImportRun"}, MayHold("target_experiment", "Experiment"))
Receipted == Altered(Restricting, {}, ReceiptedReferences)

\* 0013: history of definitions, before there is a workspace.
StudioReferences ==
    Each({"AuditEvent", "UIHelpBinding", "ImportRun"},
         MayHold("workspace", "ProjectWorkspace"))
      \cup Each({"AuditEvent", "ImportRun"},
                MayHold("definition_version", "ProjectDefinitionVersion"))
      \cup Each({"ProjectPublication"}, MayHold("initial_workspace", "ProjectWorkspace"))
      \cup Each({"ImportRun"}, MayHold("project", "Project"))
Studio == Altered(Receipted, {}, StudioReferences)

\* 0015
BoundedReferences == Each({"ImportRun"}, Holds("project", "Project"))
Bounded == Altered(Studio, {}, BoundedReferences)

\* 0017
LineageTables ==
    {"DocumentContentVariant", "DocumentContentRoleBinding", "DocumentSentence", "FactCategory",
     "FactCategoryAssignment", "SentenceAlignmentSet", "SentenceAlignmentEdge",
     "TranslationProvenance"}
MultilingualReferences ==
    Each(LineageTables \ {"FactCategory"}, Kept)
      \cup Each({"DocumentContentVariant", "DocumentContentRoleBinding",
                 "SentenceAlignmentSet", "TranslationProvenance"},
                Holds("document_version", "DocumentVersion"))
      \cup Each({"DocumentContentRoleBinding", "DocumentSentence"},
                Holds("content_variant", "DocumentContentVariant"))
      \cup Each({"SentenceAlignmentSet", "TranslationProvenance"},
                Holds("project_primary_variant", "DocumentContentVariant"))
      \cup Each({"DocumentContentVariant"}, MayHold("document_content", "DocumentContent"))
      \cup Each({"TextFragment"}, MayHold("content_variant", "DocumentContentVariant"))
      \cup Each({"FactCategory"}, Holds("project", "Project"))
      \cup Each({"FactCategoryAssignment"}, MayHold("category", "FactCategory"))
      \cup Each({"FactCategoryAssignment"}, Holds("fact", "Fact"))
      \cup Each({"SentenceAlignmentSet"},
                Holds("original_variant", "DocumentContentVariant"))
      \cup Each({"SentenceAlignmentEdge"}, Holds("original_sentence", "DocumentSentence"))
      \cup Each({"SentenceAlignmentEdge"},
                Holds("project_primary_sentence", "DocumentSentence"))
      \cup Each({"SentenceAlignmentEdge"}, Holds("alignment_set", "SentenceAlignmentSet"))
      \cup Each({"TranslationProvenance"}, MayHold("alignment_set", "SentenceAlignmentSet"))
      \cup Each({"TranslationProvenance"},
                Holds("source_content_variant", "DocumentContentVariant"))
      \cup Each({"TranslationProvenance"},
                Holds("source_document_version", "DocumentVersion"))
Multilingual == Altered(Bounded, LineageTables, MultilingualReferences)

\* 0018
ProjectedReferences ==
    Each({"ParameterDefinition"},
         MayHold("definition_version", "ProjectDefinitionVersion"))
Projected == Altered(Multilingual, {}, ProjectedReferences)

SchemaAt ==
    <<Initial, Foundation, Required, Required, Completed, Completed, Completed, Completed,
      Restricting, Receipted, Receipted, Receipted, Studio, Studio, Bounded, Bounded,
      Multilingual, Projected, Projected, Projected, Projected, Projected>>

-----------------------------------------------------------------------------
(* What a schema allows.                                                     *)

\* What is told apart about rows besides their references comes with a column.
FlagsAt(n) ==
    {"published", "draft", "validated", "expert", "present", "explained", "blank", "grounded",
     "demo", "exact", "provable", "committed", "studio", "g8"}
      \cup (IF n >= 5 THEN {"stamped", "quote"} ELSE {})
      \cup (IF n >= 13 THEN {"global", "definition", "package"} ELSE {})
      \cup (IF n >= 16 THEN {"language", "explicit"} ELSE {})
      \cup (IF n >= 17 THEN {"rooted"} ELSE {})
      \cup (IF n >= 18 THEN {"canonical"} ELSE {})

ColumnsAt(n, t) == {r.field : r \in SchemaAt[n][t]} \cup FlagsAt(n)

\* Tables, columns, and keys to rows that exist.
Shaped(rs, n) ==
    /\ DOMAIN rs \subseteq DOMAIN SchemaAt[n]
    /\ \A t \in DOMAIN rs :
          /\ Needed(SchemaAt[n], t) \subseteq rs[t]
          /\ rs[t] \subseteq ColumnsAt(n, t)
          /\ \A r \in SchemaAt[n][t] : r.field \in rs[t] => r.to \in DOMAIN rs

\* A citation is of one thing, then of a quote, then of a quote or a fact.
CitationFits(marks, n) ==
    LET cited == marks \cap {"fact", "fragment", "document_version"}
        quoted == {"fragment", "document_version", "quote"} \subseteq marks
    IN  /\ n \in 2..4 => Cardinality(cited) = 1
        /\ n \in 5..10 => quoted
        /\ n >= 11 => quoted \/ (cited = {"fact"} /\ "quote" \notin marks)

\* Who validated a definition and when is known unless it is a draft.
DefinitionFits(marks, n) == n >= 6 => ("draft" \in marks <=> "stamped" \notin marks)
PublicationFits(marks, n) == n >= 6 => "stamped" \in marks

\* A value that is present is explained, later perhaps by its assessment.
ValueFits(marks, n) ==
    "present" \in marks =>
        /\ "explained" \in marks \/ (n >= 7 /\ "actor_element_assessment" \in marks)
        /\ n >= 20 => ("explained" \in marks /\ "blank" \notin marks) \/ "grounded" \in marks

\* An event or an import is of a workspace or of a definition.
AuditFits(marks, n) ==
    n >= 15 =>
        IF "definition" \in marks
        THEN /\ "definition_version" \in marks
             /\ marks \cap {"workspace", "assessment_set", "parameter_value"} = {}
        ELSE "workspace" \in marks /\ "definition_version" \notin marks

ImportFits(marks, n) ==
    /\ n >= 10 => ("target_experiment" \in marks <=> "target_assessment_set" \in marks)
    /\ n >= 15 =>
          IF "package" \in marks
          THEN /\ marks \cap {"workspace", "target_experiment"} = {}
               /\ "committed" \in marks => "definition_version" \in marks
          ELSE {"workspace", "definition_version"} \subseteq marks

\* Help that is bound outside any workspace is the Studio's.
BindingFits(marks, n) == n >= 15 => "workspace" \in marks \/ "global" \in marks

ProjectFits(marks, n) == n >= 16 => "language" \in marks

Checked(rs, n) ==
    \A t \in DOMAIN rs :
        /\ t = "ChatCitation" => CitationFits(rs[t], n)
        /\ t = "ProjectDefinitionVersion" => DefinitionFits(rs[t], n)
        /\ t = "ProjectPublication" => PublicationFits(rs[t], n)
        /\ t = "ParameterValue" => ValueFits(rs[t], n)
        /\ t = "AuditEvent" => AuditFits(rs[t], n)
        /\ t = "ImportRun" => ImportFits(rs[t], n)
        /\ t = "UIHelpBinding" => BindingFits(rs[t], n)
        /\ t = "Project" => ProjectFits(rs[t], n)

Fits(rs, n) == Shaped(rs, n) /\ Checked(rs, n)

\* A definition is a draft, validated, or published and perhaps retired since.
OneKind(marks) ==
    /\ {"draft", "published", "validated"} \cap marks # {}
    /\ \A k, l \in {"draft", "published", "validated"} \cap marks : k = l

\* A deployment starts with rows that its first schema allows.
ASSUME SampleAssumption ==
    \A s \in Sample :
        /\ Fits(s.legacy, 1)
        /\ "ProjectDefinitionVersion" \in DOMAIN s.later =>
              OneKind(s.later["ProjectDefinitionVersion"])

-----------------------------------------------------------------------------
(* What the migrations write.                                                *)

Marked(rs, tables, marks) == [t \in DOMAIN rs |-> IF t \in tables THEN rs[t] \cup marks ELSE rs[t]]
Cleared(rs, tables, marks) == [t \in DOMAIN rs |-> IF t \in tables THEN rs[t] \ marks ELSE rs[t]]

\* New rows fill what they must, and other marks.
Filled(rs, n, new) ==
    [t \in DOMAIN rs \cup DOMAIN new |->
        IF t \in DOMAIN rs THEN rs[t] ELSE Needed(SchemaAt[n], t) \cup new[t]]

Only(p, t, marks) == IF p THEN [u \in {t} |-> marks] ELSE [u \in {} |-> {}]
Both(f, g) == [t \in DOMAIN f \cup DOMAIN g |-> IF t \in DOMAIN f THEN f[t] ELSE g[t]]

\* 0002: each project gets a published definition and a workspace for all it has;
\* sets of experts become experiments, the rest gets receipts.
IntoWorkspaces(rs) ==
    LET expert == "AssessmentSet" \in DOMAIN rs /\ "expert" \in rs["AssessmentSet"]
        other == \/ "AssessmentSet" \in DOMAIN rs /\ ~expert
                 \/ {"EvidenceSource", "EvidenceLink"} \cap DOMAIN rs # {}
        new == Both(Both([t \in {"ProjectDefinitionVersion", "ProjectPublication",
                                 "ProjectWorkspace"} |->
                            IF t = "ProjectDefinitionVersion" THEN {"published"} ELSE {}],
                         Only(other, "LegacyCompatibilityReceipt", {})),
                    Both(Only(expert, "ExpertProfile", {}), Only(expert, "Experiment", {})))
    IN  IF "Project" \in DOMAIN rs
        THEN Filled(Marked(rs, Rehoused, {"workspace"}), 2, new)
        ELSE rs

\* 0006: what is published was validated, by the migration if by nobody else.
Stamped(rs) ==
    Marked(rs, {t \in DOMAIN rs : \/ t = "ProjectPublication"
                                  \/ t = "ProjectDefinitionVersion" /\ "published" \in rs[t]},
           {"stamped"})

\* 0014: all that there is has the scope of its workspace.
\* Mutant: but for receipts of imports.
ScopedButReceipts(rs) ==
    LET studio == "HelpTopic" \in DOMAIN rs /\ "studio" \in rs["HelpTopic"]
    IN  Marked(Cleared(rs, {"AuditEvent"}, {"definition", "definition_version"}),
               {"UIHelpBinding"}, IF studio THEN {"global"} ELSE {})

Scoped(rs) ==
    LET studio == "HelpTopic" \in DOMAIN rs /\ "studio" \in rs["HelpTopic"]
    IN  Marked(Marked(Cleared(rs, {"AuditEvent"}, {"definition", "definition_version"}),
                      {"ImportRun"}, {"project", "definition_version"}),
               {"UIHelpBinding"}, IF studio THEN {"global"} ELSE {})

\* 0016: one project is known to be in Russian.
WithLanguage(rs) ==
    Marked(rs, {"Project"},
           {"language"} \cup IF "Project" \in DOMAIN rs /\ "demo" \in rs["Project"]
                             THEN {"explicit"} ELSE {})

\* 0017: the text of a content becomes a variant, and exact fragments are pinned
\* to it if they can be proved to be of it.
Unprovable(rs) ==
    /\ "TextFragment" \in DOMAIN rs /\ "exact" \in rs["TextFragment"]
    /\ "DocumentContent" \notin DOMAIN rs \/ "provable" \notin rs["TextFragment"]
WithVariants(rs) ==
    LET pinned == {t \in DOMAIN rs : t = "TextFragment" /\ "exact" \in rs[t]}
    IN  Filled(Marked(Marked(rs, {"Document"}, {"rooted"}), pinned, {"content_variant"}), 17,
                Only("DocumentContent" \in DOMAIN rs, "DocumentContentVariant",
                     {"document_content"}))

Forward(rs, n) ==
    CASE n = 2 -> IntoWorkspaces(rs)
      [] n = 6 -> Stamped(rs)
      [] n = 14 -> Scoped(rs)
      [] n = 16 -> WithLanguage(rs)
      [] n = 17 -> WithVariants(rs)
      [] OTHER -> rs

\* 0014: no row that the migration cannot place.
Placed(rs) == \A t \in {"AuditEvent", "ImportRun"} \cap DOMAIN rs : "workspace" \in rs[t]

CanUpgrade(rs, n) ==
    /\ n = 14 => Placed(rs)
    /\ n = 17 => ~Unprovable(rs)
    /\ Fits(Forward(rs, n), n)

-----------------------------------------------------------------------------
(* The way back.                                                             *)

\* All rows of a table, and what follows them; a row that is held stops it.
Held(rs, t) == t \in DOMAIN rs /\ Restricted(Foundation, rs, Collected(Foundation, rs, {t}))
Deleted(rs, t) ==
    IF t \in DOMAIN rs THEN Without(rs, Collected(Foundation, rs, {t})) ELSE rs

\* 0002: back to projects without workspaces.
\* Mutant: what was rehoused stays in the workspace that is deleted.
OutOfWorkspacesAll(rs) ==
    LET r1 == Deleted(rs, "LegacyCompatibilityReceipt")
        r2 == Deleted(r1, "Experiment")
        r3 == Deleted(r2, "ExpertProfile")
        r4 == Deleted(r3, "ProjectPublication")
        r5 == Deleted(r4, "ProjectWorkspace")
    IN  [held |-> \/ Held(rs, "LegacyCompatibilityReceipt") \/ Held(r1, "Experiment")
                  \/ Held(r2, "ExpertProfile") \/ Held(r3, "ProjectPublication")
                  \/ Held(r4, "ProjectWorkspace") \/ Held(r5, "ProjectDefinitionVersion"),
         rows |-> Deleted(r5, "ProjectDefinitionVersion")]

OutOfWorkspaces(rs) ==
    LET r0 == Cleared(rs, Rehoused, {"workspace"})
        r1 == Deleted(r0, "LegacyCompatibilityReceipt")
        r2 == Deleted(r1, "Experiment")
        r3 == Deleted(r2, "ExpertProfile")
        r4 == Deleted(r3, "ProjectPublication")
        r5 == Deleted(r4, "ProjectWorkspace")
    IN  [held |-> \/ Held(r0, "LegacyCompatibilityReceipt") \/ Held(r1, "Experiment")
                  \/ Held(r2, "ExpertProfile") \/ Held(r3, "ProjectPublication")
                  \/ Held(r4, "ProjectWorkspace") \/ Held(r5, "ProjectDefinitionVersion"),
         rows |-> Deleted(r5, "ProjectDefinitionVersion")]

\* 0014 and 0015: what could not be told apart any more.
Lossy(rs) ==
    \/ "AuditEvent" \in DOMAIN rs /\ "definition" \in rs["AuditEvent"]
    \/ "UIHelpBinding" \in DOMAIN rs /\ "workspace" \notin rs["UIHelpBinding"]
    \/ "ProjectPublication" \in DOMAIN rs /\ "initial_workspace" \in rs["ProjectPublication"]
    \/ "ImportRun" \in DOMAIN rs /\ "package" \in rs["ImportRun"]

\* 0017
WithoutVariants(rs) ==
    Cleared(Cleared(rs, {"TextFragment"}, {"content_variant"}), {"Document"}, {"rooted"})

\* 0016
WithoutLanguage(rs) == Cleared(rs, {"Project"}, {"language", "explicit"})

\* Tables and columns of a migration go with it.
Dropped(rs, n) ==
    [t \in DOMAIN rs \cap DOMAIN SchemaAt[n] |-> rs[t] \cap ColumnsAt(n, t)]

Refused(rs, n) ==
    \/ n = 18 /\ \E t \in DOMAIN rs : IsCanonical(rs, t)
    \/ n \in {14, 15} /\ Lossy(rs)
    \/ n = 2 /\ OutOfWorkspaces(rs).held

Backward(rs, n) ==
    Dropped(CASE n = 17 -> WithoutVariants(rs)
              [] n = 16 -> WithoutLanguage(rs)
              [] n = 2 -> OutOfWorkspaces(rs).rows
              [] OTHER -> rs, n - 1)

-----------------------------------------------------------------------------
MigrationsInit ==
    /\ level = 1
    /\ sample \in Sample
    /\ database = sample.legacy

Upgrade ==
    /\ level < 22
    /\ CanUpgrade(database, level + 1)
    /\ database' = Forward(database, level + 1)
    /\ level' = level + 1
    /\ UNCHANGED sample

\* A row that breaks an older schema stops its migration.
Downgrade ==
    /\ level > 1
    /\ ~Refused(database, level)
    /\ Fits(Backward(database, level), level - 1)
    /\ database' = Backward(database, level)
    /\ level' = level - 1
    /\ UNCHANGED sample

\* The program writes a row once what it refers to exists.  What wrote rows when
\* the levels between were the last is not in the repository.
Write(t) ==
    /\ level = 22
    /\ t \in DOMAIN sample.later \ DOMAIN database
    /\ database' = Filled(database, 22, [u \in {t} |-> sample.later[t]])
    /\ Fits(database', 22)
    /\ UNCHANGED <<level, sample>>

\* What a delete collects goes, if nothing holds it and no trigger keeps it.
Delete(t) ==
    LET gone == Collected(Declared, database, {t})
    IN  /\ level = 22
        /\ ~Restricted(Declared, database, gone)
        /\ \A u \in gone : ~IsCanonical(database, u)
        /\ database' = Without(database, gone)
        /\ UNCHANGED <<level, sample>>

DeleteRow(t) == ~RowRefuses(database, t) /\ Delete(t)
DeleteSet(t) == ~SetRefuses(database, t) /\ Delete(t)

MigrationsNext ==
    \/ Upgrade
    \/ Downgrade
    \/ \E t \in DOMAIN Declared : Write(t)
    \/ \E t \in DOMAIN database : DeleteRow(t) \/ DeleteSet(t)

MigrationsSpec == MigrationsInit /\ [][MigrationsNext]_migrationVars

-----------------------------------------------------------------------------
(* The program deletes no history, although its deletes reach rows whose     *)
(* models are never asked: every reference of a captured record holds what   *)
(* it points to.  Sources and documents follow their workspace as long as    *)
(* nothing was found in them.  And a migration, forward or back, loses the   *)
(* rows of no table that is still there after it.                            *)
HistoryStays ==
    [][\A t \in DOMAIN database \ DOMAIN database' :
          IF level' = level THEN t \notin AppendOnly \ {"Source", "Document"}
                            ELSE t \notin DOMAIN SchemaAt[level']]_migrationVars

(* The migrations arrive at the tables that the models declare, and on the   *)
(* way every schema finds its rows in order.  What stops an upgrade is known *)
(* before it starts: a definition that was validated by nobody, a fragment   *)
(* that is exact by nothing, or a value that nothing explains; and only one  *)
(* that went back before can meet the first two.                             *)
Stuck(rs, n) ==
    \/ n = 6 /\ "ProjectDefinitionVersion" \in DOMAIN rs
             /\ "validated" \in rs["ProjectDefinitionVersion"]
             /\ "stamped" \notin rs["ProjectDefinitionVersion"]
    \/ n = 17 /\ Unprovable(rs)
    \/ n = 20 /\ "ParameterValue" \in DOMAIN rs /\ "present" \in rs["ParameterValue"]
              /\ ~("explained" \in rs["ParameterValue"] /\ "blank" \notin rs["ParameterValue"])
              /\ "grounded" \notin rs["ParameterValue"]
UpgradesArrive ==
    /\ SchemaAt[22] = Declared
    /\ Fits(database, level)
    /\ level < 22 => (CanUpgrade(database, level + 1) <=> ~Stuck(database, level + 1))
=============================================================================
