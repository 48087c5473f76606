---------------------------- MODULE DomainTables ----------------------------
(***************************************************************************)
(* The tables of the domain, what each refers to, and what that means when *)
(* a row is deleted.  One row stands for all rows of its table, so that    *)
(* references of a table to itself play no part; a row is the set of the   *)
(* references that it fills and of what else is told apart about it.       *)
(*                                                                         *)
(* The models refuse to delete history, but a delete collects the rows     *)
(* that follow the one deleted without asking them.                        *)
(***************************************************************************)
EXTENDS Integers, FiniteSets

\* A reference follows what it points to, or holds it; it may be optional.
Reference(f, t, p, n) == [field |-> f, to |-> t, policy |-> p, needed |-> n]
Follows(f, t) == Reference(f, t, "CASCADE", TRUE)
MayFollow(f, t) == Reference(f, t, "CASCADE", FALSE)
Holds(f, t) == Reference(f, t, "RESTRICT", TRUE)
MayHold(f, t) == Reference(f, t, "RESTRICT", FALSE)
MayForget(f, t) == Reference(f, t, "SET_NULL", FALSE)

InProject == Follows("project", "Project")
Owned == Follows("workspace", "ProjectWorkspace")
Kept == Holds("workspace", "ProjectWorkspace")

-----------------------------------------------------------------------------
(* The Project and what holds directly to it.                               *)

ProjectTable == {}
ProjectSchemaVersionTable == {InProject}
ProjectLockTable == {InProject}
TensionPointTable == {InProject}
ParticipantGroupTable == {InProject}
GroupTensionRelationTable ==
    {InProject, Holds("participant_group", "ParticipantGroup"),
     Holds("tension_point", "TensionPoint")}
ParameterDefinitionTable ==
    {InProject, MayHold("definition_version", "ProjectDefinitionVersion")}
EvidenceSourceTable == {InProject}
EvidenceLinkTable ==
    {InProject, Follows("parameter_value", "ParameterValue"),
     Holds("source", "EvidenceSource")}
FactCategoryTable == {Holds("project", "Project")}
CalculationStrategyDefinitionTable == {MayFollow("project", "Project")}
ScenarioTable ==
    {InProject, Holds("time_slice", "TimeSlice"),
     Holds("assessment_set", "AssessmentSet"),
     Holds("base_assessment_set", "AssessmentSet")}
ScenarioOverrideTable ==
    {InProject, Follows("scenario", "Scenario"),
     Holds("parameter_definition", "ParameterDefinition")}

-----------------------------------------------------------------------------
(* Definitions, publications and workspaces.                                *)

ProjectDefinitionVersionTable == {InProject}
ProjectPublicationTable ==
    {InProject, Holds("definition_version", "ProjectDefinitionVersion"),
     MayHold("initial_workspace", "ProjectWorkspace")}
ProjectWorkspaceTable ==
    {InProject, Holds("definition_version", "ProjectDefinitionVersion")}
ImportRunTable ==
    {Holds("project", "Project"), MayHold("workspace", "ProjectWorkspace"),
     MayHold("definition_version", "ProjectDefinitionVersion"),
     MayHold("target_experiment", "Experiment"),
     MayHold("target_assessment_set", "AssessmentSet")}
LegacyCompatibilityReceiptTable == {Kept}
AuditEventTable ==
    {Holds("project", "Project"), MayHold("workspace", "ProjectWorkspace"),
     MayHold("definition_version", "ProjectDefinitionVersion"),
     MayHold("assessment_set", "AssessmentSet"),
     MayHold("parameter_value", "ParameterValue")}

-----------------------------------------------------------------------------
(* What is assessed, by whom, and the values.                               *)

TimeSliceTable == {InProject, Owned}
ActorTable == {Owned}
AnalyticalElementTable == {Owned}
ActorRelationTable ==
    {Owned, Holds("source_actor", "Actor"), Holds("target_actor", "Actor")}
ActorElementRoleTable ==
    {Owned, Follows("actor", "Actor"), Follows("element", "AnalyticalElement")}
AssessmentSetTable == {InProject, Owned}
ExpertProfileTable == {Owned}
ExperimentTable ==
    {Owned, Holds("expert_profile", "ExpertProfile"),
     Holds("assessment_set", "AssessmentSet")}
ActorElementAssessmentTable ==
    {Owned, Holds("actor", "Actor"), Holds("element", "AnalyticalElement"),
     Holds("time_slice", "TimeSlice"), Holds("experiment", "Experiment"),
     Holds("assessment_set", "AssessmentSet")}
ParameterValueTable ==
    {InProject, Owned, Holds("time_slice", "TimeSlice"),
     Holds("assessment_set", "AssessmentSet"),
     MayHold("actor_element_assessment", "ActorElementAssessment"),
     Holds("parameter_definition", "ParameterDefinition")}
PowerProfileTable == {Owned, Holds("assessment", "ActorElementAssessment")}
PowerComponentTable == {Owned, Follows("profile", "PowerProfile")}
DataGapTable == {Owned}

-----------------------------------------------------------------------------
(* Documents and the facts that are found in them.                          *)

SourceTable == {Owned}
DocumentTable == {Owned, Holds("source", "Source")}
DocumentVersionTable == {Kept, Holds("document", "Document")}
DocumentContentTable == {Kept, Holds("document_version", "DocumentVersion")}
DocumentContentVariantTable ==
    {Kept, Holds("document_version", "DocumentVersion"),
     MayHold("document_content", "DocumentContent")}
DocumentContentRoleBindingTable ==
    {Kept, Holds("document_version", "DocumentVersion"),
     Holds("content_variant", "DocumentContentVariant")}
DocumentSentenceTable == {Kept, Holds("content_variant", "DocumentContentVariant")}
SentenceAlignmentSetTable ==
    {Kept, Holds("document_version", "DocumentVersion"),
     Holds("original_variant", "DocumentContentVariant"),
     Holds("project_primary_variant", "DocumentContentVariant")}
SentenceAlignmentEdgeTable ==
    {Kept, Holds("alignment_set", "SentenceAlignmentSet"),
     Holds("original_sentence", "DocumentSentence"),
     Holds("project_primary_sentence", "DocumentSentence")}
TranslationProvenanceTable ==
    {Kept, Holds("document_version", "DocumentVersion"),
     Holds("project_primary_variant", "DocumentContentVariant"),
     Holds("source_document_version", "DocumentVersion"),
     Holds("source_content_variant", "DocumentContentVariant"),
     MayHold("alignment_set", "SentenceAlignmentSet")}
TextFragmentTable ==
    {Kept, Holds("document_version", "DocumentVersion"),
     MayHold("content_variant", "DocumentContentVariant")}
FactTable == {Kept, MayHold("experiment", "Experiment")}
FactCategoryAssignmentTable ==
    {Kept, Holds("fact", "Fact"), MayHold("category", "FactCategory")}
FactEvidenceTable == {Kept, Holds("fact", "Fact"), Holds("fragment", "TextFragment")}
AssessmentEvidenceTable ==
    {Kept, Holds("assessment", "ActorElementAssessment"), Holds("fact", "Fact")}
ParameterValueEvidenceTable ==
    {Kept, Holds("parameter_value", "ParameterValue"), Holds("fact", "Fact")}
PowerComponentEvidenceTable ==
    {Kept, Holds("component", "PowerComponent"), Holds("fact", "Fact")}

-----------------------------------------------------------------------------
(* Terms, help and chat.                                                    *)

TerminologyEntryTable == {Kept}
LegacyTermMappingTable == {Kept, MayHold("terminology_entry", "TerminologyEntry")}
HelpTopicTable == {}
UIHelpBindingTable ==
    {MayHold("workspace", "ProjectWorkspace"), Holds("help_topic", "HelpTopic")}
ChatConversationTable == {Owned}
ChatMessageTable == {Kept, Holds("conversation", "ChatConversation")}
ChatCitationTable ==
    {Kept, Holds("message", "ChatMessage"), MayHold("fact", "Fact"),
     MayHold("fragment", "TextFragment"),
     MayHold("document_version", "DocumentVersion")}

-----------------------------------------------------------------------------
\* What the models declare.
Declared ==
    [Project |-> ProjectTable, ProjectSchemaVersion |-> ProjectSchemaVersionTable,
     ProjectLock |-> ProjectLockTable, TensionPoint |-> TensionPointTable,
     ParticipantGroup |-> ParticipantGroupTable,
     GroupTensionRelation |-> GroupTensionRelationTable,
     ParameterDefinition |-> ParameterDefinitionTable,
     EvidenceSource |-> EvidenceSourceTable, EvidenceLink |-> EvidenceLinkTable,
     FactCategory |-> FactCategoryTable,
     CalculationStrategyDefinition |-> CalculationStrategyDefinitionTable,
     Scenario |-> ScenarioTable, ScenarioOverride |-> ScenarioOverrideTable,
     ProjectDefinitionVersion |-> ProjectDefinitionVersionTable,
     ProjectPublication |-> ProjectPublicationTable,
     ProjectWorkspace |-> ProjectWorkspaceTable, ImportRun |-> ImportRunTable,
     LegacyCompatibilityReceipt |-> LegacyCompatibilityReceiptTable,
     AuditEvent |-> AuditEventTable, TimeSlice |-> TimeSliceTable, Actor |-> ActorTable,
     AnalyticalElement |-> AnalyticalElementTable, ActorRelation |-> ActorRelationTable,
     ActorElementRole |-> ActorElementRoleTable, AssessmentSet |-> AssessmentSetTable,
     ExpertProfile |-> ExpertProfileTable, Experiment |-> ExperimentTable,
     ActorElementAssessment |-> ActorElementAssessmentTable,
     ParameterValue |-> ParameterValueTable, PowerProfile |-> PowerProfileTable,
     PowerComponent |-> PowerComponentTable, DataGap |-> DataGapTable,
     Source |-> SourceTable, Document |-> DocumentTable,
     DocumentVersion |-> DocumentVersionTable, DocumentContent |-> DocumentContentTable,
     DocumentContentVariant |-> DocumentContentVariantTable,
     DocumentContentRoleBinding |-> DocumentContentRoleBindingTable,
     DocumentSentence |-> DocumentSentenceTable,
     SentenceAlignmentSet |-> SentenceAlignmentSetTable,
     SentenceAlignmentEdge |-> SentenceAlignmentEdgeTable,
     TranslationProvenance |-> TranslationProvenanceTable,
     TextFragment |-> TextFragmentTable, Fact |-> FactTable,
     FactCategoryAssignment |-> FactCategoryAssignmentTable,
     FactEvidence |-> FactEvidenceTable, AssessmentEvidence |-> AssessmentEvidenceTable,
     ParameterValueEvidence |-> ParameterValueEvidenceTable,
     PowerComponentEvidence |-> PowerComponentEvidenceTable,
     TerminologyEntry |-> TerminologyEntryTable,
     LegacyTermMapping |-> LegacyTermMappingTable, HelpTopic |-> HelpTopicTable,
     UIHelpBinding |-> UIHelpBindingTable, ChatConversation |-> ChatConversationTable,
     ChatMessage |-> ChatMessageTable, ChatCitation |-> ChatCitationTable]

-----------------------------------------------------------------------------
(* Deletion under a schema, a function from the tables to their references.  *)

Needed(schema, t) == {r.field : r \in {q \in schema[t] : q.needed}}

\* The row of t points by such a reference to one of the tables in T.
Points(schema, rows, t, policy, T) ==
    \E r \in schema[t] : r.policy = policy /\ r.to \in T /\ r.field \in rows[t]

Spread(schema, rows, gone) ==
    gone \cup {t \in DOMAIN rows : Points(schema, rows, t, "CASCADE", gone)}

\* No chain of cascades is longer.
Collected(schema, rows, start) ==
    Spread(schema, rows, Spread(schema, rows, Spread(schema, rows, start)))

\* A row outside holds one that was collected.
Restricted(schema, rows, gone) ==
    \E t \in DOMAIN rows \ gone : Points(schema, rows, t, "RESTRICT", gone)

Without(rows, gone) == [t \in DOMAIN rows \ gone |-> rows[t]]

-----------------------------------------------------------------------------
(* Who refuses.                                                            *)

\* Captured records.
AppendOnly ==
    {"TerminologyEntry", "LegacyTermMapping", "Source", "Document", "DocumentVersion",
     "DocumentContent", "DocumentContentVariant", "DocumentContentRoleBinding",
     "DocumentSentence", "SentenceAlignmentSet", "SentenceAlignmentEdge",
     "TranslationProvenance", "TextFragment", "FactCategory", "Fact",
     "FactCategoryAssignment", "FactEvidence", "AssessmentEvidence",
     "ParameterValueEvidence", "HelpTopic", "UIHelpBinding", "PowerComponentEvidence",
     "ChatMessage", "ChatCitation", "ImportRun", "LegacyCompatibilityReceipt",
     "AuditEvent"}

\* The column that makes a row of a projection canonical.
Marker ==
    [t \in {"Actor", "AnalyticalElement", "ActorElementRole", "ParameterDefinition"} |->
        IF t = "ParameterDefinition" THEN "definition_version" ELSE "canonical"]
IsCanonical(rows, t) == t \in DOMAIN Marker /\ Marker[t] \in rows[t]

\* Captured records, publications and slices are never deleted.
CapturedRefuses(t) == t \in AppendOnly
PublicationRefuses(t) == t = "ProjectPublication"
SliceRefuses(t) == t = "TimeSlice"

\* Some rows only of a kind or as long as others exist.
DefinitionRefuses(rows, t) == t = "ProjectDefinitionVersion" /\ "draft" \notin rows[t]
CanonicalRefuses(rows, t) == IsCanonical(rows, t)
ProfileRefuses(rows, t) == t = "ExpertProfile" /\ "Experiment" \in DOMAIN rows
ExperimentRefuses(rows, t) == t = "Experiment" /\ "g8" \in rows[t]

\* A set of rows asked to delete itself.
SetRefuses(rows, t) ==
    \/ CapturedRefuses(t) \/ PublicationRefuses(t) \/ SliceRefuses(t)
    \/ DefinitionRefuses(rows, t) \/ CanonicalRefuses(rows, t)
    \/ ProfileRefuses(rows, t) \/ ExperimentRefuses(rows, t)

\* One row asked to delete itself: assessments, and values that others rely on,
\* refuse this alone.
AssessmentRefuses(t) == t = "ActorElementAssessment"
ValueRefuses(rows, t) ==
    /\ t = "ParameterValue"
    /\ \/ "actor_element_assessment" \in rows[t]
       \/ {"EvidenceLink", "ParameterValueEvidence"} \cap DOMAIN rows # {}
       \/ "AuditEvent" \in DOMAIN rows /\ "parameter_value" \in rows["AuditEvent"]

RowRefuses(rows, t) ==
    SetRefuses(rows, t) \/ AssessmentRefuses(t) \/ ValueRefuses(rows, t)
=============================================================================
