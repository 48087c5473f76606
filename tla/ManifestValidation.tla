-------------------------- MODULE ManifestValidation --------------------------
(***************************************************************************)
(* The FD01 policy: what project_definitions.py reports of the content of  *)
(* a typed manifest, which of it keeps a draft from being stored, and      *)
(* which content is valid.                                                 *)
(*                                                                         *)
(* Sections are sequences of items.  A stable id is the text written in    *)
(* the manifest, [uuid, upper]: its UUID, and whether it is written in     *)
(* anything but canonical lowercase; two texts may be one UUID.  A text    *)
(* field is "EMPTY", "BLANK" (spaces only), "LONG" (more than the columns  *)
(* of the database take) or anything else.  A decimal string is            *)
(* [negative, size, fits]; fits says that it has at most eight decimal     *)
(* places and twelve digits before them.                                   *)
(***************************************************************************)
EXTENDS Integers, Sequences, FiniteSets, Functions

LOCAL INSTANCE SequencesExt     \* ToSet

CONSTANTS
    PublishedTopic,   \* [key, version, stable, hash] of the global Studio bindings
    Absent            \* JSON null

\* Items, with their fields as the schema types them; a field of another type is
\* among the shape of SchemaDiagnostics.
StableId == [uuid : STRING, upper : BOOLEAN]
Decimal == [negative : BOOLEAN, size : Nat, fits : BOOLEAN]

NodeItem ==
    [id : StableId, code : STRING, label : STRING, parent : StableId \cup {Absent},
     order : Int, statement : STRING]
RoleItem ==
    [id : StableId, code : STRING, actor : StableId, element : StableId,
     role : {"PRIMARY", "SECONDARY", "AFFECTED", "INTERMEDIARY", "OBSERVER", "OTHER"},
     order : Int]
ParameterItem ==
    [id : StableId, code : STRING, name : STRING,
     type : {"DECIMAL", "INTEGER", "BOOLEAN", "TEXT", "JSON"}, target : STRING,
     minimum : Decimal \cup {Absent}, maximum : Decimal \cup {Absent},
     step : Decimal \cup {Absent}, statuses : Seq(STRING), actors : Seq(StableId),
     elements : Seq(StableId), roles : Seq(StableId), statement : STRING]
HelpItem ==
    [id : StableId, code : STRING, version : STRING, topicVersion : STRING,
     key : STRING, stable : STRING, hash : STRING]

Sections(m) == <<m.actors, m.elements, m.roles, m.parameters, m.help>>
AllItems(m) == m.actors \o m.elements \o m.roles \o m.parameters \o m.help

\* One field of every item of a section.
Column(items, field) == [i \in DOMAIN items |-> items[i][field]]
Ids(items) == ToSet(Column(items, "id"))

Amount(decimal) == IF decimal.negative THEN -decimal.size ELSE decimal.size

-----------------------------------------------------------------------------
(* The passes, each with the diagnostics it may report.                    *)

EnvelopeDiagnostics(m) ==
    {IF field = "format" THEN "FORMAT_UNSUPPORTED" ELSE "SCHEMA_VERSION_UNSUPPORTED" :
        field \in m.wrong}

\* m.shape holds what the schema says of fields that are not modelled.
SchemaDiagnostics(m) ==
    EnvelopeDiagnostics(m) \cup m.shape
    \cup {"FIELD_BLANK" : x \in {x \in ToSet(m.actors) \cup ToSet(m.elements) :
                                   x.label = "EMPTY"}}
    \cup {"FIELD_BLANK" : x \in {x \in ToSet(m.elements) \cup ToSet(m.parameters) :
                                   x.statement = "EMPTY"}}
    \cup {"FIELD_BLANK" : x \in {x \in ToSet(m.parameters) : x.name = "EMPTY"}}
    \cup {"FIELD_VALUE_INVALID" : x \in {x \in ToSet(m.parameters) : x.statuses = <<>>}}
    \cup {"FIELD_VALUE_INVALID" :
            x \in {x \in ToSet(m.actors) \cup ToSet(m.elements) \cup ToSet(m.roles) :
                     x.order < 0}}

ForbiddenKeys ==
    {"automatic_mean", "automatic_weights", "calculated_risk", "early_warning_score",
     "formula", "pow", "pow_sal", "prediction", "recommendation", "risk_score",
     "scalar_power", "total_power", "violence_probability"}

\* m.keys are the keys of the free metadata objects, trimmed, in lower case and
\* with the separators replaced.
ForbiddenDiagnostics(m) ==
    {"FORBIDDEN_AGGREGATE_IDENTITY" : k \in m.keys \cap ForbiddenKeys}

ProjectDiagnostics(m, project) ==
    IF m.project = project THEN {} ELSE {"PROJECT_IDENTITY_MISMATCH"}

\* Mutant: a code may come twice in a section.
IdentityDiagnosticsIdsOnly(m) ==
    IF IsInjective(Column(AllItems(m), "id")) THEN {} ELSE {"ID_DUPLICATE"}

\* Ids are unique in the manifest as texts, codes in their section.
IdentityDiagnostics(m) ==
    (IF IsInjective(Column(AllItems(m), "id")) THEN {} ELSE {"ID_DUPLICATE"})
    \cup (IF \A i \in DOMAIN Sections(m) : IsInjective(Column(Sections(m)[i], "code"))
          THEN {} ELSE {"CODE_DUPLICATE"})

\* Some of the items form a ring: each is a child of another one of them.
HasCycle(items) ==
    \E ring \in (SUBSET ToSet(items)) \ {{}} :
        \A x \in ring : x.parent # x.id /\ \E y \in ring : y.id = x.parent

HierarchyDiagnostics(items) ==
    {"SELF_PARENT_REFERENCE" : x \in {x \in ToSet(items) : x.parent = x.id}}
    \cup {"BROKEN_PARENT_REFERENCE" :
            x \in {x \in ToSet(items) : x.parent \notin Ids(items) \cup {Absent}}}
    \cup (IF IsInjective([i \in DOMAIN items |-> <<items[i].parent, items[i].order>>])
          THEN {} ELSE {"ORDER_DUPLICATE"})
    \cup (IF HasCycle(items) THEN {"HIERARCHY_CYCLE"} ELSE {})

\* What a parameter applies to, next to what it may name.
Applicability(m, parameter) ==
    {<<parameter.actors, Ids(m.actors)>>, <<parameter.elements, Ids(m.elements)>>,
     <<parameter.roles, Ids(m.roles)>>}

CrossReferenceDiagnostics(m) ==
    {"BROKEN_CROSS_REFERENCE" :
        x \in {x \in ToSet(m.roles) : \/ x.actor \notin Ids(m.actors)
                                      \/ x.element \notin Ids(m.elements)}}
    \cup (IF IsInjective([i \in DOMAIN m.roles |->
                            <<m.roles[i].actor, m.roles[i].element, m.roles[i].role>>])
          THEN {} ELSE {"CROSS_REFERENCE_DUPLICATE"})
    \cup UNION {UNION {(IF ToSet(a[1]) \subseteq a[2] THEN {} ELSE {"BROKEN_CROSS_REFERENCE"})
                       \cup (IF IsInjective(a[1]) THEN {} ELSE {"APPLICABILITY_INVALID"}) :
                          a \in Applicability(m, x)} : x \in ToSet(m.parameters)}

ScaleDiagnostics(m) ==
    {"SCALE_INVALID" :
        x \in {x \in ToSet(m.parameters) :
                 \/ /\ x.minimum # Absent /\ x.maximum # Absent
                    /\ Amount(x.minimum) > Amount(x.maximum)
                 \/ x.step # Absent /\ Amount(x.step) <= 0}}

ContentDiagnostics(m) ==
    {"FIELD_BLANK" : x \in {x \in ToSet(m.actors) \cup ToSet(m.elements) :
                              x.label \in {"EMPTY", "BLANK"}}}
    \cup {"REFERENCE_STATEMENT_REQUIRED" :
            x \in {x \in ToSet(m.elements) \cup ToSet(m.parameters) :
                     x.statement \in {"EMPTY", "BLANK"}}}
    \cup {"STATUS_INVALID" : x \in {x \in ToSet(m.parameters) : ~IsInjective(x.statuses)}}

\* The global Studio topic is looked up by key and version; what the binding
\* says of it is compared afterwards.
HelpDiagnostics(m) ==
    UNION {LET found == {t \in PublishedTopic : t.key = x.key /\ t.version = x.topicVersion}
           IN  {d \in {"HELP_TOPIC_VERSION_MISMATCH", "HELP_TOPIC_UNAVAILABLE",
                       "HELP_TOPIC_STABLE_KEY_MISMATCH", "HELP_TOPIC_HASH_MISMATCH"} :
                  \/ d = "HELP_TOPIC_VERSION_MISMATCH" /\ x.version # x.topicVersion
                  \/ d = "HELP_TOPIC_UNAVAILABLE" /\ found = {}
                  \/ /\ d = "HELP_TOPIC_STABLE_KEY_MISMATCH"
                     /\ \E t \in found : t.stable # x.stable
                  \/ /\ d = "HELP_TOPIC_HASH_MISMATCH"
                     /\ \E t \in found : t.hash # x.hash} : x \in ToSet(m.help)}
    \cup (IF IsInjective([i \in DOMAIN m.help |-> <<m.help[i].key, m.help[i].topicVersion>>])
          THEN {} ELSE {"HELP_BINDING_DUPLICATE"})

-----------------------------------------------------------------------------
Diagnostics(m, project) ==
    SchemaDiagnostics(m) \cup ForbiddenDiagnostics(m) \cup ProjectDiagnostics(m, project)
    \cup IdentityDiagnostics(m) \cup ScaleDiagnostics(m) \cup ContentDiagnostics(m)
    \cup HelpDiagnostics(m) \cup CrossReferenceDiagnostics(m)
    \cup HierarchyDiagnostics(m.actors) \cup HierarchyDiagnostics(m.elements)

DraftBlocking ==
    {"FIELD_BLANK", "FIELD_REQUIRED", "FIELD_TYPE_INVALID", "FIELD_UNEXPECTED",
     "FIELD_VALUE_INVALID", "FORMAT_UNSUPPORTED", "PROJECT_IDENTITY_MISMATCH",
     "SCHEMA_VERSION_UNSUPPORTED", "FORBIDDEN_AGGREGATE_IDENTITY"}

\* A draft may be incomplete, but never out of shape or another project's.
Storable(m, project) == Diagnostics(m, project) \cap DraftBlocking = {}
Valid(m, project) == Diagnostics(m, project) = {}
=============================================================================
