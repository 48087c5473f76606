--------------------------- MODULE ProjectPackages ---------------------------
(***************************************************************************)
(* Project packages 1.0 and 1.1: import, upgrade and export of the legacy  *)
(* graph of a Project, next to callers that insert Projects, to the seed   *)
(* of the demonstration Project and to services that add rows of their     *)
(* own.                                                                    *)
(*                                                                         *)
(* A row is a record with its section, UUID, code and the fields that the  *)
(* checks read.  target and entity are pairs of a section and a UUID; what *)
(* was measured is a status with value, confidence, range and rationale,   *)
(* and n is the number that a value of any type reads as, or None.         *)
(* A package is sealed if its checksum fits its content.  What a column    *)
(* refuses of a field alone (a URL, a ninth decimal, an integer that is    *)
(* too large, a NUL) is in fits, of a row and of a Project; upper is a     *)
(* code in capitals, and long tells which of code and name of a set leave  *)
(* no room for what an import puts before them.                            *)
(***************************************************************************)
EXTENDS ProjectLanguages

CONSTANTS
    Importer,    \* processes that import
    Package,     \* the files they are given
    OtherRow,    \* rows that other services may add
    DemoId, DemoCode, Ru, DemoName,
    SeedRow,     \* the demonstration Project
    TypedRow     \* the slices and definitions of its typed workspace

VARIABLES
    rows,        \* all other tables: [project, at, row]
    imports,     \* Importer -> the package that passed its checks, or None
    imported,    \* packages that were imported (history)
    files        \* packages that were exported or upgraded

packageVars == <<rows, imports, imported, files>>

\* Field -> section of the row it names; some may be left empty.
Refers ==
    [schema_versions |-> {}, time_slices |-> {}, tension_points |-> {}, participant_groups |-> {},
     assessment_sets |-> {}, parameter_definitions |-> {}, evidence_sources |-> {},
     calculation_strategies |-> {}, project_lock |-> {},
     group_tension_relations |->
        {<<"participant_group", "participant_groups">>, <<"tension_point", "tension_points">>},
     parameter_values |->
        {<<"time_slice", "time_slices">>, <<"assessment_set", "assessment_sets">>,
         <<"definition", "parameter_definitions">>},
     evidence_links |->
        {<<"parameter_value", "parameter_values">>, <<"source", "evidence_sources">>},
     scenarios |->
        {<<"time_slice", "time_slices">>, <<"assessment_set", "assessment_sets">>,
         <<"base_assessment_set", "assessment_sets">>},
     scenario_overrides |->
        {<<"scenario", "scenarios">>, <<"definition", "parameter_definitions">>},
     audit_events |->
        {<<"assessment_set", "assessment_sets">>, <<"parameter_value", "parameter_values">>}]

Section == DOMAIN Refers

\* What only the tables have.
Outside == {"experiments", "legacy_receipts"}
Targets == {"PROJECT", "time_slices", "tension_points", "participant_groups",
            "group_tension_relations"}

\* Fields that no two rows of a package may share, besides id and code.
PackageKeys ==
  [section \in Section |->
    CASE section \in {"tension_points", "participant_groups"} -> {{"order"}}
      [] section = "group_tension_relations" -> {{"participant_group", "tension_point"}}
      [] section = "parameter_values" -> {{"time_slice", "assessment_set", "definition", "target"}}
      [] section = "evidence_links" -> {{"parameter_value", "source"}}
      [] section = "scenarios" -> {{"assessment_set"}}
      [] section = "scenario_overrides" -> {{"scenario", "definition", "target"}}
      [] section = "project_lock" -> {{"section"}}
      [] OTHER -> {}]

UniqueInPackage == [x \in Section |-> {{"id"}, {"code"}} \cup PackageKeys[x]]

\* Those of the tables, within a Project; two texts of a version are one there.
TableKeys ==
  [section \in Section \cup Outside |->
    CASE section = "time_slices" -> {{"code"}, {"cutoff"}}
      [] section = "schema_versions" -> {{"code"}, {"version"}}
      [] section = "calculation_strategies" -> {}
      [] section \in Outside -> {{"code"}}
      [] OTHER -> {{"code"}} \cup PackageKeys[section]]

Same(r, s, key) == \A f \in key : r[f] = s[f]
Of(rs, section) == {r \in rs : r.section = section}
Ids(rs, section) == {r.id : r \in Of(rs, section)}
Row(rs, section, id) == CHOOSE r \in Of(rs, section) : r.id = id

DistinctBy(rs, keys) ==
    \A r, s \in rs : r.section = s.section /\ r # s => \A key \in keys[r.section] : ~Same(r, s, key)

-----------------------------------------------------------------------------
(* A package on its own.                                                   *)

\* The pair of a Project, with its tag in the canonical spelling.
LanguagePair(tag, assignment) ==
    /\ tag # None /\ Canonical(tag) = tag
    /\ assignment = (IF tag = Und THEN "LEGACY_UNKNOWN" ELSE "EXPLICIT")

ScaleOK(d) ==
    /\ d.min # None /\ d.max # None => d.min <= d.max
    /\ d.type = "TEXT" => d.min = None /\ d.max = None

TypedValueOK(d, v) ==
    /\ v.type = d.type
    /\ v.type = "NUMBER" => (d.min # None => d.min <= v.n) /\ (d.max # None => v.n <= d.max)

RangeOK(d, m) ==
    /\ Len(m.range) # 1
    /\ m.range # <<>> /\ d.type = "NUMBER" => m.range[1] <= m.value.n /\ m.value.n <= m.range[2]

\* What is unknown has nothing else; what is known has all of it.
Measured(d, m, present, confidences) ==
    IF m.status \in present
    THEN /\ m.value # None /\ TypedValueOK(d, m.value)
         /\ m.confidence \in confidences /\ m.rationale
         /\ RangeOK(d, m)
    ELSE m.value = None /\ m.confidence = None /\ m.range = <<>>

HasTarget(q, t) ==
    IF t[1] = "PROJECT" THEN t[2] = q.project.id ELSE t[2] \in Ids(q.rows, t[1])

\* Mutant: fields are looked up among all rows.
ClosedAnywhere(q) ==
    \A r \in q.rows : \A ref \in Refers[r.section] :
       r[ref[1]] # None => \E s \in q.rows : s.id = r[ref[1]]

Closed(q) ==
    \A r \in q.rows : \A ref \in Refers[r.section] :
       IF r[ref[1]] = None THEN r.section = "audit_events" ELSE r[ref[1]] \in Ids(q.rows, ref[2])

MeasuredRows(rs) == Of(rs, "parameter_values") \cup Of(rs, "scenario_overrides")
DefinitionOf(rs, m) == Row(rs, "parameter_definitions", m.definition)

\* Confidence is a fraction here (one is 1); DISPUTED and RETROSPECTIVE_KNOWLEDGE
\* are no statuses of this format.
MeasurementsOK(q) ==
    \A m \in MeasuredRows(q.rows) :
       /\ m.status \in {"ABSENT", "PROVISIONAL"}
       /\ Measured(DefinitionOf(q.rows, m), m, {"PROVISIONAL"}, 0..1)
       /\ m.target[1] \in Targets
       /\ m.target[1] = DefinitionOf(q.rows, m).target_type
       /\ HasTarget(q, m.target)

LinksOK(q) ==
    \A m \in Of(q.rows, "parameter_values") :
       m.status = "PROVISIONAL" => \E l \in Of(q.rows, "evidence_links") : l.parameter_value = m.id

SourcesOK(rs) ==
    \A s \in Of(rs, "evidence_sources") :
       s.published # None /\ s.accessed # None => s.published <= s.accessed

ScenariosOK(rs, all) ==
    \A s \in Of(rs, "scenarios") :
       /\ Row(all, "assessment_sets", s.assessment_set).kind = "SCENARIO"
       /\ s.assessment_set # s.base_assessment_set

LockOK(rs) == \A l \in Of(rs, "project_lock") : l.locked => ~l.ordinary

\* An event about a value names the set of the value or none.
EventSetsOK(rs, all) ==
    \A e \in Of(rs, "audit_events") :
       e.assessment_set # None /\ e.parameter_value # None =>
          Row(all, "parameter_values", e.parameter_value).assessment_set = e.assessment_set

EventsOK(q) ==
    /\ EventSetsOK(q.rows, q.rows)
    /\ \A e \in Of(q.rows, "audit_events") : HasTarget(q, e.entity)

Valid(q) ==
    /\ q.sealed
    /\ q.format = "1.1" => LanguagePair(q.tag, q.assignment)
    /\ \A r \in q.rows : r.section \in Section
    /\ DistinctBy(q.rows, UniqueInPackage)
    /\ Cardinality({v \in Of(q.rows, "schema_versions") : v.current}) <= 1
    /\ Closed(q)
    /\ \A d \in Of(q.rows, "parameter_definitions") : d.target_type \in Targets /\ ScaleOK(d)
    /\ MeasurementsOK(q)
    /\ LinksOK(q)
    /\ SourcesOK(q.rows)
    /\ ScenariosOK(q.rows, q.rows)
    /\ LockOK(q.rows)
    /\ EventsOK(q)

\* The packages that clients have; the language of the demonstration Project is known.
ASSUME PackageAssumption ==
    /\ \A q \in Package :
          /\ DOMAIN q = {"format", "sealed", "project", "tag", "assignment", "rows"}
          /\ q.project \in [id : ProjectId, code : ProjectCode, name : ProjectName, fits : BOOLEAN]
          /\ q.tag \in {None} \cup Seq(Subtag)
    /\ DemoId \in ProjectId /\ DemoCode \in ProjectCode /\ DemoName \in ProjectName
    /\ Ru \in Seq(Subtag) /\ LanguagePair(Ru, "EXPLICIT")

\* A 1.0 package gets the pair it is told, and a new checksum.
Upgraded(q, tag, assignment) ==
    [q EXCEPT !.format = "1.1", !.tag = tag, !.assignment = assignment]

\* What an import works with; of the 1.0 packages only the demonstration Project's.
Normal(q) ==
    IF ~Valid(q) THEN None
    ELSE IF q.format = "1.1" THEN q
    ELSE IF q.project.id = DemoId /\ q.project.code = DemoCode THEN Upgraded(q, Ru, "EXPLICIT")
    ELSE None

-----------------------------------------------------------------------------
(* The tables.                                                             *)

\* What an import stores next to the rows of the package: an expert with an
\* Experiment for every set of a HUMAN or an AI, and a receipt for all that stays
\* outside the chain of evidence.
Companions(rs) ==
    {[section |-> "experiments", id |-> s.id, code |-> s.code] :
        s \in {x \in Of(rs, "assessment_sets") : x.kind \in {"HUMAN", "AI"}}}
    \cup {[section |-> "legacy_receipts", id |-> r.id, code |-> r.code] :
             r \in Of(rs, "evidence_sources") \cup Of(rs, "evidence_links")}

NewRows(q) ==
    {[project |-> q.project.id, at |-> "PACKAGE", row |-> r] : r \in q.rows \cup Companions(q.rows)}

RowsOf(stored, id) == {x.row : x \in {y \in stored : y.project = id}}

\* Parameters that would add up Power, in whatever case.
Reserved == {"TOTAL_POWER", "POW", "SCALAR_POWER", "AUTOMATIC_MEAN", "AUTOMATIC_WEIGHTS"}

\* The bounds that two parameters have by their names, for values of all types.
NamedBounds(d, v) ==
    v.n # None =>
       /\ d.upper \in {"POS", "POSITION"} => v.n \in -10..10
       /\ d.upper \in {"SAL", "SALIENCE"} => v.n \in 0..10

\* The foreign keys of a row.
Resolved(r, all) ==
    \A ref \in Refers[r.section] : r[ref[1]] # None => r[ref[1]] \in Ids(all, ref[2])

\* full_clean of every row, and its columns; here confidence is a percentage, and
\* more is known than a package can say.
Clean(rs, all) ==
    /\ \A r \in rs : r.fits
    /\ \A d \in Of(rs, "parameter_definitions") : ScaleOK(d) /\ d.upper \notin Reserved
    /\ \A m \in MeasuredRows(rs) :
          LET d == DefinitionOf(all, m) IN
          /\ m.target[1] = d.target_type
          /\ Measured(d, m, {"PROVISIONAL", "DISPUTED"}, 0..100)
          /\ m.section = "parameter_values" /\ m.value # None => NamedBounds(d, m.value)
    /\ SourcesOK(rs)
    /\ LockOK(rs)
    /\ ScenariosOK(rs, all)
    /\ EventSetsOK(rs, all)

\* The codes of an expert and of an Experiment are made of the set's, and so is the
\* name of the Experiment.
CompanionsFit(rs) ==
    \A s \in Of(rs, "assessment_sets") : s.kind \in {"HUMAN", "AI"} => s.long = {}

DistinctInTables(rs) ==
    /\ DistinctBy(rs, TableKeys)
    /\ Cardinality({v \in Of(rs, "schema_versions") : v.current}) <= 1

\* UUIDs are unique over all Projects, and so are the strategies with a version.
Taken(r, stored) ==
    \E x \in stored :
       /\ x.row.section = r.section
       /\ \/ x.row.id = r.id
          \/ r.section = "calculation_strategies" /\ x.row.code = r.code /\ x.row.version = r.version

Free(q, ps, stored) ==
    /\ \A p \in ps : p.id # q.project.id /\ p.code # q.project.code
    /\ \A r \in q.rows : ~Taken(r, stored)

\* Every INSERT succeeds.
Storable(q, ps, stored) ==
    /\ Free(q, ps, stored)
    /\ q.project.fits
    /\ \A r \in q.rows : Resolved(r, q.rows)
    /\ Clean(q.rows, q.rows)
    /\ CompanionsFit(q.rows)
    /\ DistinctInTables(q.rows)

ProjectRow(q) ==
    [id |-> q.project.id, code |-> q.project.code, name |-> q.project.name, tag |-> q.tag,
     assignment |-> q.assignment]

-----------------------------------------------------------------------------
(* Import.                                                                 *)

\* The file is validated and compared with the tables.
CheckImport(i, q) ==
    /\ imports[i] = None
    /\ Free(q, projects, rows)
    /\ Normal(q) # None
    /\ imports' = [imports EXCEPT ![i] = Normal(q)]
    /\ UNCHANGED <<languageVars, rows, imported, files>>

\* Mutant: what fits is stored, the rest is left out.
WriteImportInPart(i) ==
    LET q == imports[i] IN
    /\ q # None
    /\ imports' = [imports EXCEPT ![i] = None]
    /\ IF \A p \in projects : p.id # q.project.id /\ p.code # q.project.code
       THEN /\ projects' = projects \cup {ProjectRow(q)}
            /\ rows' = rows \cup {x \in NewRows(q) : ~Taken(x.row, rows)}
            /\ imported' = imported \cup {q}
       ELSE UNCHANGED <<projects, rows, imported>>
    /\ UNCHANGED <<sessions, answers, files>>

\* The rest of the transaction: all rows, or none if one of them is refused by its
\* model or by a constraint.
WriteImport(i) ==
    LET q == imports[i] IN
    /\ q # None
    /\ imports' = [imports EXCEPT ![i] = None]
    /\ IF Storable(q, projects, rows)
       THEN /\ projects' = projects \cup {ProjectRow(q)}
            /\ rows' = rows \cup NewRows(q)
            /\ imported' = imported \cup {q}
       ELSE UNCHANGED <<projects, rows, imported>>
    /\ UNCHANGED <<sessions, answers, files>>

\* The owner of a 1.0 package tells its language.
Upgrade(q, tag, assignment) ==
    /\ q.format = "1.0"
    /\ Valid(q)
    /\ LanguagePair(tag, assignment)
    /\ files' = files \cup {Upgraded(q, tag, assignment)}
    /\ UNCHANGED <<languageVars, rows, imports, imported>>

-----------------------------------------------------------------------------
(* Export.                                                                 *)

WorkspaceSections == {"time_slices", "assessment_sets", "parameter_values", "audit_events"}

Typed(id) == {x.row : x \in {y \in rows : y.project = id /\ y.at = "TYPED"}}

\* Next to a typed workspace the legacy one is exported, with its own definitions.
InScope(x) ==
    /\ x.row.section \in Section
    /\ Typed(x.project) # {} =>
          /\ x.row.section \in WorkspaceSections => x.at = "SEED"
          /\ x.row.section = "parameter_definitions" => x.at # "TYPED"

\* What the typed workspace must hold, no more and no less.
Verified(id) ==
    Typed(id) # {} =>
       /\ Typed(id) = TypedRow
       /\ \A p \in projects : p.id = id => p.code = DemoCode /\ p.tag = Ru

Payload(p) ==
    [format |-> "1.1", sealed |-> TRUE,
     project |-> [id |-> p.id, code |-> p.code, name |-> p.name, fits |-> TRUE],
     tag |-> p.tag, assignment |-> p.assignment,
     rows |-> {x.row : x \in {y \in rows : y.project = p.id /\ InScope(y)}}]

\* Mutant: the package is not validated before it is given out.
ExportUnchecked(p) ==
    /\ p \in projects
    /\ Verified(p.id)
    /\ files' = files \cup {Payload(p)}
    /\ UNCHANGED <<languageVars, rows, imports, imported>>

Export(p) ==
    /\ p \in projects
    /\ Verified(p.id)
    /\ Valid(Payload(p))
    /\ files' = files \cup {Payload(p)}
    /\ UNCHANGED <<languageVars, rows, imports, imported>>

-----------------------------------------------------------------------------
(* Others who write.                                                       *)

\* A service adds a row to a workspace of a Project.
AddRow(p, at, r) ==
    LET own == RowsOf(rows, p.id) \cup {r} IN
    /\ p \in projects
    /\ \E x \in rows : x.project = p.id /\ x.at = at
    /\ ~Taken(r, rows)
    /\ Resolved(r, own)
    /\ \A m \in MeasuredRows({r}) : HasTarget([project |-> p, rows |-> own], m.target)
    /\ Clean({r}, own)
    /\ DistinctInTables({x.row : x \in {y \in rows : y.project = p.id /\ y.at = at}} \cup {r})
    /\ rows' = rows \cup {[project |-> p.id, at |-> at, row |-> r]}
    /\ UNCHANGED <<languageVars, imports, imported, files>>

\* The sections whose members the seed knows.
SeededSections ==
    {"time_slices", "tension_points", "participant_groups", "group_tension_relations",
     "assessment_sets", "parameter_definitions"}

\* The first run of the seed inserts everything; a later one finds everything as
\* it was, or refuses.  An imported Project has a workspace of its own.
Seed ==
    /\ IF \E p \in projects : p.id = DemoId
       THEN /\ \E p \in projects : p.id = DemoId /\ p.code = DemoCode /\ p.tag = Ru
            /\ \A x \in rows : x.project = DemoId => x.at # "PACKAGE"
            /\ \A section \in SeededSections :
                  {x.row.code : x \in {y \in rows : y.project = DemoId /\ y.at = "SEED"
                                                      /\ y.row.section = section}}
                  = {r.code : r \in Of(SeedRow, section)}
            /\ Verified(DemoId)
            /\ Typed(DemoId) # {}
       ELSE /\ \A p \in projects : p.code # DemoCode
            /\ \A r \in SeedRow \cup TypedRow : ~Taken(r, rows)
    /\ projects' = {p \in projects : p.id # DemoId} \cup
          {[id |-> DemoId, code |-> DemoCode, name |-> DemoName, tag |-> Ru, assignment |-> "EXPLICIT"]}
    /\ rows' = rows \cup {[project |-> DemoId, at |-> "SEED", row |-> r] : r \in SeedRow}
                    \cup {[project |-> DemoId, at |-> "TYPED", row |-> r] : r \in TypedRow}
    /\ UNCHANGED <<sessions, answers, imports, imported, files>>

PackageInit ==
    /\ LanguageInit
    /\ rows = {}
    /\ imports = [i \in Importer |-> None]
    /\ imported = {}
    /\ files = {}

PackageNext ==
    \/ LanguageNext /\ UNCHANGED packageVars
    \/ \E i \in Importer :
          \/ \E q \in Package \cup files : CheckImport(i, q)
          \/ WriteImport(i)
    \/ \E q \in Package, tag \in {Und, Ru} : \E a \in Assignment : Upgrade(q, tag, a)
    \/ \E p \in projects :
          \/ Export(p)
          \/ \E at \in {"PACKAGE", "SEED", "TYPED"}, r \in OtherRow : AddRow(p, at, r)
    \/ Seed

PackageSpec == PackageInit /\ [][PackageNext]_<<languageVars, packageVars>>

-----------------------------------------------------------------------------
(* Properties.                                                             *)

\* What the models and the columns ask and the checks of a package do not.
Gap(q) ==
    \/ ~q.project.fits \/ \E r \in q.rows : ~r.fits
    \/ \E s, t \in Of(q.rows, "time_slices") : s # t /\ s.cutoff = t.cutoff
    \/ \E s, t \in Of(q.rows, "schema_versions") : s # t /\ s.version = t.version
    \/ \E d \in Of(q.rows, "parameter_definitions") : d.upper \in Reserved
    \/ \E m \in Of(q.rows, "parameter_values") :
          m.value # None /\ ~NamedBounds(DefinitionOf(q.rows, m), m.value)
    \/ ~CompanionsFit(q.rows)

\* Between its checks and its writes an import may be overtaken.  What the checks say
\* of all that relates two rows or two fields is what the models and the tables say,
\* in every state of the other Projects: it is refused only if somebody took one of
\* its identities meanwhile, or for what is in Gap: two slices of one date, two
\* schemas of one version, a name for Power, a position or a salience out of its
\* scale, a set whose companions would be too long, a field its column refuses.
ChecksPredictWrites ==
    \A i \in Importer : imports[i] # None =>
       (Storable(imports[i], projects, rows) <=> Free(imports[i], projects, rows) /\ ~Gap(imports[i]))

\* A Project that was imported has all rows of its package with their companions,
\* and as long as nobody adds one it is exported as it came; no row is without its
\* Project.
ImportsComeBack ==
    /\ \A q \in imported : \E p \in projects :
          /\ p.id = q.project.id /\ p.tag = q.tag /\ p.assignment = q.assignment
          /\ NewRows(q) \subseteq rows
          /\ NewRows(q) = {x \in rows : x.project = p.id} => Payload(p).rows = q.rows /\ Valid(Payload(p))
    /\ \A x \in rows : \E p \in projects : p.id = x.project

\* A file that was exported or upgraded passes the checks of an import; an empty
\* database takes it but for what is in Gap, which a file has that was upgraded from
\* such a package, and one exported from a Project whose sets have long codes or
\* names; a Project so imported is exported to the same rows.
FilesAreGood ==
    \A f \in files :
       /\ Valid(f) /\ Normal(f) = f
       /\ Storable(f, {}, {}) <=> ~Gap(f)
       /\ {x.row : x \in {y \in NewRows(f) : y.row.section \in Section}} = f.rows
=============================================================================
