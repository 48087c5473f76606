------------------------- MODULE MCProjectPackages -------------------------
(***************************************************************************)
(* A package with a row of every section, about sixty that differ from it  *)
(* in a row or two, rivals for its identities, packages of the old format, *)
(* the seed, rows that only services write, callers who race for its       *)
(* Project, and every language tag of up to four subtags of eleven kinds.  *)
(***************************************************************************)
EXTENDS ProjectPackages, TLC

CONSTANTS P0, P1, P2, A0, A, B, N1, N2, I1, I2, S1, S2

S(n, size, form, digit) ==
    [name |-> n, size |-> size, form |-> form, digit |-> digit, case |-> "lower"]
RU == S("ru", 2, "alpha", FALSE)
EN == S("en", 2, "alpha", FALSE)
I == S("i", 1, "alpha", FALSE)
Kinds ==
    {RU, S("a", 1, "alpha", FALSE), S("x", 1, "alpha", FALSE), S("cmn", 3, "alpha", FALSE),
     S("latn", 4, "alpha", FALSE), S("419", 3, "digit", TRUE), S("1996", 4, "alnum", TRUE),
     S("rozaj", 5, "alpha", FALSE), I, S("", 0, "alnum", FALSE),
     S("abcdefghi", 9, "alpha", FALSE)}
Deepest == 4

MCGrandfathered == {<<I, S("rozaj", 5, "alpha", FALSE)>>}
UND == S("und", 3, "alpha", FALSE)
MCWord ==
    {[name |-> s.name, size |-> s.size, form |-> s.form, digit |-> s.digit] : s \in Kinds \cup {EN, UND}}
MCUnd == <<UND>>
MCRu == <<RU>>

Loud(s) == [s EXCEPT !.case = "upper"]

-----------------------------------------------------------------------------
(* Rows.                                                                   *)

R(section, n) == [section |-> section, id |-> n, code |-> n, fits |-> TRUE]
Slice(n, day) == R("time_slices", n) @@ [cutoff |-> day]
Version(n, v, current) == R("schema_versions", n) @@ [version |-> v, current |-> current]
Point(n, k) == R("tension_points", n) @@ [order |-> k]
Group(n, k) == R("participant_groups", n) @@ [order |-> k]
Relation(n, g, t) ==
    R("group_tension_relations", n) @@ [participant_group |-> g, tension_point |-> t]
Set(n, kind, long) == R("assessment_sets", n) @@ [kind |-> kind, long |-> long]
Definition(n, target, type, min, max) ==
    R("parameter_definitions", n) @@
    [upper |-> n, target_type |-> target, type |-> type, min |-> min, max |-> max]
Number(k) == [type |-> "NUMBER", n |-> k]
Text == [type |-> "TEXT", n |-> None]
Digits(k) == [type |-> "TEXT", n |-> k]
Known(v) ==
    [status |-> "PROVISIONAL", value |-> v, confidence |-> 1, range |-> <<>>, rationale |-> TRUE]
Unknown ==
    [status |-> "ABSENT", value |-> None, confidence |-> None, range |-> <<>>, rationale |-> FALSE]
Value(n, slice, set, definition, target, m) ==
    R("parameter_values", n) @@ m @@
    [time_slice |-> slice, assessment_set |-> set, definition |-> definition, target |-> target]
Source(n, published, accessed) ==
    R("evidence_sources", n) @@ [published |-> published, accessed |-> accessed]
Link(n, value, source) == R("evidence_links", n) @@ [parameter_value |-> value, source |-> source]
Strategy(n, version) == [R("calculation_strategies", n) EXCEPT !.code = "S"] @@ [version |-> version]
MCScenario(n, set, base) ==
    R("scenarios", n) @@ [assessment_set |-> set, base_assessment_set |-> base, time_slice |-> "t1"]
Override(n, definition, target, m) ==
    R("scenario_overrides", n) @@ m @@
    [scenario |-> "c1", definition |-> definition, target |-> target]
Lock(n, locked, ordinary) == R("project_lock", n) @@ [locked |-> locked, ordinary |-> ordinary]
Event(n, set, value, entity) ==
    R("audit_events", n) @@ [assessment_set |-> set, parameter_value |-> value, entity |-> entity]

G == <<"participant_groups", "g1">>
Pos == Definition("POS", "participant_groups", "NUMBER", -20, 20)
Note == Definition("note", "PROJECT", "TEXT", None, None)
V1 == Value("v1", "t1", "h1", "POS", G, Known(Number(5)))
V2 == Value("v2", "t1", "h1", "note", <<"PROJECT", P1>>, Unknown)
L1 == Link("l1", "v1", "s1")
E1 == Event("e1", "h1", "v1", G)
H1 == Set("h1", "HUMAN", {})
C1 == MCScenario("c1", "h2", "h1")
O1 == Override("o1", "POS", G, Known(Number(-10)))
T1 == Slice("t1", 1)

Full ==
    {T1, Version("m1", "1", TRUE), Point("p1", 1), Group("g1", 1), Relation("r1", "g1", "p1"),
     H1, Set("h2", "SCENARIO", {}), Pos, Note, V1, V2, Source("s1", 1, 2), L1,
     Strategy("x1", "1"), C1, O1, Lock("k1", TRUE, FALSE), E1}

File(id, code, t, rs) ==
    [format |-> "1.1", sealed |-> TRUE, project |-> [id |-> id, code |-> code, name |-> N1, fits |-> TRUE],
     tag |-> t, assignment |-> IF t = MCUnd THEN "LEGACY_UNKNOWN" ELSE "EXPLICIT", rows |-> rs]

Base == File(P1, A, MCRu, Full)
With(r) == [Base EXCEPT !.rows = @ \cup {r}]
Without(r) == [Base EXCEPT !.rows = @ \ {r}]
Swap(r, s) == [Base EXCEPT !.rows = (@ \ {r}) \cup {s}]

\* A text of a definition whose code is u in capitals.
Named(u, v) ==
    [Base EXCEPT !.rows = (@ \ {Note, V2}) \cup
        {[Note EXCEPT !.code = u, !.upper = u], Known(v) @@ V2, Link("l2", "v2", "s1")}]

-----------------------------------------------------------------------------
(* Packages.                                                               *)

\* What the checks of a package refuse, one reason each.
Refused ==
    {[Base EXCEPT !.sealed = FALSE], [Base EXCEPT !.tag = <<Loud(RU)>>],
     [Base EXCEPT !.assignment = "LEGACY_UNKNOWN"],
     With([T1 EXCEPT !.code = "t2"]), With([T1 EXCEPT !.id = "t2"]), With(Point("p2", 1)),
     With(Relation("r2", "g1", "p1")), With(Version("m2", "2", TRUE)), With(Link("l2", "v1", "s1")),
     With(Lock("k2", TRUE, FALSE)), With([V1 EXCEPT !.id = "v3", !.code = "v3"]),
     With(MCScenario("c2", "h2", "h1")), With([O1 EXCEPT !.id = "o2", !.code = "o2"]),
     Without(L1), Without(T1), Swap(C1, MCScenario("c1", "h1", "h1")),
     Swap(C1, MCScenario("c1", "h2", "h2")),
     Swap(L1, Link("l1", "v1", "t1")),
     Swap(V1, [V1 EXCEPT !.status = "DISPUTED"]), Swap(V1, [V1 EXCEPT !.confidence = 50]),
     Swap(V1, [V1 EXCEPT !.value = Text]), Swap(V1, [V1 EXCEPT !.value = Number(30)]),
     Swap(V1, [V1 EXCEPT !.range = <<5>>]), Swap(V1, [V1 EXCEPT !.range = <<6, 7>>]),
     Swap(V1, [V1 EXCEPT !.rationale = FALSE]), Swap(V1, [V1 EXCEPT !.target = <<"PROJECT", P1>>]),
     Swap(V2, [V2 EXCEPT !.confidence = 1]), Swap(V2, [V2 EXCEPT !.target = <<"PROJECT", P2>>]),
     Swap(Pos, [Pos EXCEPT !.min = 21]), Swap(Note, [Note EXCEPT !.min = 0]),
     Swap(Source("s1", 1, 2), Source("s1", 3, 2)), Swap(Lock("k1", TRUE, FALSE), Lock("k1", TRUE, TRUE)),
     Swap(E1, Event("e1", "h2", "v1", G)), Swap(E1, Event("e1", "h1", "v1", <<"PROJECT", P2>>)),
     Swap(E1, Event("e1", "h3", None, G))}

\* What they take: some of it the tables do not.
Accepted ==
    {With(Slice("t2", 1)), With(Version("m2", "1", FALSE)),
     With([Definition("pow", "PROJECT", "NUMBER", None, None) EXCEPT !.upper = "POW"]),
     With(Definition("AUTOMATIC_MEAN", "PROJECT", "TEXT", None, None)),
     [Base EXCEPT !.project.fits = FALSE],
     Swap(Source("s1", 1, 2), [Source("s1", 1, 2) EXCEPT !.fits = FALSE]),
     Swap(Point("p1", 1), [Point("p1", 1) EXCEPT !.fits = FALSE]),
     Swap(Note, [Note EXCEPT !.fits = FALSE]),
     Named("POSITION", Text), Named("POSITION", Digits(10)), Named("POSITION", Digits(11)),
     Named("SAL", Digits(-1)), Named("SALIENCE", Digits(0)), Named("SALIENCE", Digits(11)),
     Swap(V1, [V1 EXCEPT !.value = Number(15)]), Swap(H1, Set("h1", "HUMAN", {"code"})),
     With(Set("h3", "AI", {"name"})), With(Set("h3", "SCENARIO", {"code", "name"})),
     Swap(O1, [O1 EXCEPT !.value = Number(15)]), Swap(E1, Event("e1", None, "v1", G)),
     Swap(V1, [V1 EXCEPT !.range = <<5, 7>>]), Swap(Source("s1", 1, 2), Source("s1", None, 2)),
     File(P1, A, MCUnd, Full)}

\* Rivals for the UUID of the Project, its code, a row's UUID and a strategy.
Rivals ==
    {Base, File(P1, B, <<EN>>, {}), File(P2, A, <<EN>>, {}), File(P2, B, <<EN>>, {Point("p1", 1)}),
     File(P2, B, <<EN>>, {Strategy("x2", "1")}), File(P2, B, <<EN>>, {Strategy("x2", "2")})}

\* The old format knows no language.
Old(q) == [q EXCEPT !.format = "1.0", !.tag = None, !.assignment = None]
Olds ==
    {Old(File(P2, B, <<EN>>, {T1})), Old(File(P0, A0, <<EN>>, {T1})), Old(File(P0, A, <<EN>>, {T1}))}

MCPackage == Refused \cup Accepted \cup Rivals \cup Olds

\* The seed, and what services add to a workspace.
MCSeedRow ==
    {Slice("t8", 1), Point("p8", 1), Group("g8", 1), Relation("r8", "g8", "p8"),
     Set("h8", "HUMAN", {}), Definition("POS", "participant_groups", "NUMBER", -10, 10)}
MCTypedRow == {Slice("t9", 1), [Definition("POS9", "PROJECT", "NUMBER", -10, 10) EXCEPT !.code = "POS", !.upper = "POS"]}
MCOtherRow ==
    {Value("v9", "t1", "h2", "POS", G, Known(Number(5))),
     Value("v9", "t1", "h2", "POS", G, [Known(Number(5)) EXCEPT !.status = "DISPUTED"]),
     Value("v9", "t1", "h2", "POS", G, [Known(Number(5)) EXCEPT !.confidence = 50]),
     Value("v9", "t1", "h2", "POS", G, Unknown),
     Link("l9", "v9", "s1"), Slice("t7", 2), Slice("t7", 1), Point("p7", 2)}

-----------------------------------------------------------------------------
(* Calls.                                                                  *)

D(id, code, name, t, a) ==
    [id |-> id, code |-> code, name |-> name, tag |-> t, assignment |-> a]
C(op, by, ds) == [op |-> op, by |-> by, rows |-> ds]

MCCall ==
    {C("create", "id", {D(P1, A, N1, MCRu, None)}),
     C("create", "id", {D(P1, A, N1, <<EN>>, None), D(P2, B, N1, MCRu, None)}),
     C("create", "id", {D(P2, B, N1, MCUnd, None)}),
     C("create", "id", {D(P1, A, N1, <<EN>>, None), D(P2, A, N1, MCRu, None)}),
     C("get_or_create", "code", {D(P2, A, N1, <<Loud(EN)>>, None)}),
     C("get_or_create", "id", {D(P1, B, N1, <<EN>>, "LEGACY_UNKNOWN")}),
     C("update_or_create", "id", {D(P1, A, N2, <<Loud(RU)>>, "EXPLICIT")}),
     C("update_or_create", "code", {D(P2, B, N2, None, None)}),
     C("save", "id", {D(P1, A, N2, MCRu, "EXPLICIT")}),
     C("save", "id", {D(P1, A, N2, <<EN>>, "EXPLICIT")}),
     C("save", "id", {D(P1, B, N2, <<EN>>, "EXPLICIT")})}

-----------------------------------------------------------------------------
Quiet == PackageInit /\ TagInit
Resting == sessions = [s \in Session |-> None] /\ imports = [i \in Importer |-> None]

TypeTag ==
    /\ projects = {} /\ Resting /\ files = {}
    /\ (Len(typed) < Deepest /\ \E s \in Kinds : Spell(s)) \/ Clear
    /\ UNCHANGED <<languageVars, packageVars>>

MCNext == TypeTag \/ (typed = <<>> /\ PackageNext /\ UNCHANGED typed)
MCSpec == Quiet /\ [][MCNext]_<<languageVars, packageVars, typed>>

Processes == Permutations(Importer) \cup Permutations(Session)

\* Callers meet an importer over the rivals only; the seed meets importers; whoever
\* exports or adds a row meets nobody, and does so once.
FewAtOnce ==
    LET callers == {s \in Session : sessions[s] # None}
        importers == {i \in Importer : imports[i] # None}
        added == {x \in rows : x.row \in MCOtherRow}
    IN  /\ Cardinality(answers) <= 2
        /\ Cardinality(callers) + Cardinality(importers) <= 2
        /\ importers # {} \/ rows # {} =>
              /\ Cardinality(callers \cup answers) <= 1
              /\ \A p \in projects : p.name = N1 \/ answers # {}
        /\ {p \in projects : p.id = P0} # {} => callers \cup answers = {}
        /\ Cardinality(files) <= 1
        /\ files # {} =>
              /\ callers \cup answers \cup added = {}
              /\ \A i \in importers : imports[i] \in files
        /\ added # {} => Cardinality(added) = 1 /\ Resting /\ answers = {}
        /\ ({imports[i] : i \in importers} \cup imported) \cap Accepted # {} =>
              Cardinality(projects) + Cardinality(importers) = 1 /\ callers \cup answers = {}
=============================================================================
