----------------------------- MODULE ValueGuards -----------------------------
(***************************************************************************)
(* Every value that is present is explained, by its own confidence and     *)
(* rationale or by the header of the assessment that it is part of.  The   *)
(* models check this when they write a value; triggers do for whoever goes *)
(* past the models, and also when what explains a value is changed.        *)
(*                                                                         *)
(* A trigger looks at what is committed.  SQLite has one writer at a time; *)
(* on PostgreSQL statements that have been checked may both be open, and   *)
(* neither check has seen the other.  Here each transaction writes one row. *)
(*                                                                         *)
(* SQL answers true, false or null: a condition on a category that is not  *)
(* there is null, and so is its negation.  No row is taken for a condition *)
(* that is null, whether it would refuse a write or allow it.              *)
(***************************************************************************)
EXTENDS Integers

CONSTANTS
    Header,      \* assessments
    Definition,  \* of parameters, not those of a projection, which never change
    Value,       \* identities of values
    Context,     \* a workspace with one of its time slices and assessment sets
    Nothing,     \* no header, no row
    Lasting      \* the statements that others may overtake before they commit

VARIABLES
    dialect,      \* of the database
    guarded,      \* the triggers are installed
    headers,      \* the header of each assessment
    categorical,  \* the definitions whose code is POS or SAL
    values,       \* the row of each value, if it has one
    open,         \* statements that were checked and hold the lock of their row
    missed,       \* what was committed after an open statement was checked
    loose,        \* values whose ground may have changed past every check
    counted       \* a migration found all values explained and adds its triggers

rowVars == <<headers, categorical, values>>
valueVars == <<dialect, guarded, rowVars, open, missed, loose, counted>>

\* Categories per parameter: none, exactly those of POS and SAL, two of which one
\* is missing or null, or anything else.
Categories == {"none", "exact", "lacking", "bad"}
HeaderRow ==
    [context : Context, known : BOOLEAN, referenced : BOOLEAN, categories : Categories]
ValueRow ==
    [header : Header \cup {Nothing}, definition : Definition, context : Context,
     present : BOOLEAN, confident : BOOLEAN, rationale : {"", " ", "text"}]

\* A statement writes one row; code says whether the new one is POS or SAL.
Statement ==
    [table : {"value"}, row : Value, new : ValueRow \cup {Nothing}]
    \cup [table : {"header"}, row : Header, new : HeaderRow]
    \cup [table : {"definition"}, row : Definition, new : BOOLEAN]

ASSUME NothingAssumption == Nothing \notin Header \cup ValueRow
ASSUME LastingAssumption == Lasting \subseteq Statement

ValuesTypeOK ==
    /\ dialect \in {"sqlite", "postgresql"}
    /\ guarded \in BOOLEAN
    /\ headers \in [Header -> HeaderRow]
    /\ categorical \subseteq Definition
    /\ values \in [Value -> ValueRow \cup {Nothing}]
    /\ open \subseteq Statement
    /\ missed \subseteq open \X Value
    /\ loose \subseteq Value
    /\ counted \in BOOLEAN

-----------------------------------------------------------------------------
(* What explains a value.                                                  *)

Own(v) == v.confident /\ v.rationale = "text"

\* The header does, by its level and reference or by its categories.
ByLevel(h) == h.known /\ h.referenced
ByCategories(h, v, codes, categories) ==
    ~h.known /\ v.rationale = "text" /\ v.definition \in codes /\ h.categories \in categories
Inherits(h, v, codes, categories) ==
    h.context = v.context /\ (ByLevel(h) \/ ByCategories(h, v, codes, categories))

\* True, and true or null.
Explains(h, v, codes) == Inherits(h, v, codes, {"exact"})
MayExplain(h, v, codes) == Inherits(h, v, codes, {"exact", "lacking"})

-----------------------------------------------------------------------------
(* The triggers, and what a table demands of its rows without them.        *)

\* No metadata for what is absent; a header is enough for what is present.
ColumnsFit(v) ==
    IF v.present THEN (v.confident /\ v.rationale # "") \/ v.header # Nothing ELSE ~v.confident

\* EXISTS is never null.
InContext(v) == v.header # Nothing => headers[v.header].context = v.context
Inherited(v) == v.header # Nothing /\ Explains(headers[v.header], v, categorical)
ValueEnters(v) == InContext(v) /\ (v.present => Own(v) \/ Inherited(v))

\* But its condition may be, in a negation of what values inherit.
Depends(x, i) == values[x] # Nothing /\ values[x].header = i

\* Mutant: the new header need only be of the old workspace.
HeaderChangesAnywhere(i, h) ==
    \A x \in Value :
        Depends(x, i) /\ values[x].present /\ ~Own(values[x]) =>
            MayExplain(h, values[x], categorical)

HeaderChanges(i, h) ==
    \A x \in Value :
        Depends(x, i) =>
            /\ h.context = values[x].context
            /\ values[x].present => Own(values[x]) \/ MayExplain(h, values[x], categorical)

DefinitionChanges(d, codes) ==
    \A x \in Value :
        /\ values[x] # Nothing
        /\ values[x].definition = d
        /\ values[x].present
        => \/ Own(values[x])
           \/ /\ values[x].header # Nothing
              /\ MayExplain(headers[values[x].header], values[x], codes)

\* What is there when the triggers come.  SQLite asks with EXISTS.
Found(v) ==
    /\ InContext(v)
    /\ v.present =>
          \/ Own(v)
          \/ /\ v.header # Nothing
             /\ IF dialect = "sqlite" THEN Explains(headers[v.header], v, categorical)
                                     ELSE MayExplain(headers[v.header], v, categorical)

-----------------------------------------------------------------------------
(* Statements.                                                             *)

CodesAfter(s) == IF s.new THEN categorical \cup {s.row} ELSE categorical \ {s.row}

TriggersPass(s) ==
    /\ s.table = "value" /\ s.new # Nothing =>
          ColumnsFit(s.new) /\ (guarded => ValueEnters(s.new))
    /\ s.table = "header" /\ guarded => HeaderChanges(s.row, s.new)
    /\ s.table = "definition" /\ guarded => DefinitionChanges(s.row, CodesAfter(s))

\* Whoever writes the same row waits, and is checked thereafter.
Unlocked(s) == \A o \in open : o.table # s.table \/ o.row # s.row

\* What is said of a value hangs on its row, its header and its definition.
Grounds(s, v) ==
    /\ v # Nothing
    /\ \/ s.table = "header" /\ v.header = s.row
       \/ s.table = "definition" /\ v.definition = s.row
Touches(s, x) == IF s.table = "value" THEN x = s.row ELSE Grounds(s, values[x])
Touched(s) == {x \in Value : Touches(s, x)}

\* The other open statements were checked without it.
Overtakes(s) ==
    {p \in (open \ {s}) \X Value :
        \/ Touches(s, p[2])
        \/ p[1].table = "value" /\ p[1].row = p[2] /\ Grounds(s, p[1].new)}

\* The row is written and the values in unseen are loose; a value that is itself
\* written under a full check is not.
Apply(s, unseen) ==
    /\ values' = IF s.table = "value" THEN [values EXCEPT ![s.row] = s.new] ELSE values
    /\ headers' = IF s.table = "header" THEN [headers EXCEPT ![s.row] = s.new] ELSE headers
    /\ categorical' = IF s.table = "definition" THEN CodesAfter(s) ELSE categorical
    /\ open' = open \ {s}
    /\ missed' = {p \in missed : p[1] # s} \cup Overtakes(s)
    /\ loose' = IF guarded \/ counted
                THEN {x \in loose : s.table # "value" \/ x # s.row} \cup unseen
                ELSE {}
    /\ UNCHANGED <<dialect, guarded, counted>>

\* A transaction that nobody overtakes.
AtOnce(s) ==
    /\ Unlocked(s) /\ TriggersPass(s)
    /\ Apply(s, IF guarded THEN {} ELSE Touched(s))

LeaveOpen(s) ==
    /\ dialect = "postgresql" /\ s \in Lasting
    /\ Unlocked(s) /\ TriggersPass(s)
    /\ open' = open \cup {s}
    /\ UNCHANGED <<dialect, guarded, rowVars, missed, loose, counted>>

CommitOpen ==
    \E s \in open :
        Apply(s, {x \in Touched(s) : ~guarded \/ <<s, x>> \in missed})

AbortOpen ==
    /\ \E s \in open :
          /\ open' = open \ {s}
          /\ missed' = {p \in missed : p[1] # s}
    /\ UNCHANGED <<dialect, guarded, rowVars, loose, counted>>

-----------------------------------------------------------------------------
(* Direct SQL.                                                             *)

SqlValue ==
    \E x \in Value, v \in ValueRow \cup {Nothing} :
        LET s == [table |-> "value", row |-> x, new |-> v] IN AtOnce(s) \/ LeaveOpen(s)

SqlHeader ==
    \E i \in Header, h \in HeaderRow :
        LET s == [table |-> "header", row |-> i, new |-> h] IN AtOnce(s) \/ LeaveOpen(s)

SqlDefinition ==
    \E d \in Definition, code \in BOOLEAN :
        LET s == [table |-> "definition", row |-> d, new |-> code] IN AtOnce(s) \/ LeaveOpen(s)

\* A header or a definition that is deleted and inserted anew, or displaced by
\* REPLACE, is not updated: no trigger looks at the values, and keys that refer to
\* it are looked up at the end of the transaction.
SqlRecreate ==
    \/ \E i \in Header, h \in HeaderRow :
          LET s == [table |-> "header", row |-> i, new |-> h] IN
          Unlocked(s) /\ Apply(s, Touched(s))
    \/ \E d \in Definition, code \in BOOLEAN :
          LET s == [table |-> "definition", row |-> d, new |-> code] IN
          Unlocked(s) /\ Apply(s, Touched(s))

-----------------------------------------------------------------------------
(* The models.                                                             *)

\* Categories rule out a level, and a category must be that of the definition.
ModelInherits(v) ==
    /\ v.header # Nothing
    /\ LET h == headers[v.header]
       IN  \/ ByLevel(h)
           \/ h.categories = "exact" /\ v.definition \in categorical /\ v.rationale = "text"
ModelAccepts(v) ==
    /\ InContext(v)
    /\ v.header # Nothing =>
          \/ headers[v.header].categories = "none"
          \/ headers[v.header].categories = "exact" /\ ~headers[v.header].known
    /\ IF v.present THEN Own(v) \/ ModelInherits(v) ELSE ~v.confident

\* Values of assessments are revised by successors.
ModelValue ==
    \E x \in Value, v \in ValueRow :
        LET s == [table |-> "value", row |-> x, new |-> v] IN
        /\ values[x] = Nothing \/ v.header = Nothing
        /\ ModelAccepts(v)
        /\ AtOnce(s) \/ LeaveOpen(s)

-----------------------------------------------------------------------------
(* The migration.                                                          *)

AllFound == \A x \in Value : values[x] # Nothing => Found(values[x])

\* On SQLite one transaction looks at the rows and adds the triggers.
InstallGuards ==
    /\ dialect = "sqlite" /\ ~guarded
    /\ AllFound
    /\ guarded' = TRUE /\ loose' = {}
    /\ UNCHANGED <<dialect, rowVars, open, missed, counted>>

\* On PostgreSQL others go on writing after the look, unchecked, until the last
\* trigger is there, which waits for all who are writing.
CountValues ==
    /\ dialect = "postgresql" /\ ~guarded /\ ~counted
    /\ AllFound
    /\ counted' = TRUE /\ loose' = {}
    /\ UNCHANGED <<dialect, guarded, rowVars, open, missed>>

CompleteInstall ==
    /\ counted /\ open = {}
    /\ guarded' = TRUE /\ counted' = FALSE
    /\ UNCHANGED <<dialect, rowVars, open, missed, loose>>

AbandonInstall ==
    /\ counted
    /\ counted' = FALSE /\ loose' = {}
    /\ UNCHANGED <<dialect, guarded, rowVars, open, missed>>

DropGuards ==
    /\ guarded /\ open = {}
    /\ guarded' = FALSE /\ loose' = {}
    /\ UNCHANGED <<dialect, rowVars, open, missed, counted>>

ValuesInit ==
    /\ dialect \in {"sqlite", "postgresql"}
    /\ guarded = FALSE
    /\ headers \in [Header -> {[context |-> c, known |-> FALSE, referenced |-> FALSE,
                                categories |-> "none"] : c \in Context}]
    /\ categorical = {}
    /\ values = [x \in Value |-> Nothing]
    /\ open = {} /\ missed = {} /\ loose = {}
    /\ counted = FALSE

ValuesNext ==
    \/ SqlValue \/ SqlHeader \/ SqlDefinition \/ SqlRecreate
    \/ ModelValue \/ CommitOpen \/ AbortOpen
    \/ InstallGuards \/ CountValues \/ CompleteInstall \/ AbandonInstall \/ DropGuards

ValuesSpec == ValuesInit /\ [][ValuesNext]_valueVars

-----------------------------------------------------------------------------
(* While the triggers are installed a value agrees with its header and is    *)
(* explained if it is present, in whatever order the rows that explain it    *)
(* change, but for categories that lack one of the two, which no trigger     *)
(* refutes, and but for the values that are loose: their row and what        *)
(* explains it were written by transactions that overlapped, or what         *)
(* explains it was deleted and inserted anew, or they were written while the *)
(* triggers came, and they were not written again since.  And no trigger     *)
(* refuses a value that the models accept.                                   *)
ValuesHoldGround ==
    /\ guarded =>
          \A x \in Value \ loose :
             values[x] # Nothing =>
                /\ InContext(values[x])
                /\ values[x].present =>
                      \/ Own(values[x])
                      \/ /\ values[x].header # Nothing
                         /\ MayExplain(headers[values[x].header], values[x], categorical)
    /\ \A v \in ValueRow : ModelAccepts(v) => ValueEnters(v)

(* What the migration says of itself: the triggers make direct SQL and any   *)
(* path that bypasses the models obey the same rule.  Values that are loose  *)
(* are left aside: this is about what the triggers see.                      *)
ValuesAreExplained ==
    guarded =>
        \A x \in Value \ loose :
            values[x] # Nothing /\ values[x].present =>
                Own(values[x]) \/ Inherited(values[x])
=============================================================================
