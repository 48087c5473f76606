-------------------------- MODULE ManifestProjection --------------------------
(***************************************************************************)
(* The assessment rows of a workspace, made from the manifest that the     *)
(* workspace pins: actors, analytical elements and their roles once per    *)
(* workspace, parameter definitions once per definition, with the receipt  *)
(* that proves them; the cells that then take values; and the 2.2 package  *)
(* that carries a proven projection.                                       *)
(*                                                                         *)
(* PlayerWorkspaces.tla takes a projection for one value, the manifest.    *)
(* Here manifests have a content, which FD01 validates before publication  *)
(* and the columns of the database constrain when the rows are written.    *)
(* A SHA-256 of a value is the value.                                      *)
(***************************************************************************)
EXTENDS DefinitionLifecycle, ManifestValidation

CONSTANTS
    Content,         \* Manifest -> what is written in it
    OrderLimit,      \* the largest number an order column takes
    Creation,        \* [key, actor, workspace, definition]: requests for a workspace
    Projecting,      \* [key, actor, workspace]: calls of the standalone projection
    Legacy           \* [id, workspace, family, code]: rows that 2.0 packages bring

LOCAL INSTANCE SequencesExt    \* ToSet

ASSUME ContentAssumption ==
    /\ Absent = None
    /\ DOMAIN Content = Manifest
    /\ \A m \in Manifest :
          /\ Content[m].actors \in Seq(NodeItem) /\ Content[m].elements \in Seq(NodeItem)
          /\ Content[m].roles \in Seq(RoleItem) /\ Content[m].parameters \in Seq(ParameterItem)
          /\ Content[m].help \in Seq(HelpItem)
    /\ ValidManifest = {m \in Manifest : Valid(Content[m], Content[m].project)}

\* The families of rows that a workspace has of its own.
Family == {"ACTOR", "ANALYTICAL_ELEMENT", "ACTOR_ELEMENT_ROLE"}

\* Absent is neither a text, an id nor a number, nor the id of a row.
ASSUME AbsentAssumption ==
    Absent \notin STRING \cup StableId \cup Decimal \cup (Workspace \X Family \X STRING)

\* Rows of 2.0 packages have ids of their own.
ASSUME LegacyAssumption ==
    \A x \in Legacy : x.family \in Family /\ x.id \notin Workspace \X Family \X STRING

ASSUME CreationAssumption ==
    \A q \in Creation : q.workspace \in Workspace /\ q.definition \in Definition

VARIABLES
    derived,      \* Workspace -> pin of a workspace made for the Player, or None
    rows,         \* Actor, AnalyticalElement and ActorElementRole rows
    parameters,   \* definition-bound ParameterDefinition rows
    proofs,       \* projection receipts
    completed,    \* Workspace -> the projection it is COMPLETE with, or None
    packages      \* the 2.2 packages exported so far

projectionvars == <<derived, rows, parameters, proofs, completed, packages>>
allvars == <<dbvars, projectionvars>>

-----------------------------------------------------------------------------
(* What a workspace should hold.                                           *)

Pinned == {w \in Workspace : workspaces[w] # None \/ derived[w] # None}

\* Mutant: a workspace follows the current definition of its project.
PinOfCurrent(w) ==
    LET pin == IF workspaces[w] # None THEN workspaces[w] ELSE derived[w]
        d == HeadOf(pin.project)
    IN  [pin EXCEPT !.definition = d, !.manifest = definitions[d].manifest]

PinOf(w) == IF workspaces[w] # None THEN workspaces[w] ELSE derived[w]

SectionOf(m, family) ==
    CASE family = "ACTOR"              -> m.actors
      [] family = "ANALYTICAL_ELEMENT" -> m.elements
      [] family = "ACTOR_ELEMENT_ROLE" -> m.roles

\* What a parameter applies to in one family.
ApplyingTo(parameter, family) ==
    CASE family = "ACTOR"              -> parameter.actors
      [] family = "ANALYTICAL_ELEMENT" -> parameter.elements
      [] family = "ACTOR_ELEMENT_ROLE" -> parameter.roles

\* uuid5 of the workspace, the family and the source; None for no reference.
DerivedId(w, family, id) == IF id = None THEN None ELSE <<w, family, id.uuid>>

SourceOf(id) == IF id = None THEN None ELSE id.uuid

\* The columns of a row, and the source ids of the rows that it refers to.
Item(w, family, x, parent, actor, element) ==
    [row |-> [id |-> DerivedId(w, family, x.id), workspace |-> w, family |-> family,
              source |-> x.id.uuid, code |-> x.code, order |-> x.order,
              parent |-> DerivedId(w, family, parent),
              actor |-> DerivedId(w, "ACTOR", actor),
              element |-> DerivedId(w, "ANALYTICAL_ELEMENT", element),
              text |-> IF family = "ACTOR_ELEMENT_ROLE" THEN x.role ELSE x.label],
     refers |-> <<SourceOf(parent), SourceOf(actor), SourceOf(element)>>]

ExpectedItems(w, pin) ==
    LET m == Content[pin.manifest] IN
    {Item(w, "ACTOR", x, x.parent, None, None) : x \in ToSet(m.actors)}
    \cup {Item(w, "ANALYTICAL_ELEMENT", x, x.parent, None, None) : x \in ToSet(m.elements)}
    \cup {Item(w, "ACTOR_ELEMENT_ROLE", x, None, x.actor, x.element) : x \in ToSet(m.roles)}

ExpectedParameters(pin) ==
    {[id |-> <<pin.definition, "PARAMETER", x.id.uuid>>, definition |-> pin.definition,
      source |-> x.id.uuid, snapshot |-> [x EXCEPT !.id = None]] :
        x \in ToSet(Content[pin.manifest].parameters)}

\* The definition still has the bytes of the pin, and every id of the projected
\* sections is canonical lowercase text.
Derivable(pin) ==
    /\ definitions[pin.definition].status = "PUBLISHED"
    /\ definitions[pin.definition].manifest = pin.manifest
    /\ \A section \in 1..4 :
          \A id \in Ids(Sections(Content[pin.manifest])[section]) : ~id.upper

Projection(w, pin) ==
    [pin |-> pin, items |-> ExpectedItems(w, pin), parameters |-> ExpectedParameters(pin)]

-----------------------------------------------------------------------------
(* What it holds.                                                          *)

CanonicalRows(w) == {r \in rows : r.workspace = w /\ r.source # None}
SourceOfRow(w, id) ==
    IF \E r \in CanonicalRows(w) : r.id = id
    THEN (CHOOSE r \in CanonicalRows(w) : r.id = id).source
    ELSE None

\* The references are read back from the rows and not from the manifest.
ActualItems(w) ==
    {[row |-> r, refers |-> <<SourceOfRow(w, r.parent), SourceOfRow(w, r.actor),
                              SourceOfRow(w, r.element)>>] : r \in CanonicalRows(w)}
ActualParameters(d) == {p \in parameters : p.definition = d}

ProofsOf(w) == {e \in proofs : e.workspace = w}

\* verify_workspace_assessment_projection
Verification(w) ==
    LET expected == Projection(w, PinOf(w)) IN
    IF ~Derivable(PinOf(w)) THEN "INTEGRITY_CONFLICT"
    ELSE IF Cardinality(ProofsOf(w)) # 1
         THEN IF ProofsOf(w) # {} \/ CanonicalRows(w) # {} \/ completed[w] # None
              THEN "INTEGRITY_CONFLICT" ELSE "NOT_PROVEN"
    ELSE IF /\ \A e \in ProofsOf(w) : e.projection = expected
            /\ ActualItems(w) = expected.items
            /\ ActualParameters(PinOf(w).definition) = expected.parameters
            /\ completed[w] = expected
         THEN "COMPLETE"
    ELSE "INTEGRITY_CONFLICT"

-----------------------------------------------------------------------------
(* What the database takes.                                                *)

\* A decimal column has one zero.
Column8(decimal) ==
    IF decimal = None THEN None
    ELSE [decimal EXCEPT !.negative = @ /\ decimal.size > 0]

StoredParameter(p) ==
    LET x == p.snapshot IN
    [p EXCEPT !.snapshot = [x EXCEPT !.minimum = Column8(x.minimum),
                                     !.maximum = Column8(x.maximum),
                                     !.step = Column8(x.step)]]

ScalarPowerCodes ==
    {"TOTAL_POWER", "POW", "SCALAR_POWER", "AUTOMATIC_MEAN", "AUTOMATIC_WEIGHTS"}

RowTaken(row) == row.text # "LONG" /\ row.order <= OrderLimit

\* ParameterDefinition.clean and its columns: a step alone needs no numeric type.
ParameterTaken(p) ==
    LET x == p.snapshot IN
    /\ x.name # "LONG"
    /\ x.code \notin ScalarPowerCodes
    /\ x.statuses # <<>>
    /\ \A decimal \in {x.minimum, x.maximum, x.step} \ {None} : decimal.fits
    /\ None \notin {x.minimum, x.maximum} => Amount(x.minimum) <= Amount(x.maximum)
    /\ x.type \notin {"DECIMAL", "INTEGER"} => {x.minimum, x.maximum} = {None}

\* The unique constraints of the three tables.
Collide(x, y) ==
    \/ x.id = y.id
    \/ /\ x.family = y.family /\ x.workspace = y.workspace
       /\ \/ x.code = y.code
          \/ x.source # None /\ x.source = y.source
          \/ /\ x.family = "ACTOR_ELEMENT_ROLE"
             /\ x.actor = y.actor /\ x.element = y.element /\ x.text = y.text

ParametersCollide(x, y) ==
    x.definition = y.definition /\ (x.snapshot.code = y.snapshot.code \/ x.source = y.source)

\* _create_ordered_tree comes to an end: no rows wait for one another.
Orderable(new) ==
    \A waiting \in (SUBSET {r \in new : r.parent # None}) \ {{}} :
        \E r \in waiting : r.parent \notin {x.id : x \in waiting}

\* Parents, actors and elements are rows of the same workspace.
ReferencesKept(new) ==
    \A r \in new : \A id \in {r.parent, r.actor, r.element} \ {None} :
        id \in {x.id : x \in new}

RowsInsertable(w, pin) ==
    LET m == Content[pin.manifest]
        new == {x.row : x \in ExpectedItems(w, pin)}
    IN  /\ Cardinality(new) = Len(m.actors) + Len(m.elements) + Len(m.roles)
        /\ Orderable(new) /\ ReferencesKept(new)
        /\ \A r \in new : RowTaken(r) /\ \A s \in (new \ {r}) \cup rows : ~Collide(r, s)

ParametersInsertable(pin) ==
    LET new == ExpectedParameters(pin) IN
    /\ Cardinality(new) = Len(Content[pin.manifest].parameters)
    /\ \A p \in new : ParameterTaken(p) /\ \A q \in new \ {p} : ~ParametersCollide(p, q)

\* Parameter rows of the definition are shared, once the sole receipt of
\* another workspace proves them.
ProvenBySibling(w, pin) ==
    \E v \in Pinned \ {w} :
        /\ PinOf(v).definition = pin.definition
        /\ Derivable(PinOf(v))
        /\ ExpectedParameters(PinOf(v)) = ExpectedParameters(pin)
        /\ \E e \in proofs : ProofsOf(v) = {e} /\ e.projection = Projection(v, PinOf(v))

ParametersUsable(w, pin) ==
    LET actual == ActualParameters(pin.definition) IN
    IF actual = {} THEN ParametersInsertable(pin)
    ELSE actual = ExpectedParameters(pin) /\ ProvenBySibling(w, pin)

\* The first projection of w under the pin succeeds.
Materializable(w, pin) ==
    /\ Derivable(pin)
    /\ ProofsOf(w) = {} /\ completed[w] = None /\ CanonicalRows(w) = {}
    /\ ParametersUsable(w, pin)
    /\ RowsInsertable(w, pin)

\* Rows, the status and the receipt are written in one transaction; parameter
\* rows only when the definition has none.
Materialize(w, pin, contract, q) ==
    /\ rows' = rows \cup {x.row : x \in ExpectedItems(w, pin)}
    /\ parameters' = IF ActualParameters(pin.definition) = {}
                     THEN parameters \cup {StoredParameter(p) : p \in ExpectedParameters(pin)}
                     ELSE parameters
    /\ completed' = [completed EXCEPT ![w] = Projection(w, pin)]
    /\ proofs' = proofs \cup {[workspace |-> w, contract |-> contract, key |-> q.key,
                                actor |-> q.actor, projection |-> Projection(w, pin)]}

-----------------------------------------------------------------------------
(* Operations.                                                             *)

\* The audit events whose primary key is an operation UUID of a client.
KeyBound(k) ==
    \E e \in receipts \cup {e \in proofs : e.contract = "WORKSPACE_CREATE"} : e.key = k

\* The standalone contract: the operation UUID is not the receipt's own.
ProjectWorkspace(q) ==
    /\ q.workspace \in Pinned
    /\ Materializable(q.workspace, PinOf(q.workspace))
    /\ Materialize(q.workspace, PinOf(q.workspace), "STANDALONE", q)
    /\ UNCHANGED <<dbvars, derived, packages>>

\* The combined contract: the workspace and its projection in one transaction.
\* PlayerWorkspaces.tla has the other checks of the creation.
CreateWorkspaceFor(q) ==
    /\ Exists(q.definition) /\ definitions[q.definition].status = "PUBLISHED"
    /\ q.workspace \notin Pinned
    /\ ~KeyBound(q.key)
    /\ LET pin == [project |-> definitions[q.definition].project,
                   definition |-> q.definition,
                   manifest |-> definitions[q.definition].manifest]
       IN  /\ Materializable(q.workspace, pin)
           /\ Materialize(q.workspace, pin, "WORKSPACE_CREATE", q)
           /\ derived' = [derived EXCEPT ![q.workspace] = pin]
    /\ UNCHANGED <<dbvars, packages>>

\* A 2.0 package brings rows of its own, without a source in the manifest.
ImportLegacy(x) ==
    /\ x.workspace \in Pinned
    /\ definitions[PinOf(x.workspace).definition].manifest = PinOf(x.workspace).manifest
    /\ LET row == [id |-> x.id, workspace |-> x.workspace, family |-> x.family,
                   source |-> None, code |-> x.code, order |-> 0, parent |-> None,
                   actor |-> None, element |-> None, text |-> "label"]
       IN  /\ \A r \in rows : ~Collide(row, r)
           /\ rows' = rows \cup {row}
    /\ UNCHANGED <<dbvars, derived, parameters, proofs, completed, packages>>

\* On the wire a row has its references as source ids only.
Wire(item) ==
    [id |-> item.row.id, family |-> item.row.family, source |-> item.row.source,
     code |-> item.row.code, order |-> item.row.order, text |-> item.row.text,
     refers |-> item.refers]

PackageOf(w, receipt) ==
    [workspace |-> w, pin |-> PinOf(w), receipt |-> receipt,
     items |-> {Wire(x) : x \in ExpectedItems(w, PinOf(w))},
     parameters |-> ExpectedParameters(PinOf(w))]

\* A package is complete in itself: its rows and its receipt are what its own
\* manifest gives for its own workspace, under the standalone contract.
Sealed(x) ==
    /\ x.items = {Wire(i) : i \in ExpectedItems(x.workspace, x.pin)}
    /\ x.parameters = ExpectedParameters(x.pin)
    /\ x.receipt.contract = "STANDALONE"
    /\ x.receipt.workspace = x.workspace
    /\ x.receipt.projection = Projection(x.workspace, x.pin)

Exportable(w, receipt) ==
    /\ Verification(w) = "COMPLETE"
    /\ ProofsOf(w) = {receipt}
    /\ Sealed(PackageOf(w, receipt))

ExportPackage(w) ==
    \E receipt \in proofs :
        /\ Exportable(w, receipt)
        /\ packages' = packages \cup {PackageOf(w, receipt)}
        /\ UNCHANGED <<dbvars, derived, rows, parameters, proofs, completed>>

\* Reconciliation compares and never repairs.
Reconciles(x, w) ==
    /\ Sealed(x)
    /\ x.workspace = w /\ x.pin = PinOf(w)
    /\ \E receipt \in proofs : Exportable(w, receipt) /\ x = PackageOf(w, receipt)

-----------------------------------------------------------------------------
(* Cells.  A value needs a TimeSlice, which a typed workspace only gets    *)
(* once its projection is COMPLETE.                                        *)

SamePin(w, p) ==
    /\ PinOf(w).definition = p.definition
    /\ PinOf(w).manifest = definitions[p.definition].manifest

\* The sources that the snapshot of p applies to, as UUIDs.
AppliesTo(p, family) == {id.uuid : id \in ToSet(ApplyingTo(p.snapshot, family))}

\* Mutant: the workspace of the target is not compared.
TargetAdmittedAnywhere(w, p, r) ==
    /\ p.snapshot.target = r.family
    /\ SamePin(w, p)
    /\ r.source # None /\ r.source \in AppliesTo(p, r.family)

TargetAdmitted(w, p, r) ==
    /\ p.snapshot.target = r.family
    /\ SamePin(w, p)
    /\ r.workspace = w
    /\ r.source # None /\ r.source \in AppliesTo(p, r.family)

\* An assessment of an actor and an element of w.
AssessmentAdmitted(w, p, actor, element) ==
    /\ p.snapshot.target = "ACTOR_ELEMENT_ASSESSMENT"
    /\ SamePin(w, p)
    /\ actor.workspace = w /\ element.workspace = w
    /\ actor.source # None /\ actor.source \in AppliesTo(p, "ACTOR")
    /\ element.source # None /\ element.source \in AppliesTo(p, "ANALYTICAL_ELEMENT")
    /\ \E r \in CanonicalRows(w) :
          /\ r.family = "ACTOR_ELEMENT_ROLE" /\ r.actor = actor.id /\ r.element = element.id
          /\ r.source \in AppliesTo(p, "ACTOR_ELEMENT_ROLE")

-----------------------------------------------------------------------------
(* The composition with the lifecycle.                                     *)

\* What a draft says of its project is compared with the project's row.
StoredFor(r) ==
    r.manifest # None =>
    Storable(Content[r.manifest],
             [id |-> r.project,
              code |-> IF r.op = "BOOTSTRAP_DRAFT" THEN r.projectCode
                       ELSE projects[r.project]])

StudioStep(r) ==
    /\ Operation(r)
    /\ StoredFor(r)
    /\ r.op \in WriteOp => ~KeyBound(r.key)
    /\ r.op = "INITIAL" => derived[r.workspace] = None
    /\ UNCHANGED projectionvars

ProjectionInit ==
    /\ LifecycleInit
    /\ derived = [w \in Workspace |-> None]
    /\ rows = {} /\ parameters = {} /\ proofs = {} /\ packages = {}
    /\ completed = [w \in Workspace |-> None]

ProjectionNext ==
    \/ \E r \in Request : StudioStep(r)
    \/ \E q \in Projecting : ProjectWorkspace(q)
    \/ \E q \in Creation : CreateWorkspaceFor(q)
    \/ \E x \in Legacy : ImportLegacy(x)
    \/ \E w \in Pinned : ExportPackage(w)

ProjectionSpec == ProjectionInit /\ [][ProjectionNext]_allvars

-----------------------------------------------------------------------------
(* Safety.                                                                 *)

\* What the columns ask of a manifest beyond what FD01 asks.
Representable(m) ==
    /\ \A section \in 1..4 : \A x \in ToSet(Sections(m)[section]) : ~x.id.upper
    /\ \A section \in 1..3 : \A x \in ToSet(Sections(m)[section]) : x.order <= OrderLimit
    /\ \A section \in 1..2 : \A x \in ToSet(Sections(m)[section]) : x.label # "LONG"
    /\ \A x \in ToSet(m.parameters) :
          /\ x.name # "LONG" /\ x.code \notin ScalarPowerCodes
          /\ \A decimal \in {x.minimum, x.maximum, x.step} \ {None} : decimal.fits
          /\ x.type \in {"BOOLEAN", "TEXT", "JSON"} => {x.minimum, x.maximum} = {None}

\* Some bound is the text "-0".
NegativeZero(m) ==
    \E x \in ToSet(m.parameters) : \E decimal \in {x.minimum, x.maximum} \ {None} :
        decimal.negative /\ decimal.size = 0

\* A published manifest can be projected into a workspace exactly if the columns
\* can hold it, no row of a 2.0 package took one of its codes before, and, once a
\* sibling workspace has stored the parameters, they read back as they were
\* written: FD01 has ruled out everything else that a table could refuse.
ProjectableExactly ==
    \A w \in {w \in Pinned : ProofsOf(w) = {}} :
        LET m == Content[PinOf(w).manifest] IN
        Materializable(w, PinOf(w)) <=>
            /\ Representable(m)
            /\ \A r \in rows : r.workspace = w =>
                  r.code \notin ToSet(Column(SectionOf(m, r.family), "code"))
            /\ ActualParameters(PinOf(w).definition) # {} => ~NegativeZero(m)

\* A row of a workspace stands for the item of its manifest with the same code,
\* and so do the rows it refers to.
Mirrors(w, m) ==
    LET rowsOf(family) == {r \in CanonicalRows(w) : r.family = family}
        codeOf(id) == {r.code : r \in {r \in CanonicalRows(w) : r.id = id}}
        codeIn(items, id) == {x.code : x \in {x \in ToSet(items) : x.id = id}}
    IN  /\ \A family \in {"ACTOR", "ANALYTICAL_ELEMENT"} :
              LET items == SectionOf(m, family) IN
              {<<r.code, codeOf(r.parent)>> : r \in rowsOf(family)}
              = {<<x.code, codeIn(items, x.parent)>> : x \in ToSet(items)}
        /\ {<<r.code, codeOf(r.actor), codeOf(r.element), r.text>> :
               r \in rowsOf("ACTOR_ELEMENT_ROLE")}
           = {<<x.code, codeIn(m.actors, x.actor), codeIn(m.elements, x.element), x.role>> :
                x \in ToSet(m.roles)}

\* A workspace with a receipt stays COMPLETE whatever is published, projected or
\* imported later, and its rows mirror its manifest; the one exception is a bound
\* written "-0", which the column gives back as 0.  An exported package reconciles
\* with the workspace it came from for ever, and with no other.
ProjectionsReplay ==
    /\ \A w \in {w \in Pinned : ProofsOf(w) # {}} :
          LET m == Content[PinOf(w).manifest] IN
          /\ Verification(w) = "COMPLETE" <=> ~NegativeZero(m)
          /\ Mirrors(w, m)
    /\ \A x \in packages : \A w \in Pinned : Reconciles(x, w) <=> w = x.workspace

\* The parameter of the manifest of w that the row p is a snapshot of applies to
\* the item of that manifest that r was made from.
Declared(w, p, r) ==
    LET m == Content[PinOf(w).manifest] IN
    /\ r \in CanonicalRows(w)
    /\ p.definition = PinOf(w).definition
    /\ \E x \in ToSet(m.parameters), y \in ToSet(SectionOf(m, r.family)) :
          /\ x.code = p.snapshot.code /\ y.code = r.code
          /\ y.id \in ToSet(ApplyingTo(x, r.family))

\* A complete workspace takes values for exactly the cells that the manifest it
\* pins declares: whatever rows siblings, successors of its definition and 2.0
\* packages have left in the same tables, it can neither take a value for another
\* target nor be kept from one of its own.
CellsAreDeclared ==
    \A w \in {w \in Pinned : Verification(w) = "COMPLETE"}, p \in parameters :
        /\ \A r \in rows :
              TargetAdmitted(w, p, r) <=> Declared(w, p, r) /\ p.snapshot.target = r.family
        /\ \A actor \in {r \in rows : r.family = "ACTOR"},
              element \in {r \in rows : r.family = "ANALYTICAL_ELEMENT"} :
              AssessmentAdmitted(w, p, actor, element) <=>
                  /\ p.snapshot.target = "ACTOR_ELEMENT_ASSESSMENT"
                  /\ Declared(w, p, actor) /\ Declared(w, p, element)
                  /\ \E role \in CanonicalRows(w) :
                        /\ role.family = "ACTOR_ELEMENT_ROLE"
                        /\ role.actor = actor.id /\ role.element = element.id
                        /\ Declared(w, p, role)
=============================================================================
