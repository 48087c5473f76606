----------------------- MODULE ManifestProjectionProofs -----------------------
(***************************************************************************)
(* Theorems about ManifestProjection, for manifests of any size and any    *)
(* number of workspaces: a projection that was proven replays for ever, a  *)
(* workspace takes values for exactly the cells that its manifest          *)
(* declares, and a manifest can be projected exactly if the columns hold   *)
(* it and its codes are free.                                              *)
(*                                                                         *)
(* None is inductive by itself: rows are shared, and nothing in the three  *)
(* keeps a later projection or package from writing them.  ProjectionInv   *)
(* says that what the one transaction of a workspace wrote still stands,   *)
(* alone of its kind; RoomInv where all other rows came from.              *)
(***************************************************************************)
EXTENDS ManifestProjection, DefinitionLifecycleProofs, FiniteSetTheorems
LOCAL INSTANCE SequencesExt

-----------------------------------------------------------------------------
(* What FD01 leaves of a manifest.                                         *)

LEMMA FamilySections ==
    ASSUME NEW m
    PROVE  /\ SectionOf(m, "ACTOR") = m.actors
           /\ SectionOf(m, "ANALYTICAL_ELEMENT") = m.elements
           /\ SectionOf(m, "ACTOR_ELEMENT_ROLE") = m.roles
           /\ ApplyingTo(m, "ACTOR") = m.actors
           /\ ApplyingTo(m, "ANALYTICAL_ELEMENT") = m.elements
           /\ ApplyingTo(m, "ACTOR_ELEMENT_ROLE") = m.roles
  BY DEF SectionOf, ApplyingTo

\* Items have the fields of the schema.
LEMMA ItemTypes ==
    ASSUME NEW m \in Manifest
    PROVE  /\ \A x \in ToSet(Content[m].actors) : x \in NodeItem
           /\ \A x \in ToSet(Content[m].elements) : x \in NodeItem
           /\ \A x \in ToSet(Content[m].roles) : x \in RoleItem
           /\ \A x \in ToSet(Content[m].parameters) : x \in ParameterItem
<1>1. \A S, s : s \in Seq(S) => \A x \in ToSet(s) : x \in S
  BY DEF ToSet
<1> QED
  BY <1>1, ContentAssumption

\* The ids of a section are those of its items.
LEMMA IdsOfItems ==
    ASSUME NEW items, NEW id
    PROVE  id \in Ids(items) <=> \E x \in ToSet(items) : x.id = id
  BY DEF Ids, Column, ToSet

\* A section whose column of codes is injective has each code once.
LEMMA CodesApart ==
    ASSUME NEW items, IsInjective(Column(items, "code")),
           NEW x \in ToSet(items), NEW y \in ToSet(items), x.code = y.code
    PROVE  x = y
<1>1. PICK i \in DOMAIN items : x = items[i]
  BY DEF ToSet
<1>2. PICK j \in DOMAIN items : y = items[j]
  BY DEF ToSet
<1>3. Column(items, "code")[i] = Column(items, "code")[j]
  BY <1>1, <1>2 DEF Column
<1>4. DOMAIN Column(items, "code") = DOMAIN items
  BY DEF Column
<1>5. i = j
  BY <1>3, <1>4 DEF IsInjective
<1> QED
  BY <1>1, <1>2, <1>5

\* No pass reports anything of a valid manifest.
LEMMA NothingReported ==
    ASSUME NEW m \in ValidManifest
    PROVE  /\ m \in Manifest
           /\ IdentityDiagnostics(Content[m]) = {}
           /\ ScaleDiagnostics(Content[m]) = {}
           /\ CrossReferenceDiagnostics(Content[m]) = {}
           /\ HierarchyDiagnostics(Content[m].actors) = {}
           /\ HierarchyDiagnostics(Content[m].elements) = {}
<1>1. m \in Manifest /\ Diagnostics(Content[m], Content[m].project) = {}
  BY ContentAssumption DEF Valid
<1> QED
  BY <1>1 DEF Diagnostics

\* Codes are unique in each section.
LEMMA CodesUnique ==
    ASSUME NEW m \in ValidManifest
    PROVE  /\ \A x, y \in ToSet(Content[m].actors) : x.code = y.code => x = y
           /\ \A x, y \in ToSet(Content[m].elements) : x.code = y.code => x = y
           /\ \A x, y \in ToSet(Content[m].roles) : x.code = y.code => x = y
           /\ \A x, y \in ToSet(Content[m].parameters) : x.code = y.code => x = y
<1> DEFINE c == Content[m]
<1>1. IdentityDiagnostics(c) = {}
  BY NothingReported
<1>2. \A i \in DOMAIN Sections(c) : IsInjective(Column(Sections(c)[i], "code"))
  BY <1>1 DEF IdentityDiagnostics
<1> HIDE DEF c
<1>3. /\ IsInjective(Column(c.actors, "code")) /\ IsInjective(Column(c.elements, "code"))
      /\ IsInjective(Column(c.roles, "code")) /\ IsInjective(Column(c.parameters, "code"))
  <2>1. /\ DOMAIN Sections(c) = 1..5
        /\ Sections(c)[1] = c.actors /\ Sections(c)[2] = c.elements
        /\ Sections(c)[3] = c.roles /\ Sections(c)[4] = c.parameters
    BY DEF Sections
  <2>2. 1 \in 1..5 /\ 2 \in 1..5 /\ 3 \in 1..5 /\ 4 \in 1..5
    OBVIOUS
  <2> QED
    BY <1>2, <2>1, <2>2
<1>4. /\ \A x, y \in ToSet(c.actors) : x.code = y.code => x = y
      /\ \A x, y \in ToSet(c.elements) : x.code = y.code => x = y
      /\ \A x, y \in ToSet(c.roles) : x.code = y.code => x = y
      /\ \A x, y \in ToSet(c.parameters) : x.code = y.code => x = y
  BY <1>3, CodesApart
<1> QED
  BY <1>4 DEF c

\* What an item refers to is an item of the right section.
LEMMA ReferencesResolve ==
    ASSUME NEW m \in ValidManifest
    PROVE  /\ \A x \in ToSet(Content[m].actors) :
                 x.parent = None \/ \E y \in ToSet(Content[m].actors) : y.id = x.parent
           /\ \A x \in ToSet(Content[m].elements) :
                 x.parent = None \/ \E y \in ToSet(Content[m].elements) : y.id = x.parent
           /\ \A x \in ToSet(Content[m].roles) :
                 /\ \E y \in ToSet(Content[m].actors) : y.id = x.actor
                 /\ \E y \in ToSet(Content[m].elements) : y.id = x.element
<1> DEFINE c == Content[m]
<1>1. /\ HierarchyDiagnostics(c.actors) = {} /\ HierarchyDiagnostics(c.elements) = {}
      /\ CrossReferenceDiagnostics(c) = {}
  BY NothingReported
<1> HIDE DEF c
<1>2. \A items : HierarchyDiagnostics(items) = {} =>
         \A x \in ToSet(items) : x.parent = None \/ \E y \in ToSet(items) : y.id = x.parent
  <2> SUFFICES ASSUME NEW items, HierarchyDiagnostics(items) = {}, NEW x \in ToSet(items)
               PROVE  x.parent = None \/ \E y \in ToSet(items) : y.id = x.parent
    OBVIOUS
  <2>1. {"BROKEN_PARENT_REFERENCE" :
            z \in {z \in ToSet(items) : z.parent \notin Ids(items) \cup {Absent}}} = {}
    BY DEF HierarchyDiagnostics
  <2>2. x.parent \in Ids(items) \cup {Absent}
    BY <2>1
  <2> QED
    BY <2>2, IdsOfItems, ContentAssumption
<1>3. \A x \in ToSet(c.roles) : x.actor \in Ids(c.actors) /\ x.element \in Ids(c.elements)
  <2>1. {"BROKEN_CROSS_REFERENCE" :
            x \in {x \in ToSet(c.roles) : \/ x.actor \notin Ids(c.actors)
                                          \/ x.element \notin Ids(c.elements)}} = {}
    BY <1>1 DEF CrossReferenceDiagnostics
  <2> QED
    BY <2>1
<1>4. \A x \in ToSet(c.roles) : /\ \E y \in ToSet(c.actors) : y.id = x.actor
                                /\ \E y \in ToSet(c.elements) : y.id = x.element
  BY <1>3, IdsOfItems
<1> QED
  BY <1>1, <1>2, <1>4 DEF c

\* So is what a parameter applies to.
LEMMA ApplicabilityResolves ==
    ASSUME NEW m \in ValidManifest, NEW x \in ToSet(Content[m].parameters),
           NEW f \in Family, NEW id \in ToSet(ApplyingTo(x, f))
    PROVE  \E y \in ToSet(SectionOf(Content[m], f)) : y.id = id
<1> DEFINE c == Content[m]
<1>1. CrossReferenceDiagnostics(c) = {}
  BY NothingReported
<1> HIDE DEF c
<1>2. x \in ToSet(c.parameters)
  BY DEF c
<1>3. UNION {UNION {(IF ToSet(a[1]) \subseteq a[2] THEN {} ELSE {"BROKEN_CROSS_REFERENCE"})
                    \cup (IF IsInjective(a[1]) THEN {} ELSE {"APPLICABILITY_INVALID"}) :
                       a \in Applicability(c, z)} : z \in ToSet(c.parameters)} = {}
  BY <1>1 DEF CrossReferenceDiagnostics
<1>4. \A a \in Applicability(c, x) :
         (IF ToSet(a[1]) \subseteq a[2] THEN {} ELSE {"BROKEN_CROSS_REFERENCE"}) = {}
  BY <1>2, <1>3
<1>5. \A a \in Applicability(c, x) : ToSet(a[1]) \subseteq a[2]
  BY <1>4
<1>6. /\ ToSet(x.actors) \subseteq Ids(c.actors) /\ ToSet(x.elements) \subseteq Ids(c.elements)
      /\ ToSet(x.roles) \subseteq Ids(c.roles)
  BY <1>5 DEF Applicability
<1>7. ToSet(ApplyingTo(x, f)) \subseteq Ids(SectionOf(c, f))
  BY <1>6, FamilySections DEF Family
<1> QED
  BY <1>7, IdsOfItems DEF c

\* A step is positive.
LEMMA StepsArePositive ==
    ASSUME NEW m \in ValidManifest, NEW x \in ToSet(Content[m].parameters), x.step # None
    PROVE  ~(Amount(x.step) <= 0)
<1> DEFINE c == Content[m]
<1>1. ScaleDiagnostics(c) = {} /\ x \in ToSet(c.parameters)
  BY NothingReported
<1> HIDE DEF c
<1>2. x.step # Absent
  BY ContentAssumption
<1> QED
  BY <1>1, <1>2 DEF ScaleDiagnostics

-----------------------------------------------------------------------------
(* Rows and the items they are made from.                                  *)

ParentOf(f, x) == IF f = "ACTOR_ELEMENT_ROLE" THEN None ELSE x.parent
ActorOf(f, x) == IF f = "ACTOR_ELEMENT_ROLE" THEN x.actor ELSE None
ElementOf(f, x) == IF f = "ACTOR_ELEMENT_ROLE" THEN x.element ELSE None
ItemOf(w, f, x) == Item(w, f, x, ParentOf(f, x), ActorOf(f, x), ElementOf(f, x))

\* Every expected item is made from an item of the section of its family.
LEMMA ExpectedAreItems ==
    ASSUME NEW w, NEW pin, NEW i
    PROVE  i \in ExpectedItems(w, pin) <=>
              \E f \in Family : \E x \in ToSet(SectionOf(Content[pin.manifest], f)) :
                 i = ItemOf(w, f, x)
<1> DEFINE m == Content[pin.manifest]
<1>1. i \in ExpectedItems(w, pin) <=>
         \/ \E x \in ToSet(m.actors) : i = Item(w, "ACTOR", x, x.parent, None, None)
         \/ \E x \in ToSet(m.elements) : i = Item(w, "ANALYTICAL_ELEMENT", x, x.parent, None, None)
         \/ \E x \in ToSet(m.roles) :
               i = Item(w, "ACTOR_ELEMENT_ROLE", x, None, x.actor, x.element)
  BY DEF ExpectedItems
<1> HIDE DEF m
<1>2. /\ \A x : ItemOf(w, "ACTOR", x) = Item(w, "ACTOR", x, x.parent, None, None)
      /\ \A x : ItemOf(w, "ANALYTICAL_ELEMENT", x)
                   = Item(w, "ANALYTICAL_ELEMENT", x, x.parent, None, None)
      /\ \A x : ItemOf(w, "ACTOR_ELEMENT_ROLE", x)
                   = Item(w, "ACTOR_ELEMENT_ROLE", x, None, x.actor, x.element)
  BY DEF ItemOf, ParentOf, ActorOf, ElementOf
<1>3. (\E f \in Family : \E x \in ToSet(SectionOf(m, f)) : i = ItemOf(w, f, x)) <=>
         \/ \E x \in ToSet(m.actors) : i = ItemOf(w, "ACTOR", x)
         \/ \E x \in ToSet(m.elements) : i = ItemOf(w, "ANALYTICAL_ELEMENT", x)
         \/ \E x \in ToSet(m.roles) : i = ItemOf(w, "ACTOR_ELEMENT_ROLE", x)
  BY FamilySections DEF Family
<1> QED
  BY <1>1, <1>2, <1>3 DEF m

\* The fields every item has, and the types of what it refers to.
LEMMA ItemFields ==
    ASSUME NEW m \in Manifest, NEW f \in Family, NEW x \in ToSet(SectionOf(Content[m], f))
    PROVE  /\ x.id \in StableId /\ x.id # None /\ x.code \in STRING
           /\ ParentOf(f, x) \in StableId \cup {None}
           /\ ActorOf(f, x) \in StableId \cup {None}
           /\ ElementOf(f, x) \in StableId \cup {None}
<1>1. CASE f = "ACTOR_ELEMENT_ROLE"
  <2>1. x \in RoleItem
    BY <1>1, ItemTypes, FamilySections
  <2> QED
    BY <1>1, <2>1, AbsentAssumption, ContentAssumption
    DEF RoleItem, ParentOf, ActorOf, ElementOf
<1>2. CASE f \in {"ACTOR", "ANALYTICAL_ELEMENT"}
  <2>1. x \in NodeItem
    BY <1>2, ItemTypes, FamilySections
  <2> QED
    BY <1>2, <2>1, AbsentAssumption, ContentAssumption
    DEF NodeItem, ParentOf, ActorOf, ElementOf
<1> QED
  BY <1>1, <1>2 DEF Family

RowId(w, f, u) == <<w, f, u>>

LEMMA RowIds ==
    /\ \A w, f, u, v, g, t : RowId(w, f, u) = RowId(v, g, t) => w = v /\ f = g /\ u = t
    /\ \A w, f, id : id # None => DerivedId(w, f, id) = RowId(w, f, id.uuid)
    /\ \A w, f : DerivedId(w, f, None) = None
    /\ SourceOf(None) = None
    /\ \A id : id # None => SourceOf(id) = id.uuid
  BY DEF RowId, DerivedId, SourceOf

LEMMA RowIdsApart ==
    ASSUME NEW w, NEW f, NEW u, NEW v, NEW g, NEW t, RowId(w, f, u) = RowId(v, g, t)
    PROVE  w = v /\ f = g /\ u = t
  BY DEF RowId

\* The columns of the row of an item.
LEMMA RowFields ==
    ASSUME NEW w \in Workspace, NEW m \in Manifest, NEW f \in Family,
           NEW x \in ToSet(SectionOf(Content[m], f)), NEW r, r = ItemOf(w, f, x).row
    PROVE  /\ r.id = RowId(w, f, x.id.uuid) /\ r.id # None
           /\ r.workspace = w /\ r.family = f /\ r.code = x.code
           /\ r.source = x.id.uuid /\ r.source # None
           /\ r.parent = DerivedId(w, f, ParentOf(f, x))
           /\ r.actor = DerivedId(w, "ACTOR", ActorOf(f, x))
           /\ r.element = DerivedId(w, "ANALYTICAL_ELEMENT", ElementOf(f, x))
           /\ f = "ACTOR_ELEMENT_ROLE" => r.text = x.role
<1>1. x.id \in StableId /\ x.id # None
  BY ItemFields
<1>2. x.id.uuid \in STRING
  BY <1>1 DEF StableId
<1>3. <<w, f, x.id.uuid>> \in Workspace \X Family \X STRING
  BY <1>2
<1>4. None \notin STRING /\ None \notin Workspace \X Family \X STRING
  BY AbsentAssumption, ContentAssumption
<1>5. r = [id |-> DerivedId(w, f, x.id), workspace |-> w, family |-> f,
           source |-> x.id.uuid, code |-> x.code, order |-> x.order,
           parent |-> DerivedId(w, f, ParentOf(f, x)),
           actor |-> DerivedId(w, "ACTOR", ActorOf(f, x)),
           element |-> DerivedId(w, "ANALYTICAL_ELEMENT", ElementOf(f, x)),
           text |-> IF f = "ACTOR_ELEMENT_ROLE" THEN x.role ELSE x.label]
  BY DEF ItemOf, Item
<1>6. DerivedId(w, f, x.id) = RowId(w, f, x.id.uuid)
  BY <1>1, RowIds
<1>7. RowId(w, f, x.id.uuid) # None
  BY <1>3, <1>4 DEF RowId
<1> QED
  BY <1>2, <1>4, <1>5, <1>6, <1>7

\* Canonical ids of one UUID are one text.
LEMMA LowerIdsApart ==
    ASSUME NEW a \in StableId, NEW b \in StableId, ~a.upper, ~b.upper, a.uuid = b.uuid
    PROVE  a = b
  BY DEF StableId

\* Under a derivable pin every id of a section is canonical.
LEMMA IdsAreLower ==
    ASSUME NEW pin, Derivable(pin), NEW f \in Family,
           NEW x \in ToSet(SectionOf(Content[pin.manifest], f))
    PROVE  ~x.id.upper
<1> DEFINE m == Content[pin.manifest]
<1>1. \A section \in 1..4 : \A id \in Ids(Sections(m)[section]) : ~id.upper
  BY DEF Derivable
<1> HIDE DEF m
<1>2. /\ Sections(m)[1] = m.actors /\ Sections(m)[2] = m.elements
      /\ Sections(m)[3] = m.roles
  BY DEF Sections
<1>3. \A id \in Ids(m.actors) \cup Ids(m.elements) \cup Ids(m.roles) : ~id.upper
  <2>1. 1 \in 1..4 /\ 2 \in 1..4 /\ 3 \in 1..4
    OBVIOUS
  <2> QED
    BY <1>1, <1>2, <2>1
<1>4. \A id \in Ids(SectionOf(m, f)) : ~id.upper
  BY <1>3, FamilySections DEF Family
<1> QED
  BY <1>4, IdsOfItems DEF m

-----------------------------------------------------------------------------
(* Cells.                                                                  *)

\* A pin names valid bytes.
GoodPin(pin) == pin \in WorkspaceRow /\ pin.manifest \in ValidManifest

LEMMA CompleteParts ==
    ASSUME NEW w, Verification(w) = "COMPLETE"
    PROVE  /\ Derivable(PinOf(w))
           /\ ActualItems(w) = ExpectedItems(w, PinOf(w))
           /\ ActualParameters(PinOf(w).definition) = ExpectedParameters(PinOf(w))
  BY DEF Verification, Projection

\* The rows of a complete workspace are made from items of its manifest.
LEMMA RowsComeFromItems ==
    ASSUME NEW w, Verification(w) = "COMPLETE", NEW r \in CanonicalRows(w)
    PROVE  \E f \in Family : \E x \in ToSet(SectionOf(Content[PinOf(w).manifest], f)) :
              r = ItemOf(w, f, x).row
<1> DEFINE i == [row |-> r, refers |-> <<SourceOfRow(w, r.parent), SourceOfRow(w, r.actor),
                                         SourceOfRow(w, r.element)>>]
<1>1. i \in ActualItems(w) /\ i.row = r
  BY DEF ActualItems
<1> HIDE DEF i
<1>2. i \in ExpectedItems(w, PinOf(w))
  BY <1>1, CompleteParts
<1> QED
  BY <1>1, <1>2, ExpectedAreItems

\* Its parameter rows are made from parameters of the manifest.
LEMMA ParametersComeFromItems ==
    ASSUME NEW w, Verification(w) = "COMPLETE", NEW p \in parameters,
           GoodPin(PinOf(w)), p.definition = PinOf(w).definition
    PROVE  \E x \in ToSet(Content[PinOf(w).manifest].parameters) :
              /\ p.snapshot.code = x.code
              /\ \A f \in Family : ApplyingTo(p.snapshot, f) = ApplyingTo(x, f)
<1>1. p \in ExpectedParameters(PinOf(w))
  BY CompleteParts DEF ActualParameters
<1>2. PICK x \in ToSet(Content[PinOf(w).manifest].parameters) :
         p.snapshot = [x EXCEPT !.id = None]
  BY <1>1 DEF ExpectedParameters
<1>3. x \in ParameterItem
  BY ItemTypes, NothingReported DEF GoodPin
<1>4. /\ p.snapshot.code = x.code /\ p.snapshot.actors = x.actors
      /\ p.snapshot.elements = x.elements /\ p.snapshot.roles = x.roles
  BY <1>2, <1>3 DEF ParameterItem
<1>5. \A f \in Family : ApplyingTo(p.snapshot, f) = ApplyingTo(x, f)
  BY <1>4, FamilySections DEF Family
<1> QED
  BY <1>4, <1>5

\* What the snapshot of a parameter applies to is what the manifest declares: UUIDs
\* of rows do not take one item for another, and codes do not either.
LEMMA AppliesIffDeclared ==
    ASSUME NEW w \in Workspace, Verification(w) = "COMPLETE", GoodPin(PinOf(w)),
           NEW p \in parameters, p.definition = PinOf(w).definition,
           NEW r \in CanonicalRows(w)
    PROVE  r.source \in AppliesTo(p, r.family) <=> Declared(w, p, r)
<1> DEFINE m == PinOf(w).manifest
<1>1. m \in ValidManifest /\ m \in Manifest
  BY NothingReported DEF GoodPin
<1>2. PICK f \in Family : \E x \in ToSet(SectionOf(Content[m], f)) : r = ItemOf(w, f, x).row
  BY RowsComeFromItems
<1>3. PICK y \in ToSet(SectionOf(Content[m], f)) : r = ItemOf(w, f, y).row
  BY <1>2
<1>4. r.family = f /\ r.code = y.code /\ r.source = y.id.uuid
  BY <1>1, <1>3, RowFields
<1>5. PICK x \in ToSet(Content[m].parameters) :
         /\ p.snapshot.code = x.code
         /\ \A g \in Family : ApplyingTo(p.snapshot, g) = ApplyingTo(x, g)
  BY ParametersComeFromItems
<1>6. r.source \in AppliesTo(p, r.family) <=>
         \E id \in ToSet(ApplyingTo(x, f)) : id.uuid = y.id.uuid
  BY <1>4, <1>5 DEF AppliesTo
<1>7. Derivable(PinOf(w))
  BY CompleteParts
<1> HIDE DEF m
<1>8. \A id \in ToSet(ApplyingTo(x, f)) : id.uuid = y.id.uuid => id = y.id
  <2> SUFFICES ASSUME NEW id \in ToSet(ApplyingTo(x, f)), id.uuid = y.id.uuid
               PROVE  id = y.id
    OBVIOUS
  <2>1. PICK z \in ToSet(SectionOf(Content[m], f)) : z.id = id
    BY <1>1, ApplicabilityResolves
  <2>2. z.id \in StableId /\ y.id \in StableId
    BY <1>1, ItemFields
  <2>3. ~z.id.upper /\ ~y.id.upper
    BY <1>7, IdsAreLower DEF m
  <2> QED
    BY <2>1, <2>2, <2>3, LowerIdsApart
<1>9. r.source \in AppliesTo(p, r.family) <=> y.id \in ToSet(ApplyingTo(x, f))
  BY <1>6, <1>8
<1>10. \A z \in ToSet(SectionOf(Content[m], f)) : z.code = y.code => z = y
  BY <1>1, CodesUnique, FamilySections DEF Family
<1>11. \A z \in ToSet(Content[m].parameters) : z.code = x.code => z = x
  BY <1>1, CodesUnique
<1>12. Declared(w, p, r) <=>
          \E z \in ToSet(Content[m].parameters), v \in ToSet(SectionOf(Content[m], f)) :
             z.code = x.code /\ v.code = y.code /\ v.id \in ToSet(ApplyingTo(z, f))
  BY <1>4, <1>5 DEF Declared, m
<1> QED
  BY <1>9, <1>10, <1>11, <1>12

-----------------------------------------------------------------------------
(* The inductive invariant.                                                *)

\* A pin names the bytes of a published definition, and they are valid.
PinHolds(pin) ==
    /\ GoodPin(pin)
    /\ Exists(pin.definition)
    /\ definitions[pin.definition].status = "PUBLISHED"
    /\ definitions[pin.definition].manifest = pin.manifest

\* The pins that the Player made are as exact as those of initial workspaces, and
\* no workspace has two.
DerivedInv ==
    /\ derived \in [Workspace -> WorkspaceRow \cup {None}]
    /\ \A w \in Workspace : derived[w] # None => workspaces[w] = None /\ PinHolds(derived[w])

StoredParameters(pin) == {StoredParameter(p) : p \in ExpectedParameters(pin)}
RowsOf(w, pin) == {i.row : i \in ExpectedItems(w, pin)}

\* What one transaction wrote for w is still there, alone of its kind, and the
\* parameter rows are those that the columns gave back to whoever wrote them.
Stands(w, pin) ==
    /\ Derivable(pin)
    /\ completed[w] = Projection(w, pin)
    /\ \A e \in ProofsOf(w) : e.projection = Projection(w, pin)
    /\ CanonicalRows(w) = RowsOf(w, pin)
    /\ ActualParameters(pin.definition) = StoredParameters(pin)

ProofsInv ==
    /\ completed \in [Workspace -> {completed[w] : w \in Workspace}]
    /\ \A e \in proofs : e.workspace \in Pinned
    /\ \A d, e \in proofs : d.workspace = e.workspace => d = e
    /\ \A w \in Workspace :
          IF ProofsOf(w) = {} THEN CanonicalRows(w) = {} /\ completed[w] = None
          ELSE Stands(w, PinOf(w))

\* A package is what its workspace still has.
PackagesInv ==
    \A x \in packages :
        /\ x.workspace \in Pinned /\ x.receipt \in ProofsOf(x.workspace)
        /\ x = PackageOf(x.workspace, x.receipt) /\ Sealed(x)
        /\ ~NegativeZero(Content[x.pin.manifest])

ProjectionInv == DerivedInv /\ ProofsInv /\ PackagesInv

-----------------------------------------------------------------------------
(* Steps of the lifecycle, and pins.                                       *)

LEMMA PinsHold ==
    ASSUME TypeOK, PinsExact, ReviewedBytes, DerivedInv, NEW w \in Pinned
    PROVE  PinHolds(PinOf(w))
<1>0. w \in Workspace
  BY DEF Pinned
<1>1. CASE workspaces[w] # None
  <2>1. PinOf(w) = workspaces[w] /\ workspaces[w] \in WorkspaceRow
    BY <1>0, <1>1 DEF PinOf, TypeOK
  <2>2. /\ workspaces[w].definition \in InProject(workspaces[w].project)
        /\ definitions[workspaces[w].definition].status = "PUBLISHED"
        /\ definitions[workspaces[w].definition].manifest = workspaces[w].manifest
    BY <1>0, <1>1 DEF PinsExact
  <2>3. workspaces[w].definition \in Definition /\ Exists(workspaces[w].definition)
    BY <2>2 DEF InProject
  <2>4. definitions[workspaces[w].definition].manifest \in ValidManifest
    BY <2>2, <2>3 DEF ReviewedBytes
  <2> QED
    BY <2>1, <2>2, <2>3, <2>4 DEF PinHolds, GoodPin
<1>2. CASE workspaces[w] = None
  BY <1>0, <1>2 DEF PinOf, DerivedInv, Pinned
<1> QED
  BY <1>1, <1>2

LEMMA PinHoldsStays ==
    ASSUME TypeOK, [LifecycleNext]_dbvars, NEW pin, PinHolds(pin)
    PROVE  PinHolds(pin)'
<1>1. pin.definition \in Definition /\ GoodPin(pin)
  BY DEF PinHolds, GoodPin, WorkspaceRow
<1>2. CASE LifecycleNext
  BY <1>1, <1>2, PublishedStays DEF PinHolds, GoodPin
<1>3. CASE UNCHANGED dbvars
  BY <1>1, <1>3 DEF PinHolds, GoodPin, dbvars, Exists
<1> QED
  BY <1>2, <1>3

\* A pin that holds and once was derivable is so for ever.
LEMMA DerivableStays ==
    ASSUME NEW pin, Derivable(pin), PinHolds(pin)'
    PROVE  Derivable(pin)'
  BY DEF PinHolds, Derivable

\* Lifecycle operations move no pin.
LEMMA StudioPins ==
    ASSUME TypeOK, DerivedInv, NEW r \in Request, StudioStep(r)
    PROVE  /\ LifecycleNext /\ UNCHANGED projectionvars
           /\ \A w \in Pinned : w \in Pinned' /\ PinOf(w)' = PinOf(w)
           /\ DerivedInv'
<1>1. LifecycleNext /\ UNCHANGED projectionvars /\ Operation(r)
  BY DEF StudioStep, LifecycleNext
<1>2. derived' = derived
  BY <1>1 DEF projectionvars
<1>3. \A w \in Workspace : workspaces[w] # None => workspaces'[w] = workspaces[w]
  BY <1>1, FrozenStep
<1>4. \A w \in Workspace : derived[w] # None => workspaces'[w] = workspaces[w]
  <2> SUFFICES ASSUME NEW w \in Workspace, derived[w] # None, workspaces'[w] # workspaces[w]
               PROVE  FALSE
    OBVIOUS
  <2>1. r.op = "INITIAL" /\ Publish(r, AfterRow(r))
    BY <1>1, OperationWrites DEF HumanWrite, Publish
  <2>2. derived[r.workspace] = None
    BY <2>1 DEF StudioStep
  <2>3. w # r.workspace
    BY <2>2
  <2>4. workspaces'[w] = workspaces[w]
    BY <2>1, <2>3 DEF Publish, TypeOK
  <2> QED
    BY <2>4
<1>5. \A w \in Pinned : w \in Pinned' /\ PinOf(w)' = PinOf(w)
  BY <1>2, <1>3, <1>4 DEF Pinned, PinOf
<1>6. DerivedInv'
  <2>1. \A w \in Workspace : derived'[w] # None => workspaces'[w] = None /\ PinHolds(derived[w])'
    BY <1>1, <1>2, <1>4, PinHoldsStays DEF DerivedInv
  <2> QED
    BY <1>2, <2>1 DEF DerivedInv, PinHolds, GoodPin
<1> QED
  BY <1>1, <1>5, <1>6

\* Steps beside the lifecycle that leave the pins alone.
LEMMA SamePins ==
    ASSUME DerivedInv, UNCHANGED <<dbvars, derived>>
    PROVE  /\ DerivedInv'
           /\ Pinned' = Pinned
           /\ \A w \in Pinned : PinOf(w)' = PinOf(w)
  BY DEF dbvars, DerivedInv, Pinned, PinOf, PinHolds, GoodPin, Exists

\* What stands for a workspace does so after a step that keeps what was written
\* for it.
LEMMA StandsStays ==
    ASSUME NEW w, NEW pin, Stands(w, pin), PinHolds(pin)',
           completed'[w] = completed[w], ProofsOf(w)' = ProofsOf(w),
           CanonicalRows(w)' = CanonicalRows(w),
           ActualParameters(pin.definition)' = ActualParameters(pin.definition)
    PROVE  Stands(w, pin)'
<1>1. Derivable(pin)'
  BY DerivableStays DEF Stands
<1>2. /\ completed'[w] = Projection(w, pin)
      /\ \A e \in ProofsOf(w)' : e.projection = Projection(w, pin)
      /\ CanonicalRows(w)' = RowsOf(w, pin)
      /\ ActualParameters(pin.definition)' = StoredParameters(pin)
  BY DEF Stands
<1> QED
  BY <1>1, <1>2 DEF Stands

-----------------------------------------------------------------------------
(* A projection.                                                           *)

LEMMA StoredFields ==
    ASSUME NEW pin, NEW p \in ExpectedParameters(pin)
    PROVE  /\ StoredParameter(p).definition = pin.definition
           /\ StoredParameter(p).source = p.source
  BY DEF StoredParameter, ExpectedParameters

\* All expected rows are rows of the workspace with a source.
LEMMA RowsAreCanonical ==
    ASSUME NEW w \in Workspace, NEW pin, GoodPin(pin), NEW r \in RowsOf(w, pin)
    PROVE  r.workspace = w /\ r.source # None
<1>1. PICK i \in ExpectedItems(w, pin) : r = i.row
  BY DEF RowsOf
<1>2. PICK f \in Family : \E x \in ToSet(SectionOf(Content[pin.manifest], f)) : i = ItemOf(w, f, x)
  BY ExpectedAreItems
<1>3. pin.manifest \in Manifest
  BY NothingReported DEF GoodPin
<1> QED
  BY <1>1, <1>2, <1>3, RowFields

\* What is written for w under pin.
Written(w, pin) ==
    /\ rows' = rows \cup RowsOf(w, pin)
    /\ parameters' = IF ActualParameters(pin.definition) = {}
                     THEN parameters \cup StoredParameters(pin) ELSE parameters
    /\ completed' = [completed EXCEPT ![w] = Projection(w, pin)]
    /\ \E e : /\ proofs' = proofs \cup {e}
              /\ e.workspace = w /\ e.projection = Projection(w, pin)

LEMMA MaterializeWrites ==
    ASSUME NEW w, NEW pin, NEW contract, NEW q, Materialize(w, pin, contract, q)
    PROVE  Written(w, pin)
<1> DEFINE e == [workspace |-> w, contract |-> contract, key |-> q.key,
                 actor |-> q.actor, projection |-> Projection(w, pin)]
<1>1. proofs' = proofs \cup {e} /\ e.workspace = w /\ e.projection = Projection(w, pin)
  BY DEF Materialize
<1> HIDE DEF e
<1>2. \E d : /\ proofs' = proofs \cup {d}
             /\ d.workspace = w /\ d.projection = Projection(w, pin)
  BY <1>1
<1> QED
  BY <1>2 DEF Materialize, Written, RowsOf, StoredParameters

\* Parameter rows found there were proven by a sibling, and are what it stored.
LEMMA SharedParameters ==
    ASSUME ProofsInv, NEW w \in Workspace, NEW pin,
           ParametersUsable(w, pin), ActualParameters(pin.definition) # {}
    PROVE  ActualParameters(pin.definition) = StoredParameters(pin)
<1>1. ProvenBySibling(w, pin)
  BY DEF ParametersUsable
<1>2. PICK v \in Pinned \ {w} :
         /\ PinOf(v).definition = pin.definition
         /\ ExpectedParameters(PinOf(v)) = ExpectedParameters(pin)
         /\ \E e \in proofs : ProofsOf(v) = {e}
  BY <1>1 DEF ProvenBySibling
<1>3. v \in Workspace /\ ProofsOf(v) # {}
  BY <1>2 DEF Pinned
<1>4. Stands(v, PinOf(v))
  BY <1>3 DEF ProofsInv
<1> QED
  BY <1>2, <1>4 DEF Stands, StoredParameters

\* Whoever has a projection under a definition finds its parameter rows unchanged:
\* a second projection under it writes none.
LEMMA ParametersStay ==
    ASSUME ProofsInv, \A u \in Pinned : PinHolds(PinOf(u)),
           NEW w, NEW pin, PinHolds(pin), Written(w, pin),
           NEW v \in Pinned, ProofsOf(v) # {}, NEW d, d = PinOf(v).definition
    PROVE  ActualParameters(d)' = ActualParameters(d)
<1>1. parameters \subseteq parameters'
  BY DEF Written
<1>2. Stands(v, PinOf(v)) /\ PinHolds(PinOf(v))
  BY DEF ProofsInv, Pinned
<1>3. \A p \in parameters' \ parameters :
         ActualParameters(pin.definition) = {} /\ p \in StoredParameters(pin)
  BY DEF Written
<1>4. \A p \in StoredParameters(pin) : p.definition = pin.definition
  BY StoredFields DEF StoredParameters
<1>5. CASE d # pin.definition
  <2>1. {p \in parameters' : p.definition = d} = {p \in parameters : p.definition = d}
    BY <1>1, <1>3, <1>4, <1>5
  <2> QED
    BY <2>1 DEF ActualParameters
<1>6. CASE d = pin.definition /\ ActualParameters(pin.definition) = {}
  <2>1. StoredParameters(PinOf(v)) = {}
    BY <1>2, <1>6 DEF Stands
  <2>2. PinOf(v).manifest = pin.manifest
    BY <1>2, <1>6 DEF PinHolds
  <2>3. ExpectedParameters(PinOf(v)) = ExpectedParameters(pin)
    BY <1>6, <2>2 DEF ExpectedParameters
  <2>4. StoredParameters(pin) = {}
    BY <2>1, <2>3 DEF StoredParameters
  <2>5. parameters' = parameters
    BY <2>4 DEF Written
  <2> QED
    BY <2>5 DEF ActualParameters
<1>7. CASE d = pin.definition /\ ActualParameters(pin.definition) # {}
  BY <1>7 DEF Written, ActualParameters
<1> QED
  BY <1>5, <1>6, <1>7

\* Nothing of other workspaces is touched.
LEMMA OthersUntouched ==
    ASSUME ProofsInv, NEW w \in Workspace, NEW pin, GoodPin(pin), Written(w, pin),
           NEW v \in Workspace \ {w}
    PROVE  /\ ProofsOf(v)' = ProofsOf(v) /\ CanonicalRows(v)' = CanonicalRows(v)
           /\ completed'[v] = completed[v]
<1>1. ProofsOf(v)' = ProofsOf(v)
  BY DEF Written, ProofsOf
<1>2. \A r \in RowsOf(w, pin) : r.workspace = w
  BY RowsAreCanonical
<1>3. CanonicalRows(v)' = CanonicalRows(v)
  BY <1>2 DEF Written, CanonicalRows
<1>4. completed'[v] = completed[v]
  BY DEF Written, ProofsInv
<1> QED
  BY <1>1, <1>3, <1>4

\* What was written stands.
LEMMA WrittenStands ==
    ASSUME ProofsInv, NEW w \in Workspace, NEW pin, PinHolds(pin), PinHolds(pin)',
           Materializable(w, pin), Written(w, pin)
    PROVE  Stands(w, pin)' /\ ProofsOf(w)' # {}
<1>1. /\ Derivable(pin) /\ ProofsOf(w) = {} /\ CanonicalRows(w) = {}
      /\ ParametersUsable(w, pin)
  BY DEF Materializable
<1>2. Derivable(pin)'
  BY <1>1, DerivableStays
<1>3. completed'[w] = Projection(w, pin)
  BY DEF Written, ProofsInv
<1>4. PICK e : /\ proofs' = proofs \cup {e}
               /\ e.workspace = w /\ e.projection = Projection(w, pin)
  BY DEF Written
<1>5. ProofsOf(w)' = {e}
  BY <1>1, <1>4 DEF ProofsOf
<1>6. CanonicalRows(w)' = RowsOf(w, pin)
  <2>1. \A r \in RowsOf(w, pin) : r.workspace = w /\ r.source # None
    BY RowsAreCanonical DEF PinHolds
  <2> QED
    BY <1>1, <2>1 DEF Written, CanonicalRows
<1>7. ActualParameters(pin.definition)' = StoredParameters(pin)
  <2>1. CASE ActualParameters(pin.definition) = {}
    <3>1. parameters' = parameters \cup StoredParameters(pin)
      BY <2>1 DEF Written
    <3>2. \A p \in StoredParameters(pin) : p.definition = pin.definition
      BY StoredFields DEF StoredParameters
    <3> QED
      BY <2>1, <3>1, <3>2 DEF ActualParameters
  <2>2. CASE ActualParameters(pin.definition) # {}
    <3>1. ActualParameters(pin.definition) = StoredParameters(pin)
      BY <1>1, <2>2, SharedParameters
    <3>2. parameters' = parameters
      BY <2>2 DEF Written
    <3> QED
      BY <3>1, <3>2 DEF ActualParameters
  <2> QED
    BY <2>1, <2>2
<1> QED
  BY <1>2, <1>3, <1>4, <1>5, <1>6, <1>7 DEF Stands

LEMMA WrittenKeepsProofs ==
    ASSUME ProofsInv, \A u \in Pinned : PinHolds(PinOf(u)), UNCHANGED dbvars,
           NEW w \in Workspace, NEW pin, PinHolds(pin),
           Materializable(w, pin), Written(w, pin),
           \A u \in Pinned : u \in Pinned' /\ PinOf(u)' = PinOf(u),
           w \in Pinned', PinOf(w)' = pin
    PROVE  ProofsInv'
<1>0. \A p : PinHolds(p) => PinHolds(p)'
  BY DEF PinHolds, GoodPin, dbvars, Exists
<1>1. Stands(w, pin)' /\ ProofsOf(w)' # {}
  BY <1>0, WrittenStands
<1>2. completed' \in [Workspace -> {completed'[v] : v \in Workspace}]
  BY DEF Written, ProofsInv
<1>3. PICK e : proofs' = proofs \cup {e} /\ e.workspace = w
  BY DEF Written
<1>4. \A x \in proofs' : x.workspace \in Pinned'
  BY <1>3 DEF ProofsInv
<1>5. \A x, y \in proofs' : x.workspace = y.workspace => x = y
  <2>1. \A x \in proofs : x.workspace # w
    BY DEF Materializable, ProofsOf
  <2> QED
    BY <1>3, <2>1 DEF ProofsInv
<1>6. \A v \in Workspace \ {w} :
         IF ProofsOf(v)' = {} THEN CanonicalRows(v)' = {} /\ completed'[v] = None
         ELSE Stands(v, PinOf(v))'
  <2> SUFFICES ASSUME NEW v \in Workspace \ {w}
               PROVE  IF ProofsOf(v)' = {} THEN CanonicalRows(v)' = {} /\ completed'[v] = None
                      ELSE Stands(v, PinOf(v))'
    OBVIOUS
  <2>1. /\ ProofsOf(v)' = ProofsOf(v) /\ CanonicalRows(v)' = CanonicalRows(v)
        /\ completed'[v] = completed[v]
    BY OthersUntouched DEF PinHolds
  <2>2. CASE ProofsOf(v) = {}
    BY <2>1, <2>2 DEF ProofsInv
  <2>3. CASE ProofsOf(v) # {}
    <3>1. v \in Pinned
      BY <2>3 DEF ProofsInv, ProofsOf
    <3>2. PICK p : p = PinOf(v)
      OBVIOUS
    <3>3. PICK d : d = PinOf(v).definition
      OBVIOUS
    <3>4. ActualParameters(d)' = ActualParameters(d)
      BY <2>3, <3>1, <3>3, ParametersStay
    <3>5. ActualParameters(p.definition)' = ActualParameters(p.definition)
      BY <3>2, <3>3, <3>4
    <3>6. Stands(v, p) /\ PinHolds(p)'
      BY <1>0, <2>3, <3>1, <3>2 DEF ProofsInv
    <3>7. Stands(v, p)'
      BY <2>1, <3>5, <3>6, StandsStays
    <3>8. Stands(v, PinOf(v))'
      BY <3>1, <3>2, <3>7
    <3> QED
      BY <2>1, <2>3, <3>8
  <2> QED
    BY <2>2, <2>3
<1>7. Stands(w, PinOf(w))'
  BY <1>1
<1> QED
  BY <1>1, <1>2, <1>4, <1>5, <1>6, <1>7 DEF ProofsInv

-----------------------------------------------------------------------------
(* When a projection verifies.                                             *)

\* A reference is read back from the rows as it stands in the manifest.
LEMMA ReferenceReadBack ==
    ASSUME NEW w \in Workspace, NEW pin, GoodPin(pin), CanonicalRows(w) = RowsOf(w, pin),
           NEW g \in Family, NEW ref,
           ref = None \/ \E y \in ToSet(SectionOf(Content[pin.manifest], g)) : y.id = ref
    PROVE  SourceOfRow(w, DerivedId(w, g, ref)) = SourceOf(ref)
<1>1. pin.manifest \in Manifest
  BY NothingReported DEF GoodPin
<1>2. \A r \in CanonicalRows(w) : \E f \in Family :
         /\ r.id = RowId(w, f, r.source) /\ r.id # None
  <2> SUFFICES ASSUME NEW r \in RowsOf(w, pin)
               PROVE  \E f \in Family : r.id = RowId(w, f, r.source) /\ r.id # None
    OBVIOUS
  <2>1. PICK i \in ExpectedItems(w, pin) : r = i.row
    BY DEF RowsOf
  <2>2. PICK f, x : /\ f \in Family /\ x \in ToSet(SectionOf(Content[pin.manifest], f))
                    /\ i = ItemOf(w, f, x)
    BY ExpectedAreItems
  <2>3. f \in Family /\ x \in ToSet(SectionOf(Content[pin.manifest], f)) /\ r = ItemOf(w, f, x).row
    BY <2>1, <2>2
  <2>4. r.id = RowId(w, f, x.id.uuid) /\ r.source = x.id.uuid /\ r.id # None
    BY <1>1, <2>3, RowFields
  <2> QED
    BY <2>3, <2>4
<1>3. CASE ref = None
  <2>1. DerivedId(w, g, ref) = None /\ SourceOf(ref) = None
    BY <1>3, RowIds
  <2>2. ~\E r \in CanonicalRows(w) : r.id = None
    BY <1>2
  <2> QED
    BY <2>1, <2>2 DEF SourceOfRow
<1>4. CASE ref # None
  <2>1. PICK y \in ToSet(SectionOf(Content[pin.manifest], g)) : y.id = ref
    BY <1>4
  <2>2. DerivedId(w, g, ref) = RowId(w, g, ref.uuid) /\ SourceOf(ref) = ref.uuid
    BY <1>4, RowIds
  <2>3. ItemOf(w, g, y) \in ExpectedItems(w, pin)
    BY ExpectedAreItems
  <2>4. ItemOf(w, g, y).row \in CanonicalRows(w)
    BY <2>3 DEF RowsOf
  <2>5. ItemOf(w, g, y).row.id = RowId(w, g, ref.uuid)
    BY <1>1, <2>1, RowFields
  <2>6. \A r \in CanonicalRows(w) : r.id = RowId(w, g, ref.uuid) => r.source = ref.uuid
    BY <1>2, RowIds
  <2>7. (CHOOSE r \in CanonicalRows(w) : r.id = RowId(w, g, ref.uuid)).source = ref.uuid
    BY <2>4, <2>5, <2>6
  <2> QED
    BY <2>2, <2>4, <2>5, <2>7 DEF SourceOfRow
<1> QED
  BY <1>3, <1>4

\* Every reference of an item of a valid manifest has its item.
LEMMA ReferencesOfItem ==
    ASSUME NEW m \in ValidManifest, NEW f \in Family, NEW x \in ToSet(SectionOf(Content[m], f))
    PROVE  /\ ParentOf(f, x) = None
                \/ \E y \in ToSet(SectionOf(Content[m], f)) : y.id = ParentOf(f, x)
           /\ ActorOf(f, x) = None
                \/ \E y \in ToSet(SectionOf(Content[m], "ACTOR")) : y.id = ActorOf(f, x)
           /\ ElementOf(f, x) = None
                \/ \E y \in ToSet(SectionOf(Content[m], "ANALYTICAL_ELEMENT")) :
                      y.id = ElementOf(f, x)
<1>1. CASE f = "ACTOR_ELEMENT_ROLE"
  BY <1>1, ReferencesResolve, FamilySections DEF ParentOf, ActorOf, ElementOf
<1>2. CASE f = "ACTOR"
  BY <1>2, ReferencesResolve, FamilySections DEF ParentOf, ActorOf, ElementOf
<1>3. CASE f = "ANALYTICAL_ELEMENT"
  BY <1>3, ReferencesResolve, FamilySections DEF ParentOf, ActorOf, ElementOf
<1> QED
  BY <1>1, <1>2, <1>3 DEF Family

\* The rows say of themselves and of one another what the manifest says.
LEMMA ItemsReadBack ==
    ASSUME NEW w \in Workspace, NEW pin, GoodPin(pin), CanonicalRows(w) = RowsOf(w, pin)
    PROVE  ActualItems(w) = ExpectedItems(w, pin)
<1> DEFINE Read(r) == [row |-> r, refers |-> <<SourceOfRow(w, r.parent), SourceOfRow(w, r.actor),
                                              SourceOfRow(w, r.element)>>]
<1>1. pin.manifest \in Manifest /\ pin.manifest \in ValidManifest
  BY NothingReported DEF GoodPin
<1>2. \A i \in ExpectedItems(w, pin) : Read(i.row) = i
  <2> SUFFICES ASSUME NEW i \in ExpectedItems(w, pin) PROVE Read(i.row) = i
    OBVIOUS
  <2>1. PICK f, x : /\ f \in Family /\ x \in ToSet(SectionOf(Content[pin.manifest], f))
                    /\ i = ItemOf(w, f, x)
    BY ExpectedAreItems
  <2>2. /\ i.row.parent = DerivedId(w, f, ParentOf(f, x))
        /\ i.row.actor = DerivedId(w, "ACTOR", ActorOf(f, x))
        /\ i.row.element = DerivedId(w, "ANALYTICAL_ELEMENT", ElementOf(f, x))
    BY <1>1, <2>1, RowFields
  <2>3. /\ SourceOfRow(w, i.row.parent) = SourceOf(ParentOf(f, x))
        /\ SourceOfRow(w, i.row.actor) = SourceOf(ActorOf(f, x))
        /\ SourceOfRow(w, i.row.element) = SourceOf(ElementOf(f, x))
    <3>1. "ACTOR" \in Family /\ "ANALYTICAL_ELEMENT" \in Family
      BY DEF Family
    <3> QED
      BY <1>1, <2>1, <2>2, <3>1, ReferencesOfItem, ReferenceReadBack
  <2>4. i = [row |-> i.row,
             refers |-> <<SourceOf(ParentOf(f, x)), SourceOf(ActorOf(f, x)),
                          SourceOf(ElementOf(f, x))>>]
    BY <2>1 DEF ItemOf, Item
  <2> QED
    BY <2>3, <2>4
<1>3. ActualItems(w) = {Read(r) : r \in RowsOf(w, pin)}
  BY DEF ActualItems
<1> HIDE DEF Read
<1> QED
  BY <1>2, <1>3 DEF RowsOf

\* A decimal that is no negative zero is stored as it is written.
LEMMA DecimalsReadBack ==
    ASSUME NEW n \in Decimal \cup {None}
    PROVE  /\ Column8(n) = n <=> ~(n # None /\ n.negative /\ n.size = 0)
           /\ Column8(n) = None <=> n = None
           /\ n # None => ~(Column8(n).negative /\ Column8(n).size = 0)
<1>1. CASE n = None
  BY <1>1 DEF Column8
<1>2. CASE n # None
  <2>1. n \in Decimal
    BY <1>2
  <2>2. Column8(n) = [n EXCEPT !.negative = n.negative /\ n.size > 0]
    BY <1>2 DEF Column8
  <2>3. Column8(n) \in Decimal
    BY <2>1, <2>2 DEF Decimal
  <2>4. None \notin Decimal
    BY AbsentAssumption, ContentAssumption
  <2>5. /\ Column8(n).size = n.size /\ Column8(n).fits = n.fits
        /\ Column8(n).negative = (n.negative /\ n.size > 0)
    BY <2>1, <2>2 DEF Decimal
  <2>6. Column8(n) = n <=> Column8(n).negative = n.negative
    BY <2>1, <2>3, <2>5 DEF Decimal
  <2>7. n.size \in Nat /\ n.negative \in BOOLEAN
    BY <2>1 DEF Decimal
  <2>8. n.size > 0 <=> n.size # 0
    BY <2>7
  <2>9. Column8(n).negative = n.negative <=> ~(n.negative /\ n.size = 0)
    BY <2>5, <2>7, <2>8
  <2>10. ~(Column8(n).negative /\ Column8(n).size = 0)
    BY <2>5, <2>8
  <2> QED
    BY <1>2, <2>3, <2>4, <2>6, <2>9, <2>10
<1> QED
  BY <1>1, <1>2

\* What a parameter row keeps of the parameter it is made from.
ParameterRow(pin, x) ==
    [id |-> <<pin.definition, "PARAMETER", x.id.uuid>>, definition |-> pin.definition,
     source |-> x.id.uuid, snapshot |-> [x EXCEPT !.id = None]]

LEMMA ExpectedAreParameters ==
    ASSUME NEW pin
    PROVE  ExpectedParameters(pin)
              = {ParameterRow(pin, x) : x \in ToSet(Content[pin.manifest].parameters)}
  BY DEF ExpectedParameters, ParameterRow

\* The bounds of a row before and after it is stored.
LEMMA StoredBounds ==
    ASSUME NEW pin, NEW x \in ParameterItem, NEW p, p = ParameterRow(pin, x)
    PROVE  /\ p.snapshot.minimum = x.minimum /\ p.snapshot.maximum = x.maximum
           /\ StoredParameter(p).snapshot.minimum = Column8(x.minimum)
           /\ StoredParameter(p).snapshot.maximum = Column8(x.maximum)
           /\ /\ Column8(x.minimum) = x.minimum /\ Column8(x.maximum) = x.maximum
              /\ Column8(x.step) = x.step
              => StoredParameter(p) = p
<1> DEFINE s == [x EXCEPT !.id = None]
<1> DEFINE t == [s EXCEPT !.minimum = Column8(s.minimum), !.maximum = Column8(s.maximum),
                          !.step = Column8(s.step)]
<1>1. /\ s.minimum = x.minimum /\ s.maximum = x.maximum /\ s.step = x.step
      /\ s = [k \in DOMAIN x |-> s[k]]
      /\ {"minimum", "maximum", "step"} \subseteq DOMAIN s
  <2>1. DOMAIN x = {"id", "code", "name", "type", "target", "minimum", "maximum", "step",
                    "statuses", "actors", "elements", "roles", "statement"}
    BY DEF ParameterItem
  <2>2. DOMAIN s = DOMAIN x /\ s = [k \in DOMAIN x |-> s[k]]
    OBVIOUS
  <2>3. s.minimum = x.minimum /\ s.maximum = x.maximum /\ s.step = x.step
    BY <2>1
  <2> QED
    BY <2>1, <2>2, <2>3
<1>2. p.snapshot = s
  BY DEF ParameterRow
<1>3. StoredParameter(p) = [p EXCEPT !.snapshot = t]
  BY <1>2 DEF StoredParameter
<1> HIDE DEF s
<1>4. t.minimum = Column8(s.minimum) /\ t.maximum = Column8(s.maximum)
  BY <1>1
<1>5. Column8(s.minimum) = s.minimum /\ Column8(s.maximum) = s.maximum /\ Column8(s.step) = s.step
         => t = s
  BY <1>1
<1> HIDE DEF t
<1>6. StoredParameter(p).snapshot = t
  BY <1>3 DEF ParameterRow
<1>7. t = s => StoredParameter(p) = p
  BY <1>2, <1>3 DEF ParameterRow
<1> QED
  BY <1>1, <1>2, <1>4, <1>5, <1>6, <1>7

\* Parameter rows read back as they were written exactly if no bound is "-0": the
\* policy has ruled out such a step.
LEMMA ParametersReadBack ==
    ASSUME NEW pin, GoodPin(pin)
    PROVE  StoredParameters(pin) = ExpectedParameters(pin)
              <=> ~NegativeZero(Content[pin.manifest])
<1> DEFINE m == pin.manifest
<1>1. m \in ValidManifest /\ m \in Manifest
  BY NothingReported DEF GoodPin
<1>2. \A x \in ToSet(Content[m].parameters) : x \in ParameterItem
  BY <1>1, ItemTypes
<1>3. \A x \in ToSet(Content[m].parameters) :
         /\ x.minimum \in Decimal \cup {None} /\ x.maximum \in Decimal \cup {None}
         /\ x.step \in Decimal \cup {None}
  BY <1>2, ContentAssumption DEF ParameterItem
<1>4. \A x \in ToSet(Content[m].parameters) : Column8(x.step) = x.step
  <2> SUFFICES ASSUME NEW x \in ToSet(Content[m].parameters) PROVE Column8(x.step) = x.step
    OBVIOUS
  <2>1. x.step # None => ~(x.step.negative /\ x.step.size = 0)
    <3> SUFFICES ASSUME x.step # None, x.step.negative, x.step.size = 0 PROVE FALSE
      OBVIOUS
    <3>1. Amount(x.step) <= 0
      <4>1. x.step \in Decimal
        BY <1>3
      <4>2. x.step.size \in Nat /\ x.step.negative = TRUE
        BY <4>1 DEF Decimal
      <4>3. Amount(x.step) = -x.step.size
        BY <4>2, Zenon DEF Amount
      <4>4. \A n \in Nat : -n <= 0
        OBVIOUS
      <4> QED
        BY <4>2, <4>3, <4>4
    <3>2. ~(Amount(x.step) <= 0)
      BY <1>1, StepsArePositive
    <3> QED
      BY <3>1, <3>2
  <2> QED
    BY <1>3, <2>1, DecimalsReadBack
<1> HIDE DEF m
<1>5. ExpectedParameters(pin) = {ParameterRow(pin, x) : x \in ToSet(Content[m].parameters)}
  BY ExpectedAreParameters DEF m
<1>6. ASSUME ~NegativeZero(Content[m]) PROVE StoredParameters(pin) = ExpectedParameters(pin)
  <2>1. \A p \in ExpectedParameters(pin) : StoredParameter(p) = p
    <3> SUFFICES ASSUME NEW x \in ToSet(Content[m].parameters), NEW p, p = ParameterRow(pin, x)
                 PROVE  StoredParameter(p) = p
      BY <1>5
    <3>1. \A n \in {x.minimum, x.maximum} \ {None} : ~(n.negative /\ n.size = 0)
      BY <1>6 DEF NegativeZero
    <3>2. Column8(x.minimum) = x.minimum /\ Column8(x.maximum) = x.maximum
      BY <1>3, <3>1, DecimalsReadBack
    <3> QED
      BY <1>2, <1>4, <3>2, StoredBounds
  <2> QED
    BY <2>1 DEF StoredParameters
<1>7. ASSUME NegativeZero(Content[m]), StoredParameters(pin) = ExpectedParameters(pin) PROVE FALSE
  <2>1. PICK x \in ToSet(Content[m].parameters) :
           \E n \in {x.minimum, x.maximum} \ {None} : n.negative /\ n.size = 0
    BY <1>7 DEF NegativeZero
  <2>2. ParameterRow(pin, x) \in StoredParameters(pin)
    BY <1>5, <1>7
  <2>3. PICK q \in ExpectedParameters(pin) : ParameterRow(pin, x) = StoredParameter(q)
    BY <2>2 DEF StoredParameters
  <2>4. PICK y \in ToSet(Content[m].parameters) : q = ParameterRow(pin, y)
    BY <1>5
  <2>5. x \in ParameterItem /\ y \in ParameterItem
    BY <1>2
  <2>6. /\ StoredParameter(q).snapshot.minimum = Column8(y.minimum)
        /\ StoredParameter(q).snapshot.maximum = Column8(y.maximum)
    BY <2>4, <2>5, StoredBounds
  <2>7. /\ ParameterRow(pin, x).snapshot.minimum = x.minimum
        /\ ParameterRow(pin, x).snapshot.maximum = x.maximum
    BY <2>5, StoredBounds
  <2>8. x.minimum = Column8(y.minimum) /\ x.maximum = Column8(y.maximum)
    BY <2>3, <2>6, <2>7
  <2>9. \A n \in {y.minimum, y.maximum} :
           Column8(n) # None => ~(Column8(n).negative /\ Column8(n).size = 0)
    BY <1>3, DecimalsReadBack
  <2> QED
    BY <2>1, <2>8, <2>9
<1> QED
  BY <1>6, <1>7 DEF m

\* A workspace whose projection stands is complete exactly if its parameters read
\* back.
LEMMA CompleteIffReadable ==
    ASSUME ProofsInv, NEW w \in Pinned, PinHolds(PinOf(w)), ProofsOf(w) # {}
    PROVE  /\ Verification(w) = "COMPLETE" <=> ~NegativeZero(Content[PinOf(w).manifest])
           /\ Stands(w, PinOf(w))
<1>1. w \in Workspace /\ Stands(w, PinOf(w)) /\ GoodPin(PinOf(w))
  BY DEF ProofsInv, Pinned, PinHolds
<1>2. Cardinality(ProofsOf(w)) = 1
  <2>1. PICK e \in ProofsOf(w) : TRUE
    OBVIOUS
  <2>2. ProofsOf(w) = {e}
    BY <2>1 DEF ProofsInv, ProofsOf
  <2> QED
    BY <2>2, FS_Singleton
<1>3. /\ Derivable(PinOf(w)) /\ completed[w] = Projection(w, PinOf(w))
      /\ \A e \in ProofsOf(w) : e.projection = Projection(w, PinOf(w))
  BY <1>1 DEF Stands
<1>4. ActualItems(w) = Projection(w, PinOf(w)).items
  BY <1>1, ItemsReadBack DEF Stands, Projection
<1>5. ActualParameters(PinOf(w).definition) = Projection(w, PinOf(w)).parameters
         <=> ~NegativeZero(Content[PinOf(w).manifest])
  BY <1>1, ParametersReadBack DEF Stands, Projection
<1>6. Verification(w) = "COMPLETE"
         <=> ActualParameters(PinOf(w).definition) = Projection(w, PinOf(w)).parameters
  BY <1>2, <1>3, <1>4 DEF Verification
<1> QED
  BY <1>1, <1>5, <1>6

-----------------------------------------------------------------------------
(* Every step keeps the invariant.                                         *)

\* A projection is the lifecycle with more rows.
LEMMA StepIsLifecycleStep == [ProjectionNext]_allvars => [LifecycleNext]_dbvars
<1> SUFFICES ASSUME [ProjectionNext]_allvars PROVE [LifecycleNext]_dbvars
  OBVIOUS
<1>1. ASSUME NEW r \in Request, StudioStep(r) PROVE LifecycleNext
  BY <1>1 DEF StudioStep, LifecycleNext
<1>2. ASSUME NEW q \in Projecting, ProjectWorkspace(q) PROVE UNCHANGED dbvars
  BY <1>2 DEF ProjectWorkspace
<1>3. ASSUME NEW q \in Creation, CreateWorkspaceFor(q) PROVE UNCHANGED dbvars
  BY <1>3 DEF CreateWorkspaceFor
<1>4. ASSUME NEW x \in Legacy, ImportLegacy(x) PROVE UNCHANGED dbvars
  BY <1>4 DEF ImportLegacy
<1>5. ASSUME NEW w \in Pinned, ExportPackage(w) PROVE UNCHANGED dbvars
  BY <1>5 DEF ExportPackage
<1>6. CASE UNCHANGED allvars
  BY <1>6 DEF allvars
<1> QED
  BY <1>1, <1>2, <1>3, <1>4, <1>5, <1>6 DEF ProjectionNext

\* What the lifecycle ensures of its rows.
LifecycleHolds == TypeOK /\ PinsExact /\ ReviewedBytes

LEMMA ProjectionInherits == ProjectionSpec => []LifecycleHolds
<1>1. ProjectionSpec => LifecycleSpec
  <2>1. ProjectionInit => LifecycleInit
    BY DEF ProjectionInit
  <2> QED
    BY <2>1, StepIsLifecycleStep, PTL DEF ProjectionSpec, LifecycleSpec
<1>2. TypeOK /\ PinsExact /\ ReviewedBytes <=> LifecycleHolds
  BY DEF LifecycleHolds
<1> QED
  BY <1>1, <1>2, LifecycleTypes, PinsAreExact, BytesAreReviewed, PTL

\* A step that writes no projection.
LEMMA NothingWritten ==
    ASSUME ProofsInv, UNCHANGED <<proofs, completed, parameters>>,
           \A v \in Workspace : CanonicalRows(v)' = CanonicalRows(v),
           \A u \in Pinned : u \in Pinned' /\ PinOf(u)' = PinOf(u),
           \A u \in Pinned' : PinHolds(PinOf(u))'
    PROVE  ProofsInv'
<1>1. \A v \in Workspace : ProofsOf(v)' = ProofsOf(v)
  BY DEF ProofsOf
<1>2. \A d : ActualParameters(d)' = ActualParameters(d)
  BY DEF ActualParameters
<1>3. ASSUME NEW v \in Workspace, ProofsOf(v) # {} PROVE Stands(v, PinOf(v))'
  <2>1. v \in Pinned
    BY <1>3 DEF ProofsInv, ProofsOf
  <2>2. PICK p : p = PinOf(v)
    OBVIOUS
  <2>3. v \in Pinned' /\ PinOf(v)' = p
    BY <2>1, <2>2
  <2>4. PinHolds(p)'
    <3>1. PinHolds(PinOf(v))'
      BY <2>3
    <3> QED
      BY <2>3, <3>1
  <2>5. Stands(v, p)
    BY <1>3, <2>2 DEF ProofsInv
  <2>6. ActualParameters(p.definition)' = ActualParameters(p.definition)
    <3>1. PICK d : d = p.definition
      OBVIOUS
    <3> QED
      BY <1>2, <3>1
  <2>7. Stands(v, p)'
    BY <1>1, <2>4, <2>5, <2>6, StandsStays
  <2> QED
    BY <2>3, <2>7
<1>4. \A v \in Workspace :
         IF ProofsOf(v)' = {} THEN CanonicalRows(v)' = {} /\ completed'[v] = None
         ELSE Stands(v, PinOf(v))'
  BY <1>1, <1>3 DEF ProofsInv
<1>5. \A e \in proofs' : e.workspace \in Pinned'
  BY DEF ProofsInv
<1> QED
  BY <1>4, <1>5 DEF ProofsInv

\* Packages stay what they are: receipts and pins do.
LEMMA PackagesStay ==
    ASSUME PackagesInv, proofs \subseteq proofs',
           \A u \in Pinned : u \in Pinned' /\ PinOf(u)' = PinOf(u),
           NEW x \in packages
    PROVE  /\ x.workspace \in Pinned' /\ x.receipt \in ProofsOf(x.workspace)'
           /\ x = PackageOf(x.workspace, x.receipt)' /\ Sealed(x)'
           /\ ~NegativeZero(Content[x.pin.manifest])
<1>1. /\ x.workspace \in Pinned /\ x.receipt \in ProofsOf(x.workspace)
      /\ x = PackageOf(x.workspace, x.receipt) /\ Sealed(x)
      /\ ~NegativeZero(Content[x.pin.manifest])
  BY DEF PackagesInv
<1>2. x.workspace \in Pinned' /\ PinOf(x.workspace)' = PinOf(x.workspace)
  BY <1>1
<1>3. x.receipt \in ProofsOf(x.workspace)'
  BY <1>1 DEF ProofsOf
<1>4. PackageOf(x.workspace, x.receipt)' = PackageOf(x.workspace, x.receipt)
  BY <1>2 DEF PackageOf
<1>5. Sealed(x)'
  BY <1>1 DEF Sealed
<1> QED
  BY <1>1, <1>2, <1>3, <1>4, <1>5

PinsAllHold == \A w \in Pinned : PinHolds(PinOf(w))

LEMMA AllPinsHold == LifecycleHolds /\ DerivedInv => PinsAllHold
  BY PinsHold DEF LifecycleHolds, PinsAllHold

LEMMA StudioKeeps ==
    ASSUME LifecycleHolds, LifecycleHolds', ProjectionInv, NEW r \in Request, StudioStep(r)
    PROVE  ProjectionInv'
<1>1. /\ UNCHANGED projectionvars /\ DerivedInv'
      /\ \A w \in Pinned : w \in Pinned' /\ PinOf(w)' = PinOf(w)
  BY StudioPins DEF LifecycleHolds, ProjectionInv
<1>2. \A u \in Pinned' : PinHolds(PinOf(u))'
  <2>1. PinsAllHold'
    BY <1>1, AllPinsHold, PTL
  <2> QED
    BY <2>1 DEF PinsAllHold
<1>3. \A v \in Workspace : CanonicalRows(v)' = CanonicalRows(v)
  BY <1>1 DEF projectionvars, CanonicalRows
<1>4. ProofsInv'
  BY <1>1, <1>2, <1>3, NothingWritten DEF projectionvars, ProjectionInv
<1>5. PackagesInv'
  <2>1. packages' = packages /\ proofs \subseteq proofs'
    BY <1>1 DEF projectionvars
  <2> QED
    BY <1>1, <2>1, PackagesStay DEF ProjectionInv, PackagesInv
<1> QED
  BY <1>1, <1>4, <1>5 DEF ProjectionInv

\* A projection writes for w under pin, and moves no other pin.
WritesFor(w, pin) ==
    /\ PinHolds(pin) /\ Materializable(w, pin) /\ Written(w, pin)
    /\ UNCHANGED <<dbvars, packages>> /\ DerivedInv'
    /\ \A u \in Pinned : u \in Pinned' /\ PinOf(u)' = PinOf(u)
    /\ w \in Pinned' /\ PinOf(w)' = pin

LEMMA ProjectWrites ==
    ASSUME LifecycleHolds, ProjectionInv, NEW q \in Projecting, ProjectWorkspace(q)
    PROVE  \E w \in Workspace : \E pin : WritesFor(w, pin)
<1>1. PICK w, pin : w = q.workspace /\ pin = PinOf(q.workspace)
  OBVIOUS
<1>2. /\ w \in Pinned /\ w \in Workspace /\ Materializable(w, pin)
      /\ Materialize(w, pin, "STANDALONE", q)
      /\ UNCHANGED <<dbvars, derived>> /\ UNCHANGED <<dbvars, packages>>
  BY <1>1 DEF ProjectWorkspace, Pinned
<1>3. DerivedInv' /\ Pinned' = Pinned /\ \A u \in Pinned : PinOf(u)' = PinOf(u)
  BY <1>2, SamePins DEF ProjectionInv
<1>4. PinHolds(pin)
  BY <1>1, <1>2, PinsHold DEF LifecycleHolds, ProjectionInv
<1>5. Written(w, pin)
  BY <1>2, MaterializeWrites
<1> QED
  BY <1>1, <1>2, <1>3, <1>4, <1>5 DEF WritesFor

LEMMA CreateWrites ==
    ASSUME LifecycleHolds, ProjectionInv, NEW q \in Creation, CreateWorkspaceFor(q)
    PROVE  \E w \in Workspace : \E pin : WritesFor(w, pin)
<1>1. PICK w, d : w = q.workspace /\ d = q.definition
  OBVIOUS
<1>2. w \in Workspace /\ d \in Definition
  BY <1>1, CreationAssumption
<1>3. /\ Exists(d) /\ definitions[d].status = "PUBLISHED" /\ w \notin Pinned
      /\ UNCHANGED dbvars /\ UNCHANGED <<dbvars, packages>>
  BY <1>1 DEF CreateWorkspaceFor
<1>4. PICK pin : pin = [project |-> definitions[d].project, definition |-> d,
                        manifest |-> definitions[d].manifest]
  OBVIOUS
<1>5. /\ Materializable(w, pin) /\ Materialize(w, pin, "WORKSPACE_CREATE", q)
      /\ derived' = [derived EXCEPT ![w] = pin]
  BY <1>1, <1>4 DEF CreateWorkspaceFor
<1>6. Written(w, pin)
  BY <1>5, MaterializeWrites
<1>7. PinHolds(pin)
  <2>1. definitions[d] \in DefinitionRow
    BY <1>2, <1>3 DEF LifecycleHolds, TypeOK, Exists
  <2>2. pin \in WorkspaceRow
    BY <1>2, <1>4, <2>1 DEF DefinitionRow, WorkspaceRow
  <2>3. definitions[d].manifest \in ValidManifest
    BY <1>2, <1>3 DEF LifecycleHolds, ReviewedBytes
  <2>4. pin.definition = d /\ pin.manifest = definitions[d].manifest
    BY <1>4
  <2> QED
    BY <1>3, <2>2, <2>3, <2>4 DEF PinHolds, GoodPin
<1>8. PinHolds(pin)' /\ \A p : PinHolds(p) => PinHolds(p)'
  BY <1>3, <1>7 DEF PinHolds, GoodPin, Exists, dbvars
<1>9. derived'[w] = pin /\ workspaces'[w] = None /\ workspaces' = workspaces /\ pin # None
  <2>1. workspaces[w] = None
    BY <1>2, <1>3 DEF Pinned
  <2>2. workspaces' = workspaces
    BY <1>3 DEF dbvars
  <2>3. pin # None
    BY <1>7, NoneAssumption DEF PinHolds, GoodPin
  <2> QED
    BY <1>2, <1>5, <2>1, <2>2, <2>3 DEF ProjectionInv, DerivedInv
<1>10. \A u \in Workspace \ {w} : derived'[u] = derived[u]
  BY <1>5 DEF ProjectionInv, DerivedInv
<1>11. DerivedInv'
  <2>1. derived' \in [Workspace -> WorkspaceRow \cup {None}]
    BY <1>2, <1>5, <1>7 DEF ProjectionInv, DerivedInv, PinHolds, GoodPin
  <2>2. \A u \in Workspace : derived'[u] # None =>
           workspaces'[u] = None /\ PinHolds(derived[u])'
    <3> SUFFICES ASSUME NEW u \in Workspace, derived'[u] # None
                 PROVE  workspaces'[u] = None /\ PinHolds(derived[u])'
      OBVIOUS
    <3>1. PICK p : p = derived'[u]
      OBVIOUS
    <3>2. workspaces'[u] = None /\ PinHolds(p)'
      BY <1>8, <1>9, <1>10, <3>1 DEF ProjectionInv, DerivedInv
    <3> QED
      BY <3>1, <3>2
  <2> QED
    BY <2>1, <2>2 DEF DerivedInv
<1>12. \A u \in Pinned : u \in Pinned' /\ PinOf(u)' = PinOf(u)
  <2> SUFFICES ASSUME NEW u \in Pinned PROVE u \in Pinned' /\ PinOf(u)' = PinOf(u)
    OBVIOUS
  <2>1. u \in Workspace \ {w}
    BY <1>3 DEF Pinned
  <2> QED
    BY <1>9, <1>10, <2>1 DEF Pinned, PinOf
<1>13. w \in Pinned' /\ PinOf(w)' = pin
  BY <1>2, <1>9 DEF Pinned, PinOf
<1> QED
  BY <1>2, <1>3, <1>5, <1>6, <1>7, <1>11, <1>12, <1>13 DEF WritesFor

LEMMA WritesKeep ==
    ASSUME LifecycleHolds, ProjectionInv, NEW w \in Workspace, NEW pin, WritesFor(w, pin)
    PROVE  ProjectionInv'
<1>1. \A u \in Pinned : PinHolds(PinOf(u))
  BY PinsHold DEF LifecycleHolds, ProjectionInv
<1>2. ProofsInv'
  BY <1>1, WrittenKeepsProofs DEF ProjectionInv, WritesFor
<1>3. packages' = packages /\ proofs \subseteq proofs'
  BY DEF WritesFor, Written
<1>4. PackagesInv'
  BY <1>3, PackagesStay DEF ProjectionInv, PackagesInv, WritesFor
<1> QED
  BY <1>2, <1>4 DEF ProjectionInv, WritesFor

LEMMA ImportKeeps ==
    ASSUME LifecycleHolds, ProjectionInv, NEW x \in Legacy, ImportLegacy(x)
    PROVE  ProjectionInv'
<1>1. /\ UNCHANGED <<dbvars, derived>> /\ UNCHANGED <<proofs, completed, parameters>>
      /\ packages' = packages
  BY DEF ImportLegacy
<1>2. PICK row : rows' = rows \cup {row} /\ row.source = None
  <2> DEFINE row == [id |-> x.id, workspace |-> x.workspace, family |-> x.family,
                     source |-> None, code |-> x.code, order |-> 0, parent |-> None,
                     actor |-> None, element |-> None, text |-> "label"]
  <2>1. rows' = rows \cup {row} /\ row.source = None
    BY DEF ImportLegacy
  <2> HIDE DEF row
  <2> QED
    BY <2>1
<1>3. DerivedInv' /\ Pinned' = Pinned /\ \A u \in Pinned : PinOf(u)' = PinOf(u)
  BY <1>1, SamePins DEF ProjectionInv
<1>4. \A v \in Workspace : CanonicalRows(v)' = CanonicalRows(v)
  BY <1>2 DEF CanonicalRows
<1>5. \A u \in Pinned' : PinHolds(PinOf(u))'
  <2>1. LifecycleHolds'
    BY <1>1 DEF LifecycleHolds, TypeOK, PinsExact, ReviewedBytes, dbvars, InProject,
                Exists, InitialReceipts, PublicationsOf
  <2>2. PinsAllHold'
    BY <1>3, <2>1, AllPinsHold, PTL
  <2> QED
    BY <2>2 DEF PinsAllHold
<1>6. ProofsInv'
  BY <1>1, <1>3, <1>4, <1>5, NothingWritten DEF ProjectionInv
<1>7. PackagesInv'
  <2>1. proofs \subseteq proofs'
    BY <1>1
  <2> QED
    BY <1>1, <1>3, <2>1, PackagesStay DEF ProjectionInv, PackagesInv
<1> QED
  BY <1>3, <1>6, <1>7 DEF ProjectionInv

\* Nothing but packages changes.
LEMMA OnlyPackagesChange ==
    ASSUME ProjectionInv, UNCHANGED <<dbvars, derived, rows, parameters, proofs, completed>>
    PROVE  /\ DerivedInv' /\ ProofsInv'
           /\ \A x \in packages :
                 /\ x.workspace \in Pinned' /\ x.receipt \in ProofsOf(x.workspace)'
                 /\ x = PackageOf(x.workspace, x.receipt)' /\ Sealed(x)'
                 /\ ~NegativeZero(Content[x.pin.manifest])
<1>1. DerivedInv' /\ Pinned' = Pinned /\ \A u \in Pinned : PinOf(u)' = PinOf(u)
  BY SamePins DEF ProjectionInv
<1>2. ASSUME NEW v, NEW pin, Stands(v, pin) PROVE Stands(v, pin)'
  BY <1>2 DEF Stands, Derivable, ProofsOf, CanonicalRows, ActualParameters, RowsOf, dbvars
<1>3. \A v \in Workspace : ProofsOf(v)' = ProofsOf(v) /\ CanonicalRows(v)' = CanonicalRows(v)
  BY DEF ProofsOf, CanonicalRows
<1>4. ProofsInv'
  <2>1. ASSUME NEW v \in Workspace, ProofsOf(v) # {} PROVE Stands(v, PinOf(v))'
    <3>1. v \in Pinned
      BY <2>1 DEF ProjectionInv, ProofsInv, ProofsOf
    <3>2. PICK pin : pin = PinOf(v)
      OBVIOUS
    <3>3. Stands(v, pin)
      BY <2>1, <3>2 DEF ProjectionInv, ProofsInv
    <3>4. Stands(v, pin)' /\ PinOf(v)' = pin
      BY <1>1, <1>2, <3>1, <3>2, <3>3
    <3> QED
      BY <3>4
  <2> QED
    BY <1>1, <1>3, <2>1 DEF ProjectionInv, ProofsInv
<1> QED
  BY <1>1, <1>4, PackagesStay DEF ProjectionInv

LEMMA ExportKeeps ==
    ASSUME LifecycleHolds, ProjectionInv, NEW w \in Pinned, ExportPackage(w)
    PROVE  ProjectionInv'
<1>1. PICK receipt \in proofs :
         /\ Exportable(w, receipt)
         /\ packages' = packages \cup {PackageOf(w, receipt)}
         /\ UNCHANGED <<dbvars, derived, rows, parameters, proofs, completed>>
  BY DEF ExportPackage
<1>2. /\ DerivedInv' /\ ProofsInv'
      /\ \A x \in packages :
            /\ x.workspace \in Pinned' /\ x.receipt \in ProofsOf(x.workspace)'
            /\ x = PackageOf(x.workspace, x.receipt)' /\ Sealed(x)'
            /\ ~NegativeZero(Content[x.pin.manifest])
  BY <1>1, OnlyPackagesChange
<1>3. PICK x : x = PackageOf(w, receipt)
  OBVIOUS
<1>4. x.workspace = w /\ x.receipt = receipt /\ x.pin = PinOf(w)
  BY <1>3 DEF PackageOf
<1>5. Verification(w) = "COMPLETE" /\ ProofsOf(w) = {receipt} /\ Sealed(x)
  BY <1>1, <1>3 DEF Exportable
<1>6. ~NegativeZero(Content[x.pin.manifest])
  <2>1. PinHolds(PinOf(w))
    BY PinsHold DEF LifecycleHolds, ProjectionInv
  <2> QED
    BY <1>4, <1>5, <2>1, CompleteIffReadable DEF ProjectionInv
<1>7. w \in Pinned' /\ PinOf(w)' = PinOf(w)
  BY <1>1, SamePins DEF ProjectionInv
<1>8. receipt \in ProofsOf(w)'
  BY <1>1, <1>5 DEF ProofsOf
<1>9. x = PackageOf(w, receipt)'
  BY <1>3, <1>7 DEF PackageOf
<1>10. Sealed(x)'
  BY <1>5 DEF Sealed
<1>11. /\ x.workspace \in Pinned' /\ x.receipt \in ProofsOf(x.workspace)'
       /\ x = PackageOf(x.workspace, x.receipt)' /\ Sealed(x)'
       /\ ~NegativeZero(Content[x.pin.manifest])
  BY <1>4, <1>6, <1>7, <1>8, <1>9, <1>10
<1>12. packages' = packages \cup {x}
  BY <1>1, <1>3
<1>13. PackagesInv'
  BY <1>2, <1>11, <1>12 DEF PackagesInv
<1> QED
  BY <1>2, <1>13 DEF ProjectionInv

LEMMA ProjectionStep ==
    ASSUME LifecycleHolds, LifecycleHolds', ProjectionInv, [ProjectionNext]_allvars
    PROVE  ProjectionInv'
<1>1. CASE UNCHANGED allvars
  <2>1. UNCHANGED <<dbvars, derived, rows, parameters, proofs, completed>> /\ packages' = packages
    BY <1>1 DEF allvars, projectionvars
  <2> QED
    BY <2>1, OnlyPackagesChange DEF ProjectionInv, PackagesInv
<1> QED
  BY <1>1, StudioKeeps, ProjectWrites, CreateWrites, WritesKeep, ImportKeeps, ExportKeeps
  DEF ProjectionNext

LEMMA ProjectionInductive == ProjectionSpec => [](LifecycleHolds /\ ProjectionInv)
<1>1. ProjectionInit => ProjectionInv
  <2> SUFFICES ASSUME ProjectionInit PROVE ProjectionInv
    OBVIOUS
  <2>1. /\ derived = [w \in Workspace |-> None] /\ rows = {} /\ proofs = {} /\ packages = {}
        /\ completed = [w \in Workspace |-> None]
    BY DEF ProjectionInit
  <2>2. DerivedInv
    BY <2>1 DEF DerivedInv
  <2>3. ProofsInv
    BY <2>1 DEF ProofsInv, ProofsOf, CanonicalRows
  <2>4. PackagesInv
    BY <2>1 DEF PackagesInv
  <2> QED
    BY <2>2, <2>3, <2>4 DEF ProjectionInv
<1>2. ProjectionSpec => ProjectionInit /\ [][ProjectionNext]_allvars
  BY DEF ProjectionSpec
<1>3. LifecycleHolds /\ LifecycleHolds' /\ ProjectionInv /\ [ProjectionNext]_allvars
         => ProjectionInv'
  BY ProjectionStep
<1> QED
  BY <1>1, <1>2, <1>3, ProjectionInherits, PTL

-----------------------------------------------------------------------------
(* Theorems.                                                               *)

\* A complete workspace takes values for exactly the cells that the manifest it
\* pins declares, whatever siblings, successors and 2.0 packages have left in the
\* tables it shares with them: the policy made codes and references of a manifest
\* unambiguous, canonical ids keep that through UUIDs, and a pin that holds names
\* one set of bytes for ever.
THEOREM CellsAlwaysDeclared == ProjectionSpec => []CellsAreDeclared
<1>1. LifecycleHolds /\ ProjectionInv => CellsAreDeclared
  <2> SUFFICES ASSUME LifecycleHolds, ProjectionInv,
                      NEW w \in Pinned, Verification(w) = "COMPLETE", NEW p \in parameters
               PROVE
        /\ \A r \in rows :
              TargetAdmitted(w, p, r) <=> Declared(w, p, r) /\ p.snapshot.target = r.family
        /\ \A actor \in {r \in rows : r.family = "ACTOR"},
              element \in {r \in rows : r.family = "ANALYTICAL_ELEMENT"} :
              AssessmentAdmitted(w, p, actor, element) <=>
                  /\ p.snapshot.target = "ACTOR_ELEMENT_ASSESSMENT"
                  /\ Declared(w, p, actor) /\ Declared(w, p, element)
                  /\ \E role \in CanonicalRows(w) :
                        /\ role.family = "ACTOR_ELEMENT_ROLE"
                        /\ role.actor = actor.id /\ role.element = element.id
                        /\ Declared(w, p, role)
    BY DEF CellsAreDeclared
  <2>1. w \in Workspace /\ PinHolds(PinOf(w))
    BY PinsHold DEF LifecycleHolds, ProjectionInv, Pinned
  <2>2. SamePin(w, p) <=> p.definition = PinOf(w).definition
    BY <2>1 DEF SamePin, PinHolds
  <2>3. \A r \in rows :
           Declared(w, p, r) <=> /\ SamePin(w, p)
                                 /\ r \in CanonicalRows(w)
                                 /\ r.source \in AppliesTo(p, r.family)
    <3> SUFFICES ASSUME NEW r \in rows
                 PROVE  Declared(w, p, r) <=> /\ SamePin(w, p)
                                              /\ r \in CanonicalRows(w)
                                              /\ r.source \in AppliesTo(p, r.family)
      OBVIOUS
    <3>1. CASE r \in CanonicalRows(w) /\ p.definition = PinOf(w).definition
      BY <2>1, <2>2, <3>1, AppliesIffDeclared DEF PinHolds
    <3>2. CASE ~(r \in CanonicalRows(w) /\ p.definition = PinOf(w).definition)
      BY <2>2, <3>2 DEF Declared
    <3> QED
      BY <3>1, <3>2
  <2>4. \A r \in rows : r \in CanonicalRows(w) <=> r.workspace = w /\ r.source # None
    BY DEF CanonicalRows
  <2>5. \A r \in CanonicalRows(w) : r \in rows
    BY DEF CanonicalRows
  <2>6. \A r \in rows :
           TargetAdmitted(w, p, r) <=> Declared(w, p, r) /\ p.snapshot.target = r.family
    BY <2>3, <2>4 DEF TargetAdmitted
  <2>7. ASSUME NEW actor \in rows, actor.family = "ACTOR",
               NEW element \in rows, element.family = "ANALYTICAL_ELEMENT"
        PROVE  AssessmentAdmitted(w, p, actor, element) <=>
                  /\ p.snapshot.target = "ACTOR_ELEMENT_ASSESSMENT"
                  /\ Declared(w, p, actor) /\ Declared(w, p, element)
                  /\ \E role \in CanonicalRows(w) :
                        /\ role.family = "ACTOR_ELEMENT_ROLE"
                        /\ role.actor = actor.id /\ role.element = element.id
                        /\ Declared(w, p, role)
    <3>1. Declared(w, p, actor) <=> /\ SamePin(w, p) /\ actor.workspace = w
                                    /\ actor.source # None
                                    /\ actor.source \in AppliesTo(p, "ACTOR")
      BY <2>3, <2>4, <2>7
    <3>2. Declared(w, p, element) <=> /\ SamePin(w, p) /\ element.workspace = w
                                      /\ element.source # None
                                      /\ element.source \in AppliesTo(p, "ANALYTICAL_ELEMENT")
      BY <2>3, <2>4, <2>7
    <3>3. \A role \in CanonicalRows(w) :
             SamePin(w, p) /\ role.family = "ACTOR_ELEMENT_ROLE" =>
             (Declared(w, p, role) <=> role.source \in AppliesTo(p, "ACTOR_ELEMENT_ROLE"))
      BY <2>3, <2>5
    <3> QED
      BY <3>1, <3>2, <3>3 DEF AssessmentAdmitted
  <2> QED
    BY <2>6, <2>7
<1> QED
  BY <1>1, ProjectionInductive, PTL

\* The rows of one family are those of the items of its section.
LEMMA RowsOfFamily ==
    ASSUME NEW w \in Workspace, NEW pin, GoodPin(pin), CanonicalRows(w) = RowsOf(w, pin),
           NEW f \in Family, NEW r
    PROVE  r \in CanonicalRows(w) /\ r.family = f
              <=> \E x \in ToSet(SectionOf(Content[pin.manifest], f)) : r = ItemOf(w, f, x).row
<1>1. pin.manifest \in Manifest
  BY NothingReported DEF GoodPin
<1>2. ASSUME r \in RowsOf(w, pin), r.family = f
      PROVE  \E x \in ToSet(SectionOf(Content[pin.manifest], f)) : r = ItemOf(w, f, x).row
  <2>1. PICK i \in ExpectedItems(w, pin) : r = i.row
    BY <1>2 DEF RowsOf
  <2>2. PICK g, x : /\ g \in Family /\ x \in ToSet(SectionOf(Content[pin.manifest], g))
                    /\ i = ItemOf(w, g, x)
    BY ExpectedAreItems
  <2>3. r.family = g
    BY <1>1, <2>1, <2>2, RowFields
  <2> QED
    BY <1>2, <2>1, <2>2, <2>3
<1>3. ASSUME NEW x \in ToSet(SectionOf(Content[pin.manifest], f)), r = ItemOf(w, f, x).row
      PROVE  r \in RowsOf(w, pin) /\ r.family = f
  <2>1. ItemOf(w, f, x) \in ExpectedItems(w, pin)
    BY ExpectedAreItems
  <2> QED
    BY <1>1, <1>3, <2>1, RowFields DEF RowsOf
<1> QED
  BY <1>2, <1>3

CodeOfRow(w, id) == {r.code : r \in {r \in CanonicalRows(w) : r.id = id}}
CodeOfItem(items, id) == {x.code : x \in {x \in ToSet(items) : x.id = id}}

\* The row that a row refers to has the code of the item that its item refers to.
LEMMA CodesReadBack ==
    ASSUME NEW w \in Workspace, NEW pin, GoodPin(pin), Derivable(pin),
           CanonicalRows(w) = RowsOf(w, pin), NEW g \in Family, NEW ref,
           ref = None \/ \E y \in ToSet(SectionOf(Content[pin.manifest], g)) : y.id = ref
    PROVE  CodeOfRow(w, DerivedId(w, g, ref))
              = CodeOfItem(SectionOf(Content[pin.manifest], g), ref)
<1> DEFINE items == ToSet(SectionOf(Content[pin.manifest], g))
<1>1. pin.manifest \in Manifest
  BY NothingReported DEF GoodPin
<1>2. \A r \in CanonicalRows(w) : \E f \in Family : \E x \in ToSet(SectionOf(Content[pin.manifest], f)) :
         /\ r.id = RowId(w, f, x.id.uuid) /\ r.id # None /\ r.family = f /\ r.code = x.code
  <2> SUFFICES ASSUME NEW r \in RowsOf(w, pin)
               PROVE  \E f \in Family : \E x \in ToSet(SectionOf(Content[pin.manifest], f)) :
                         /\ r.id = RowId(w, f, x.id.uuid) /\ r.id # None
                         /\ r.family = f /\ r.code = x.code
    OBVIOUS
  <2>1. PICK i \in ExpectedItems(w, pin) : r = i.row
    BY DEF RowsOf
  <2>2. PICK f, x : /\ f \in Family /\ x \in ToSet(SectionOf(Content[pin.manifest], f))
                    /\ i = ItemOf(w, f, x)
    BY ExpectedAreItems
  <2>3. r.id = RowId(w, f, x.id.uuid) /\ r.id # None /\ r.family = f /\ r.code = x.code
    BY <1>1, <2>1, <2>2, RowFields
  <2> QED
    BY <2>2, <2>3
<1>3. \A x \in items : x.id # None /\ x.id \in StableId /\ ~x.id.upper
  BY <1>1, ItemFields, IdsAreLower
<1>4. CASE ref = None
  <2>1. DerivedId(w, g, ref) = None
    BY <1>4, RowIds
  <2>2. {r \in CanonicalRows(w) : r.id = None} = {}
    BY <1>2
  <2>3. {x \in items : x.id = ref} = {}
    BY <1>3, <1>4
  <2> QED
    BY <2>1, <2>2, <2>3 DEF CodeOfRow, CodeOfItem
<1>5. CASE ref # None
  <2>1. PICK y \in items : y.id = ref
    BY <1>5
  <2>2. DerivedId(w, g, ref) = RowId(w, g, ref.uuid)
    BY <1>5, RowIds
  <2>3. ASSUME NEW r \in CanonicalRows(w), r.id = RowId(w, g, ref.uuid)
        PROVE  \E x \in items : x.id = ref /\ r.code = x.code
    <3>1. PICK f, x : /\ f \in Family /\ x \in ToSet(SectionOf(Content[pin.manifest], f))
                      /\ r.id = RowId(w, f, x.id.uuid) /\ r.code = x.code
      BY <1>2, <2>3
    <3>2. f = g /\ x.id.uuid = ref.uuid
      <4>1. RowId(w, f, x.id.uuid) = RowId(w, g, ref.uuid)
        BY <2>3, <3>1
      <4> QED
        BY <4>1, RowIdsApart
    <3>3. x \in items
      BY <3>1, <3>2
    <3>4. x.id = y.id
      BY <1>3, <2>1, <3>2, <3>3, LowerIdsApart
    <3> QED
      BY <2>1, <3>1, <3>3, <3>4
  <2>4. ASSUME NEW x \in items, x.id = ref
        PROVE  \E r \in CanonicalRows(w) : r.id = RowId(w, g, ref.uuid) /\ r.code = x.code
    <3>1. ItemOf(w, g, x) \in ExpectedItems(w, pin)
      BY ExpectedAreItems
    <3>2. ItemOf(w, g, x).row \in CanonicalRows(w)
      BY <3>1 DEF RowsOf
    <3> QED
      BY <1>1, <2>4, <3>2, RowFields
  <2> HIDE DEF items
  <2>5. {r.code : r \in {r \in CanonicalRows(w) : r.id = RowId(w, g, ref.uuid)}}
           = {x.code : x \in {x \in items : x.id = ref}}
    BY <2>3, <2>4
  <2> QED
    BY <2>2, <2>5 DEF items, CodeOfRow, CodeOfItem
<1> QED
  BY <1>4, <1>5

LEMMA RowsMirror ==
    ASSUME NEW w \in Workspace, NEW pin, GoodPin(pin), Derivable(pin),
           CanonicalRows(w) = RowsOf(w, pin)
    PROVE  Mirrors(w, Content[pin.manifest])
<1> DEFINE m == Content[pin.manifest]
           rowsOf(family) == {r \in CanonicalRows(w) : r.family = family}
<1>1. pin.manifest \in Manifest /\ pin.manifest \in ValidManifest
  BY NothingReported DEF GoodPin
<1>2. \A f \in Family : \A r :
         r \in rowsOf(f) <=> \E x \in ToSet(SectionOf(m, f)) : r = ItemOf(w, f, x).row
  BY RowsOfFamily
<1>3. "ACTOR" \in Family /\ "ANALYTICAL_ELEMENT" \in Family /\ "ACTOR_ELEMENT_ROLE" \in Family
  BY DEF Family
<1>4. ASSUME NEW g \in Family, NEW ref,
              ref = None \/ \E y \in ToSet(SectionOf(m, g)) : y.id = ref
       PROVE  CodeOfRow(w, DerivedId(w, g, ref)) = CodeOfItem(SectionOf(m, g), ref)
  BY <1>4, CodesReadBack
<1>5. \A f \in Family : \A x \in ToSet(SectionOf(m, f)) :
         /\ ItemOf(w, f, x).row.code = x.code
         /\ CodeOfRow(w, ItemOf(w, f, x).row.parent) = CodeOfItem(SectionOf(m, f), ParentOf(f, x))
         /\ CodeOfRow(w, ItemOf(w, f, x).row.actor) = CodeOfItem(m.actors, ActorOf(f, x))
         /\ CodeOfRow(w, ItemOf(w, f, x).row.element) = CodeOfItem(m.elements, ElementOf(f, x))
  <2> SUFFICES ASSUME NEW f \in Family, NEW x \in ToSet(SectionOf(m, f))
               PROVE  /\ ItemOf(w, f, x).row.code = x.code
                      /\ CodeOfRow(w, ItemOf(w, f, x).row.parent)
                            = CodeOfItem(SectionOf(m, f), ParentOf(f, x))
                      /\ CodeOfRow(w, ItemOf(w, f, x).row.actor) = CodeOfItem(m.actors, ActorOf(f, x))
                      /\ CodeOfRow(w, ItemOf(w, f, x).row.element)
                            = CodeOfItem(m.elements, ElementOf(f, x))
    OBVIOUS
  <2>1. PICK r : r = ItemOf(w, f, x).row
    OBVIOUS
  <2>2. /\ r.code = x.code /\ r.parent = DerivedId(w, f, ParentOf(f, x))
        /\ r.actor = DerivedId(w, "ACTOR", ActorOf(f, x))
        /\ r.element = DerivedId(w, "ANALYTICAL_ELEMENT", ElementOf(f, x))
    BY <1>1, <2>1, RowFields
  <2>3. CodeOfRow(w, DerivedId(w, f, ParentOf(f, x))) = CodeOfItem(SectionOf(m, f), ParentOf(f, x))
    BY <1>1, <1>4, ReferencesOfItem
  <2>4. CodeOfRow(w, DerivedId(w, "ACTOR", ActorOf(f, x))) = CodeOfItem(SectionOf(m, "ACTOR"), ActorOf(f, x))
    BY <1>1, <1>3, <1>4, ReferencesOfItem
  <2>5. CodeOfRow(w, DerivedId(w, "ANALYTICAL_ELEMENT", ElementOf(f, x)))
           = CodeOfItem(SectionOf(m, "ANALYTICAL_ELEMENT"), ElementOf(f, x))
    BY <1>1, <1>3, <1>4, ReferencesOfItem
  <2> QED
    BY <2>1, <2>2, <2>3, <2>4, <2>5, FamilySections
<1> HIDE DEF m, rowsOf
<1>6. ASSUME NEW f \in {"ACTOR", "ANALYTICAL_ELEMENT"}
      PROVE  {<<r.code, CodeOfRow(w, r.parent)>> : r \in rowsOf(f)}
                = {<<x.code, CodeOfItem(SectionOf(m, f), x.parent)>> : x \in ToSet(SectionOf(m, f))}
  <2>1. f \in Family /\ \A x : ParentOf(f, x) = x.parent
    BY <1>6 DEF Family, ParentOf
  <2> DEFINE ofRow(r) == <<r.code, CodeOfRow(w, r.parent)>>
             ofItem(x) == <<x.code, CodeOfItem(SectionOf(m, f), x.parent)>>
  <2>2. \A x \in ToSet(SectionOf(m, f)) : ofRow(ItemOf(w, f, x).row) = ofItem(x)
    <3> SUFFICES ASSUME NEW x \in ToSet(SectionOf(m, f))
                 PROVE  ofRow(ItemOf(w, f, x).row) = ofItem(x)
      OBVIOUS
    <3>1. /\ ItemOf(w, f, x).row.code = x.code
          /\ CodeOfRow(w, ItemOf(w, f, x).row.parent) = CodeOfItem(SectionOf(m, f), x.parent)
      BY <1>5, <2>1
    <3> QED
      BY <3>1
  <2> HIDE DEF ofRow, ofItem
  <2>3. {ofRow(r) : r \in rowsOf(f)} = {ofItem(x) : x \in ToSet(SectionOf(m, f))}
    BY <1>2, <2>1, <2>2
  <2> QED
    BY <2>3 DEF ofRow, ofItem
<1>7. {<<r.code, CodeOfRow(w, r.actor), CodeOfRow(w, r.element), r.text>> : r \in rowsOf("ACTOR_ELEMENT_ROLE")}
         = {<<x.code, CodeOfItem(m.actors, x.actor), CodeOfItem(m.elements, x.element), x.role>> :
               x \in ToSet(m.roles)}
  <2> DEFINE ofRow(r) == <<r.code, CodeOfRow(w, r.actor), CodeOfRow(w, r.element), r.text>>
             ofItem(x) == <<x.code, CodeOfItem(m.actors, x.actor), CodeOfItem(m.elements, x.element),
                            x.role>>
             f == "ACTOR_ELEMENT_ROLE"
  <2>1. SectionOf(m, f) = m.roles
    BY FamilySections
  <2>2. \A x \in ToSet(m.roles) : ofRow(ItemOf(w, f, x).row) = ofItem(x)
    <3> SUFFICES ASSUME NEW x \in ToSet(m.roles)
                 PROVE  ofRow(ItemOf(w, f, x).row) = ofItem(x)
      OBVIOUS
    <3>1. ActorOf(f, x) = x.actor /\ ElementOf(f, x) = x.element
      BY DEF ActorOf, ElementOf
    <3>2. ItemOf(w, f, x).row.text = x.role
      BY DEF ItemOf, Item
    <3>3. /\ ItemOf(w, f, x).row.code = x.code
          /\ CodeOfRow(w, ItemOf(w, f, x).row.actor) = CodeOfItem(m.actors, x.actor)
          /\ CodeOfRow(w, ItemOf(w, f, x).row.element) = CodeOfItem(m.elements, x.element)
      BY <1>3, <1>5, <2>1, <3>1
    <3> QED
      BY <3>2, <3>3
  <2>3. \A r : r \in rowsOf(f) <=> \E x \in ToSet(m.roles) : r = ItemOf(w, f, x).row
    BY <1>2, <1>3, <2>1
  <2> HIDE DEF ofRow, ofItem
  <2>4. {ofRow(r) : r \in rowsOf(f)} = {ofItem(x) : x \in ToSet(m.roles)}
    BY <2>2, <2>3
  <2> QED
    BY <2>4 DEF ofRow, ofItem
<1> QED
  BY <1>6, <1>7 DEF Mirrors, m, rowsOf, CodeOfRow, CodeOfItem

\* A package reconciles with its own workspace and with no other.
LEMMA PackagesReconcile ==
    ASSUME LifecycleHolds, ProjectionInv, NEW x \in packages, NEW w \in Pinned
    PROVE  Reconciles(x, w) <=> w = x.workspace
<1>1. /\ x.workspace \in Pinned /\ x.receipt \in ProofsOf(x.workspace)
      /\ x = PackageOf(x.workspace, x.receipt) /\ Sealed(x)
      /\ ~NegativeZero(Content[x.pin.manifest])
  BY DEF ProjectionInv, PackagesInv
<1>2. x.pin = PinOf(x.workspace)
  BY <1>1 DEF PackageOf
<1>3. PinHolds(PinOf(x.workspace))
  BY <1>1, PinsHold DEF LifecycleHolds, ProjectionInv
<1>4. Verification(x.workspace) = "COMPLETE"
  BY <1>1, <1>2, <1>3, CompleteIffReadable DEF ProjectionInv
<1>5. x.receipt \in proofs /\ ProofsOf(x.workspace) = {x.receipt}
  BY <1>1 DEF ProofsOf, ProjectionInv, ProofsInv
<1>6. Exportable(x.workspace, x.receipt)
  BY <1>1, <1>4, <1>5 DEF Exportable
<1>7. Reconciles(x, x.workspace)
  BY <1>1, <1>2, <1>5, <1>6 DEF Reconciles
<1>8. Reconciles(x, w) => w = x.workspace
  BY DEF Reconciles
<1> QED
  BY <1>7, <1>8

\* A workspace with a receipt verifies as complete for ever, unless a bound of its
\* manifest is the text "-0", and its rows mirror the manifest item for item,
\* references included; a package that left it reconciles with it and with no
\* other: nothing that is published, projected or imported later can disturb the
\* rows that one transaction wrote.
THEOREM ProjectionsAlwaysReplay == ProjectionSpec => []ProjectionsReplay
<1>1. LifecycleHolds /\ ProjectionInv => ProjectionsReplay
  <2> SUFFICES ASSUME LifecycleHolds, ProjectionInv PROVE ProjectionsReplay
    OBVIOUS
  <2>1. ASSUME NEW w \in Pinned, ProofsOf(w) # {}
        PROVE  /\ Verification(w) = "COMPLETE" <=> ~NegativeZero(Content[PinOf(w).manifest])
               /\ Mirrors(w, Content[PinOf(w).manifest])
    <3>1. w \in Workspace /\ PinHolds(PinOf(w))
      BY PinsHold DEF LifecycleHolds, ProjectionInv, Pinned
    <3>2. /\ Verification(w) = "COMPLETE" <=> ~NegativeZero(Content[PinOf(w).manifest])
          /\ Stands(w, PinOf(w))
      BY <2>1, <3>1, CompleteIffReadable DEF ProjectionInv
    <3>3. Mirrors(w, Content[PinOf(w).manifest])
      BY <3>1, <3>2, RowsMirror DEF Stands, PinHolds
    <3> QED
      BY <3>2, <3>3
  <2>2. \A x \in packages : \A w \in Pinned : Reconciles(x, w) <=> w = x.workspace
    BY PackagesReconcile
  <2> QED
    BY <2>1, <2>2 DEF ProjectionsReplay
<1> QED
  BY <1>1, ProjectionInductive, PTL

-----------------------------------------------------------------------------
(* What FD01 leaves to the tables.                                         *)

\* The parts of a sequence without repetition have none.
LEMMA PartsApart ==
    ASSUME NEW S, NEW s \in Seq(S), NEW t \in Seq(S), IsInjective(Column(s \o t, "id"))
    PROVE  IsInjective(Column(s, "id")) /\ IsInjective(Column(t, "id"))
<1>1. /\ s \o t \in Seq(S) /\ Len(s \o t) = Len(s) + Len(t)
      /\ \A i \in 1..Len(s) : (s \o t)[i] = s[i]
      /\ \A i \in 1..Len(t) : (s \o t)[Len(s) + i] = t[i]
  OBVIOUS
<1>2. /\ DOMAIN (s \o t) = 1..(Len(s) + Len(t)) /\ DOMAIN s = 1..Len(s)
      /\ DOMAIN t = 1..Len(t) /\ Len(s) \in Nat /\ Len(t) \in Nat
  BY <1>1
<1> DEFINE c == Column(s \o t, "id")
<1>3. DOMAIN c = 1..(Len(s) + Len(t)) /\ \A i \in DOMAIN c : c[i] = (s \o t)[i]["id"]
  BY <1>2 DEF Column
<1>4. \A i, j \in DOMAIN c : c[i] = c[j] => i = j
  BY DEF IsInjective
<1> HIDE DEF c
<1>5. \A i, j \in 1..Len(s) : s[i]["id"] = s[j]["id"] => i = j
  <2> SUFFICES ASSUME NEW i \in 1..Len(s), NEW j \in 1..Len(s), s[i]["id"] = s[j]["id"]
               PROVE  i = j
    OBVIOUS
  <2>1. i \in DOMAIN c /\ j \in DOMAIN c
    BY <1>2, <1>3
  <2>2. c[i] = c[j]
    BY <1>1, <1>3, <2>1
  <2> QED
    BY <1>4, <2>1, <2>2
<1>6. \A i, j \in 1..Len(t) : t[i]["id"] = t[j]["id"] => i = j
  <2> SUFFICES ASSUME NEW i \in 1..Len(t), NEW j \in 1..Len(t), t[i]["id"] = t[j]["id"]
               PROVE  i = j
    OBVIOUS
  <2>1. Len(s) + i \in DOMAIN c /\ Len(s) + j \in DOMAIN c
    BY <1>2, <1>3
  <2>2. c[Len(s) + i] = c[Len(s) + j]
    BY <1>1, <1>3, <2>1
  <2>3. Len(s) + i = Len(s) + j
    BY <1>4, <2>1, <2>2
  <2> QED
    BY <1>2, <2>3
<1> QED
  BY <1>2, <1>5, <1>6 DEF Column, IsInjective

\* Ids are unique in each section, and so are codes.
LEMMA SectionsApart ==
    ASSUME NEW m \in ValidManifest, NEW s,
           \/ \E f \in Family : s = SectionOf(Content[m], f)
           \/ s = Content[m].parameters
    PROVE  /\ s = [i \in 1..Len(s) |-> s[i]] /\ Len(s) \in Nat
           /\ \A i, j \in 1..Len(s) : s[i].id = s[j].id => i = j
           /\ \A i, j \in 1..Len(s) : s[i].code = s[j].code => i = j
           /\ \A i \in 1..Len(s) : s[i] \in ToSet(s)
           /\ \A x \in ToSet(s) : \E i \in 1..Len(s) : x = s[i]
<1> DEFINE c == Content[m]
           S == NodeItem \cup RoleItem \cup ParameterItem \cup HelpItem
<1>1. m \in Manifest /\ IdentityDiagnostics(c) = {}
  BY NothingReported
<1>2. /\ c.actors \in Seq(NodeItem) /\ c.elements \in Seq(NodeItem)
      /\ c.roles \in Seq(RoleItem) /\ c.parameters \in Seq(ParameterItem)
      /\ c.help \in Seq(HelpItem)
  BY <1>1, ContentAssumption
<1>3. /\ IsInjective(Column(AllItems(c), "id"))
      /\ \A i \in DOMAIN Sections(c) : IsInjective(Column(Sections(c)[i], "code"))
  BY <1>1 DEF IdentityDiagnostics
<1> HIDE DEF c
<1>4. /\ c.actors \in Seq(S) /\ c.elements \in Seq(S) /\ c.roles \in Seq(S)
      /\ c.parameters \in Seq(S) /\ c.help \in Seq(S)
  BY <1>2
<1> HIDE DEF S
<1>5. /\ c.actors \o c.elements \in Seq(S) /\ (c.actors \o c.elements) \o c.roles \in Seq(S)
      /\ ((c.actors \o c.elements) \o c.roles) \o c.parameters \in Seq(S)
  BY <1>4
<1>6. /\ IsInjective(Column(c.actors, "id")) /\ IsInjective(Column(c.elements, "id"))
      /\ IsInjective(Column(c.roles, "id")) /\ IsInjective(Column(c.parameters, "id"))
  <2>1. IsInjective(Column((((c.actors \o c.elements) \o c.roles) \o c.parameters) \o c.help, "id"))
    BY <1>3 DEF AllItems
  <2>2. IsInjective(Column(((c.actors \o c.elements) \o c.roles) \o c.parameters, "id"))
    BY <1>4, <1>5, <2>1, PartsApart
  <2>3. /\ IsInjective(Column((c.actors \o c.elements) \o c.roles, "id"))
        /\ IsInjective(Column(c.parameters, "id"))
    BY <1>4, <1>5, <2>2, PartsApart
  <2>4. /\ IsInjective(Column(c.actors \o c.elements, "id")) /\ IsInjective(Column(c.roles, "id"))
    BY <1>4, <1>5, <2>3, PartsApart
  <2> QED
    BY <1>4, <2>3, <2>4, PartsApart
<1>7. /\ IsInjective(Column(c.actors, "code")) /\ IsInjective(Column(c.elements, "code"))
      /\ IsInjective(Column(c.roles, "code")) /\ IsInjective(Column(c.parameters, "code"))
  <2>1. /\ DOMAIN Sections(c) = 1..5
        /\ Sections(c)[1] = c.actors /\ Sections(c)[2] = c.elements
        /\ Sections(c)[3] = c.roles /\ Sections(c)[4] = c.parameters
    BY DEF Sections
  <2>2. 1 \in 1..5 /\ 2 \in 1..5 /\ 3 \in 1..5 /\ 4 \in 1..5
    OBVIOUS
  <2> QED
    BY <1>3, <2>1, <2>2
<1>8. s \in {c.actors, c.elements, c.roles, c.parameters}
  BY FamilySections DEF Family, c
<1>9. s \in Seq(S) /\ IsInjective(Column(s, "id")) /\ IsInjective(Column(s, "code"))
  BY <1>4, <1>6, <1>7, <1>8
<1>10. DOMAIN s = 1..Len(s) /\ Len(s) \in Nat /\ s = [i \in 1..Len(s) |-> s[i]]
  BY <1>9
<1>11. /\ \A i, j \in 1..Len(s) : s[i]["id"] = s[j]["id"] => i = j
       /\ \A i, j \in 1..Len(s) : s[i]["code"] = s[j]["code"] => i = j
  BY <1>9, <1>10 DEF Column, IsInjective
<1> QED
  BY <1>10, <1>11 DEF ToSet

\* As many rows as items.
LEMMA RowsCounted ==
    ASSUME NEW n \in Nat, NEW g, DOMAIN g = 1..n,
           \A i, j \in 1..n : g[i] = g[j] => i = j
    PROVE  IsFiniteSet(Range(g)) /\ Cardinality(Range(g)) = n
<1> DEFINE T == Range(g)
           h == [i \in 1..n |-> g[i]]
<1>1. h \in [1..n -> T] /\ \A i, j \in 1..n : h[i] = h[j] => i = j
  BY DEF Range
<1>2. \A x \in T : \E i \in 1..n : h[i] = x
  BY DEF Range
<1>3. ExistsBijection(1..n, T)
  BY <1>1, <1>2 DEF ExistsBijection, Bijection, Injection, Surjection, IsInjective
<1>4. IsFiniteSet(1..n) /\ Cardinality(1..n) = n
  <2>1. 1 \in Int /\ n \in Int
    OBVIOUS
  <2>2. IsFiniteSet(1..n) /\ Cardinality(1..n) = IF 1 > n THEN 0 ELSE n - 1 + 1
    BY <2>1, FS_Interval
  <2> QED
    BY <2>2
<1> HIDE DEF T
<1>5. IsFiniteSet(T) /\ Cardinality(T) = n
  BY <1>3, <1>4, FS_Bijection
<1> QED
  BY <1>5 DEF T

\* A pin that holds is derivable exactly if its ids are canonical.
LEMMA DerivableIff ==
    ASSUME NEW pin, PinHolds(pin)
    PROVE  Derivable(pin) <=>
              \A section \in 1..4 : \A x \in ToSet(Sections(Content[pin.manifest])[section]) :
                 ~x.id.upper
<1>1. \A items : (\A id \in Ids(items) : ~id.upper) <=> \A x \in ToSet(items) : ~x.id.upper
  BY IdsOfItems
<1> QED
  BY <1>1 DEF Derivable, PinHolds

\* The rows of a workspace, one for each item.
LEMMA RowsAndItems ==
    ASSUME NEW w, NEW pin, NEW r
    PROVE  r \in RowsOf(w, pin) <=>
              \E f \in Family : \E x \in ToSet(SectionOf(Content[pin.manifest], f)) :
                 r = ItemOf(w, f, x).row
<1>1. ASSUME r \in RowsOf(w, pin)
      PROVE  \E f \in Family : \E x \in ToSet(SectionOf(Content[pin.manifest], f)) :
                r = ItemOf(w, f, x).row
  <2>1. PICK i \in ExpectedItems(w, pin) : r = i.row
    BY <1>1 DEF RowsOf
  <2>2. PICK f, x : /\ f \in Family /\ x \in ToSet(SectionOf(Content[pin.manifest], f))
                    /\ i = ItemOf(w, f, x)
    BY ExpectedAreItems
  <2> QED
    BY <2>1, <2>2
<1>2. ASSUME NEW f \in Family, NEW x \in ToSet(SectionOf(Content[pin.manifest], f)),
             r = ItemOf(w, f, x).row
      PROVE  r \in RowsOf(w, pin)
  <2>1. ItemOf(w, f, x) \in ExpectedItems(w, pin)
    BY ExpectedAreItems
  <2> QED
    BY <1>2, <2>1 DEF RowsOf
<1> QED
  BY <1>1, <1>2

SectionRows(w, f, items) == {ItemOf(w, f, x).row : x \in ToSet(items)}

LEMMA RowsOfSection ==
    ASSUME NEW w \in Workspace, NEW pin, GoodPin(pin), NEW f \in Family, NEW s,
           s = SectionOf(Content[pin.manifest], f)
    PROVE  /\ Len(s) \in Nat
           /\ IsFiniteSet(SectionRows(w, f, s))
           /\ Cardinality(SectionRows(w, f, s)) = Len(s)
           /\ \A r \in SectionRows(w, f, s) : r.family = f
<1>1. pin.manifest \in Manifest /\ pin.manifest \in ValidManifest
  BY NothingReported DEF GoodPin
<1>2. /\ Len(s) \in Nat
      /\ \A i, j \in 1..Len(s) : s[i].code = s[j].code => i = j
      /\ \A i \in 1..Len(s) : s[i] \in ToSet(s)
      /\ \A x \in ToSet(s) : \E i \in 1..Len(s) : x = s[i]
  BY <1>1, SectionsApart
<1> DEFINE g == [i \in 1..Len(s) |-> ItemOf(w, f, s[i]).row]
<1>3. \A x \in ToSet(s) : ItemOf(w, f, x).row.code = x.code /\ ItemOf(w, f, x).row.family = f
  BY <1>1, RowFields
<1>4. \A i, j \in 1..Len(s) : g[i] = g[j] => i = j
  BY <1>2, <1>3
<1>5. DOMAIN g = 1..Len(s) /\ \A i \in 1..Len(s) : g[i] = ItemOf(w, f, s[i]).row
  OBVIOUS
<1> HIDE DEF g
<1>6. IsFiniteSet(Range(g)) /\ Cardinality(Range(g)) = Len(s)
  BY <1>2, <1>4, <1>5, RowsCounted
<1>7. Range(g) = SectionRows(w, f, s)
  <2>1. Range(g) = {ItemOf(w, f, s[i]).row : i \in 1..Len(s)}
    BY <1>5 DEF Range
  <2>2. SUFFICES ASSUME NEW r
                 PROVE  (\E i \in 1..Len(s) : r = ItemOf(w, f, s[i]).row)
                           <=> \E x \in ToSet(s) : r = ItemOf(w, f, x).row
    BY <2>1, Zenon DEF SectionRows
  <2>3. \A i \in 1..Len(s) : s[i] \in ToSet(s)
    BY <1>2
  <2>4. \A x \in ToSet(s) : \E i \in 1..Len(s) : x = s[i]
    BY <1>2
  <2>5. ASSUME NEW x \in ToSet(s), r = ItemOf(w, f, x).row
        PROVE  \E i \in 1..Len(s) : r = ItemOf(w, f, s[i]).row
    <3>1. PICK i \in 1..Len(s) : x = s[i]
      BY <2>4
    <3> WITNESS i \in 1..Len(s)
    <3> QED
      BY <2>5, <3>1, Zenon
  <2>6. ASSUME NEW i \in 1..Len(s), r = ItemOf(w, f, s[i]).row
        PROVE  \E x \in ToSet(s) : r = ItemOf(w, f, x).row
    BY <2>3, <2>6, Zenon
  <2> QED
    BY <2>5, <2>6, Zenon
<1>8. \A r \in SectionRows(w, f, s) : r.family = f
  BY <1>3 DEF SectionRows
<1> QED
  BY <1>2, <1>6, <1>7, <1>8

LEMMA UnionCounted ==
    ASSUME NEW S, NEW T, IsFiniteSet(S), IsFiniteSet(T), S \cap T = {}
    PROVE  IsFiniteSet(S \cup T) /\ Cardinality(S \cup T) = Cardinality(S) + Cardinality(T)
<1>1. Cardinality(S) \in Nat /\ Cardinality(T) \in Nat
  BY FS_CardinalityType
<1>2. Cardinality(S \cap T) = 0
  BY FS_EmptySet
<1>3. /\ IsFiniteSet(S \cup T)
      /\ Cardinality(S \cup T) = Cardinality(S) + Cardinality(T) - Cardinality(S \cap T)
  BY FS_Union
<1>4. \A a, b \in Nat : a + b - 0 = a + b
  OBVIOUS
<1>5. Cardinality(S) + Cardinality(T) - 0 = Cardinality(S) + Cardinality(T)
  BY <1>1, <1>4
<1> QED
  BY <1>2, <1>3, <1>5

LEMMA AllRowsCounted ==
    ASSUME NEW w \in Workspace, NEW pin, GoodPin(pin), NEW m, m = Content[pin.manifest]
    PROVE  Cardinality(RowsOf(w, pin)) = Len(m.actors) + Len(m.elements) + Len(m.roles)
<1> DEFINE A == SectionRows(w, "ACTOR", m.actors)
           E == SectionRows(w, "ANALYTICAL_ELEMENT", m.elements)
           R == SectionRows(w, "ACTOR_ELEMENT_ROLE", m.roles)
<1>0. "ACTOR" \in Family /\ "ANALYTICAL_ELEMENT" \in Family /\ "ACTOR_ELEMENT_ROLE" \in Family
  BY DEF Family
<1>1. /\ Len(m.actors) \in Nat /\ IsFiniteSet(A) /\ Cardinality(A) = Len(m.actors)
      /\ \A r \in A : r.family = "ACTOR"
  BY <1>0, RowsOfSection, FamilySections
<1>2. /\ Len(m.elements) \in Nat /\ IsFiniteSet(E) /\ Cardinality(E) = Len(m.elements)
      /\ \A r \in E : r.family = "ANALYTICAL_ELEMENT"
  BY <1>0, RowsOfSection, FamilySections
<1>3. /\ Len(m.roles) \in Nat /\ IsFiniteSet(R) /\ Cardinality(R) = Len(m.roles)
      /\ \A r \in R : r.family = "ACTOR_ELEMENT_ROLE"
  BY <1>0, RowsOfSection, FamilySections
<1>4. RowsOf(w, pin) = (A \cup E) \cup R
  <2>1. \A r : r \in RowsOf(w, pin) <=>
           \E f \in Family : \E x \in ToSet(SectionOf(m, f)) : r = ItemOf(w, f, x).row
    BY RowsAndItems
  <2>2. \A r : r \in RowsOf(w, pin) <=> r \in A \/ r \in E \/ r \in R
    BY <2>1, FamilySections DEF Family, SectionRows
  <2> HIDE DEF A, E, R
  <2> QED
    BY <2>2
<1> HIDE DEF A, E, R
<1>5. A \cap E = {} /\ (A \cup E) \cap R = {}
  BY <1>1, <1>2, <1>3
<1>6. /\ IsFiniteSet(A \cup E)
      /\ Cardinality(A \cup E) = Len(m.actors) + Len(m.elements)
  <2>1. IsFiniteSet(A) /\ IsFiniteSet(E) /\ A \cap E = {}
    BY <1>1, <1>2, <1>5
  <2>2. IsFiniteSet(A \cup E) /\ Cardinality(A \cup E) = Cardinality(A) + Cardinality(E)
    BY <2>1, UnionCounted, Zenon
  <2> QED
    BY <1>1, <1>2, <2>2, Zenon
<1>7. Cardinality((A \cup E) \cup R) = Cardinality(A \cup E) + Cardinality(R)
  BY <1>3, <1>5, <1>6, UnionCounted, Zenon
<1> QED
  BY <1>3, <1>4, <1>6, <1>7

\* The tree of a family can be written parents first: FD01 has ruled out rings.
LEMMA RowsOrderable ==
    ASSUME NEW w \in Workspace, NEW pin, GoodPin(pin), Derivable(pin)
    PROVE  Orderable(RowsOf(w, pin))
<1> SUFFICES ASSUME NEW waiting \in SUBSET {r \in RowsOf(w, pin) : r.parent # None},
                    waiting # {},
                    \A r \in waiting : \E q \in waiting : r.parent = q.id
             PROVE  FALSE
  BY DEF Orderable
<1>1. pin.manifest \in Manifest /\ pin.manifest \in ValidManifest
  BY NothingReported DEF GoodPin
<1>2. PICK r0 : r0 \in waiting
  OBVIOUS
<1>3. PICK f, x0 : /\ f \in Family /\ x0 \in ToSet(SectionOf(Content[pin.manifest], f))
                   /\ r0 = ItemOf(w, f, x0).row
  BY <1>2, RowsAndItems
<1> DEFINE items == SectionOf(Content[pin.manifest], f)
           ring == {x \in ToSet(items) : ItemOf(w, f, x).row \in waiting}
<1>4. ring \in (SUBSET ToSet(items)) \ {{}}
  BY <1>2, <1>3
<1>5. \A x \in ToSet(items) :
         /\ ItemOf(w, f, x).row.parent = DerivedId(w, f, ParentOf(f, x))
         /\ x.id # None /\ x.id \in StableId /\ ~x.id.upper
         /\ ParentOf(f, x) \in StableId \cup {None}
  BY <1>1, <1>3, RowFields, ItemFields, IdsAreLower
<1>6. f \in {"ACTOR", "ANALYTICAL_ELEMENT"} /\ \A x : ParentOf(f, x) = x.parent
  <2>1. ParentOf(f, x0) # None
    BY <1>2, <1>3, <1>5, RowIds
  <2>2. f # "ACTOR_ELEMENT_ROLE"
    BY <2>1 DEF ParentOf
  <2> QED
    BY <1>3, <2>2 DEF Family, ParentOf
<1>7. HierarchyDiagnostics(items) = {}
  BY <1>1, <1>6, NothingReported, FamilySections
<1>8. ASSUME NEW x \in ring PROVE x.parent # x.id /\ \E y \in ring : y.id = x.parent
  <2>1. x \in ToSet(items) /\ ItemOf(w, f, x).row \in waiting
    OBVIOUS
  <2>2. PICK q \in waiting : ItemOf(w, f, x).row.parent = q.id
    BY <2>1
  <2>3. ItemOf(w, f, x).row.parent # None
    BY <2>1
  <2>4. x.parent # None /\ x.parent \in StableId
    BY <1>5, <1>6, <2>1, <2>3, RowIds
  <2>5. PICK g, y : /\ g \in Family /\ y \in ToSet(SectionOf(Content[pin.manifest], g))
                    /\ q = ItemOf(w, g, y).row
    BY RowsAndItems
  <2>6. q.id = RowId(w, g, y.id.uuid)
    BY <1>1, <2>5, RowFields
  <2>7. q.id = RowId(w, f, x.parent.uuid)
    BY <1>5, <1>6, <2>1, <2>2, <2>4, RowIds
  <2>8. g = f /\ y.id.uuid = x.parent.uuid
    <3>1. RowId(w, g, y.id.uuid) = RowId(w, f, x.parent.uuid)
      BY <2>6, <2>7
    <3> QED
      BY <3>1, RowIdsApart
  <2>9. y \in ring
    BY <2>5, <2>8
  <2>10. PICK z \in ToSet(items) : z.id = x.parent
    <3>1. ParentOf(f, x) = None \/ \E z \in ToSet(items) : z.id = ParentOf(f, x)
      BY <1>1, <1>3, <2>1, ReferencesOfItem
    <3> QED
      BY <1>6, <2>4, <3>1
  <2>11. y.id = x.parent
    <3>1. ~z.id.upper /\ ~y.id.upper /\ z.id \in StableId /\ y.id \in StableId
      BY <1>5, <2>9, <2>10
    <3> QED
      BY <2>8, <2>10, <3>1, LowerIdsApart
  <2>12. x.parent # x.id
    <3>1. {"SELF_PARENT_REFERENCE" : v \in {v \in ToSet(items) : v.parent = v.id}} = {}
      BY <1>7 DEF HierarchyDiagnostics
    <3> QED
      BY <2>1, <3>1
  <2> QED
    BY <2>9, <2>11, <2>12
<1>9. HasCycle(items)
  BY <1>4, <1>8 DEF HasCycle
<1> QED
  BY <1>7, <1>9 DEF HierarchyDiagnostics

\* Rows without a source came with a 2.0 package.
RowsInv ==
    \A r \in rows :
        /\ r.workspace \in Workspace /\ r.family \in Family
        /\ r.source = None => r.actor = None /\ r.id \notin Workspace \X Family \X STRING

LEMMA RowIdIn ==
    ASSUME NEW w \in Workspace, NEW f \in Family, NEW id \in StableId
    PROVE  RowId(w, f, id.uuid) \in Workspace \X Family \X STRING
           /\ RowId(w, f, id.uuid) # None
<1>1. id.uuid \in STRING
  BY DEF StableId
<1>2. <<w, f, id.uuid>> \in Workspace \X Family \X STRING
  BY <1>1
<1> QED
  BY <1>2, AbsentAssumption, ContentAssumption DEF RowId

\* A role has an actor and an element of its manifest.
LEMMA RolesHaveBoth ==
    ASSUME NEW w \in Workspace, NEW pin, GoodPin(pin), Derivable(pin),
           NEW x \in ToSet(Content[pin.manifest].roles), NEW r,
           r = ItemOf(w, "ACTOR_ELEMENT_ROLE", x).row
    PROVE  /\ x.actor \in StableId /\ ~x.actor.upper
           /\ x.element \in StableId /\ ~x.element.upper
           /\ r.actor = RowId(w, "ACTOR", x.actor.uuid) /\ r.actor # None
           /\ r.element = RowId(w, "ANALYTICAL_ELEMENT", x.element.uuid)
           /\ r.text = x.role /\ x.role # "LONG"
<1> DEFINE f == "ACTOR_ELEMENT_ROLE"
<1>1. pin.manifest \in Manifest /\ pin.manifest \in ValidManifest
  BY NothingReported DEF GoodPin
<1>2. f \in Family /\ "ACTOR" \in Family /\ "ANALYTICAL_ELEMENT" \in Family
  BY DEF Family
<1>3. x \in ToSet(SectionOf(Content[pin.manifest], f))
  BY FamilySections
<1>4. x \in RoleItem
  BY <1>1, ItemTypes
<1>5. x.actor \in StableId /\ x.element \in StableId /\ x.role # "LONG"
  BY <1>4 DEF RoleItem
<1>6. x.actor # None /\ x.element # None
  BY <1>5, AbsentAssumption, ContentAssumption
<1>7. PICK y \in ToSet(Content[pin.manifest].actors) : y.id = x.actor
  BY <1>1, ReferencesResolve
<1>8. PICK z \in ToSet(Content[pin.manifest].elements) : z.id = x.element
  BY <1>1, ReferencesResolve
<1>9. ~x.actor.upper /\ ~x.element.upper
  <2>1. ~y.id.upper
    BY <1>2, <1>7, IdsAreLower, FamilySections
  <2>2. ~z.id.upper
    BY <1>2, <1>8, IdsAreLower, FamilySections
  <2> QED
    BY <1>7, <1>8, <2>1, <2>2
<1>10. ActorOf(f, x) = x.actor /\ ElementOf(f, x) = x.element
  BY DEF ActorOf, ElementOf
<1>11. /\ r.actor = DerivedId(w, "ACTOR", ActorOf(f, x))
       /\ r.element = DerivedId(w, "ANALYTICAL_ELEMENT", ElementOf(f, x))
       /\ r.text = x.role
  BY <1>1, <1>2, <1>3, RowFields
<1>12. /\ r.actor = RowId(w, "ACTOR", x.actor.uuid)
       /\ r.element = RowId(w, "ANALYTICAL_ELEMENT", x.element.uuid)
  BY <1>6, <1>10, <1>11, RowIds
<1>13. r.actor # None
  BY <1>2, <1>5, <1>12, RowIdIn
<1> QED
  BY <1>5, <1>9, <1>11, <1>12, <1>13

\* No actor has one role in one element twice.
LEMMA RolesApart ==
    ASSUME NEW m \in ValidManifest, NEW x \in ToSet(Content[m].roles),
           NEW y \in ToSet(Content[m].roles),
           x.actor = y.actor, x.element = y.element, x.role = y.role
    PROVE  x = y
<1> DEFINE s == Content[m].roles
           c == [i \in DOMAIN s |-> <<s[i].actor, s[i].element, s[i].role>>]
<1>1. IsInjective(c)
  BY NothingReported DEF CrossReferenceDiagnostics
<1>2. PICK i \in DOMAIN s : x = s[i]
  BY DEF ToSet
<1>3. PICK j \in DOMAIN s : y = s[j]
  BY DEF ToSet
<1>4. c[i] = c[j]
  BY <1>2, <1>3
<1>5. DOMAIN c = DOMAIN s
  OBVIOUS
<1> HIDE DEF c
<1>6. i = j
  BY <1>1, <1>4, <1>5 DEF IsInjective
<1> QED
  BY <1>2, <1>3, <1>6

\* No two rows of one projection collide.
LEMMA NewRowsApart ==
    ASSUME NEW w \in Workspace, NEW pin, GoodPin(pin), Derivable(pin),
           NEW r \in RowsOf(w, pin), NEW s \in RowsOf(w, pin), Collide(r, s)
    PROVE  r = s
<1>1. pin.manifest \in Manifest /\ pin.manifest \in ValidManifest
  BY NothingReported DEF GoodPin
<1>2. PICK f, x : /\ f \in Family /\ x \in ToSet(SectionOf(Content[pin.manifest], f))
                  /\ r = ItemOf(w, f, x).row
  BY RowsAndItems
<1>3. PICK g, y : /\ g \in Family /\ y \in ToSet(SectionOf(Content[pin.manifest], g))
                  /\ s = ItemOf(w, g, y).row
  BY RowsAndItems
<1>4. /\ r.id = RowId(w, f, x.id.uuid) /\ r.family = f /\ r.code = x.code
      /\ r.source = x.id.uuid
  BY <1>1, <1>2, RowFields
<1>5. /\ s.id = RowId(w, g, y.id.uuid) /\ s.family = g /\ s.code = y.code
      /\ s.source = y.id.uuid
  BY <1>1, <1>3, RowFields
<1>6. f = g
  <2>1. r.id = s.id \/ r.family = s.family
    BY DEF Collide
  <2>2. r.id = s.id => f = g
    <3> SUFFICES ASSUME r.id = s.id PROVE f = g
      OBVIOUS
    <3>1. RowId(w, f, x.id.uuid) = RowId(w, g, y.id.uuid)
      BY <1>4, <1>5
    <3> QED
      BY <3>1, RowIdsApart
  <2> QED
    BY <1>4, <1>5, <2>1, <2>2
<1>7. x.id.uuid = y.id.uuid => x.id = y.id
  BY <1>1, <1>2, <1>3, ItemFields, IdsAreLower, LowerIdsApart
<1>8. x.id = y.id \/ x.code = y.code => x = y
  <2> DEFINE q == SectionOf(Content[pin.manifest], f)
  <2>1. /\ \A i, j \in 1..Len(q) : q[i].id = q[j].id => i = j
        /\ \A i, j \in 1..Len(q) : q[i].code = q[j].code => i = j
        /\ \A z \in ToSet(q) : \E i \in 1..Len(q) : z = q[i]
    BY <1>1, <1>2, SectionsApart
  <2>2. x \in ToSet(q) /\ y \in ToSet(q)
    BY <1>2, <1>3, <1>6
  <2> HIDE DEF q
  <2> QED
    BY <2>1, <2>2
<1>9. \/ x.id.uuid = y.id.uuid
      \/ x.code = y.code
      \/ f = "ACTOR_ELEMENT_ROLE" /\ r.actor = s.actor /\ r.element = s.element /\ r.text = s.text
  <2>1. r.id = s.id => x.id.uuid = y.id.uuid
    <3> SUFFICES ASSUME r.id = s.id PROVE x.id.uuid = y.id.uuid
      OBVIOUS
    <3>1. RowId(w, f, x.id.uuid) = RowId(w, g, y.id.uuid)
      BY <1>4, <1>5
    <3> QED
      BY <3>1, RowIdsApart
  <2> QED
    BY <1>4, <1>5, <2>1 DEF Collide
<1>10. ASSUME f = "ACTOR_ELEMENT_ROLE", r.actor = s.actor, r.element = s.element, r.text = s.text
       PROVE  x = y
  <2>1. x \in ToSet(Content[pin.manifest].roles) /\ y \in ToSet(Content[pin.manifest].roles)
    BY <1>2, <1>3, <1>6, <1>10, FamilySections
  <2>2. /\ x.actor \in StableId /\ ~x.actor.upper /\ x.element \in StableId /\ ~x.element.upper
        /\ r.actor = RowId(w, "ACTOR", x.actor.uuid)
        /\ r.element = RowId(w, "ANALYTICAL_ELEMENT", x.element.uuid) /\ r.text = x.role
    BY <1>2, <1>10, <2>1, RolesHaveBoth
  <2>3. /\ y.actor \in StableId /\ ~y.actor.upper /\ y.element \in StableId /\ ~y.element.upper
        /\ s.actor = RowId(w, "ACTOR", y.actor.uuid)
        /\ s.element = RowId(w, "ANALYTICAL_ELEMENT", y.element.uuid) /\ s.text = y.role
    BY <1>3, <1>6, <1>10, <2>1, RolesHaveBoth
  <2>4. x.actor.uuid = y.actor.uuid
    <3>1. RowId(w, "ACTOR", x.actor.uuid) = RowId(w, "ACTOR", y.actor.uuid)
      BY <1>10, <2>2, <2>3
    <3> QED
      BY <3>1, RowIdsApart
  <2>5. x.element.uuid = y.element.uuid
    <3>1. RowId(w, "ANALYTICAL_ELEMENT", x.element.uuid)
             = RowId(w, "ANALYTICAL_ELEMENT", y.element.uuid)
      BY <1>10, <2>2, <2>3
    <3> QED
      BY <3>1, RowIdsApart
  <2>6. x.actor = y.actor /\ x.element = y.element /\ x.role = y.role
    BY <1>10, <2>2, <2>3, <2>4, <2>5, LowerIdsApart
  <2> QED
    BY <1>1, <2>1, <2>6, RolesApart
<1>11. x = y
  BY <1>7, <1>8, <1>9, <1>10
<1> QED
  BY <1>2, <1>3, <1>6, <1>11

\* With the rows that were there, only codes of 2.0 packages collide.
LEMMA OldRowsApart ==
    ASSUME ProofsInv, PinsAllHold, RowsInv, NEW w \in Workspace, NEW pin, GoodPin(pin),
           Derivable(pin), CanonicalRows(w) = {}, NEW r \in RowsOf(w, pin), NEW s \in rows
    PROVE  Collide(r, s) <=> s.workspace = w /\ s.family = r.family /\ s.code = r.code
<1>1. pin.manifest \in Manifest
  BY NothingReported DEF GoodPin
<1>2. PICK f, x : /\ f \in Family /\ x \in ToSet(SectionOf(Content[pin.manifest], f))
                  /\ r = ItemOf(w, f, x).row
  BY RowsAndItems
<1>3. /\ r.id = RowId(w, f, x.id.uuid) /\ r.family = f /\ r.workspace = w
      /\ r.source # None /\ x.id \in StableId
  BY <1>1, <1>2, RowFields, ItemFields
<1>4. CASE s.source # None
  <2>1. PICK v \in Workspace : v = s.workspace
    BY DEF RowsInv
  <2>2. s \in CanonicalRows(v) /\ v # w
    BY <1>4, <2>1 DEF CanonicalRows
  <2>3. ProofsOf(v) # {} /\ Stands(v, PinOf(v))
    BY <2>2 DEF ProofsInv
  <2>4. v \in Pinned
    BY <2>3 DEF ProofsInv, ProofsOf
  <2>5. GoodPin(PinOf(v))
    BY <2>4 DEF PinsAllHold, PinHolds
  <2>6. PICK g, y : /\ g \in Family /\ y \in ToSet(SectionOf(Content[PinOf(v).manifest], g))
                    /\ s = ItemOf(v, g, y).row
    BY <2>2, <2>3, RowsAndItems DEF Stands
  <2>7. s.id = RowId(v, g, y.id.uuid)
    BY <2>5, <2>6, RowFields, NothingReported DEF GoodPin
  <2>8. r.id # s.id
    <3> SUFFICES ASSUME r.id = s.id PROVE FALSE
      OBVIOUS
    <3>1. RowId(w, f, x.id.uuid) = RowId(v, g, y.id.uuid)
      BY <1>3, <2>7
    <3> QED
      BY <2>2, <3>1, RowIdsApart
  <2> QED
    BY <1>3, <2>1, <2>2, <2>8 DEF Collide
<1>5. CASE s.source = None
  <2>1. s.actor = None /\ s.id \notin Workspace \X Family \X STRING
    BY <1>5 DEF RowsInv
  <2>2. r.id # s.id
    BY <1>2, <1>3, <2>1, RowIdIn
  <2>3. f = "ACTOR_ELEMENT_ROLE" => r.actor # s.actor
    BY <1>2, <2>1, RolesHaveBoth, FamilySections
  <2> QED
    BY <1>3, <1>5, <2>2, <2>3 DEF Collide
<1> QED
  BY <1>4, <1>5

\* What the columns of the rows ask, and the codes taken before.
RowsFit(m) ==
    /\ \A section \in 1..3 : \A x \in ToSet(Sections(m)[section]) : x.order <= OrderLimit
    /\ \A section \in 1..2 : \A x \in ToSet(Sections(m)[section]) : x.label # "LONG"
CodesFree(w, m) ==
    \A r \in rows : r.workspace = w => r.code \notin ToSet(Column(SectionOf(m, r.family), "code"))

LEMMA SectionsOfFamilies ==
    ASSUME NEW m
    PROVE  RowsFit(m) <=>
              \A f \in Family : \A x \in ToSet(SectionOf(m, f)) :
                 x.order <= OrderLimit /\ (f # "ACTOR_ELEMENT_ROLE" => x.label # "LONG")
<1>1. /\ Sections(m)[1] = m.actors /\ Sections(m)[2] = m.elements
      /\ Sections(m)[3] = m.roles
  BY DEF Sections
<1>2. 1..3 = {1, 2, 3} /\ 1..2 = {1, 2}
  OBVIOUS
<1>3. RowsFit(m) <=>
         /\ \A x \in ToSet(m.actors) : x.order <= OrderLimit /\ x.label # "LONG"
         /\ \A x \in ToSet(m.elements) : x.order <= OrderLimit /\ x.label # "LONG"
         /\ \A x \in ToSet(m.roles) : x.order <= OrderLimit
  BY <1>1, <1>2 DEF RowsFit
<1> QED
  BY <1>3, FamilySections DEF Family

LEMMA RowsTakenIff ==
    ASSUME NEW w \in Workspace, NEW pin, GoodPin(pin), Derivable(pin)
    PROVE  (\A r \in RowsOf(w, pin) : RowTaken(r)) <=> RowsFit(Content[pin.manifest])
<1>1. pin.manifest \in Manifest
  BY NothingReported DEF GoodPin
<1>2. ASSUME NEW f \in Family, NEW x \in ToSet(SectionOf(Content[pin.manifest], f))
      PROVE  RowTaken(ItemOf(w, f, x).row) <=>
                x.order <= OrderLimit /\ (f # "ACTOR_ELEMENT_ROLE" => x.label # "LONG")
  <2>1. /\ ItemOf(w, f, x).row.order = x.order
        /\ ItemOf(w, f, x).row.text = IF f = "ACTOR_ELEMENT_ROLE" THEN x.role ELSE x.label
    BY DEF ItemOf, Item
  <2>2. f = "ACTOR_ELEMENT_ROLE" => x.role # "LONG"
    BY FamilySections, RolesHaveBoth
  <2> QED
    BY <2>1, <2>2 DEF RowTaken
<1>3. ASSUME RowsFit(Content[pin.manifest]), NEW r \in RowsOf(w, pin) PROVE RowTaken(r)
  <2>1. PICK f, x : /\ f \in Family /\ x \in ToSet(SectionOf(Content[pin.manifest], f))
                    /\ r = ItemOf(w, f, x).row
    BY RowsAndItems
  <2>2. x.order <= OrderLimit /\ (f # "ACTOR_ELEMENT_ROLE" => x.label # "LONG")
    BY <1>3, <2>1, SectionsOfFamilies
  <2> QED
    BY <1>2, <2>1, <2>2
<1>4. ASSUME \A r \in RowsOf(w, pin) : RowTaken(r) PROVE RowsFit(Content[pin.manifest])
  <2>1. ASSUME NEW f \in Family, NEW x \in ToSet(SectionOf(Content[pin.manifest], f))
        PROVE  x.order <= OrderLimit /\ (f # "ACTOR_ELEMENT_ROLE" => x.label # "LONG")
    <3>1. ItemOf(w, f, x).row \in RowsOf(w, pin)
      BY RowsAndItems
    <3> QED
      BY <1>2, <1>4, <3>1
  <2> QED
    BY <2>1, SectionsOfFamilies
<1> QED
  BY <1>3, <1>4

LEMMA ReferencesAreKept ==
    ASSUME NEW w \in Workspace, NEW pin, GoodPin(pin), Derivable(pin)
    PROVE  ReferencesKept(RowsOf(w, pin))
<1> SUFFICES ASSUME NEW r \in RowsOf(w, pin)
             PROVE  \A id \in {r.parent, r.actor, r.element} \ {None} :
                       \E q \in RowsOf(w, pin) : id = q.id
  BY DEF ReferencesKept
<1>1. pin.manifest \in Manifest /\ pin.manifest \in ValidManifest
  BY NothingReported DEF GoodPin
<1>2. PICK f, x : /\ f \in Family /\ x \in ToSet(SectionOf(Content[pin.manifest], f))
                  /\ r = ItemOf(w, f, x).row
  BY RowsAndItems
<1>3. /\ r.parent = DerivedId(w, f, ParentOf(f, x))
      /\ r.actor = DerivedId(w, "ACTOR", ActorOf(f, x))
      /\ r.element = DerivedId(w, "ANALYTICAL_ELEMENT", ElementOf(f, x))
  BY <1>1, <1>2, RowFields
<1>4. "ACTOR" \in Family /\ "ANALYTICAL_ELEMENT" \in Family
  BY DEF Family
<1>5. ASSUME NEW g \in Family, NEW ref, DerivedId(w, g, ref) # None,
             ref = None \/ \E y \in ToSet(SectionOf(Content[pin.manifest], g)) : y.id = ref
      PROVE  \E q \in RowsOf(w, pin) : DerivedId(w, g, ref) = q.id
  <2>1. ref # None /\ DerivedId(w, g, ref) = RowId(w, g, ref.uuid)
    BY <1>5, RowIds
  <2>2. PICK y \in ToSet(SectionOf(Content[pin.manifest], g)) : y.id = ref
    BY <1>5, <2>1
  <2>3. ItemOf(w, g, y).row.id = RowId(w, g, y.id.uuid)
    BY <1>1, <2>2, RowFields
  <2>4. ItemOf(w, g, y).row \in RowsOf(w, pin)
    BY RowsAndItems
  <2> QED
    BY <2>1, <2>2, <2>3, <2>4
<1>6. r.parent # None => \E q \in RowsOf(w, pin) : r.parent = q.id
  BY <1>1, <1>2, <1>3, <1>5, ReferencesOfItem
<1>7. r.actor # None => \E q \in RowsOf(w, pin) : r.actor = q.id
  BY <1>1, <1>2, <1>3, <1>4, <1>5, ReferencesOfItem
<1>8. r.element # None => \E q \in RowsOf(w, pin) : r.element = q.id
  BY <1>1, <1>2, <1>3, <1>4, <1>5, ReferencesOfItem
<1> QED
  BY <1>6, <1>7, <1>8

\* Rows of a manifest with canonical ids can be inserted exactly if the columns
\* take them and no 2.0 package has taken a code of theirs.
LEMMA RowsInsertableIff ==
    ASSUME ProofsInv, PinsAllHold, RowsInv, NEW w \in Workspace, NEW pin, GoodPin(pin),
           Derivable(pin), CanonicalRows(w) = {}
    PROVE  RowsInsertable(w, pin)
              <=> RowsFit(Content[pin.manifest]) /\ CodesFree(w, Content[pin.manifest])
<1> DEFINE m == Content[pin.manifest]
           new == RowsOf(w, pin)
<1>1. /\ Cardinality(new) = Len(m.actors) + Len(m.elements) + Len(m.roles)
      /\ Orderable(new) /\ ReferencesKept(new)
  BY AllRowsCounted, RowsOrderable, ReferencesAreKept
<1>2. \A r, s \in new : Collide(r, s) => r = s
  BY NewRowsApart
<1>3. (\A r \in new : RowTaken(r)) <=> RowsFit(m)
  BY RowsTakenIff
<1>4. (\A r \in new : \A s \in rows : ~Collide(r, s)) <=> CodesFree(w, m)
  <2>1. pin.manifest \in Manifest
    BY NothingReported DEF GoodPin
  <2>2. \A r \in new : \A s \in rows :
           Collide(r, s) <=> s.workspace = w /\ s.family = r.family /\ s.code = r.code
    BY OldRowsApart
  <2>3. \A f \in Family : \A code : code \in ToSet(Column(SectionOf(m, f), "code")) <=>
           \E x \in ToSet(SectionOf(m, f)) : x.code = code
    BY DEF ToSet, Column
  <2>4. \A f \in Family : \A code : code \in ToSet(Column(SectionOf(m, f), "code")) <=>
           \E r \in new : r.family = f /\ r.code = code
    <3> SUFFICES ASSUME NEW f \in Family, NEW code
                 PROVE  (\E x \in ToSet(SectionOf(m, f)) : x.code = code) <=>
                           \E r \in new : r.family = f /\ r.code = code
      BY <2>3
    <3>1. ASSUME NEW x \in ToSet(SectionOf(m, f)), x.code = code
          PROVE  \E r \in new : r.family = f /\ r.code = code
      <4>1. ItemOf(w, f, x).row \in new
        BY RowsAndItems
      <4> QED
        BY <2>1, <3>1, <4>1, RowFields
    <3>2. ASSUME NEW r \in new, r.family = f, r.code = code
          PROVE  \E x \in ToSet(SectionOf(m, f)) : x.code = code
      <4>1. PICK g, x : /\ g \in Family /\ x \in ToSet(SectionOf(m, g))
                        /\ r = ItemOf(w, g, x).row
        BY RowsAndItems
      <4> QED
        BY <2>1, <3>2, <4>1, RowFields
    <3> QED
      BY <3>1, <3>2
  <2>5. \A s \in rows : s.family \in Family
    BY DEF RowsInv
  <2> HIDE DEF new, m
  <2> QED
    BY <2>2, <2>4, <2>5 DEF CodesFree
<1>5. new = {x.row : x \in ExpectedItems(w, pin)}
  BY DEF RowsOf
<1>6. RowsInsertable(w, pin) <=>
         /\ Cardinality(new) = Len(m.actors) + Len(m.elements) + Len(m.roles)
         /\ Orderable(new) /\ ReferencesKept(new)
         /\ \A r \in new : RowTaken(r) /\ \A s \in (new \ {r}) \cup rows : ~Collide(r, s)
  BY <1>5 DEF RowsInsertable
<1> HIDE DEF new, m
<1>7. RowsInsertable(w, pin) <=>
         /\ \A r \in new : RowTaken(r)
         /\ \A r \in new : \A s \in rows : ~Collide(r, s)
  BY <1>1, <1>2, <1>6
<1> QED
  BY <1>3, <1>4, <1>7 DEF m

\* What the columns of the parameter definitions ask.
ParameterFits(x) ==
    /\ x.name # "LONG" /\ x.code \notin ScalarPowerCodes
    /\ \A decimal \in {x.minimum, x.maximum, x.step} \ {None} : decimal.fits
    /\ x.type \in {"BOOLEAN", "TEXT", "JSON"} => {x.minimum, x.maximum} = {None}
ParametersFit(m) == \A x \in ToSet(m.parameters) : ParameterFits(x)

LEMMA RepresentableParts ==
    ASSUME NEW m
    PROVE  Representable(m) <=>
              /\ \A section \in 1..4 : \A x \in ToSet(Sections(m)[section]) : ~x.id.upper
              /\ RowsFit(m) /\ ParametersFit(m)
  BY DEF Representable, RowsFit, ParametersFit, ParameterFits

\* The columns of a parameter row before it is stored.
LEMMA ParameterColumns ==
    ASSUME NEW pin, NEW x \in ParameterItem, NEW p, p = ParameterRow(pin, x)
    PROVE  /\ p.id = <<pin.definition, "PARAMETER", x.id.uuid>>
           /\ p.definition = pin.definition /\ p.source = x.id.uuid
           /\ p.snapshot.name = x.name /\ p.snapshot.code = x.code
           /\ p.snapshot.type = x.type /\ p.snapshot.statuses = x.statuses
           /\ p.snapshot.minimum = x.minimum /\ p.snapshot.maximum = x.maximum
           /\ p.snapshot.step = x.step
<1> DEFINE s == [x EXCEPT !.id = None]
<1>1. /\ s.name = x.name /\ s.code = x.code /\ s.type = x.type /\ s.statuses = x.statuses
      /\ s.minimum = x.minimum /\ s.maximum = x.maximum /\ s.step = x.step
  BY DEF ParameterItem
<1>2. /\ p.id = <<pin.definition, "PARAMETER", x.id.uuid>>
      /\ p.definition = pin.definition /\ p.source = x.id.uuid /\ p.snapshot = s
  BY DEF ParameterRow
<1> HIDE DEF s
<1> QED
  BY <1>1, <1>2

\* What the policy has already settled of a parameter.
LEMMA PolicyOfParameters ==
    ASSUME NEW m \in ValidManifest, NEW x \in ToSet(Content[m].parameters)
    PROVE  /\ x \in ParameterItem
           /\ x.statuses # <<>>
           /\ None \notin {x.minimum, x.maximum} => ~(Amount(x.minimum) > Amount(x.maximum))
<1> DEFINE c == Content[m]
<1>1. m \in Manifest /\ ScaleDiagnostics(c) = {} /\ SchemaDiagnostics(c) = {}
  <2>1. m \in Manifest /\ Diagnostics(c, c.project) = {}
    BY ContentAssumption DEF Valid
  <2> QED
    BY <2>1 DEF Diagnostics
<1>2. x \in ToSet(c.parameters)
  OBVIOUS
<1> HIDE DEF c
<1>3. {"FIELD_VALUE_INVALID" : y \in {y \in ToSet(c.parameters) : y.statuses = <<>>}} = {}
  BY <1>1 DEF SchemaDiagnostics
<1>4. x.statuses # <<>>
  BY <1>2, <1>3
<1>5. x.minimum # Absent /\ x.maximum # Absent => ~(Amount(x.minimum) > Amount(x.maximum))
  BY <1>1, <1>2 DEF ScaleDiagnostics
<1> QED
  BY <1>1, <1>4, <1>5, ItemTypes, ContentAssumption

LEMMA AmountsAreIntegers ==
    ASSUME NEW n \in Decimal
    PROVE  Amount(n) \in Int
<1>1. n.size \in Nat /\ n.negative \in BOOLEAN
  BY DEF Decimal
<1>2. CASE n.negative = TRUE
  <2>1. Amount(n) = -n.size
    BY <1>2, Zenon DEF Amount
  <2>2. \A k \in Nat : -k \in Int
    OBVIOUS
  <2> QED
    BY <1>1, <2>1, <2>2
<1>3. CASE n.negative = FALSE
  <2>1. Amount(n) = n.size
    BY <1>3, Zenon DEF Amount
  <2> QED
    BY <1>1, <2>1
<1> QED
  BY <1>1, <1>2, <1>3

\* The tables take a parameter of a valid manifest exactly if it fits.
LEMMA TakenIffFits ==
    ASSUME NEW pin, GoodPin(pin), NEW x \in ToSet(Content[pin.manifest].parameters), NEW p,
           p = ParameterRow(pin, x)
    PROVE  ParameterTaken(p) <=> ParameterFits(x)
<1>1. /\ x \in ParameterItem /\ x.statuses # <<>>
      /\ None \notin {x.minimum, x.maximum} => ~(Amount(x.minimum) > Amount(x.maximum))
  BY PolicyOfParameters DEF GoodPin
<1>2. /\ p.snapshot.name = x.name /\ p.snapshot.code = x.code
      /\ p.snapshot.type = x.type /\ p.snapshot.statuses = x.statuses
      /\ p.snapshot.minimum = x.minimum /\ p.snapshot.maximum = x.maximum
      /\ p.snapshot.step = x.step
  BY <1>1, ParameterColumns
<1>3. None \notin {x.minimum, x.maximum} => Amount(x.minimum) <= Amount(x.maximum)
  <2> SUFFICES ASSUME x.minimum # None, x.maximum # None
               PROVE  Amount(x.minimum) <= Amount(x.maximum)
    OBVIOUS
  <2>1. x.minimum \in Decimal /\ x.maximum \in Decimal
    BY <1>1, ContentAssumption DEF ParameterItem
  <2>2. Amount(x.minimum) \in Int /\ Amount(x.maximum) \in Int
    BY <2>1, AmountsAreIntegers
  <2>3. ~(Amount(x.minimum) > Amount(x.maximum))
    BY <1>1
  <2>4. \A a, b \in Int : ~(a > b) => a <= b
    OBVIOUS
  <2> QED
    BY <2>2, <2>3, <2>4
<1>4. x.type \notin {"DECIMAL", "INTEGER"} <=> x.type \in {"BOOLEAN", "TEXT", "JSON"}
  BY <1>1 DEF ParameterItem
<1>5. ParameterTaken(p) <=>
         /\ x.name # "LONG" /\ x.code \notin ScalarPowerCodes
         /\ \A decimal \in {x.minimum, x.maximum, x.step} \ {None} : decimal.fits
         /\ x.type \notin {"DECIMAL", "INTEGER"} => {x.minimum, x.maximum} = {None}
  BY <1>1, <1>2, <1>3 DEF ParameterTaken
<1> QED
  BY <1>4, <1>5 DEF ParameterFits

LEMMA AllTakenIffFit ==
    ASSUME NEW pin, GoodPin(pin)
    PROVE  (\A p \in ExpectedParameters(pin) : ParameterTaken(p))
              <=> ParametersFit(Content[pin.manifest])
  BY ExpectedAreParameters, TakenIffFits DEF ParametersFit

\* Parameters with canonical ids can be inserted exactly if the columns take them.
LEMMA ParametersInsertableIff ==
    ASSUME NEW pin, GoodPin(pin), Derivable(pin)
    PROVE  ParametersInsertable(pin) <=> ParametersFit(Content[pin.manifest])
<1> DEFINE s == Content[pin.manifest].parameters
<1>1. pin.manifest \in Manifest /\ pin.manifest \in ValidManifest
  BY NothingReported DEF GoodPin
<1>2. /\ Len(s) \in Nat
      /\ \A i, j \in 1..Len(s) : s[i].id = s[j].id => i = j
      /\ \A i, j \in 1..Len(s) : s[i].code = s[j].code => i = j
      /\ \A i \in 1..Len(s) : s[i] \in ToSet(s)
      /\ \A x \in ToSet(s) : \E i \in 1..Len(s) : x = s[i]
  BY <1>1, SectionsApart
<1>3. \A x \in ToSet(s) : x \in ParameterItem
  BY <1>1, ItemTypes
<1>4. \A x \in ToSet(s) : /\ ParameterRow(pin, x).snapshot.code = x.code
                          /\ ParameterRow(pin, x).source = x.id.uuid
                          /\ ParameterRow(pin, x).id = <<pin.definition, "PARAMETER", x.id.uuid>>
  BY <1>3, ParameterColumns
<1>5. \A x \in ToSet(s) : x.id \in StableId /\ ~x.id.upper
  <2>1. Sections(Content[pin.manifest])[4] = s /\ 4 \in 1..4
    BY DEF Sections
  <2>2. \A id \in Ids(s) : ~id.upper
    BY <2>1 DEF Derivable
  <2>3. \A x \in ToSet(s) : ~x.id.upper
    BY <2>2, IdsOfItems
  <2> QED
    BY <1>3, <2>3 DEF ParameterItem
<1>6. ExpectedParameters(pin) = {ParameterRow(pin, x) : x \in ToSet(s)}
  BY ExpectedAreParameters
<1> HIDE DEF s
<1>7. Cardinality(ExpectedParameters(pin)) = Len(s)
  <2> DEFINE g == [i \in 1..Len(s) |-> ParameterRow(pin, s[i])]
  <2>1. \A i, j \in 1..Len(s) : g[i] = g[j] => i = j
    BY <1>2, <1>4
  <2>2. DOMAIN g = 1..Len(s) /\ \A i \in 1..Len(s) : g[i] = ParameterRow(pin, s[i])
    OBVIOUS
  <2> HIDE DEF g
  <2>3. Cardinality(Range(g)) = Len(s)
    BY <1>2, <2>1, <2>2, RowsCounted
  <2>4. Range(g) = ExpectedParameters(pin)
    BY <1>2, <1>6, <2>2 DEF Range
  <2> QED
    BY <2>3, <2>4
<1>8. \A x, y \in ToSet(s) : x.id.uuid = y.id.uuid \/ x.code = y.code => x = y
  <2> SUFFICES ASSUME NEW x \in ToSet(s), NEW y \in ToSet(s),
                      x.id.uuid = y.id.uuid \/ x.code = y.code
               PROVE  x = y
    OBVIOUS
  <2>1. x.id = y.id \/ x.code = y.code
    BY <1>5, LowerIdsApart
  <2> QED
    BY <1>2, <2>1
<1>9. \A p, q \in ExpectedParameters(pin) : ParametersCollide(p, q) => p = q
  <2> SUFFICES ASSUME NEW p \in ExpectedParameters(pin), NEW q \in ExpectedParameters(pin),
                      ParametersCollide(p, q)
               PROVE  p = q
    OBVIOUS
  <2>1. PICK x \in ToSet(s) : p = ParameterRow(pin, x)
    BY <1>6
  <2>2. PICK y \in ToSet(s) : q = ParameterRow(pin, y)
    BY <1>6
  <2>3. x.id.uuid = y.id.uuid \/ x.code = y.code
    BY <1>4, <2>1, <2>2 DEF ParametersCollide
  <2> QED
    BY <1>8, <2>1, <2>2, <2>3
<1>10. ParametersInsertable(pin) <=> \A p \in ExpectedParameters(pin) : ParameterTaken(p)
  BY <1>7, <1>9 DEF ParametersInsertable, s
<1> QED
  BY <1>10, AllTakenIffFit

-----------------------------------------------------------------------------
(* Which manifests can be projected.                                       *)

\* Parameter rows belong to a definition that some workspace has projected, and
\* whoever has done so had parameters that the columns take.
SharedInv ==
    /\ \A p \in parameters :
          \E v \in Pinned : ProofsOf(v) # {} /\ PinOf(v).definition = p.definition
    /\ \A v \in Pinned : ProofsOf(v) # {} => ParametersFit(Content[PinOf(v).manifest])

RoomInv == RowsInv /\ SharedInv

\* Steps that write no projection.
LEMMA SharedStays ==
    ASSUME ProofsInv, SharedInv, UNCHANGED <<proofs, parameters>>,
           \A u \in Pinned : u \in Pinned' /\ PinOf(u)' = PinOf(u)
    PROVE  SharedInv'
<1>1. \A v : ProofsOf(v)' = ProofsOf(v)
  BY DEF ProofsOf
<1>2. \A v : ProofsOf(v) # {} => v \in Pinned
  BY DEF ProofsOf, ProofsInv
<1>3. \A p \in parameters' :
         \E v \in Pinned' : ProofsOf(v)' # {} /\ PinOf(v)'.definition = p.definition
  BY <1>1 DEF SharedInv
<1>4. \A v \in Pinned' : ProofsOf(v)' # {} => ParametersFit(Content[PinOf(v)'.manifest])
  BY <1>1, <1>2 DEF SharedInv
<1> QED
  BY <1>3, <1>4 DEF SharedInv, ParametersFit

LEMMA WritesKeepRoom ==
    ASSUME LifecycleHolds, ProjectionInv, RoomInv,
           NEW w \in Workspace, NEW pin, WritesFor(w, pin)
    PROVE  RoomInv'
<1>1. /\ PinHolds(pin) /\ Materializable(w, pin) /\ Written(w, pin)
      /\ \A u \in Pinned : u \in Pinned' /\ PinOf(u)' = PinOf(u)
      /\ w \in Pinned' /\ PinOf(w)' = pin
  BY DEF WritesFor
<1>2. PinsAllHold
  BY AllPinsHold DEF ProjectionInv
<1>3. PICK e : proofs' = proofs \cup {e} /\ e.workspace = w
  BY <1>1 DEF Written
<1>4. /\ \A v : ProofsOf(v) # {} => ProofsOf(v)' # {} /\ v \in Pinned
      /\ \A v : v # w => ProofsOf(v)' = ProofsOf(v)
      /\ ProofsOf(w)' # {}
  BY <1>3 DEF ProofsOf, ProjectionInv, ProofsInv
<1>5. RowsInv'
  <2>1. rows' = rows \cup RowsOf(w, pin)
    BY <1>1 DEF Written
  <2>2. \A r \in RowsOf(w, pin) : r.workspace \in Workspace /\ r.source # None /\ r.family \in Family
    <3> SUFFICES ASSUME NEW r \in RowsOf(w, pin)
                 PROVE  r.workspace \in Workspace /\ r.source # None /\ r.family \in Family
      OBVIOUS
    <3>1. PICK f, x : /\ f \in Family /\ x \in ToSet(SectionOf(Content[pin.manifest], f))
                      /\ r = ItemOf(w, f, x).row
      BY RowsAndItems
    <3> QED
      BY <1>1, <3>1, RowFields, NothingReported DEF PinHolds, GoodPin
  <2> QED
    BY <2>1, <2>2 DEF RoomInv, RowsInv
<1>6. \A p \in parameters' :
         \E v \in Pinned' : ProofsOf(v)' # {} /\ PinOf(v)'.definition = p.definition
  <2>1. \A p \in parameters' \ parameters : p.definition = pin.definition
    BY <1>1, StoredFields DEF Written, StoredParameters
  <2> QED
    BY <1>1, <1>4, <2>1 DEF RoomInv, SharedInv
<1>7. ParametersFit(Content[pin.manifest])
  <2>1. Derivable(pin) /\ ParametersUsable(w, pin) /\ GoodPin(pin)
    BY <1>1 DEF Materializable, PinHolds
  <2>2. CASE ActualParameters(pin.definition) = {}
    BY <2>1, <2>2, ParametersInsertableIff DEF ParametersUsable
  <2>3. CASE ActualParameters(pin.definition) # {}
    <3>1. PICK p \in parameters : p.definition = pin.definition
      BY <2>3 DEF ActualParameters
    <3>2. PICK v \in Pinned : ProofsOf(v) # {} /\ PinOf(v).definition = pin.definition
      BY <3>1 DEF RoomInv, SharedInv
    <3>3. PinOf(v).manifest = pin.manifest
      BY <1>1, <1>2, <3>2 DEF PinsAllHold, PinHolds
    <3> QED
      BY <3>2, <3>3 DEF RoomInv, SharedInv
  <2> QED
    BY <2>2, <2>3
<1>8. \A v \in Pinned' : ProofsOf(v)' # {} => ParametersFit(Content[PinOf(v)'.manifest])
  <2> SUFFICES ASSUME NEW v \in Pinned', ProofsOf(v)' # {}
               PROVE  ParametersFit(Content[PinOf(v)'.manifest])
    OBVIOUS
  <2>1. CASE v = w
    BY <1>1, <1>7, <2>1
  <2>2. CASE v # w
    <3>1. ProofsOf(v) # {}
      BY <1>4, <2>2
    <3>2. v \in Pinned
      BY <1>4, <3>1
    <3> QED
      BY <1>1, <3>1, <3>2 DEF RoomInv, SharedInv
  <2> QED
    BY <2>1, <2>2
<1> QED
  BY <1>5, <1>6, <1>8 DEF RoomInv, SharedInv, ParametersFit

LEMMA RoomStep ==
    ASSUME LifecycleHolds, ProjectionInv, RoomInv, [ProjectionNext]_allvars
    PROVE  RoomInv'
<1>1. ASSUME NEW r \in Request, StudioStep(r) PROVE RoomInv'
  <2>1. UNCHANGED projectionvars /\ \A w \in Pinned : w \in Pinned' /\ PinOf(w)' = PinOf(w)
    BY <1>1, StudioPins DEF LifecycleHolds, ProjectionInv
  <2>2. SharedInv'
    BY <2>1, SharedStays DEF projectionvars, ProjectionInv, RoomInv
  <2>3. RowsInv'
    BY <2>1 DEF projectionvars, RoomInv, RowsInv
  <2> QED
    BY <2>2, <2>3 DEF RoomInv
<1>2. ASSUME NEW x \in Legacy, ImportLegacy(x) PROVE RoomInv'
  <2>1. UNCHANGED <<dbvars, derived>> /\ UNCHANGED <<proofs, parameters>>
    BY <1>2 DEF ImportLegacy
  <2>2. SharedInv'
    BY <2>1, SamePins, SharedStays DEF ProjectionInv, RoomInv
  <2>3. PICK row : /\ rows' = rows \cup {row} /\ row.workspace = x.workspace
                   /\ row.family = x.family /\ row.actor = None /\ row.id = x.id
    <3> DEFINE row == [id |-> x.id, workspace |-> x.workspace, family |-> x.family,
                       source |-> None, code |-> x.code, order |-> 0, parent |-> None,
                       actor |-> None, element |-> None, text |-> "label"]
    <3>1. /\ rows' = rows \cup {row} /\ row.workspace = x.workspace
          /\ row.family = x.family /\ row.actor = None /\ row.id = x.id
      BY <1>2 DEF ImportLegacy
    <3> HIDE DEF row
    <3> QED
      BY <3>1
  <2>4. x.workspace \in Workspace
    BY <1>2 DEF ImportLegacy, Pinned
  <2>5. RowsInv'
    BY <2>3, <2>4, LegacyAssumption DEF RoomInv, RowsInv
  <2> QED
    BY <2>2, <2>5 DEF RoomInv
<1>3. ASSUME UNCHANGED <<dbvars, derived, rows, parameters, proofs>> PROVE RoomInv'
  <2>1. SharedInv'
    BY <1>3, SamePins, SharedStays DEF ProjectionInv, RoomInv
  <2>2. RowsInv'
    BY <1>3 DEF RoomInv, RowsInv
  <2> QED
    BY <2>1, <2>2 DEF RoomInv
<1>4. ASSUME NEW w \in Pinned, ExportPackage(w) PROVE RoomInv'
  BY <1>3, <1>4 DEF ExportPackage
<1>5. CASE UNCHANGED allvars
  BY <1>3, <1>5 DEF allvars, projectionvars
<1> QED
  BY <1>1, <1>2, <1>4, <1>5, ProjectWrites, CreateWrites, WritesKeepRoom DEF ProjectionNext

\* The parameter rows of the definition serve a new workspace as they would its
\* siblings.
LEMMA UsableIff ==
    ASSUME LifecycleHolds, ProjectionInv, RoomInv, NEW w \in Pinned, ProofsOf(w) = {},
           NEW pin, pin = PinOf(w), Derivable(pin)
    PROVE  ParametersUsable(w, pin) <=>
              /\ ParametersFit(Content[pin.manifest])
              /\ ActualParameters(pin.definition) # {} => ~NegativeZero(Content[pin.manifest])
<1>1. PinsAllHold /\ PinHolds(pin) /\ GoodPin(pin)
  BY AllPinsHold DEF ProjectionInv, PinsAllHold, PinHolds
<1>2. CASE ActualParameters(pin.definition) = {}
  BY <1>1, <1>2, ParametersInsertableIff DEF ParametersUsable
<1>3. CASE ActualParameters(pin.definition) # {}
  <2>1. PICK p \in parameters : p.definition = pin.definition
    BY <1>3 DEF ActualParameters
  <2>2. PICK v \in Pinned : ProofsOf(v) # {} /\ PinOf(v).definition = pin.definition
    BY <2>1 DEF RoomInv, SharedInv
  <2>3. PinOf(v).manifest = pin.manifest
    BY <1>1, <2>2 DEF PinsAllHold, PinHolds
  <2>4. ParametersFit(Content[pin.manifest])
    BY <2>2, <2>3 DEF RoomInv, SharedInv
  <2>5. Stands(v, PinOf(v)) /\ v # w
    BY <2>2 DEF ProjectionInv, ProofsInv, Pinned
  <2>6. ExpectedParameters(PinOf(v)) = ExpectedParameters(pin)
    BY <2>2, <2>3 DEF ExpectedParameters
  <2>7. ActualParameters(pin.definition) = StoredParameters(pin)
    BY <2>2, <2>5, <2>6 DEF Stands, StoredParameters
  <2>8. ProvenBySibling(w, pin)
    <3>1. PICK e \in ProofsOf(v) : TRUE
      BY <2>2
    <3>2. ProofsOf(v) = {e} /\ e \in proofs
      BY <3>1 DEF ProofsOf, ProjectionInv, ProofsInv
    <3>3. e.projection = Projection(v, PinOf(v)) /\ Derivable(PinOf(v))
      BY <2>5, <3>1 DEF Stands
    <3> QED
      BY <2>2, <2>5, <2>6, <3>2, <3>3 DEF ProvenBySibling
  <2>9. ParametersUsable(w, pin) <=> StoredParameters(pin) = ExpectedParameters(pin)
    BY <1>3, <2>7, <2>8 DEF ParametersUsable
  <2> QED
    BY <1>1, <1>3, <2>4, <2>9, ParametersReadBack
<1> QED
  BY <1>2, <1>3

\* A published manifest can be projected exactly if the columns can hold it and
\* its codes are free, and, once siblings have stored its parameters, none of its
\* bounds is "-0": whatever else a table could refuse, FD01 has refused before.
THEOREM ProjectableAlwaysExactly == ProjectionSpec => []ProjectableExactly
<1>1. ProjectionInit => RoomInv
  BY DEF ProjectionInit, RoomInv, RowsInv, SharedInv, ProofsOf
<1>2. ProjectionSpec => []RoomInv
  <2>1. ProjectionSpec => ProjectionInit /\ [][ProjectionNext]_allvars
    BY DEF ProjectionSpec
  <2>2. LifecycleHolds /\ ProjectionInv /\ RoomInv /\ [ProjectionNext]_allvars => RoomInv'
    BY RoomStep
  <2> QED
    BY <1>1, <2>1, <2>2, ProjectionInductive, PTL
<1>3. LifecycleHolds /\ ProjectionInv /\ RoomInv => ProjectableExactly
  <2> SUFFICES ASSUME LifecycleHolds, ProjectionInv, RoomInv,
                      NEW w \in Pinned, ProofsOf(w) = {}, NEW pin, pin = PinOf(w),
                      NEW m, m = Content[pin.manifest]
               PROVE  Materializable(w, pin) <=>
                         /\ Representable(m)
                         /\ CodesFree(w, m)
                         /\ ActualParameters(pin.definition) # {} => ~NegativeZero(m)
    BY DEF ProjectableExactly, CodesFree
  <2>1. w \in Workspace /\ PinsAllHold /\ PinHolds(pin) /\ GoodPin(pin)
    BY AllPinsHold DEF ProjectionInv, PinsAllHold, PinHolds, Pinned
  <2>2. CanonicalRows(w) = {} /\ completed[w] = None
    BY <2>1 DEF ProjectionInv, ProofsInv
  <2>3. Materializable(w, pin) <=>
           Derivable(pin) /\ ParametersUsable(w, pin) /\ RowsInsertable(w, pin)
    BY <2>2 DEF Materializable
  <2>4. Derivable(pin) <=>
           \A section \in 1..4 : \A x \in ToSet(Sections(m)[section]) : ~x.id.upper
    BY <2>1, DerivableIff
  <2>5. Derivable(pin) =>
           (RowsInsertable(w, pin) <=> RowsFit(m) /\ CodesFree(w, m))
    BY <2>1, <2>2, RowsInsertableIff DEF ProjectionInv, RoomInv
  <2>6. Derivable(pin) =>
           (ParametersUsable(w, pin) <=>
              /\ ParametersFit(m)
              /\ ActualParameters(pin.definition) # {} => ~NegativeZero(m))
    BY UsableIff
  <2>7. Representable(m) <=> Derivable(pin) /\ RowsFit(m) /\ ParametersFit(m)
    BY <2>4, RepresentableParts
  <2> QED
    BY <2>3, <2>5, <2>6, <2>7
<1> QED
  BY <1>2, <1>3, ProjectionInductive, PTL
=============================================================================
