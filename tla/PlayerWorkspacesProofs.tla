----------------------- MODULE PlayerWorkspacesProofs -----------------------
(***************************************************************************)
(* Theorems about PlayerWorkspaces, and with it about DefinitionImport:    *)
(* the lifecycle, imports and the Player's operations on the same rows.    *)
(***************************************************************************)
EXTENDS PlayerWorkspaces, DefinitionLifecycleProofs, FiniteSetTheorems

-----------------------------------------------------------------------------
(* What no step ever undoes.                                               *)

\* A definition keeps its project and its names, its bytes once they have left
\* DRAFT, and its publication.
Kept(d) ==
    /\ Exists(d)'
    /\ definitions'[d].project = definitions[d].project
    /\ definitions'[d].code = definitions[d].code
    /\ definitions'[d].version = definitions[d].version
    /\ definitions[d].status # "DRAFT" =>
          /\ definitions'[d].status # "DRAFT"
          /\ definitions'[d].manifest = definitions[d].manifest
    /\ definitions[d].status = "PUBLISHED" => definitions'[d].status = "PUBLISHED"

RowsKept ==
    /\ publications \subseteq publications'
    /\ \A w \in Workspace : workspaces[w] # None => workspaces'[w] = workspaces[w]
    /\ \A d \in Definition : Exists(d) => Kept(d)

LEMMA SavedNamesStay ==
    ASSUME TypeOK, NEW r \in Request, Allowed(r), r.op \in WriteOp, HumanWrite(r, AfterRow(r)),
           Exists(r.target)
    PROVE  Kept(r.target)
<1>1. /\ r.op \notin InsertOp
      /\ definitions[r.target] \in DefinitionRow
      /\ definitions[r.target].status = "DRAFT"
      /\ definitions'[r.target] = AfterRow(r)
      /\ AfterRow(r) \in DefinitionRow
      /\ AfterRow(r).project = definitions[r.target].project
  BY HumanWriteFrame
<1>2. r.op \in {"SAVE_DRAFT", "VALIDATE_DEFINITION"}
  BY <1>1 DEF WriteOp, InsertOp
<1>3. \/ AfterRow(r) = [definitions[r.target] EXCEPT !.manifest = r.manifest]
      \/ AfterRow(r) = [definitions[r.target] EXCEPT !.status = "VALIDATED"]
  BY <1>2 DEF AfterRow, PublicationOp
<1>4. /\ AfterRow(r).code = definitions[r.target].code
      /\ AfterRow(r).version = definitions[r.target].version
  BY <1>1, <1>3 DEF DefinitionRow
<1>5. AfterRow(r) # None
  BY <1>1, NoneAssumption
<1> QED
  BY <1>1, <1>4, <1>5 DEF Kept, Exists

LEMMA OperationKeeps ==
    ASSUME TypeOK, [LifecycleNext]_dbvars
    PROVE  RowsKept
<1>1. CASE LifecycleNext
  <2>1. PICK r \in Request : Operation(r)
    BY <1>1 DEF LifecycleNext
  <2>2. Allowed(r)
    BY <2>1, OperationWrites
  <2>3. ASSUME NEW d \in Definition, Exists(d)
        PROVE  Kept(d)
    <3>0. definitions[d] \in DefinitionRow
      BY <2>3, RowType
    <3>1. CASE r.op \in WriteOp /\ HumanWrite(r, AfterRow(r))
      <4>1. CASE d = r.target
        BY <2>2, <2>3, <3>1, <4>1, SavedNamesStay
      <4>2. CASE d # r.target
        <5>1. definitions'[d] = definitions[d]
          BY <2>2, <3>1, <4>2, HumanWriteFrame
        <5> QED
          BY <2>3, <5>1 DEF Kept, Exists
      <4> QED
        BY <4>1, <4>2
    <3>2. CASE r.op \in PublicationOp /\ Publish(r, AfterRow(r))
      <4>1. \/ definitions'[d] = [definitions[d] EXCEPT !.status = "PUBLISHED", !.current = TRUE]
            \/ definitions'[d] = Demoted(r.project, d)
        BY <2>2, <3>2, PublishFrame
      <4>2. definitions'[d] \in DefinitionRow
        BY <2>3, <3>0, <4>1 DEF DefinitionRow, Demoted
      <4>3. definitions'[d] # None
        BY <4>2, NoneAssumption
      <4> QED
        BY <2>3, <3>0, <4>1, <4>3 DEF Kept, Exists, DefinitionRow, Demoted
    <3> QED
      BY <2>1, <3>1, <3>2, OperationWrites
  <2>4. /\ publications \subseteq publications'
        /\ \A w \in Workspace : workspaces[w] # None => workspaces'[w] = workspaces[w]
    BY <1>1, FrozenStep
  <2> QED
    BY <2>3, <2>4 DEF RowsKept
<1>2. CASE UNCHANGED dbvars
  BY <1>2 DEF dbvars, RowsKept, Kept, Exists
<1> QED
  BY <1>1, <1>2

-----------------------------------------------------------------------------
(* Committing an import.                                                   *)

LEMMA PackageFields ==
    ASSUME NEW x \in Package
    PROVE  /\ x.id \in Key /\ x.definition \in Definition /\ x.row \in DefinitionRow
           /\ x.workspace \in Workspace /\ x.default \in BOOLEAN /\ x \in Origin
           /\ x.row.project \in Project /\ x.row.manifest \in Manifest
           /\ x.row.status \in {"DRAFT", "VALIDATED", "PUBLISHED"}
  BY PackageAssumption DEF PackageType, DefinitionRow

\* What the attempts under way have been granted, planned and refused.
AttemptsInv ==
    \A x \in Package : attempt[x] # None =>
       /\ HumanCapabilities(attempt[x].granted) \subseteq Capability[attempt[x].importer]
       /\ attempt[x].step = "previewed" => attempt[x].planned \in Action
       /\ attempt[x].step = "refused" => attempt[x].status \in {"REJECTED", "FAILED"}

LEMMA PlanRange ==
    ASSUME NEW x \in Package
    PROVE  /\ Plan(x) \in Action \cup {Conflict}
           /\ Plan(x) = "REUSE_EXACT" => Persisted(x) = {x.definition} /\ ExportEquals(x)
           /\ Plan(x) \in {"CREATE_DRAFT", "BOOTSTRAP_PUBLISHED"} => Persisted(x) = {}
           /\ Plan(x) = "CREATE_DRAFT" => x.row.status = "DRAFT"
           /\ Plan(x) = "BOOTSTRAP_PUBLISHED" => x.row.status = "PUBLISHED"
  BY DEF Plan, Action, Conflict

LEMMA CommitFacts ==
    ASSUME AttemptsInv, NEW x \in Package, CommitImport(x)
    PROVE  /\ attempt[x] # None /\ attempt[x].planned \in Action
           /\ Plan(x) = attempt[x].planned
           /\ ~AlreadyImported(x)
           /\ HumanCapabilities(attempt[x].planned) \subseteq Capability[attempt[x].importer]
           /\ Plan(x) = "BOOTSTRAP_PUBLISHED" => BootstrapAllowed(x)
<1>1. /\ attempt[x] # None /\ attempt[x].step = "previewed"
      /\ CommitOutcome(x) = "COMMITTED"
  BY DEF CommitImport
<1>2. /\ attempt[x].planned \in Action
      /\ HumanCapabilities(attempt[x].granted) \subseteq Capability[attempt[x].importer]
  BY <1>1 DEF AttemptsInv
<1>3. /\ Plan(x) = attempt[x].planned
      /\ ~AlreadyImported(x)
      /\ Plan(x) = "BOOTSTRAP_PUBLISHED" => BootstrapAllowed(x)
      /\ ServiceCapabilities(Plan(x)) \subseteq ServiceCapabilities(attempt[x].granted)
      /\ attempt[x].granted = "BOOTSTRAP_PUBLISHED" => Plan(x) = attempt[x].granted
  BY <1>1 DEF CommitOutcome
<1>4. Plan(x) = attempt[x].granted \/ HumanCapabilities(Plan(x)) = {}
  BY <1>2, <1>3 DEF Action, Elevated, ServiceCapabilities, HumanCapabilities
<1> QED
  BY <1>1, <1>2, <1>3, <1>4

\* Two of the three plans write a row where there was none.
LEMMA NothingThere ==
    ASSUME NEW x \in Package, Persisted(x) = {}
    PROVE  ~Exists(x.definition)
  BY PackageFields DEF Persisted

LEMMA ImportedDraftType ==
    ASSUME NEW x \in Package
    PROVE  /\ ImportedDraft(x) \in DefinitionRow
           /\ ImportedDraft(x).project = x.row.project
           /\ ImportedDraft(x).code = x.row.code
           /\ ImportedDraft(x).version = x.row.version
           /\ ImportedDraft(x).manifest = x.row.manifest
           /\ ImportedDraft(x).status = "DRAFT"
           /\ ImportedDraft(x).current = FALSE
<1> DEFINE s == IF Parent(x) = {} THEN None ELSE CHOOSE d \in Parent(x) : TRUE
<1>1. s \in Definition \cup {None}
  BY DEF Parent, InProject
<1>2. ImportedDraft(x) = [x.row EXCEPT !.status = "DRAFT", !.current = FALSE, !.supersedes = s]
  BY DEF ImportedDraft
<1>3. x.row \in DefinitionRow
  BY PackageFields
<1> HIDE DEF s
<1> QED
  BY <1>1, <1>2, <1>3 DEF DefinitionRow

\* The three ways to commit.
BringsDraft(x) ==
    /\ definitions' = [definitions EXCEPT ![x.definition] = ImportedDraft(x)]
    /\ UNCHANGED <<projects, receipts, publications, workspaces>>

PublishedRow(x) == [ImportedDraft(x) EXCEPT !.status = "PUBLISHED", !.current = TRUE]
PackagePublication(x) ==
    [project |-> x.row.project, definition |-> x.definition, key |-> x.id,
     request |-> x, workspace |-> x.workspace]
FirstPin(x) == [project |-> x.row.project, definition |-> x.definition,
                manifest |-> x.row.manifest]
Bootstraps(x) ==
    /\ definitions' = [definitions EXCEPT ![x.definition] = PublishedRow(x)]
    /\ publications' = publications \cup {PackagePublication(x)}
    /\ workspaces' = [workspaces EXCEPT ![x.workspace] = FirstPin(x)]
    /\ UNCHANGED <<projects, receipts>>

LEMMA PublishedRowType ==
    ASSUME NEW x \in Package
    PROVE  /\ PublishedRow(x) \in DefinitionRow
           /\ PublishedRow(x).project = x.row.project
           /\ PublishedRow(x).code = x.row.code
           /\ PublishedRow(x).version = x.row.version
           /\ PublishedRow(x).manifest = x.row.manifest
           /\ PublishedRow(x).status = "PUBLISHED"
           /\ PublishedRow(x).current = TRUE
  BY ImportedDraftType DEF PublishedRow, DefinitionRow

LEMMA CommitKinds ==
    ASSUME AttemptsInv, NEW x \in Package, CommitImport(x)
    PROVE  \/ /\ attempt[x].planned = "REUSE_EXACT"
              /\ UNCHANGED dbvars /\ UNCHANGED <<bindings, defaults>>
              /\ Persisted(x) = {x.definition} /\ ExportEquals(x)
           \/ /\ attempt[x].planned = "CREATE_DRAFT"
              /\ BringsDraft(x) /\ UNCHANGED <<bindings, defaults>>
              /\ ~Exists(x.definition)
           \/ /\ attempt[x].planned = "BOOTSTRAP_PUBLISHED"
              /\ Bootstraps(x) /\ BootstrapAllowed(x) /\ ~Exists(x.definition)
              /\ bindings' = [b \in Binding |-> IF b \in BindingsOf[x.row.manifest]
                                                THEN x.workspace ELSE bindings[b]]
              /\ defaults' = IF x.default THEN defaults \cup {x.workspace} ELSE defaults
<1>1. /\ attempt[x].planned \in Action
      /\ Plan(x) = attempt[x].planned
      /\ Plan(x) = "BOOTSTRAP_PUBLISHED" => BootstrapAllowed(x)
  BY CommitFacts
<1>2. CommitRows(x)
  BY DEF CommitImport
<1>3. CASE attempt[x].planned = "REUSE_EXACT"
  BY <1>1, <1>2, <1>3, PlanRange DEF CommitRows
<1>4. CASE attempt[x].planned = "CREATE_DRAFT"
  BY <1>1, <1>2, <1>4, PlanRange, NothingThere DEF CommitRows, BringsDraft
<1>5. CASE attempt[x].planned = "BOOTSTRAP_PUBLISHED"
  <2>1. ~Exists(x.definition)
    BY <1>1, <1>5, PlanRange, NothingThere
  <2>2. /\ PublishedRow(x).project = x.row.project
        /\ PublishedRow(x).manifest = x.row.manifest
    BY PublishedRowType
  <2>3. /\ definitions' = [definitions EXCEPT ![x.definition] = PublishedRow(x)]
        /\ publications' = publications \cup
              {[project |-> PublishedRow(x).project, definition |-> x.definition, key |-> x.id,
                request |-> x, workspace |-> x.workspace]}
        /\ workspaces' = [workspaces EXCEPT ![x.workspace] =
              [project |-> PublishedRow(x).project, definition |-> x.definition,
               manifest |-> PublishedRow(x).manifest]]
        /\ bindings' = [b \in Binding |-> IF b \in BindingsOf[PublishedRow(x).manifest]
                                          THEN x.workspace ELSE bindings[b]]
        /\ defaults' = IF x.default THEN defaults \cup {x.workspace} ELSE defaults
        /\ UNCHANGED <<projects, receipts>>
    BY <1>2, <1>5 DEF CommitRows, PublishedRow
  <2>4. Bootstraps(x)
    BY <2>2, <2>3 DEF Bootstraps, PackagePublication, FirstPin
  <2> QED
    BY <1>1, <1>5, <2>1, <2>2, <2>3, <2>4
<1> QED
  BY <1>1, <1>3, <1>4, <1>5 DEF Action

LEMMA CommitType ==
    ASSUME TypeOK, AttemptsInv, NEW x \in Package, CommitImport(x)
    PROVE  TypeOK'
<1>1. CASE UNCHANGED dbvars
  BY <1>1 DEF dbvars, TypeOK
<1>2. CASE BringsDraft(x)
  <2>1. definitions' \in [Definition -> DefinitionRow \cup {None}]
    BY <1>2, ImportedDraftType, PackageFields DEF TypeOK, BringsDraft
  <2> QED
    BY <1>2, <2>1 DEF TypeOK, BringsDraft
<1>3. CASE Bootstraps(x)
  <2>1. definitions' \in [Definition -> DefinitionRow \cup {None}]
    BY <1>3, PublishedRowType, PackageFields DEF TypeOK, Bootstraps
  <2>2. publications' \subseteq PublicationRow
    BY <1>3, PackageFields DEF TypeOK, Bootstraps, PublicationRow, PackagePublication
  <2>3. workspaces' \in [Workspace -> WorkspaceRow \cup {None}]
    BY <1>3, PackageFields DEF TypeOK, Bootstraps, WorkspaceRow, FirstPin
  <2> QED
    BY <1>3, <2>1, <2>2, <2>3 DEF TypeOK, Bootstraps
<1> QED
  BY <1>1, <1>2, <1>3, CommitKinds

\* An import adds rows and changes none.
LEMMA CommitKeeps ==
    ASSUME TypeOK, AttemptsInv, NEW x \in Package, CommitImport(x)
    PROVE  RowsKept
<1>1. CASE UNCHANGED dbvars
  BY <1>1 DEF dbvars, RowsKept, Kept, Exists
<1>2. CASE BringsDraft(x) /\ ~Exists(x.definition)
  <2>1. \A d \in Definition : Exists(d) => definitions'[d] = definitions[d]
    BY <1>2 DEF BringsDraft, TypeOK
  <2> QED
    BY <1>2, <2>1 DEF BringsDraft, RowsKept, Kept, Exists
<1>3. CASE Bootstraps(x) /\ ~Exists(x.definition) /\ BootstrapAllowed(x)
  <2>1. \A d \in Definition : Exists(d) => definitions'[d] = definitions[d]
    BY <1>3 DEF Bootstraps, TypeOK
  <2>2. \A w \in Workspace : workspaces[w] # None => workspaces'[w] = workspaces[w]
    BY <1>3 DEF Bootstraps, BootstrapAllowed, TypeOK
  <2> QED
    BY <1>3, <2>1, <2>2 DEF Bootstraps, RowsKept, Kept, Exists
<1> QED
  BY <1>1, <1>2, <1>3, CommitKinds

\* No publication names a definition that does not exist.
LEMMA NewIsUnpublished ==
    ASSUME ChainInv, NEW d \in Definition, ~Exists(d)
    PROVE  /\ \A row \in publications : row.definition # d
           /\ ~IsPublished(d)
  BY DEF ChainInv, Grounded, InProject, IsPublished

\* What an import that writes a row does to every project but its own.
OtherRowsStay(x) ==
    /\ \A d \in Definition \ {x.definition} : definitions'[d] = definitions[d]
    /\ \A row \in publications :
          /\ row.definition \in Definition \ {x.definition} /\ row.project \in Project
          /\ row.definition \in InProject(row.project)
          /\ definitions'[row.definition] = definitions[row.definition]
    /\ \A p \in Project : InProject(p) \subseteq InProject(p)' \ {x.definition}
    /\ \A p \in Project : InProject(p)' \subseteq InProject(p) \cup {x.definition}
    /\ \A p \in Project \ {x.row.project} : InProject(p)' = InProject(p)
    /\ x.definition \in InProject(x.row.project)'

LEMMA CommitOtherRows ==
    ASSUME ChainInv, NEW x \in Package, ~Exists(x.definition), NEW row \in DefinitionRow,
           row.project = x.row.project,
           definitions' = [definitions EXCEPT ![x.definition] = row]
    PROVE  OtherRowsStay(x) /\ definitions'[x.definition] = row
<1>0. /\ x.definition \in Definition /\ x.row.project \in Project /\ row # None
      /\ definitions \in [Definition -> DefinitionRow \cup {None}]
  BY PackageFields, NoneAssumption DEF ChainInv, TypeOK
<1>1. /\ \A d \in Definition \ {x.definition} : definitions'[d] = definitions[d]
      /\ definitions'[x.definition] = row
  BY <1>0
<1>2. ASSUME NEW y \in publications
      PROVE  /\ y.definition \in Definition \ {x.definition} /\ y.project \in Project
             /\ y.definition \in InProject(y.project)
  BY <1>0, NewIsUnpublished DEF ChainInv, Grounded, InProject, TypeOK, PublicationRow
<1>3. ASSUME NEW p \in Project
      PROVE  /\ InProject(p) \subseteq InProject(p)' \ {x.definition}
             /\ InProject(p)' \subseteq InProject(p) \cup {x.definition}
             /\ p # x.row.project => InProject(p)' = InProject(p)
  BY <1>0, <1>1 DEF InProject, Exists
<1>4. x.definition \in InProject(x.row.project)'
  BY <1>0, <1>1 DEF InProject, Exists
<1> QED
  BY <1>1, <1>2, <1>3, <1>4 DEF OtherRowsStay

\* A draft that is brought changes no chain.
LEMMA BroughtDraftKeepsChain ==
    ASSUME ChainInv, NEW x \in Package, ~Exists(x.definition), BringsDraft(x)
    PROVE  /\ Grounded' /\ PublishedChain'
           /\ \A p \in Project : Current(p)' = Current(p)
<1> DEFINE t == x.definition
<1>0. t \in Definition
  BY PackageFields
<1>1. /\ OtherRowsStay(x)
      /\ definitions'[t] = ImportedDraft(x)
      /\ definitions'[t].status = "DRAFT" /\ definitions'[t].current = FALSE
  BY ImportedDraftType, CommitOtherRows DEF BringsDraft
<1>2. publications' = publications
  BY DEF BringsDraft
<1>3. Grounded'
  BY <1>1, <1>2 DEF OtherRowsStay, Grounded
<1>4. ASSUME NEW p \in Project PROVE Current(p)' = Current(p)
  <2>1. \A d \in InProject(p) : definitions'[d] = definitions[d]
    BY <1>1 DEF OtherRowsStay, InProject
  <2> QED
    BY <1>1, <2>1 DEF OtherRowsStay, Current
<1>5. \A p \in Project : PublicationsOf(p)' = PublicationsOf(p) /\ InitialReceipts(p)' = InitialReceipts(p)
  BY <1>2 DEF PublicationsOf, InitialReceipts
<1>6. ASSUME NEW p \in Project
      PROVE  (Agrees(p) /\ OneReceipt(p) /\ Supersedes(p) /\ NoRivals(p) /\ OneHead(p))'
  <2>0. Agrees(p) /\ OneReceipt(p) /\ Supersedes(p) /\ NoRivals(p) /\ OneHead(p)
    BY ChainParts DEF ChainInv
  <2>1. Agrees(p)'
    <3> SUFFICES ASSUME NEW d \in InProject(p)'
                 PROVE  /\ definitions'[d].status = "PUBLISHED" <=> IsPublished(d)'
                        /\ definitions'[d].current => definitions'[d].status = "PUBLISHED"
      BY DEF Agrees
    <3>1. CASE d = t
      BY <1>0, <1>1, <1>2, <3>1, NewIsUnpublished DEF IsPublished
    <3>2. CASE d # t
      <4>1. d \in InProject(p) /\ definitions'[d] = definitions[d]
        BY <1>1, <3>2 DEF OtherRowsStay, InProject
      <4> QED
        BY <1>2, <2>0, <4>1 DEF Agrees, IsPublished
    <3> QED
      BY <3>1, <3>2
  <2>2. OneReceipt(p)'
    BY <1>5, <2>0 DEF OneReceipt
  <2>3. \A y \in PublicationsOf(p) : definitions'[y.definition] = definitions[y.definition]
    BY <1>1 DEF OtherRowsStay, PublicationsOf
  <2>4. Supersedes(p)'
    <3> SUFFICES ASSUME NEW y \in PublicationsOf(p), y.workspace = None,
                        NEW s, s = definitions[y.definition].supersedes
                 PROVE  /\ s \in InProject(p)'
                        /\ definitions'[s].status = "PUBLISHED"
                        /\ ~definitions'[s].current
      BY <1>5, <2>3 DEF Supersedes
    <3>1. s \in InProject(p) /\ definitions[s].status = "PUBLISHED" /\ ~definitions[s].current
      BY <2>0 DEF Supersedes
    <3>2. s \in InProject(p)' /\ definitions'[s] = definitions[s]
      BY <1>1, <3>1 DEF OtherRowsStay, InProject
    <3> QED
      BY <3>1, <3>2
  <2>5. NoRivals(p)'
    BY <1>5, <2>0, <2>3 DEF NoRivals
  <2>6. OneHead(p)'
    <3>1. \A d \in InProject(p) : d \in InProject(p)'
      BY <1>1 DEF OtherRowsStay
    <3> QED
      BY <1>4, <1>5, <2>0, <3>1 DEF OneHead
  <2> QED
    BY <2>1, <2>2, <2>4, <2>5, <2>6
<1>7. PublishedChain'
  BY <1>6 DEF PublishedChain, Agrees, OneReceipt, Supersedes, NoRivals, OneHead
<1> QED
  BY <1>3, <1>4, <1>7

\* A package that brings a published definition begins the chain of its project.
LEMMA BootstrapKeepsChain ==
    ASSUME ChainInv, NEW x \in Package, ~Exists(x.definition), Bootstraps(x), BootstrapAllowed(x)
    PROVE  /\ Grounded' /\ PublishedChain'
           /\ Current(x.row.project)' = {x.definition}
           /\ \A p \in Project \ {x.row.project} : Current(p)' = Current(p)
           /\ OtherRowsStay(x)
           /\ definitions'[x.definition] = PublishedRow(x)
<1> DEFINE t == x.definition
           q == x.row.project
           new == PackagePublication(x)
<1>0. /\ t \in Definition /\ q \in Project /\ x.workspace \in Workspace
      /\ x.workspace # None
  BY PackageFields, NoneAssumption
<1>1. OtherRowsStay(x) /\ definitions'[t] = PublishedRow(x)
  BY PublishedRowType, CommitOtherRows DEF Bootstraps
<1>2. publications' = publications \cup {new}
  BY DEF Bootstraps
<1>3. /\ new.definition = t /\ new.project = q /\ new.workspace = x.workspace
  BY DEF PackagePublication
<1>4. PublicationsOf(q) = {} /\ Current(q) = {}
  BY DEF BootstrapAllowed
<1> HIDE DEF new, q, t
<1>5. Grounded'
  <2> SUFFICES ASSUME NEW row \in publications' PROVE row.definition \in InProject(row.project)'
    BY DEF Grounded
  <2>1. CASE row \in publications
    BY <1>1, <2>1 DEF OtherRowsStay
  <2>2. CASE row = new
    BY <1>1, <1>3, <2>2 DEF OtherRowsStay, t, q
  <2> QED
    BY <1>2, <2>1, <2>2
<1>6. /\ PublicationsOf(q)' = {new} /\ InitialReceipts(q)' = {new}
      /\ \A p \in Project \ {q} :
            PublicationsOf(p)' = PublicationsOf(p) /\ InitialReceipts(p)' = InitialReceipts(p)
  BY <1>0, <1>2, <1>3, <1>4 DEF PublicationsOf, InitialReceipts
<1>7. \A d \in Definition \ {t} : definitions'[d] = definitions[d]
  BY <1>1 DEF OtherRowsStay, t
<1>8. Current(q)' = {t}
  <2>1. \A d \in InProject(q) : d # t /\ ~definitions'[d].current
    BY <1>1, <1>4, <1>7 DEF Current, InProject, OtherRowsStay, t, q
  <2>2. t \in InProject(q)' /\ InProject(q)' \subseteq InProject(q) \cup {t}
    BY <1>0, <1>1 DEF OtherRowsStay, t, q
  <2>3. definitions'[t].current
    BY <1>1, PublishedRowType
  <2> QED
    BY <2>1, <2>2, <2>3 DEF Current
<1>9. ASSUME NEW p \in Project, p # q
      PROVE  InProject(p)' = InProject(p) /\ Current(p)' = Current(p)
             /\ \A d \in InProject(p) : d # t /\ definitions'[d] = definitions[d]
  <2>1. InProject(p)' = InProject(p)
    BY <1>1, <1>9 DEF OtherRowsStay, q
  <2>2. \A d \in InProject(p) : d # t /\ definitions'[d] = definitions[d]
    BY <1>1, <1>7, <2>1 DEF InProject, OtherRowsStay, t
  <2> QED
    BY <2>1, <2>2 DEF Current
<1>10. \A d \in Definition : IsPublished(d)' <=> (IsPublished(d) \/ d = t)
  BY <1>2, <1>3 DEF IsPublished
<1>11. ASSUME NEW p \in Project, p # q
       PROVE  (Agrees(p) /\ OneReceipt(p) /\ Supersedes(p) /\ NoRivals(p) /\ OneHead(p))'
  <2>0. Agrees(p) /\ OneReceipt(p) /\ Supersedes(p) /\ NoRivals(p) /\ OneHead(p)
    BY ChainParts DEF ChainInv
  <2>1. Agrees(p)'
    <3>1. \A d \in InProject(p) : d \in Definition
      BY DEF InProject
    <3> QED
      BY <1>9, <1>10, <1>11, <2>0, <3>1 DEF Agrees
  <2>2. OneReceipt(p)' /\ OneHead(p)'
    BY <1>6, <1>9, <1>11, <2>0 DEF OneReceipt, OneHead
  <2>3. \A y \in PublicationsOf(p) : definitions'[y.definition] = definitions[y.definition]
    BY <1>1 DEF OtherRowsStay, PublicationsOf
  <2>4. Supersedes(p)'
    BY <1>6, <1>9, <1>11, <2>0, <2>3 DEF Supersedes
  <2>5. NoRivals(p)'
    BY <1>6, <1>11, <2>0, <2>3 DEF NoRivals
  <2> QED
    BY <2>1, <2>2, <2>4, <2>5
<1>12. (Agrees(q) /\ OneReceipt(q) /\ Supersedes(q) /\ NoRivals(q) /\ OneHead(q))'
  <2>1. Agrees(q)'
    <3> SUFFICES ASSUME NEW d \in InProject(q)'
                 PROVE  /\ definitions'[d].status = "PUBLISHED" <=> IsPublished(d)'
                        /\ definitions'[d].current => definitions'[d].status = "PUBLISHED"
      BY DEF Agrees
    <3>1. CASE d = t
      BY <1>0, <1>1, <1>10, <3>1, PublishedRowType
    <3>2. CASE d # t
      <4>1. d \in InProject(q) /\ d \in Definition /\ definitions'[d] = definitions[d]
        BY <1>0, <1>1, <1>7, <3>2 DEF OtherRowsStay, InProject, t
      <4>2. Agrees(q)
        BY <1>0, ChainParts DEF ChainInv
      <4> QED
        BY <1>10, <3>2, <4>1, <4>2 DEF Agrees
    <3> QED
      BY <3>1, <3>2
  <2>2. OneReceipt(q)' /\ Supersedes(q)' /\ NoRivals(q)'
    BY <1>0, <1>3, <1>6 DEF OneReceipt, Supersedes, NoRivals
  <2>3. t \in InProject(q)'
    BY <1>1 DEF OtherRowsStay, t, q
  <2>4. OneHead(q)'
    BY <1>6, <1>8, <2>3 DEF OneHead
  <2> QED
    BY <2>1, <2>2, <2>4
<1>13. PublishedChain'
  BY <1>11, <1>12 DEF PublishedChain, Agrees, OneReceipt, Supersedes, NoRivals, OneHead
<1> QED
  BY <1>1, <1>5, <1>8, <1>9, <1>13 DEF t, q

LEMMA CommitKeepsChain ==
    ASSUME ChainInv, AttemptsInv, NEW x \in Package, CommitImport(x)
    PROVE  ChainInv'
<1>1. TypeOK /\ TypeOK'
  BY CommitType DEF ChainInv
<1>2. CASE UNCHANGED dbvars
  BY <1>1, <1>2 DEF dbvars, ChainInv, Grounded, PublishedChain, InProject, Exists,
                    PublicationsOf, InitialReceipts, Current, IsPublished
<1> QED
  BY <1>1, <1>2, CommitKinds, BroughtDraftKeepsChain, BootstrapKeepsChain DEF ChainInv

\* The pins that were there stay exact while rows are kept.
LEMMA PinsKept ==
    ASSUME PinsExact, RowsKept, NEW w \in Workspace, workspaces[w] # None,
           NEW pin, pin = workspaces[w]
    PROVE  /\ pin = workspaces'[w]
           /\ pin.definition \in InProject(pin.project)'
           /\ definitions'[pin.definition].status = "PUBLISHED"
           /\ definitions'[pin.definition].manifest = pin.manifest
           /\ \E row \in InitialReceipts(pin.project)' :
                 row.workspace = w /\ row.definition = pin.definition
<1>1. /\ pin.definition \in InProject(pin.project)
      /\ definitions[pin.definition].status = "PUBLISHED"
      /\ definitions[pin.definition].manifest = pin.manifest
      /\ \E row \in InitialReceipts(pin.project) :
            row.workspace = w /\ row.definition = pin.definition
  BY DEF PinsExact
<1>2. Kept(pin.definition) /\ pin.definition \in Definition
  BY <1>1 DEF RowsKept, InProject
<1>3. InitialReceipts(pin.project) \subseteq InitialReceipts(pin.project)'
  BY DEF RowsKept, InitialReceipts, PublicationsOf
<1> QED
  BY <1>1, <1>2, <1>3 DEF RowsKept, Kept, InProject

LEMMA CommitKeepsPins ==
    ASSUME ChainInv, AttemptsInv, PinsExact, NEW x \in Package, CommitImport(x)
    PROVE  PinsExact'
<1> SUFFICES ASSUME NEW w \in Workspace, workspaces'[w] # None, NEW pin, pin = workspaces'[w]
             PROVE  /\ pin.definition \in InProject(pin.project)'
                    /\ definitions'[pin.definition].status = "PUBLISHED"
                    /\ definitions'[pin.definition].manifest = pin.manifest
                    /\ \E row \in InitialReceipts(pin.project)' :
                          row.workspace = w /\ row.definition = pin.definition
  BY DEF PinsExact
<1>1. TypeOK /\ RowsKept
  BY CommitKeeps DEF ChainInv
<1>2. CASE workspaces[w] # None
  <2>1. pin = workspaces[w]
    BY <1>1, <1>2 DEF RowsKept
  <2> QED
    BY <1>1, <1>2, <2>1, PinsKept
<1>3. CASE workspaces[w] = None
  <2>1. Bootstraps(x) /\ ~Exists(x.definition) /\ BootstrapAllowed(x)
    BY <1>3, CommitKinds DEF BringsDraft, dbvars
  <2>2. w = x.workspace /\ pin = FirstPin(x)
    BY <1>1, <1>3, <2>1 DEF Bootstraps, TypeOK
  <2>3. OtherRowsStay(x) /\ definitions'[x.definition] = PublishedRow(x)
    BY <2>1, BootstrapKeepsChain
  <2>4. /\ pin.definition = x.definition /\ pin.project = x.row.project
        /\ pin.manifest = x.row.manifest
    BY <2>2 DEF FirstPin
  <2>5. /\ PackagePublication(x).workspace = x.workspace
        /\ PackagePublication(x).definition = x.definition
        /\ PackagePublication(x).project = x.row.project
        /\ PackagePublication(x) \in publications'
    BY <2>1 DEF PackagePublication, Bootstraps
  <2>6. x.workspace # None
    BY PackageFields, NoneAssumption
  <2>7. PackagePublication(x) \in InitialReceipts(pin.project)'
    BY <2>4, <2>5, <2>6 DEF InitialReceipts, PublicationsOf
  <2>8. /\ pin.definition \in InProject(pin.project)'
        /\ definitions'[pin.definition].status = "PUBLISHED"
        /\ definitions'[pin.definition].manifest = pin.manifest
    <3>1. x.definition \in InProject(x.row.project)'
      BY <2>3 DEF OtherRowsStay
    <3>2. pin.definition \in InProject(pin.project)'
      BY <2>4, <3>1 DEF InProject
    <3>3. definitions'[pin.definition] = PublishedRow(x)
      BY <2>3, <2>4
    <3> QED
      BY <2>4, <3>2, <3>3, PublishedRowType
  <2> QED
    BY <2>2, <2>4, <2>5, <2>7, <2>8
<1> QED
  BY <1>2, <1>3

LEMMA CommitKeepsKeys ==
    ASSUME KeyBindsOneIntent, AttemptsInv, NEW x \in Package, CommitImport(x)
    PROVE  KeyBindsOneIntent'
<1>1. CASE receipts' = receipts /\ publications' = publications
  BY <1>1 DEF KeyBindsOneIntent
<1>2. CASE Bootstraps(x) /\ BootstrapAllowed(x)
  <2>1. PackagePublication(x).project = x.row.project /\ PublicationsOf(x.row.project) = {}
    BY <1>2 DEF PackagePublication, BootstrapAllowed
  <2>2. \A row \in publications : row.project # PackagePublication(x).project
    BY <2>1 DEF PublicationsOf
  <2> QED
    BY <1>2, <2>2 DEF Bootstraps, KeyBindsOneIntent
<1> QED
  BY <1>1, <1>2, CommitKinds DEF BringsDraft, dbvars

\* Readers see nothing of a draft that is brought.
LEMMA BroughtDraftUnseen ==
    ASSUME ChainInv, NEW x \in Package, ~Exists(x.definition), BringsDraft(x)
    PROVE  UNCHANGED Snapshots!svars
<1>1. workspaces' = workspaces /\ publications' = publications
  BY DEF BringsDraft
<1>2. ASSUME NEW p \in Project PROVE HeadOf(p)' = HeadOf(p)
  BY BroughtDraftKeepsChain, SameHead
<1>3. ASSUME NEW d \in Definition PROVE SnapshotOf(d)' = SnapshotOf(d)
  <2>1. PublicationOf(d)' = PublicationOf(d) /\ (IsPublished(d)' <=> IsPublished(d))
    BY <1>1 DEF PublicationOf, IsPublished
  <2>2. CASE IsPublished(d)
    <3>1. d # x.definition
      BY <2>2, NewIsUnpublished, PackageFields
    <3>2. definitions'[d] = definitions[d]
      BY <3>1 DEF BringsDraft, ChainInv, TypeOK
    <3> QED
      BY <2>1, <3>2 DEF SnapshotOf
  <2>3. CASE ~IsPublished(d)
    BY <2>1, <2>3 DEF SnapshotOf
  <2> QED
    BY <2>2, <2>3
<1> QED
  BY <1>1, <1>2, <1>3 DEF Snapshots!svars

\* What readers see of a package that brings a published definition.
LEMMA BootstrapWrites ==
    ASSUME ChainInv, ChainInv', NEW x \in Package, ~Exists(x.definition), Bootstraps(x),
           BootstrapAllowed(x)
    PROVE  /\ HeadOf(x.row.project) = None
           /\ SnapshotOf(x.definition) = None
           /\ HeadOf(x.row.project)' = x.definition
           /\ \A p \in Project \ {x.row.project} : HeadOf(p)' = HeadOf(p)
           /\ SnapshotOf(x.definition)' = [project |-> x.row.project,
                                           manifest |-> x.row.manifest, parent |-> None]
           /\ \A d \in Definition \ {x.definition} : SnapshotOf(d)' = SnapshotOf(d)
<1> DEFINE t == x.definition
           q == x.row.project
           new == PackagePublication(x)
<1>0. /\ t \in Definition /\ q \in Project /\ x.workspace # None
  BY PackageFields, NoneAssumption
<1>1. /\ OtherRowsStay(x) /\ definitions'[t] = PublishedRow(x)
      /\ Current(q)' = {t}
      /\ \A p \in Project \ {q} : Current(p)' = Current(p)
  BY BootstrapKeepsChain
<1>2. publications' = publications \cup {new}
  BY DEF Bootstraps
<1>3. /\ new.definition = t /\ new.workspace = x.workspace
  BY DEF PackagePublication
<1>4. ~IsPublished(t)
  BY <1>0, NewIsUnpublished
<1>5. HeadOf(q) = None /\ SnapshotOf(t) = None
  BY <1>4 DEF BootstrapAllowed, HeadOf, SnapshotOf
<1>6. HeadOf(q)' = t
  BY <1>1 DEF HeadOf
<1>7. \A p \in Project \ {q} : HeadOf(p)' = HeadOf(p)
  BY <1>1, SameHead
<1> HIDE DEF new
<1>8. \A row \in publications' : PublicationOf(row.definition)' = row
  <2>1. (ChainInv => \A row \in publications : PublicationOf(row.definition) = row)'
    BY OneReceiptEach, PTL
  <2> QED
    BY <2>1
<1>9. SnapshotOf(t)' = [project |-> q, manifest |-> x.row.manifest, parent |-> None]
  <2>1. IsPublished(t)' /\ PublicationOf(t)' = new
    BY <1>2, <1>3, <1>8 DEF IsPublished
  <2> QED
    BY <1>0, <1>1, <1>3, <2>1, PublishedRowType DEF SnapshotOf
<1>10. ASSUME NEW d \in Definition, d # t PROVE SnapshotOf(d)' = SnapshotOf(d)
  <2>1. IsPublished(d)' <=> IsPublished(d)
    BY <1>2, <1>3, <1>10 DEF IsPublished
  <2>2. CASE IsPublished(d)
    <3>1. PICK row \in publications : row.definition = d
      BY <2>2 DEF IsPublished
    <3>2. PublicationOf(d) = row /\ PublicationOf(d)' = row
      BY <1>2, <1>8, <3>1, OneReceiptEach
    <3>3. definitions'[d] = definitions[d]
      BY <1>1, <1>10 DEF OtherRowsStay
    <3> QED
      BY <2>1, <3>2, <3>3 DEF SnapshotOf
  <2>3. CASE ~IsPublished(d)
    BY <2>1, <2>3 DEF SnapshotOf
  <2> QED
    BY <2>2, <2>3
<1> QED
  BY <1>5, <1>6, <1>7, <1>9, <1>10

LEMMA CommitIsSnapshotStep ==
    ASSUME ChainInv, ChainInv', AttemptsInv, NEW x \in Package, CommitImport(x)
    PROVE  Snapshots!SnapshotNext \/ UNCHANGED Snapshots!svars
<1>1. CASE UNCHANGED dbvars
  BY <1>1, SnapshotsStep
<1>2. CASE BringsDraft(x) /\ ~Exists(x.definition)
  BY <1>2, BroughtDraftUnseen
<1>3. CASE Bootstraps(x) /\ BootstrapAllowed(x) /\ ~Exists(x.definition)
  <2> DEFINE t == x.definition
             q == x.row.project
             m == x.row.manifest
  <2>0. t \in Definition /\ q \in Project /\ m \in Manifest /\ x.workspace \in Workspace
    BY PackageFields
  <2>1. /\ HeadOf(q) = None /\ SnapshotOf(t) = None /\ HeadOf(q)' = t
        /\ \A p \in Project \ {q} : HeadOf(p)' = HeadOf(p)
        /\ SnapshotOf(t)' = [project |-> q, manifest |-> m, parent |-> None]
        /\ \A d \in Definition \ {t} : SnapshotOf(d)' = SnapshotOf(d)
    BY <1>3, BootstrapWrites
  <2>2. /\ workspaces[x.workspace] = None
        /\ workspaces' = [workspaces EXCEPT ![x.workspace] =
                            [project |-> q, definition |-> t, manifest |-> m]]
    BY <1>3 DEF BootstrapAllowed, Bootstraps, FirstPin
  <2> HIDE DEF t, q, m
  <2>3. Snapshots!Write(q, t, m)
    BY <2>0, <2>1 DEF Snapshots!Write
  <2>4. Snapshots!First(q, t, m, x.workspace)
    BY <2>0, <2>1, <2>2, <2>3 DEF Snapshots!First
  <2> QED
    BY <2>0, <2>4 DEF Snapshots!SnapshotNext
<1> QED
  BY <1>1, <1>2, <1>3, CommitKinds

-----------------------------------------------------------------------------
(* Every step of the composition, on the rows of Studio.                   *)

\* An operation of Studio or of the Player is one of the lifecycle or leaves its
\* rows alone; of an import's steps only the commit writes them.
LEMMA RowSteps ==
    ASSUME [WorkspacesNext]_vars
    PROVE  \/ [LifecycleNext]_dbvars
           \/ \E x \in Package : CommitImport(x)
<1>1. ASSUME NEW r \in Request, StudioOperation(r)
      PROVE  LifecycleNext
  BY <1>1 DEF StudioOperation, OperationWithBindings, LifecycleNext
<1>2. ASSUME NEW x \in Package, StudioImport(x)
      PROVE  CommitImport(x) \/ UNCHANGED dbvars
  BY <1>2 DEF StudioImport, ImportStep, AdmitImport, PreviewImport, RollBackImport,
              RecordUnsuccessful, AbandonImport
<1>3. ASSUME \/ \E q \in PlayerRequest : CreateWorkspace(q) \/ CreateTimeSlice(q)
             \/ \E w \in Workspace : MaterializeStandalone(w)
             \/ ProvisionHelp
             \/ UNCHANGED vars
      PROVE  UNCHANGED dbvars
  BY <1>3 DEF CreateWorkspace, CreateTimeSlice, MaterializeStandalone, ProvisionHelp, vars
<1> QED
  BY <1>1, <1>2, <1>3 DEF WorkspacesNext

\* The rows of Studio as the composition keeps them.
StudioInv == ChainInv /\ PinsExact /\ KeyBindsOneIntent /\ AttemptsInv

LEMMA AttemptsStep ==
    ASSUME ImportTypeOK, AttemptsInv, [WorkspacesNext]_vars
    PROVE  AttemptsInv'
<1>1. CASE attempt' = attempt
  BY <1>1 DEF AttemptsInv
<1>2. ASSUME NEW x \in Package, ImportStep(x) PROVE AttemptsInv'
  <2>0. HumanCapabilities(None) = {}
    BY PackageAssumption DEF Action, HumanCapabilities
  <2>1. \A y \in Package \ {x} : attempt'[y] = attempt[y]
    BY <1>2 DEF ImportTypeOK, ImportStep, AdmitImport, PreviewImport, CommitImport,
                RollBackImport, RecordUnsuccessful, AbandonImport
  <2>2. attempt'[x] # None =>
           /\ HumanCapabilities(attempt'[x].granted) \subseteq Capability[attempt'[x].importer]
           /\ attempt'[x].step = "previewed" => attempt'[x].planned \in Action
           /\ attempt'[x].step = "refused" => attempt'[x].status \in {"REJECTED", "FAILED"}
    <3>1. ASSUME NEW h \in Importer, AdmitImport(x, h)
          PROVE  HumanCapabilities(attempt'[x].granted) \subseteq Capability[attempt'[x].importer]
                 /\ attempt'[x].step = "admitted"
      <4>1. attempt'[x] = [step |-> "admitted", importer |-> h,
                           granted |-> IF Plan(x) = Conflict THEN None ELSE Plan(x),
                           planned |-> None, status |-> None]
        BY <3>1 DEF AdmitImport, ImportTypeOK
      <4> QED
        BY <2>0, <3>1, <4>1 DEF AdmitImport
    <3>2. CASE PreviewImport(x)
      <4>1. attempt[x] # None /\ attempt[x] \in Attempt
        BY <3>2 DEF PreviewImport, ImportTypeOK
      <4>2. attempt'[x] = IF Plan(x) = Conflict
                          THEN [attempt[x] EXCEPT !.step = "refused", !.status = "REJECTED"]
                          ELSE [attempt[x] EXCEPT !.step = "previewed", !.planned = Plan(x)]
        BY <3>2 DEF PreviewImport, ImportTypeOK
      <4>3. /\ attempt'[x].granted = attempt[x].granted
            /\ attempt'[x].importer = attempt[x].importer
            /\ attempt'[x].step = "previewed" => attempt'[x].planned \in Action
            /\ attempt'[x].step = "refused" => attempt'[x].status = "REJECTED"
        BY <4>1, <4>2, PlanRange DEF Attempt
      <4> QED
        BY <4>1, <4>3 DEF AttemptsInv
    <3>3. CASE RollBackImport(x)
      <4>1. attempt[x] # None /\ attempt[x] \in Attempt
        BY <3>3 DEF RollBackImport, ImportTypeOK
      <4>2. attempt'[x] = [attempt[x] EXCEPT !.step = "refused", !.status = CommitOutcome(x)]
        BY <3>3, <4>1 DEF RollBackImport, ImportTypeOK, Attempt
      <4>3. CommitOutcome(x) \in {"REJECTED", "FAILED"}
        BY <3>3 DEF RollBackImport, CommitOutcome
      <4>4. /\ attempt'[x].granted = attempt[x].granted
            /\ attempt'[x].importer = attempt[x].importer
            /\ attempt'[x].step = "refused"
            /\ attempt'[x].status = CommitOutcome(x)
        BY <4>1, <4>2 DEF Attempt
      <4> QED
        BY <4>1, <4>3, <4>4 DEF AttemptsInv
    <3>4. CASE CommitImport(x) \/ RecordUnsuccessful(x) \/ AbandonImport(x)
      BY <3>4 DEF CommitImport, RecordUnsuccessful, AbandonImport, ImportTypeOK
    <3> QED
      BY <1>2, <3>1, <3>2, <3>3, <3>4 DEF ImportStep
  <2> QED
    BY <2>1, <2>2 DEF AttemptsInv
<1>3. \/ attempt' = attempt
      \/ \E x \in Package : ImportStep(x)
  BY DEF WorkspacesNext, StudioOperation, OperationWithBindings, StudioImport, CreateWorkspace,
         CreateTimeSlice, MaterializeStandalone, ProvisionHelp, vars, importvars
<1> QED
  BY <1>1, <1>2, <1>3

LEMMA StudioStep ==
    ASSUME ImportTypeOK, StudioInv, [WorkspacesNext]_vars
    PROVE  StudioInv' /\ RowsKept
<1>0. TypeOK
  BY DEF ImportTypeOK
<1>1. CASE [LifecycleNext]_dbvars
  BY <1>0, <1>1, OperationKeeps, ChainStep, PinsStep, KeysStep, AttemptsStep DEF StudioInv
<1>2. CASE \E x \in Package : CommitImport(x)
  BY <1>0, <1>2, CommitKeeps, CommitKeepsChain, CommitKeepsPins, CommitKeepsKeys, AttemptsStep
     DEF StudioInv
<1> QED
  BY <1>1, <1>2, RowSteps

LEMMA StudioInitially ==
    ASSUME WorkspacesInit
    PROVE  StudioInv
<1>1. LifecycleInit /\ attempt = [x \in Package |-> None]
  BY DEF WorkspacesInit, ImportInit
<1>2. ChainInv
  BY <1>1 DEF LifecycleInit, ChainInv, TypeOK, Grounded, PublishedChain, InProject, Exists,
              PublicationsOf
<1> QED
  BY <1>1, <1>2 DEF LifecycleInit, StudioInv, PinsExact, KeyBindsOneIntent, AttemptsInv

-----------------------------------------------------------------------------
(* Types.                                                                  *)

LEMMA PlayerRequestFields ==
    ASSUME NEW q \in PlayerRequest
    PROVE  /\ q # None /\ q.key \in Key /\ q.workspace \in Workspace /\ q.ifMatch \in Manifest
           /\ q.code \in Name /\ q.contract \in {"WORKSPACE_CREATE", "SLICE_CREATE"}
           /\ q.contract = "WORKSPACE_CREATE" => q.project \in Project /\ q.definition \in Definition
           /\ q.contract = "SLICE_CREATE" => q.slice \in Slice /\ q.cutoff \in Cutoff
  BY PlayerAssumption DEF WorkspaceRequestType, SliceRequestType

\* An operation that publishes for the first time binds Help to its workspace.
LEMMA OperationBindings ==
    ASSUME NEW r \in Request, OperationWithBindings(r)
    PROVE  \/ UNCHANGED <<bindings, defaults>> /\ r.op # "INITIAL"
           \/ /\ r.op = "INITIAL" /\ r.workspace \in Workspace /\ derived[r.workspace] = None
              /\ BindingsFree(definitions[r.target].manifest)
              /\ bindings' = [b \in Binding |-> IF b \in BindingsOf[definitions[r.target].manifest]
                                                THEN r.workspace ELSE bindings[b]]
              /\ defaults' = defaults \cup {r.workspace}
  BY RequestFields DEF OperationWithBindings

LEMMA ImportTypesStep ==
    ASSUME WorkspacesTypeOK, StudioInv, [WorkspacesNext]_vars
    PROVE  ImportTypeOK'
<1>0. ImportTypeOK
  BY DEF WorkspacesTypeOK
<1>1. TypeOK'
  BY <1>0, StudioStep DEF StudioInv, ChainInv
<1>2. CASE \E r \in Request : StudioOperation(r)
  <2>1. PICK r \in Request : StudioOperation(r)
    BY <1>2
  <2>2. OperationWithBindings(r) /\ UNCHANGED <<imports, attempt>>
    BY <2>1 DEF StudioOperation, OperationWithBindings
  <2>3. bindings' \in [Binding -> Workspace \cup {None}] /\ defaults' \subseteq Workspace
    BY <1>0, <2>2, OperationBindings DEF ImportTypeOK
  <2> QED
    BY <1>0, <1>1, <2>2, <2>3 DEF ImportTypeOK
<1>3. CASE \E x \in Package : StudioImport(x)
  <2>1. PICK x \in Package : ImportStep(x)
    BY <1>3 DEF StudioImport
  <2>2. ASSUME NEW h \in Importer, AdmitImport(x, h) PROVE ImportTypeOK'
    <3>1. [step |-> "admitted", importer |-> h,
           granted |-> IF Plan(x) = Conflict THEN None ELSE Plan(x),
           planned |-> None, status |-> None] \in Attempt
      BY PlanRange DEF Attempt
    <3> QED
      BY <1>0, <1>1, <2>2, <3>1 DEF AdmitImport, ImportTypeOK
  <2>3. CASE PreviewImport(x)
    <3>1. attempt[x] \in Attempt
      BY <1>0, <2>3 DEF PreviewImport, ImportTypeOK
    <3>2. (IF Plan(x) = Conflict THEN [attempt[x] EXCEPT !.step = "refused", !.status = "REJECTED"]
           ELSE [attempt[x] EXCEPT !.step = "previewed", !.planned = Plan(x)]) \in Attempt
      BY <3>1, PlanRange DEF Attempt
    <3> QED
      BY <1>0, <1>1, <2>3, <3>2 DEF PreviewImport, ImportTypeOK
  <2>4. CASE CommitImport(x)
    <3>1. attempt[x].planned \in Action
      BY <2>4, CommitFacts DEF StudioInv
    <3>2. [package |-> x, status |-> "COMMITTED", action |-> attempt[x].planned,
           definition |-> x.definition, importer |-> attempt[x].importer] \in ImportRun
      <4>1. attempt[x] # None
        BY <2>4 DEF CommitImport
      <4>2. attempt[x].importer \in Importer
        BY <1>0, <4>1 DEF ImportTypeOK, Attempt
      <4> QED
        BY <3>1, <4>2, PackageFields DEF ImportRun
    <3>3. bindings' \in [Binding -> Workspace \cup {None}] /\ defaults' \subseteq Workspace
      <4>1. CASE UNCHANGED <<bindings, defaults>>
        BY <1>0, <4>1 DEF ImportTypeOK
      <4>2. CASE /\ bindings' = [b \in Binding |-> IF b \in BindingsOf[x.row.manifest]
                                                   THEN x.workspace ELSE bindings[b]]
                 /\ defaults' = IF x.default THEN defaults \cup {x.workspace} ELSE defaults
        BY <1>0, <4>2, PackageFields DEF ImportTypeOK
      <4> QED
        BY <2>4, <4>1, <4>2, CommitKinds DEF StudioInv
    <3> QED
      BY <1>0, <1>1, <2>4, <3>2, <3>3 DEF CommitImport, ImportTypeOK
  <2>5. CASE RollBackImport(x)
    <3>1. attempt[x] \in Attempt
      BY <1>0, <2>5 DEF RollBackImport, ImportTypeOK
    <3>2. CommitOutcome(x) \in {"REJECTED", "FAILED"}
      BY <2>5 DEF RollBackImport, CommitOutcome
    <3>3. attempt' = [attempt EXCEPT ![x] = [attempt[x] EXCEPT !.step = "refused",
                                                               !.status = CommitOutcome(x)]]
      BY <1>0, <2>5, <3>1 DEF RollBackImport, ImportTypeOK, Attempt
    <3>4. [attempt[x] EXCEPT !.step = "refused", !.status = CommitOutcome(x)] \in Attempt
      BY <3>1, <3>2 DEF Attempt
    <3> QED
      BY <1>0, <1>1, <2>5, <3>3, <3>4 DEF RollBackImport, ImportTypeOK
  <2>6. CASE RecordUnsuccessful(x)
    <3>1. attempt[x] \in Attempt /\ attempt[x].status \in {"REJECTED", "FAILED"}
      BY <1>0, <2>6 DEF RecordUnsuccessful, ImportTypeOK, StudioInv, AttemptsInv
    <3> DEFINE here == Persisted(x) \cap InProject(x.row.project)
               found == IF Cardinality(here) = 1 THEN CHOOSE d \in here : TRUE ELSE None
    <3>2. found \in Definition \cup {None}
      <4>1. CASE here = {}
        <5>1. Cardinality(here) = 0
          BY <4>1, FS_EmptySet
        <5> QED
          BY <5>1
      <4>2. here \subseteq Definition
        BY DEF Persisted
      <4> QED
        BY <4>1, <4>2
    <3>3. imports' = imports \cup {[package |-> x, status |-> attempt[x].status,
                                    action |-> attempt[x].planned, definition |-> found,
                                    importer |-> attempt[x].importer]}
      BY <2>6 DEF RecordUnsuccessful
    <3> HIDE DEF found
    <3>4. [package |-> x, status |-> attempt[x].status, action |-> attempt[x].planned,
           definition |-> found, importer |-> attempt[x].importer] \in ImportRun
      BY <3>1, <3>2 DEF ImportRun, Attempt
    <3> QED
      BY <1>0, <1>1, <2>6, <3>3, <3>4 DEF RecordUnsuccessful, ImportTypeOK
  <2>7. CASE AbandonImport(x)
    BY <1>0, <1>1, <2>7 DEF AbandonImport, ImportTypeOK
  <2> QED
    BY <2>1, <2>2, <2>3, <2>4, <2>5, <2>6, <2>7 DEF ImportStep
<1>4. CASE UNCHANGED importvars
  BY <1>0, <1>1, <1>4 DEF ImportTypeOK, importvars
<1>5. \/ \E r \in Request : StudioOperation(r)
      \/ \E x \in Package : StudioImport(x)
      \/ UNCHANGED importvars
  BY DEF WorkspacesNext, CreateWorkspace, CreateTimeSlice, MaterializeStandalone, ProvisionHelp,
         vars
<1> QED
  BY <1>2, <1>3, <1>4, <1>5

\* A workspace is either a first one or a derived one.
Apart == \A w \in Workspace : derived[w] # None => workspaces[w] = None

LEMMA ApartStep ==
    ASSUME WorkspacesTypeOK, StudioInv, [WorkspacesNext]_vars
    PROVE  Apart'
<1>0. Apart /\ TypeOK
  BY DEF WorkspacesTypeOK, ImportTypeOK, Apart
<1>1. CASE UNCHANGED <<derived, workspaces>>
  BY <1>0, <1>1 DEF Apart
<1>2. ASSUME NEW r \in Request, StudioOperation(r) PROVE Apart'
  <2>1. OperationWithBindings(r) /\ derived' = derived
    BY <1>2 DEF StudioOperation, playervars
  <2>2. \A w \in Workspace : workspaces'[w] # workspaces[w] => w = r.workspace /\ r.op = "INITIAL"
    BY <1>0, <2>1, OperationWrites, RequestFields
       DEF OperationWithBindings, HumanWrite, Publish, TypeOK
  <2> QED
    BY <1>0, <2>1, <2>2, OperationBindings DEF Apart
<1>3. ASSUME NEW x \in Package, StudioImport(x) PROVE Apart'
  <2>1. derived' = derived
    BY <1>3 DEF StudioImport, playervars
  <2>2. CASE UNCHANGED workspaces
    BY <1>0, <2>1, <2>2 DEF Apart
  <2>3. CASE Bootstraps(x) /\ BootstrapAllowed(x)
    <3>1. derived[x.workspace] = None
      BY <2>3 DEF BootstrapAllowed
    <3>2. \A w \in Workspace \ {x.workspace} : workspaces'[w] = workspaces[w]
      BY <1>0, <2>3 DEF Bootstraps, TypeOK
    <3> QED
      BY <1>0, <2>1, <3>1, <3>2 DEF Apart
  <2>4. CommitImport(x) \/ UNCHANGED workspaces
    BY <1>3 DEF StudioImport, ImportStep, AdmitImport, PreviewImport, RollBackImport,
                RecordUnsuccessful, AbandonImport, dbvars
  <2> QED
    BY <2>2, <2>3, <2>4, CommitKinds DEF StudioInv, BringsDraft, dbvars
<1>4. ASSUME NEW q \in PlayerRequest, CreateWorkspace(q) PROVE Apart'
  <2>1. workspaces' = workspaces /\ workspaces[q.workspace] = None
    BY <1>4, PlayerRequestFields
       DEF CreateWorkspace, CreateAnswer, Accepted, Occupied, Workspaces, CreateReplay, Replayed, dbvars
  <2>2. \A w \in Workspace \ {q.workspace} : derived'[w] = derived[w]
    BY <1>4 DEF CreateWorkspace, WorkspacesTypeOK
  <2> QED
    BY <1>0, <2>1, <2>2 DEF Apart
<1>5. ASSUME \/ \E q \in PlayerRequest : CreateTimeSlice(q)
             \/ \E w \in Workspace : MaterializeStandalone(w)
             \/ ProvisionHelp
             \/ UNCHANGED vars
      PROVE  UNCHANGED <<derived, workspaces>>
  BY <1>5 DEF CreateTimeSlice, MaterializeStandalone, ProvisionHelp, vars, dbvars, playervars
<1> QED
  BY <1>1, <1>2, <1>3, <1>4, <1>5 DEF WorkspacesNext

\* What an accepted creation found.
LEMMA CreateFacts ==
    ASSUME NEW q \in PlayerRequest, CreateAnswer(q) = Accepted
    PROVE  /\ q.definition \in InProject(q.project)
           /\ definitions[q.definition].status = "PUBLISHED"
           /\ definitions[q.definition].manifest = q.ifMatch
           /\ Topology(q.project, q.definition) /\ catalog
           /\ CreateReceipts(q) = {} /\ ~Occupied(q) /\ ~KeyTaken(q.key)
           /\ SnapshotUsable(q.definition, q.ifMatch, q.workspace)
           /\ q.workspace \notin Workspaces
<1>1. CreateReplay(q) # Accepted
  BY DEF CreateReplay, Accepted, Replayed
<1>2. /\ q.definition \in InProject(q.project)
      /\ definitions[q.definition].status = "PUBLISHED"
      /\ definitions[q.definition].manifest = q.ifMatch
      /\ Topology(q.project, q.definition) /\ catalog
      /\ CreateReceipts(q) = {} /\ ~Occupied(q) /\ ~KeyTaken(q.key)
      /\ SnapshotUsable(q.definition, q.ifMatch, q.workspace)
  BY <1>1 DEF CreateAnswer, Accepted
<1>3. q.workspace \notin Workspaces
  BY <1>2 DEF Occupied
<1> QED
  BY <1>2, <1>3

\* What an accepted slice found.
LEMMA SliceFacts ==
    ASSUME NEW q \in PlayerRequest, SliceAnswer(q) = Accepted
    PROVE  /\ q.workspace \in Workspaces
           /\ definitions[Pin(q.workspace).definition].status = "PUBLISHED"
           /\ Pin(q.workspace).manifest = q.ifMatch
           /\ Verify(q.workspace) = "COMPLETE"
           /\ SliceReceipts(q) = {} /\ ~SliceOccupied(q) /\ ~KeyTaken(q.key)
<1>1. SliceReplay(q) # Accepted
  BY DEF SliceReplay, Accepted, Replayed
<1> QED
  BY <1>1 DEF SliceAnswer, Accepted

\* What a creation writes.
LEMMA CreateWrites ==
    ASSUME WorkspacesTypeOK, NEW q \in PlayerRequest, CreateWorkspace(q)
    PROVE  /\ q.contract = "WORKSPACE_CREATE" /\ q.project \in Project /\ q.definition \in Definition
           /\ CreateAnswer(q) = Accepted
           /\ derived'[q.workspace] = [project |-> q.project, definition |-> q.definition,
                                       manifest |-> q.ifMatch, code |-> q.code]
           /\ derived'[q.workspace] \in DerivedRow
           /\ derived'[q.workspace] # None
           /\ \A w \in Workspace \ {q.workspace} : derived'[w] = derived[w]
           /\ events' = events \cup {Event("WORKSPACE_CREATE", q, q.workspace, q.ifMatch)}
           /\ Event("WORKSPACE_CREATE", q, q.workspace, q.ifMatch) =
                 [key |-> q.key, contract |-> "WORKSPACE_CREATE", workspace |-> q.workspace,
                  request |-> q, manifest |-> q.ifMatch]
           /\ projected'[q.workspace] = q.ifMatch
           /\ \A w \in Workspace \ {q.workspace} : projected'[w] = projected[w]
           /\ snapshots'[q.definition] = q.ifMatch
           /\ \A d \in Definition \ {q.definition} : snapshots'[d] = snapshots[d]
           /\ helped' = helped \cup {q.workspace}
           /\ UNCHANGED <<definitions, publications, workspaces, receipts, defaults, slices, catalog>>
<1>1. q.contract = "WORKSPACE_CREATE" /\ CreateAnswer(q) = Accepted
  BY DEF CreateWorkspace
<1>2. q.workspace \in Workspace /\ q.project \in Project /\ q.definition \in Definition
      /\ q.ifMatch \in Manifest /\ q.code \in Name /\ q # None
  BY <1>1, PlayerRequestFields
<1>3. [project |-> q.project, definition |-> q.definition,
       manifest |-> q.ifMatch, code |-> q.code] \in DerivedRow
  BY <1>2 DEF DerivedRow
<1>4. /\ derived' = [derived EXCEPT ![q.workspace] =
             [project |-> q.project, definition |-> q.definition,
              manifest |-> q.ifMatch, code |-> q.code]]
      /\ derived \in [Workspace -> DerivedRow \cup {None}]
  BY DEF CreateWorkspace, WorkspacesTypeOK
<1>5. /\ projected' = [projected EXCEPT ![q.workspace] = q.ifMatch]
      /\ snapshots' = [snapshots EXCEPT ![q.definition] = q.ifMatch]
      /\ projected \in [Workspace -> Manifest \cup {None}]
      /\ snapshots \in [Definition -> Manifest \cup {None}]
  BY DEF CreateWorkspace, WorkspacesTypeOK, MaterializeRows
<1>6. /\ events' = events \cup {Event("WORKSPACE_CREATE", q, q.workspace, q.ifMatch)}
      /\ helped' = helped \cup {q.workspace}
      /\ UNCHANGED <<definitions, publications, workspaces, receipts, defaults, slices, catalog>>
  BY DEF CreateWorkspace, dbvars, importvars
<1>7. derived'[q.workspace] = [project |-> q.project, definition |-> q.definition,
                               manifest |-> q.ifMatch, code |-> q.code]
      /\ \A w \in Workspace \ {q.workspace} : derived'[w] = derived[w]
  BY <1>2, <1>4
<1>8. Event("WORKSPACE_CREATE", q, q.workspace, q.ifMatch) =
         [key |-> q.key, contract |-> "WORKSPACE_CREATE", workspace |-> q.workspace,
          request |-> q, manifest |-> q.ifMatch]
  BY <1>2 DEF Event
<1> QED
  BY <1>1, <1>2, <1>3, <1>5, <1>6, <1>7, <1>8, DerivedAssumption

\* The types of the Player's rows.
PlayerTypes ==
    /\ derived \in [Workspace -> DerivedRow \cup {None}]
    /\ events \subseteq EventRow
    /\ projected \in [Workspace -> Manifest \cup {None}]
    /\ snapshots \in [Definition -> Manifest \cup {None}]
    /\ slices \subseteq SliceRow
    /\ catalog \in BOOLEAN
    /\ helped \subseteq Workspace
SlicesApart ==
    \A x, y \in slices : (\/ x.slice = y.slice
                          \/ /\ x.workspace = y.workspace
                             /\ x.code = y.code \/ x.cutoff = y.cutoff) => x = y

LEMMA TypeByParts == WorkspacesTypeOK <=> ImportTypeOK /\ PlayerTypes /\ Apart /\ SlicesApart
  BY DEF WorkspacesTypeOK, PlayerTypes, Apart, SlicesApart

LEMMA PinType ==
    ASSUME WorkspacesTypeOK, NEW w \in Workspaces
    PROVE  w \in Workspace /\ Pin(w).definition \in Definition /\ Pin(w).manifest \in Manifest
           /\ Pin(w).project \in Project
<1>1. /\ w \in Workspace
      /\ workspaces[w] # None => workspaces[w] \in WorkspaceRow
      /\ workspaces[w] # None \/ derived[w] # None
      /\ derived[w] # None => derived[w] \in DerivedRow
  BY DEF Workspaces, WorkspacesTypeOK, ImportTypeOK, TypeOK
<1> QED
  BY <1>1 DEF Pin, WorkspaceRow, DerivedRow

LEMMA PlayerTypesStep ==
    ASSUME WorkspacesTypeOK, [WorkspacesNext]_vars
    PROVE  PlayerTypes' /\ SlicesApart'
<1>0. PlayerTypes /\ SlicesApart
  BY TypeByParts
<1>1. CASE UNCHANGED playervars
  BY <1>0, <1>1 DEF PlayerTypes, SlicesApart, playervars
<1>2. ASSUME NEW q \in PlayerRequest, CreateWorkspace(q) PROVE PlayerTypes' /\ SlicesApart'
  <2>1. q.workspace \in Workspace /\ q.ifMatch \in Manifest /\ q.key \in Key /\ q # None
        /\ q.contract = "WORKSPACE_CREATE" /\ q.definition \in Definition
    BY <1>2, PlayerRequestFields, CreateWrites
  <2>2. Event("WORKSPACE_CREATE", q, q.workspace, q.ifMatch) \in EventRow
    BY <2>1 DEF Event, EventRow
  <2>3. derived'[q.workspace] \in DerivedRow
    BY <1>2, CreateWrites
  <2>4. derived' \in [Workspace -> DerivedRow \cup {None}]
    BY <1>0, <1>2, <2>1, <2>3 DEF CreateWorkspace, PlayerTypes
  <2> QED
    BY <1>0, <1>2, <2>1, <2>2, <2>4 DEF CreateWorkspace, MaterializeRows, PlayerTypes, SlicesApart
<1>3. ASSUME NEW q \in PlayerRequest, CreateTimeSlice(q) PROVE PlayerTypes' /\ SlicesApart'
  <2>1. q.workspace \in Workspace /\ q.ifMatch \in Manifest /\ q.key \in Key /\ q # None
        /\ q.slice \in Slice /\ q.code \in Name /\ q.cutoff \in Cutoff
    BY <1>3, PlayerRequestFields DEF CreateTimeSlice
  <2> DEFINE new == [slice |-> q.slice, workspace |-> q.workspace, code |-> q.code,
                     cutoff |-> q.cutoff]
  <2>2. new \in SliceRow
    BY <2>1 DEF SliceRow
  <2>3. Event("SLICE_CREATE", q, q.workspace, q.ifMatch) \in EventRow
    BY <2>1 DEF Event, EventRow
  <2>4. slices' = slices \cup {new}
    BY <1>3 DEF CreateTimeSlice
  <2>5. ~SliceOccupied(q)
    BY <1>3, SliceFacts DEF CreateTimeSlice
  <2>6. \A s \in slices : /\ s.slice # new.slice
                          /\ s.workspace = new.workspace => s.code # new.code /\ s.cutoff # new.cutoff
    BY <2>5 DEF SliceOccupied
  <2> HIDE DEF new
  <2>7. SlicesApart'
    BY <1>0, <2>4, <2>6 DEF SlicesApart
  <2>8. UNCHANGED <<derived, projected, snapshots, catalog, helped>>
        /\ events' = events \cup {Event("SLICE_CREATE", q, q.workspace, q.ifMatch)}
    BY <1>3 DEF CreateTimeSlice
  <2> QED
    BY <1>0, <2>2, <2>3, <2>4, <2>7, <2>8 DEF PlayerTypes
<1>4. ASSUME NEW w \in Workspace, MaterializeStandalone(w) PROVE PlayerTypes' /\ SlicesApart'
  <2>1. w \in Workspaces /\ Pin(w).definition \in Definition /\ Pin(w).manifest \in Manifest
    BY <1>4, PinType DEF MaterializeStandalone
  <2>2. Event("STANDALONE", None, w, Pin(w).manifest) \in EventRow
    BY <2>1 DEF Event, EventRow
  <2> QED
    BY <1>0, <1>4, <2>1, <2>2 DEF MaterializeStandalone, MaterializeRows, PlayerTypes, SlicesApart
<1>5. ASSUME ProvisionHelp PROVE PlayerTypes' /\ SlicesApart'
  BY <1>0, <1>5 DEF ProvisionHelp, PlayerTypes, SlicesApart, Workspaces
<1>6. CASE vars' = vars
  BY <1>1, <1>6 DEF vars
<1> QED
  BY <1>1, <1>2, <1>3, <1>4, <1>5, <1>6 DEF WorkspacesNext, StudioOperation, StudioImport

\* The rows of Studio and of the Player, typed and related as every step of the
\* composition finds them.
RowsInv == WorkspacesTypeOK /\ StudioInv

LEMMA RowsStep ==
    ASSUME RowsInv, [WorkspacesNext]_vars
    PROVE  RowsInv' /\ RowsKept
<1>1. ImportTypeOK
  BY DEF RowsInv, WorkspacesTypeOK
<1>2. StudioInv' /\ RowsKept
  BY <1>1, StudioStep DEF RowsInv
<1>3. (ImportTypeOK /\ PlayerTypes /\ Apart /\ SlicesApart)'
  BY ImportTypesStep, PlayerTypesStep, ApartStep DEF RowsInv
<1>4. WorkspacesTypeOK'
  BY <1>3 DEF WorkspacesTypeOK, PlayerTypes, Apart, SlicesApart
<1> QED
  BY <1>2, <1>4 DEF RowsInv

LEMMA RowsInitially ==
    ASSUME WorkspacesInit
    PROVE  RowsInv
<1>1. StudioInv
  BY StudioInitially
<1>2. ImportTypeOK
  BY <1>1 DEF WorkspacesInit, ImportInit, ImportTypeOK, StudioInv, ChainInv
<1>3. PlayerTypes /\ Apart /\ SlicesApart
  BY DEF WorkspacesInit, PlayerTypes, Apart, SlicesApart
<1> QED
  BY <1>1, <1>2, <1>3, TypeByParts DEF RowsInv

LEMMA RowsHold == WorkspacesSpec => []RowsInv
<1>1. WorkspacesInit => RowsInv
  BY RowsInitially
<1>2. RowsInv /\ [WorkspacesNext]_vars => RowsInv'
  BY RowsStep
<1> QED
  BY <1>1, <1>2, PTL DEF WorkspacesSpec

\* Whatever is edited, imported, created or projected, every workspace is either
\* Studio's or the Player's, no two slices of a workspace share a code or a
\* cutoff, and the rows keep their types.
THEOREM WorkspacesTypes == WorkspacesSpec => []WorkspacesTypeOK
<1>1. RowsInv => WorkspacesTypeOK
  BY DEF RowsInv
<1> QED
  BY <1>1, RowsHold, PTL

\* The composition implements PublishedSnapshots: packages publish as Studio
\* does, and the Player changes nothing that readers of Studio see.
THEOREM CompositionImplementsSnapshots == WorkspacesSpec => ImplementsSnapshots
<1>1. WorkspacesInit => Snapshots!SnapshotInit
  <2> SUFFICES ASSUME WorkspacesInit PROVE Snapshots!SnapshotInit
    OBVIOUS
  <2>0. LifecycleInit
    BY DEF WorkspacesInit, ImportInit
  <2>1. \A p \in Project : HeadOf(p) = None
    BY <2>0 DEF LifecycleInit, HeadOf, Current, InProject, Exists
  <2>2. \A d \in Definition : SnapshotOf(d) = None
    BY <2>0 DEF LifecycleInit, SnapshotOf, IsPublished
  <2> QED
    BY <2>0, <2>1, <2>2 DEF LifecycleInit, Snapshots!SnapshotInit
<1>2. RowsInv /\ RowsInv' /\ [WorkspacesNext]_vars =>
         [Snapshots!SnapshotNext]_(Snapshots!svars)
  BY RowSteps, SnapshotsStep, CommitIsSnapshotStep DEF RowsInv, StudioInv
<1> QED
  BY <1>1, <1>2, RowsHold, PTL
     DEF WorkspacesSpec, ImplementsSnapshots, Snapshots!SnapshotSpec

-----------------------------------------------------------------------------
(* Import receipts are true.                                               *)

\* What a COMMITTED receipt says of the rows, in terms that no step undoes.
ReceiptTold(run) ==
    LET x == run.package
        row == definitions[x.definition] IN
    /\ Exists(x.definition)
    /\ row.project = x.row.project /\ row.code = x.row.code /\ row.version = x.row.version
    /\ run.action = "BOOTSTRAP_PUBLISHED" =>
          /\ row.status = "PUBLISHED" /\ row.manifest = x.row.manifest
          /\ \E y \in publications :
                y.project = x.row.project /\ y.definition = x.definition /\ y.workspace # None
    /\ (run.action = "REUSE_EXACT" /\ x.row.status # "DRAFT") =>
          row.status # "DRAFT" /\ row.manifest = x.row.manifest

ReceiptsInv ==
    \A run \in imports : run.status = "COMMITTED" =>
       /\ \A other \in imports :
             other.package = run.package /\ other.status = "COMMITTED" => other = run
       /\ HumanCapabilities(run.action) \subseteq Capability[run.importer]
       /\ ReceiptTold(run)

\* What was told stays true while rows are kept.
LEMMA ToldStays ==
    ASSUME RowsKept, NEW run \in ImportRun, ReceiptTold(run)
    PROVE  ReceiptTold(run)'
<1> DEFINE x == run.package
<1>1. x \in Package /\ x.definition \in Definition
  BY PackageFields DEF ImportRun
<1>2. Kept(x.definition) /\ publications \subseteq publications'
  BY <1>1 DEF RowsKept, ReceiptTold
<1> QED
  BY <1>2 DEF Kept, ReceiptTold, Exists

\* A commit tells the truth.
LEMMA CommitTells ==
    ASSUME RowsInv, NEW x \in Package, CommitImport(x),
           NEW run, run = [package |-> x, status |-> "COMMITTED", action |-> attempt[x].planned,
                           definition |-> x.definition, importer |-> attempt[x].importer]
    PROVE  ReceiptTold(run)'
<1>0. AttemptsInv /\ ChainInv /\ x.definition \in Definition /\ x.workspace # None
  BY PackageFields, NoneAssumption DEF RowsInv, StudioInv
<1>1. run.package = x /\ run.action = attempt[x].planned
  OBVIOUS
<1>2. CASE /\ attempt[x].planned = "REUSE_EXACT" /\ UNCHANGED dbvars
           /\ Persisted(x) = {x.definition} /\ ExportEquals(x)
  <2>1. Exists(x.definition) /\ definitions[x.definition] \in DefinitionRow
    BY <1>0, <1>2 DEF Persisted, Exists, ChainInv, TypeOK
  <2>2. [definitions[x.definition] EXCEPT !.supersedes = None] = [x.row EXCEPT !.supersedes = None]
    BY <1>2 DEF ExportEquals
  <2>3. x.row \in DefinitionRow
    BY PackageFields
  <2>4. /\ definitions[x.definition].project = x.row.project
        /\ definitions[x.definition].code = x.row.code
        /\ definitions[x.definition].version = x.row.version
        /\ definitions[x.definition].status = x.row.status
        /\ definitions[x.definition].manifest = x.row.manifest
    BY <2>1, <2>2, <2>3 DEF DefinitionRow
  <2>5. definitions' = definitions
    BY <1>2 DEF dbvars
  <2> QED
    BY <1>1, <1>2, <2>1, <2>4, <2>5 DEF ReceiptTold, Exists
<1>3. CASE attempt[x].planned = "CREATE_DRAFT" /\ BringsDraft(x)
  <2>1. definitions'[x.definition] = ImportedDraft(x)
    BY <1>0, <1>3 DEF BringsDraft, ChainInv, TypeOK
  <2>2. ImportedDraft(x) # None
    BY ImportedDraftType, NoneAssumption
  <2> QED
    BY <1>1, <1>3, <2>1, <2>2, ImportedDraftType DEF ReceiptTold, Exists
<1>4. CASE attempt[x].planned = "BOOTSTRAP_PUBLISHED" /\ Bootstraps(x)
  <2>1. definitions'[x.definition] = PublishedRow(x)
    BY <1>0, <1>4 DEF Bootstraps, ChainInv, TypeOK
  <2>2. PublishedRow(x) # None
    BY PublishedRowType, NoneAssumption
  <2>3. /\ PackagePublication(x) \in publications'
        /\ PackagePublication(x).project = x.row.project
        /\ PackagePublication(x).definition = x.definition
        /\ PackagePublication(x).workspace = x.workspace
    BY <1>4 DEF Bootstraps, PackagePublication
  <2>4. \E y \in publications' :
           y.project = x.row.project /\ y.definition = x.definition /\ y.workspace # None
    BY <1>0, <2>3
  <2> QED
    BY <1>1, <1>4, <2>1, <2>2, <2>4, PublishedRowType DEF ReceiptTold, Exists
<1> QED
  BY <1>0, <1>2, <1>3, <1>4, CommitKinds

LEMMA ReceiptsStep ==
    ASSUME RowsInv, ReceiptsInv, [WorkspacesNext]_vars
    PROVE  ReceiptsInv'
<1>0. RowsKept /\ imports \subseteq ImportRun /\ AttemptsInv
  BY RowsStep DEF RowsInv, StudioInv, WorkspacesTypeOK, ImportTypeOK
<1>1. \A run \in imports : ReceiptTold(run) => ReceiptTold(run)'
  BY <1>0, ToldStays
<1>2. CASE imports' = imports
  BY <1>1, <1>2 DEF ReceiptsInv
<1>3. ASSUME NEW x \in Package, CommitImport(x) PROVE ReceiptsInv'
  <2>0. PICK new : new = [package |-> x, status |-> "COMMITTED", action |-> attempt[x].planned,
                          definition |-> x.definition, importer |-> attempt[x].importer]
    OBVIOUS
  <2>1. imports' = imports \cup {new}
    BY <1>3, <2>0 DEF CommitImport
  <2>2. ReceiptTold(new)'
    BY <1>3, <2>0, CommitTells
  <2>3. /\ new.package = x /\ new.action = attempt[x].planned
        /\ new.importer = attempt[x].importer
        /\ HumanCapabilities(attempt[x].planned) \subseteq Capability[attempt[x].importer]
        /\ ~AlreadyImported(x)
    BY <1>0, <1>3, <2>0, CommitFacts
  <2>4. \A run \in imports : run.package = x => run.status # "COMMITTED"
    BY <2>3 DEF AlreadyImported
  <2>5. \A run \in imports' : run.status = "COMMITTED" => ReceiptTold(run)'
    BY <1>1, <2>1, <2>2 DEF ReceiptsInv
  <2>6. HumanCapabilities(new.action) \subseteq Capability[new.importer]
    BY <2>3
  <2>7. ASSUME NEW run \in imports', run.status = "COMMITTED"
        PROVE  /\ \A other \in imports' :
                     other.package = run.package /\ other.status = "COMMITTED" => other = run
               /\ HumanCapabilities(run.action) \subseteq Capability[run.importer]
    BY <2>1, <2>3, <2>4, <2>6, <2>7 DEF ReceiptsInv
  <2> QED
    BY <2>5, <2>7 DEF ReceiptsInv
<1>4. ASSUME NEW x \in Package, RecordUnsuccessful(x) PROVE ReceiptsInv'
  <2>0. PICK d : imports' = imports \cup {[package |-> x, status |-> attempt[x].status,
                                           action |-> attempt[x].planned, definition |-> d,
                                           importer |-> attempt[x].importer]}
    BY <1>4 DEF RecordUnsuccessful
  <2>1. PICK new : new = [package |-> x, status |-> attempt[x].status,
                          action |-> attempt[x].planned, definition |-> d,
                          importer |-> attempt[x].importer]
    OBVIOUS
  <2>2. new.status # "COMMITTED" /\ imports' = imports \cup {new}
    BY <1>0, <1>4, <2>0, <2>1 DEF RecordUnsuccessful, AttemptsInv
  <2>3. \A run \in imports' : run.status = "COMMITTED" => run \in imports
    BY <2>2
  <2>4. \A run \in imports' : run.status = "COMMITTED" => ReceiptTold(run)'
    BY <1>1, <2>3 DEF ReceiptsInv
  <2>5. ASSUME NEW run \in imports', run.status = "COMMITTED"
        PROVE  /\ \A other \in imports' :
                     other.package = run.package /\ other.status = "COMMITTED" => other = run
               /\ HumanCapabilities(run.action) \subseteq Capability[run.importer]
    BY <2>3, <2>5 DEF ReceiptsInv
  <2> QED
    BY <2>4, <2>5 DEF ReceiptsInv
<1>5. \/ imports' = imports
      \/ \E x \in Package : CommitImport(x) \/ RecordUnsuccessful(x)
  BY DEF WorkspacesNext, StudioOperation, OperationWithBindings, StudioImport, ImportStep,
         AdmitImport, PreviewImport, RollBackImport, AbandonImport, CreateWorkspace,
         CreateTimeSlice, MaterializeStandalone, ProvisionHelp, vars, importvars
<1> QED
  BY <1>2, <1>3, <1>4, <1>5

\* A project's one initial receipt is that of the definition that has it.
LEMMA InitialOf ==
    ASSUME ChainInv, NEW y \in publications, y.workspace # None
    PROVE  InitialReceipts(y.project) = {row \in publications : row.definition = y.definition}
<1>0. \A row \in publications : row.project \in Project /\ row.definition \in InProject(row.project)
  BY DEF ChainInv, Grounded, TypeOK, PublicationRow
<1>1. OneReceipt(y.project)
  BY <1>0, ChainParts DEF ChainInv
<1>2. ASSUME NEW row \in InitialReceipts(y.project) PROVE row = y
  BY <1>1 DEF InitialReceipts, PublicationsOf, OneReceipt
<1>3. ASSUME NEW row \in publications, row.definition = y.definition PROVE row = y
  <2>1. row.project = y.project
    BY <1>0, <1>3 DEF InProject
  <2> QED
    BY <1>1, <1>3, <2>1 DEF PublicationsOf, OneReceipt
<1>4. y \in InitialReceipts(y.project)
  BY DEF InitialReceipts, PublicationsOf
<1> QED
  BY <1>2, <1>3, <1>4 DEF InitialReceipts, PublicationsOf

\* A COMMITTED import receipt is unique for its package and is evidence for ever:
\* of the row it names, of the role of the HUMAN who brought it, and of the bytes
\* and the first publication that it brought.
THEOREM ImportsAlwaysTrue == WorkspacesSpec => []ImportsAreTrue
<1>1. WorkspacesInit => ReceiptsInv
  BY DEF WorkspacesInit, ImportInit, ReceiptsInv
<1>2. RowsInv /\ ReceiptsInv /\ [WorkspacesNext]_vars => ReceiptsInv'
  BY ReceiptsStep
<1>3. RowsInv /\ ReceiptsInv => ImportsAreTrue
  <2> SUFFICES ASSUME RowsInv, ReceiptsInv, NEW run \in imports, run.status = "COMMITTED",
                      NEW x, x = run.package
               PROVE  /\ \A other \in imports :
                            other.package = x /\ other.status = "COMMITTED" => other = run
                      /\ HumanCapabilities(run.action) \subseteq Capability[run.importer]
                      /\ x.definition \in InProject(x.row.project)
                      /\ definitions[x.definition].code = x.row.code
                      /\ definitions[x.definition].version = x.row.version
                      /\ run.action = "BOOTSTRAP_PUBLISHED" =>
                            /\ definitions[x.definition].manifest = x.row.manifest
                            /\ InitialReceipts(x.row.project) =
                                  {row \in publications : row.definition = x.definition}
                      /\ (run.action = "REUSE_EXACT" /\ x.row.status # "DRAFT") =>
                            definitions[x.definition].manifest = x.row.manifest
    BY DEF ImportsAreTrue
  <2>1. x \in Package /\ x.definition \in Definition
    BY PackageFields DEF RowsInv, WorkspacesTypeOK, ImportTypeOK, ImportRun
  <2>2. ReceiptTold(run)
    BY DEF ReceiptsInv
  <2>3. ASSUME run.action = "BOOTSTRAP_PUBLISHED"
        PROVE  InitialReceipts(x.row.project) =
                  {row \in publications : row.definition = x.definition}
    <3>1. PICK y \in publications :
             y.project = x.row.project /\ y.definition = x.definition /\ y.workspace # None
      BY <2>2, <2>3 DEF ReceiptTold
    <3> QED
      BY <3>1, InitialOf DEF RowsInv, StudioInv
  <2> QED
    BY <2>1, <2>2, <2>3 DEF ReceiptsInv, ReceiptTold, InProject
<1> QED
  BY <1>1, <1>2, <1>3, RowsHold, PTL DEF WorkspacesSpec

-----------------------------------------------------------------------------
(* Help bindings are whole.                                                *)

\* A first workspace is given the bindings of what it pins, if all are free.
LEMMA BindingWhole ==
    ASSUME BindingsAreWhole, bindings \in [Binding -> Workspace \cup {None}],
           NEW w \in Workspace, NEW m \in Manifest, workspaces[w] = None, BindingsFree(m),
           NEW pin, pin.manifest = m, pin # None,
           workspaces \in [Workspace -> WorkspaceRow \cup {None}],
           workspaces' = [workspaces EXCEPT ![w] = pin],
           bindings' = [b \in Binding |-> IF b \in BindingsOf[m] THEN w ELSE bindings[b]]
    PROVE  BindingsAreWhole'
<1>0. BindingsOf[m] \subseteq Binding /\ w # None
  BY PackageAssumption, NoneAssumption
<1> SUFFICES ASSUME NEW v \in Workspace
             PROVE  {b \in Binding : bindings'[b] = v} =
                       IF workspaces'[v] = None THEN {} ELSE BindingsOf[workspaces'[v].manifest]
  BY DEF BindingsAreWhole
<1>1. {b \in Binding : bindings[b] = v} =
         IF workspaces[v] = None THEN {} ELSE BindingsOf[workspaces[v].manifest]
  BY DEF BindingsAreWhole
<1>2. \A b \in Binding : bindings'[b] = IF b \in BindingsOf[m] THEN w ELSE bindings[b]
  OBVIOUS
<1>3. CASE v = w
  <2>1. workspaces'[v] = pin
    BY <1>3
  <2>2. \A b \in Binding : bindings[b] # w
    BY <1>1, <1>3
  <2>3. {b \in Binding : bindings'[b] = v} = BindingsOf[m]
    BY <1>0, <1>2, <1>3, <2>2
  <2> QED
    BY <2>1, <2>3
<1>4. CASE v # w
  <2>1. workspaces'[v] = workspaces[v]
    BY <1>4
  <2>2. \A b \in BindingsOf[m] : bindings[b] # v
    BY NoneAssumption DEF BindingsFree
  <2>3. {b \in Binding : bindings'[b] = v} = {b \in Binding : bindings[b] = v}
    BY <1>2, <1>4, <2>2
  <2> QED
    BY <1>1, <2>1, <2>3
<1> QED
  BY <1>3, <1>4

LEMMA BindingsStep ==
    ASSUME RowsInv, BindingsAreWhole, [WorkspacesNext]_vars
    PROVE  BindingsAreWhole'
<1>0. /\ bindings \in [Binding -> Workspace \cup {None}]
      /\ TypeOK /\ AttemptsInv
      /\ workspaces \in [Workspace -> WorkspaceRow \cup {None}]
  BY DEF RowsInv, StudioInv, WorkspacesTypeOK, ImportTypeOK, TypeOK
<1>1. CASE UNCHANGED <<bindings, workspaces>>
  BY <1>1 DEF BindingsAreWhole
<1>2. ASSUME NEW r \in Request, StudioOperation(r) PROVE BindingsAreWhole'
  <2>1. OperationWithBindings(r) /\ Operation(r)
    BY <1>2 DEF StudioOperation, OperationWithBindings
  <2>2. CASE r.op # "INITIAL"
    <3>1. UNCHANGED <<bindings, workspaces>>
      BY <2>1, <2>2, OperationWrites DEF OperationWithBindings, HumanWrite, Publish
    <3> QED
      BY <1>1, <3>1
  <2>3. CASE r.op = "INITIAL"
    <3>1. Allowed(r) /\ Publish(r, AfterRow(r)) /\ r.op \in PublicationOp
      BY <2>1, <2>3, OperationWrites DEF WriteOp
    <3>2. definitions[r.target] \in DefinitionRow /\ workspaces[r.workspace] = None
      BY <1>0, <2>3, <3>1, PublishFrame
    <3> DEFINE m == definitions[r.target].manifest
               pin == [project |-> r.project, definition |-> r.target, manifest |-> m]
    <3>3. m \in Manifest /\ r.workspace \in Workspace /\ r.project \in Project /\ r.target \in Definition
      BY <2>3, <3>2, RequestFields DEF DefinitionRow
    <3>4. AfterRow(r).manifest = m
      <4>1. AfterRow(r) = [definitions[r.target] EXCEPT !.status = "PUBLISHED", !.current = TRUE]
        BY <3>1 DEF AfterRow, PublicationOp
      <4> QED
        BY <3>2, <4>1 DEF DefinitionRow
    <3>5. pin # None
      <4>1. pin \in WorkspaceRow
        BY <3>3 DEF WorkspaceRow
      <4> QED
        BY <4>1, NoneAssumption
    <3>6. workspaces' = [workspaces EXCEPT ![r.workspace] = pin]
      BY <2>3, <3>1, <3>4 DEF Publish
    <3>7. /\ BindingsFree(m)
          /\ bindings' = [b \in Binding |-> IF b \in BindingsOf[m] THEN r.workspace ELSE bindings[b]]
      BY <2>1, <2>3, OperationBindings
    <3>8. pin.manifest = m
      OBVIOUS
    <3> HIDE DEF m, pin
    <3> QED
      BY <1>0, <3>2, <3>3, <3>5, <3>6, <3>7, <3>8, BindingWhole
  <2> QED
    BY <2>2, <2>3
<1>3. ASSUME NEW x \in Package, CommitImport(x) PROVE BindingsAreWhole'
  <2>1. CASE UNCHANGED <<bindings, workspaces>>
    BY <1>1, <2>1
  <2>2. CASE /\ Bootstraps(x) /\ BootstrapAllowed(x)
             /\ bindings' = [b \in Binding |-> IF b \in BindingsOf[x.row.manifest]
                                               THEN x.workspace ELSE bindings[b]]
    <3>1. /\ workspaces[x.workspace] = None /\ BindingsFree(x.row.manifest)
          /\ workspaces' = [workspaces EXCEPT ![x.workspace] = FirstPin(x)]
      BY <2>2 DEF Bootstraps, BootstrapAllowed
    <3>2. FirstPin(x) # None /\ FirstPin(x).manifest = x.row.manifest
      <4>1. FirstPin(x) \in WorkspaceRow
        BY PackageFields DEF FirstPin, WorkspaceRow
      <4> QED
        BY <4>1, NoneAssumption DEF FirstPin
    <3> QED
      BY <1>0, <2>2, <3>1, <3>2, PackageFields, BindingWhole
  <2> QED
    BY <1>0, <1>3, <2>1, <2>2, CommitKinds DEF BringsDraft, dbvars
<1>4. \/ UNCHANGED <<bindings, workspaces>>
      \/ \E r \in Request : StudioOperation(r)
      \/ \E x \in Package : CommitImport(x)
  BY DEF WorkspacesNext, StudioImport, ImportStep, AdmitImport, PreviewImport, RollBackImport,
         RecordUnsuccessful, AbandonImport, CreateWorkspace, CreateTimeSlice,
         MaterializeStandalone, ProvisionHelp, vars, importvars, dbvars
<1> QED
  BY <1>1, <1>2, <1>3, <1>4

\* Every first workspace has all the Help bindings of the manifest it pins and no
\* others, whichever projects and packages want the same binding UUIDs.
THEOREM BindingsAlwaysWhole == WorkspacesSpec => []BindingsAreWhole
<1>1. WorkspacesInit => BindingsAreWhole
  BY NoneAssumption DEF WorkspacesInit, ImportInit, LifecycleInit, BindingsAreWhole
<1>2. RowsInv /\ BindingsAreWhole /\ [WorkspacesNext]_vars => BindingsAreWhole'
  BY BindingsStep
<1> QED
  BY <1>1, <1>2, RowsHold, PTL DEF WorkspacesSpec

-----------------------------------------------------------------------------
(* What the Player's rows say.                                             *)

\* A workspace pins the exact bytes of a published definition of its project.
PinnedWell(w) ==
    /\ Pin(w).definition \in InProject(Pin(w).project)
    /\ definitions[Pin(w).definition].status = "PUBLISHED"
    /\ definitions[Pin(w).definition].manifest = Pin(w).manifest

\* One receipt proves that the rows of w come from the manifest it pins.
Proven(w) ==
    /\ w \in Workspaces
    /\ projected[w] = Pin(w).manifest
    /\ snapshots[Pin(w).definition] = Pin(w).manifest
    /\ \E e \in events : ProjectionReceipts(w) = {e} /\ e.manifest = Pin(w).manifest

\* Rows have a receipt, a receipt has rows, and whoever has parameter rows can
\* name a workspace that proves them.
ProjectionsInv ==
    /\ \A w \in Workspaces : PinnedWell(w)
    /\ \A w \in Workspace : IF projected[w] = None THEN ProjectionReceipts(w) = {}
                            ELSE Proven(w)
    /\ \A w \in Workspace : derived[w] # None => projected[w] # None /\ w \in helped
    /\ \A d \in Definition : snapshots[d] # None =>
          \E w \in Workspaces : Pin(w).definition = d /\ projected[w] # None

\* The receipt of a creation, in terms that no step undoes.
CreationTold(e) ==
    LET q == e.request IN
    /\ q \in PlayerRequest /\ q.contract = "WORKSPACE_CREATE"
    /\ e.key = q.key /\ e.workspace = q.workspace
    /\ derived[q.workspace] = [project |-> q.project, definition |-> q.definition,
                               manifest |-> q.ifMatch, code |-> q.code]
    /\ catalog
    /\ DefaultsOf(q.project) # {}

SliceOf(q) == [slice |-> q.slice, workspace |-> q.workspace, code |-> q.code,
               cutoff |-> q.cutoff]

\* The receipt of a slice.
SliceTold(e) ==
    LET q == e.request IN
    /\ q \in PlayerRequest /\ q.contract = "SLICE_CREATE"
    /\ e.key = q.key /\ e.workspace = q.workspace
    /\ q.workspace \in Workspaces /\ projected[q.workspace] # None
    /\ Pin(q.workspace).manifest = q.ifMatch
    /\ SliceOf(q) \in slices

SliceEvents(s) == {e \in events : e.contract = "SLICE_CREATE" /\ e.request.slice = s}

EventsInv ==
    /\ \A e \in events : e.contract = "WORKSPACE_CREATE" => CreationTold(e)
    /\ \A e \in events : e.contract = "SLICE_CREATE" => SliceTold(e)
    /\ \A e \in events : e.contract = "STANDALONE" => e.key = None
    /\ \A s \in slices : /\ s.workspace \in Workspaces /\ projected[s.workspace] # None
                         /\ \E e \in events : SliceEvents(s.slice) = {e}

\* No key is taken twice, be it by Studio or by the Player.
KeysApart ==
    /\ \A x \in receipts, e \in events : e.key # None => x.key # e.key
    /\ \A x, y \in events : x.key = y.key /\ x.key # None => x = y


-----------------------------------------------------------------------------
(* The steps, on the rows of the Player.                                   *)

\* Studio, imports and the deployment command leave the Player's rows alone but
\* for Help; the others are named.
PlayerRowsStay ==
    /\ UNCHANGED <<derived, events, projected, snapshots, slices>>
    /\ \/ catalog' = catalog /\ helped' = helped
       \/ catalog' = TRUE /\ helped' = Workspaces

LEMMA PlayerSteps ==
    ASSUME [WorkspacesNext]_vars
    PROVE  \/ PlayerRowsStay
           \/ \E q \in PlayerRequest : CreateWorkspace(q) \/ CreateTimeSlice(q)
           \/ \E w \in Workspace : MaterializeStandalone(w)
  BY DEF WorkspacesNext, StudioOperation, StudioImport, ProvisionHelp, PlayerRowsStay, vars, playervars

\* A workspace never moves its pin.
LEMMA DerivedStays ==
    ASSUME RowsInv, [WorkspacesNext]_vars, NEW w \in Workspace, derived[w] # None
    PROVE  derived'[w] = derived[w]
<1>1. ASSUME NEW q \in PlayerRequest, CreateWorkspace(q) PROVE derived'[w] = derived[w]
  <2>1. q.workspace \notin Workspaces
    BY <1>1, CreateFacts DEF CreateWorkspace
  <2>2. w # q.workspace
    BY <2>1 DEF Workspaces
  <2> QED
    BY <1>1, <2>2, CreateWrites DEF RowsInv
<1> QED
  BY <1>1, PlayerSteps DEF PlayerRowsStay, CreateTimeSlice, MaterializeStandalone

LEMMA PinStays ==
    ASSUME RowsInv, [WorkspacesNext]_vars, NEW w \in Workspaces
    PROVE  w \in Workspaces' /\ Pin(w)' = Pin(w)
<1>1. w \in Workspace /\ RowsKept /\ Apart'
  BY RowsStep DEF Workspaces, RowsInv, WorkspacesTypeOK, Apart
<1>2. CASE workspaces[w] # None
  <2>1. workspaces'[w] = workspaces[w]
    BY <1>1, <1>2 DEF RowsKept
  <2> QED
    BY <1>1, <1>2, <2>1 DEF Workspaces, Pin
<1>3. CASE workspaces[w] = None
  <2>1. derived[w] # None
    BY <1>3 DEF Workspaces
  <2>2. derived'[w] = derived[w]
    BY <1>1, <2>1, DerivedStays
  <2>3. workspaces'[w] = None
    BY <1>1, <2>1, <2>2 DEF Apart
  <2> QED
    BY <1>1, <1>3, <2>1, <2>2, <2>3 DEF Workspaces, Pin
<1> QED
  BY <1>2, <1>3

\* What is pinned stays published, with its bytes.
LEMMA PinnedStays ==
    ASSUME RowsInv, [WorkspacesNext]_vars, NEW w \in Workspaces, PinnedWell(w)
    PROVE  PinnedWell(w)'
<1>1. PICK pin : pin = Pin(w)
  OBVIOUS
<1>2. Pin(w)' = pin
  BY <1>1, PinStays
<1>3. /\ pin.definition \in InProject(pin.project)
      /\ definitions[pin.definition].status = "PUBLISHED"
      /\ definitions[pin.definition].manifest = pin.manifest
  BY <1>1 DEF PinnedWell
<1>4. Kept(pin.definition) /\ pin.definition \in Definition
  BY <1>3, RowsStep DEF RowsKept, InProject
<1>5. /\ pin.definition \in InProject(pin.project)'
      /\ definitions'[pin.definition].status = "PUBLISHED"
      /\ definitions'[pin.definition].manifest = pin.manifest
  BY <1>3, <1>4 DEF Kept, InProject
<1> QED
  BY <1>2, <1>5 DEF PinnedWell

\* First workspaces are Studio's word; derived ones are made that way.
LEMMA PinnedStep ==
    ASSUME RowsInv, \A w \in Workspaces : PinnedWell(w), [WorkspacesNext]_vars
    PROVE  \A w \in Workspaces' : PinnedWell(w)'
<1> SUFFICES ASSUME NEW w \in Workspaces' PROVE PinnedWell(w)'
  OBVIOUS
<1>0. w \in Workspace /\ PinsExact'
  BY RowsStep DEF Workspaces, RowsInv, StudioInv
<1>1. CASE workspaces'[w] # None
  BY <1>0, <1>1 DEF PinsExact, PinnedWell, Pin
<1>2. CASE w \in Workspaces
  BY <1>2, PinnedStays
<1>3. CASE workspaces'[w] = None /\ w \notin Workspaces
  <2>1. derived[w] = None /\ derived'[w] # None
    BY <1>0, <1>3 DEF Workspaces
  <2>2. PICK q \in PlayerRequest : CreateWorkspace(q)
    BY <2>1, PlayerSteps DEF PlayerRowsStay, CreateTimeSlice, MaterializeStandalone
  <2>3. /\ w = q.workspace
        /\ derived'[w] = [project |-> q.project, definition |-> q.definition,
                          manifest |-> q.ifMatch, code |-> q.code]
        /\ definitions' = definitions
    <3>1. WorkspacesTypeOK
      BY DEF RowsInv
    <3>2. \A v \in Workspace \ {q.workspace} : derived'[v] = derived[v]
      BY <2>2, <3>1, CreateWrites
    <3>3. w = q.workspace
      BY <1>0, <2>1, <3>2
    <3>4. /\ derived'[q.workspace] = [project |-> q.project, definition |-> q.definition,
                                      manifest |-> q.ifMatch, code |-> q.code]
          /\ definitions' = definitions
      BY <2>2, <3>1, CreateWrites
    <3> QED
      BY <3>3, <3>4
  <2>4. /\ q.definition \in InProject(q.project)
        /\ definitions[q.definition].status = "PUBLISHED"
        /\ definitions[q.definition].manifest = q.ifMatch
    BY <2>2, CreateFacts DEF CreateWorkspace
  <2>5. Pin(w)' = [project |-> q.project, definition |-> q.definition, manifest |-> q.ifMatch]
    BY <1>3, <2>3 DEF Pin
  <2>6. PICK pin : pin = [project |-> q.project, definition |-> q.definition,
                          manifest |-> q.ifMatch]
    OBVIOUS
  <2>7. Pin(w)' = pin /\ pin.project = q.project /\ pin.definition = q.definition
        /\ pin.manifest = q.ifMatch
    BY <2>5, <2>6
  <2>8. /\ pin.definition \in InProject(pin.project)'
        /\ definitions'[pin.definition].status = "PUBLISHED"
        /\ definitions'[pin.definition].manifest = pin.manifest
    BY <2>3, <2>4, <2>7 DEF InProject, Exists
  <2> QED
    BY <2>7, <2>8 DEF PinnedWell
<1> QED
  BY <1>1, <1>2, <1>3

-----------------------------------------------------------------------------
(* Projections are proven.                                                 *)

\* Rows of one workspace are inserted, with their receipt.
Materializes(w, d, m, new) ==
    /\ m # None /\ definitions[d].manifest = m
    /\ projected[w] = None
    /\ new.workspace = w /\ new.manifest = m /\ new.contract # "SLICE_CREATE"
    /\ events' = events \cup {new}
    /\ projected'[w] = m /\ \A v \in Workspace \ {w} : projected'[v] = projected[v]
    /\ snapshots'[d] = m /\ \A c \in Definition \ {d} : snapshots'[c] = snapshots[c]

LEMMA OthersStayProven ==
    ASSUME RowsInv, ProjectionsInv, [WorkspacesNext]_vars,
           NEW w \in Workspace, NEW d \in Definition, NEW m, NEW new, Materializes(w, d, m, new),
           NEW v \in Workspace, v # w
    PROVE  IF projected'[v] = None THEN ProjectionReceipts(v)' = {} ELSE Proven(v)'
<1>1. projected'[v] = projected[v]
  BY DEF Materializes
<1>2. ProjectionReceipts(v)' = ProjectionReceipts(v)
  BY DEF Materializes, ProjectionReceipts
<1>3. CASE projected[v] = None
  BY <1>1, <1>2, <1>3 DEF ProjectionsInv
<1>4. CASE projected[v] # None
  <2>1. Proven(v) /\ v \in Workspaces /\ PinnedWell(v)
    BY <1>4 DEF ProjectionsInv, Proven
  <2>2. PICK pin : pin = Pin(v)
    OBVIOUS
  <2>3. Pin(v)' = pin /\ v \in Workspaces'
    BY <2>1, <2>2, PinStays
  <2>4. /\ pin.definition \in Definition
        /\ definitions[pin.definition].manifest = pin.manifest
        /\ projected[v] = pin.manifest /\ snapshots[pin.definition] = pin.manifest
        /\ \E e \in events : ProjectionReceipts(v) = {e} /\ e.manifest = pin.manifest
    BY <2>1, <2>2 DEF PinnedWell, Proven, InProject
  <2>5. snapshots'[pin.definition] = pin.manifest
    BY <2>4 DEF Materializes
  <2>6. events \subseteq events'
    BY DEF Materializes
  <2>7. Proven(v)'
    BY <1>1, <1>2, <2>3, <2>4, <2>5, <2>6 DEF Proven
  <2> QED
    BY <1>1, <1>4, <2>7
<1> QED
  BY <1>3, <1>4

LEMMA NewIsProven ==
    ASSUME ProjectionsInv, NEW w \in Workspace, NEW d \in Definition, NEW m, NEW new,
           Materializes(w, d, m, new), w \in Workspaces',
           NEW pin, Pin(w)' = pin, pin.definition = d, pin.manifest = m
    PROVE  Proven(w)'
<1>1. ProjectionReceipts(w) = {}
  BY DEF ProjectionsInv, Materializes
<1>2. ProjectionReceipts(w)' = {new}
  BY <1>1 DEF ProjectionReceipts, Materializes
<1> QED
  BY <1>2 DEF Proven, Materializes

LEMMA MaterializesProven ==
    ASSUME RowsInv, ProjectionsInv, [WorkspacesNext]_vars,
           NEW w \in Workspace, NEW d \in Definition, NEW m, NEW new, Materializes(w, d, m, new),
           w \in Workspaces', NEW pin, Pin(w)' = pin, pin.definition = d, pin.manifest = m
    PROVE  /\ \A v \in Workspace : IF projected'[v] = None THEN ProjectionReceipts(v)' = {}
                                   ELSE Proven(v)'
           /\ \A c \in Definition : snapshots'[c] # None =>
                 \E v \in Workspaces' : Pin(v)'.definition = c /\ projected'[v] # None
<1>1. ASSUME NEW v \in Workspace
      PROVE  IF projected'[v] = None THEN ProjectionReceipts(v)' = {} ELSE Proven(v)'
  <2>1. CASE v # w
    BY <2>1, OthersStayProven
  <2>2. CASE v = w
    <3>1. Proven(v)'
      BY <2>2, NewIsProven
    <3>2. projected'[v] # None
      BY <2>2 DEF Materializes
    <3> QED
      BY <3>1, <3>2
  <2> QED
    BY <2>1, <2>2
<1>2. ASSUME NEW c \in Definition, snapshots'[c] # None
      PROVE  \E v \in Workspaces' : Pin(v)'.definition = c /\ projected'[v] # None
  <2>1. CASE c = d
    BY <2>1 DEF Materializes
  <2>2. CASE c # d
    <3>1. PICK v \in Workspaces : Pin(v).definition = c /\ projected[v] # None
      BY <1>2, <2>2 DEF Materializes, ProjectionsInv
    <3>2. v \in Workspaces' /\ Pin(v)' = Pin(v)
      BY PinStays
    <3>3. v \in Workspace /\ v # w
      BY <3>1 DEF Materializes, Workspaces
    <3>4. projected'[v] = projected[v]
      BY <3>3 DEF Materializes
    <3>5. Pin(v)'.definition = c
      BY <3>1, <3>2
    <3> QED
      BY <3>1, <3>2, <3>4, <3>5
  <2> QED
    BY <2>1, <2>2
<1> QED
  BY <1>1, <1>2

\* The two ways in which rows are inserted.
LEMMA CreateMaterializes ==
    ASSUME RowsInv, ProjectionsInv, NEW q \in PlayerRequest, CreateWorkspace(q)
    PROVE  Materializes(q.workspace, q.definition, q.ifMatch,
                        Event("WORKSPACE_CREATE", q, q.workspace, q.ifMatch))
<1>0. PICK new : new = Event("WORKSPACE_CREATE", q, q.workspace, q.ifMatch)
  OBVIOUS
<1>1. WorkspacesTypeOK /\ q.ifMatch # None /\ q.workspace \in Workspace
  BY PlayerRequestFields, NoneAssumption DEF RowsInv
<1>2. q.workspace \notin Workspaces /\ definitions[q.definition].manifest = q.ifMatch
  BY CreateFacts DEF CreateWorkspace
<1>3. projected[q.workspace] = None
  BY <1>1, <1>2 DEF ProjectionsInv, Proven
<1>4. new.workspace = q.workspace /\ new.manifest = q.ifMatch /\ new.contract # "SLICE_CREATE"
  BY <1>0 DEF Event
<1>5. /\ events' = events \cup {new}
      /\ projected'[q.workspace] = q.ifMatch
      /\ \A v \in Workspace \ {q.workspace} : projected'[v] = projected[v]
      /\ snapshots'[q.definition] = q.ifMatch
      /\ \A c \in Definition \ {q.definition} : snapshots'[c] = snapshots[c]
  BY <1>0, <1>1, CreateWrites
<1>6. Materializes(q.workspace, q.definition, q.ifMatch, new)
  BY <1>1, <1>2, <1>3, <1>4, <1>5 DEF Materializes
<1> QED
  BY <1>0, <1>6

LEMMA StandaloneMaterializes ==
    ASSUME RowsInv, ProjectionsInv, NEW w \in Workspace, MaterializeStandalone(w)
    PROVE  Materializes(w, Pin(w).definition, Pin(w).manifest,
                        Event("STANDALONE", None, w, Pin(w).manifest))
<1>0. PICK new : new = Event("STANDALONE", None, w, Pin(w).manifest)
  OBVIOUS
<1>1. PICK pin : pin = Pin(w)
  OBVIOUS
<1>2. w \in Workspaces /\ Verify(w) = "NOT_PROVEN"
  BY DEF MaterializeStandalone
<1>3. pin.definition \in Definition /\ pin.manifest \in Manifest /\ pin.manifest # None
  BY <1>1, <1>2, PinType, NoneAssumption DEF RowsInv
<1>4. definitions[pin.definition].manifest = pin.manifest
  BY <1>1, <1>2 DEF ProjectionsInv, PinnedWell
<1>5. projected[w] = None
  BY <1>2 DEF Verify
<1>6. new.workspace = w /\ new.manifest = pin.manifest /\ new.contract # "SLICE_CREATE"
  BY <1>0, <1>1 DEF Event
<1>7. /\ projected' = [projected EXCEPT ![w] = pin.manifest]
      /\ snapshots' = [snapshots EXCEPT ![pin.definition] = pin.manifest]
      /\ events' = events \cup {new}
  BY <1>0, <1>1 DEF MaterializeStandalone, MaterializeRows
<1>8. /\ projected \in [Workspace -> Manifest \cup {None}]
      /\ snapshots \in [Definition -> Manifest \cup {None}]
  BY DEF RowsInv, WorkspacesTypeOK
<1>9. Materializes(w, pin.definition, pin.manifest, new)
  BY <1>3, <1>4, <1>5, <1>6, <1>7, <1>8 DEF Materializes
<1> QED
  BY <1>0, <1>1, <1>9

\* Steps that insert no projection disturb none.
LEMMA UnprojectedStep ==
    ASSUME RowsInv, ProjectionsInv, [WorkspacesNext]_vars, projected' = projected,
           snapshots' = snapshots, \A v \in Workspace : ProjectionReceipts(v)' = ProjectionReceipts(v),
           events \subseteq events'
    PROVE  /\ \A v \in Workspace : IF projected'[v] = None THEN ProjectionReceipts(v)' = {}
                                   ELSE Proven(v)'
           /\ \A c \in Definition : snapshots'[c] # None =>
                 \E v \in Workspaces' : Pin(v)'.definition = c /\ projected'[v] # None
<1>1. ASSUME NEW v \in Workspace, projected[v] # None PROVE Proven(v)'
  <2>1. Proven(v) /\ v \in Workspaces
    BY <1>1 DEF ProjectionsInv, Proven
  <2>2. PICK pin : pin = Pin(v)
    OBVIOUS
  <2>3. Pin(v)' = pin /\ v \in Workspaces'
    BY <2>1, <2>2, PinStays
  <2>4. /\ projected[v] = pin.manifest /\ snapshots[pin.definition] = pin.manifest
        /\ \E e \in events : ProjectionReceipts(v) = {e} /\ e.manifest = pin.manifest
    BY <2>1, <2>2 DEF Proven
  <2> QED
    BY <2>3, <2>4 DEF Proven
<1>2. ASSUME NEW c \in Definition, snapshots[c] # None
      PROVE  \E v \in Workspaces' : Pin(v)'.definition = c /\ projected'[v] # None
  <2>1. PICK v \in Workspaces : Pin(v).definition = c /\ projected[v] # None
    BY <1>2 DEF ProjectionsInv
  <2>2. v \in Workspaces' /\ Pin(v)' = Pin(v)
    BY PinStays
  <2>3. Pin(v)'.definition = c
    BY <2>1, <2>2
  <2> QED
    BY <2>1, <2>2, <2>3
<1> QED
  BY <1>1, <1>2 DEF ProjectionsInv

\* What the steps say of projected rows and of parameter rows.
LEMMA ReceiptsProveStep ==
    ASSUME RowsInv, ProjectionsInv, [WorkspacesNext]_vars
    PROVE  /\ \A v \in Workspace : IF projected'[v] = None THEN ProjectionReceipts(v)' = {}
                                   ELSE Proven(v)'
           /\ \A c \in Definition : snapshots'[c] # None =>
                 \E v \in Workspaces' : Pin(v)'.definition = c /\ projected'[v] # None
<1>0. WorkspacesTypeOK
  BY DEF RowsInv
<1>1. CASE PlayerRowsStay
  <2>1. projected' = projected /\ snapshots' = snapshots /\ events' = events
    BY <1>1 DEF PlayerRowsStay
  <2>2. \A v \in Workspace : ProjectionReceipts(v)' = ProjectionReceipts(v)
    BY <2>1 DEF ProjectionReceipts
  <2> QED
    BY <2>1, <2>2, UnprojectedStep
<1>2. ASSUME NEW q \in PlayerRequest, CreateTimeSlice(q)
      PROVE  /\ projected' = projected /\ snapshots' = snapshots /\ events \subseteq events'
             /\ \A v \in Workspace : ProjectionReceipts(v)' = ProjectionReceipts(v)
  <2>1. PICK new : new = Event("SLICE_CREATE", q, q.workspace, q.ifMatch)
    OBVIOUS
  <2>2. new.contract = "SLICE_CREATE"
    BY <2>1 DEF Event
  <2>3. projected' = projected /\ snapshots' = snapshots /\ events' = events \cup {new}
    BY <1>2, <2>1 DEF CreateTimeSlice
  <2> QED
    BY <2>2, <2>3 DEF ProjectionReceipts
<1>3. ASSUME NEW q \in PlayerRequest, CreateWorkspace(q)
      PROVE  \E pin : /\ Pin(q.workspace)' = pin /\ pin.definition = q.definition
                      /\ pin.manifest = q.ifMatch /\ q.workspace \in Workspaces'
  <2>1. /\ derived'[q.workspace] = [project |-> q.project, definition |-> q.definition,
                                    manifest |-> q.ifMatch, code |-> q.code]
        /\ derived'[q.workspace] # None
        /\ workspaces' = workspaces
    BY <1>0, <1>3, CreateWrites
  <2>2. q.workspace \in Workspace /\ workspaces[q.workspace] = None
    BY <1>3, CreateFacts, PlayerRequestFields DEF CreateWorkspace, Workspaces
  <2>3. Pin(q.workspace)' = [project |-> q.project, definition |-> q.definition,
                             manifest |-> q.ifMatch]
    BY <2>1, <2>2 DEF Pin
  <2>4. q.workspace \in Workspaces'
    BY <2>1, <2>2 DEF Workspaces
  <2> QED
    BY <2>3, <2>4
<1>4. CASE \E q \in PlayerRequest : CreateWorkspace(q)
  <2>1. PICK q \in PlayerRequest : CreateWorkspace(q)
    BY <1>4
  <2>2. Materializes(q.workspace, q.definition, q.ifMatch,
                     Event("WORKSPACE_CREATE", q, q.workspace, q.ifMatch))
    BY <2>1, CreateMaterializes
  <2>3. q.workspace \in Workspace /\ q.definition \in Definition
    BY <1>0, <2>1, CreateWrites, PlayerRequestFields
  <2>4. PICK pin : /\ Pin(q.workspace)' = pin /\ pin.definition = q.definition
                   /\ pin.manifest = q.ifMatch /\ q.workspace \in Workspaces'
    BY <1>3, <2>1
  <2> QED
    BY <2>2, <2>3, <2>4, MaterializesProven
<1>5. CASE \E w \in Workspace : MaterializeStandalone(w)
  <2>1. PICK w \in Workspace : MaterializeStandalone(w)
    BY <1>5
  <2>2. Materializes(w, Pin(w).definition, Pin(w).manifest,
                     Event("STANDALONE", None, w, Pin(w).manifest))
    BY <2>1, StandaloneMaterializes
  <2>3. w \in Workspaces
    BY <2>1 DEF MaterializeStandalone
  <2>4. Pin(w).definition \in Definition
    BY <1>0, <2>3, PinType
  <2>5. w \in Workspaces' /\ Pin(w)' = Pin(w)
    BY <2>3, PinStays
  <2> QED
    BY <2>2, <2>4, <2>5, MaterializesProven
<1> QED
  BY <1>1, <1>2, <1>4, <1>5, PlayerSteps, UnprojectedStep

\* Rows are never taken back, and Help reaches every derived workspace.
LEMMA ProjectedStays ==
    ASSUME RowsInv, ProjectionsInv, [WorkspacesNext]_vars,
           NEW w \in Workspace, projected[w] # None
    PROVE  projected'[w] # None
<1>0. WorkspacesTypeOK
  BY DEF RowsInv
<1>1. CASE PlayerRowsStay
  BY <1>1 DEF PlayerRowsStay
<1>2. ASSUME NEW q \in PlayerRequest, CreateTimeSlice(q) PROVE projected'[w] # None
  BY <1>2 DEF CreateTimeSlice
<1>3. ASSUME NEW v \in Workspace, NEW d, NEW m, NEW new, Materializes(v, d, m, new)
      PROVE  projected'[w] # None
  BY <1>3 DEF Materializes
<1>4. ASSUME NEW q \in PlayerRequest, CreateWorkspace(q) PROVE projected'[w] # None
  BY <1>3, <1>4, CreateMaterializes, PlayerRequestFields
<1>5. ASSUME NEW v \in Workspace, MaterializeStandalone(v) PROVE projected'[w] # None
  BY <1>3, <1>5, StandaloneMaterializes
<1> QED
  BY <1>1, <1>2, <1>4, <1>5, PlayerSteps

LEMMA DerivedStep ==
    ASSUME RowsInv, ProjectionsInv, [WorkspacesNext]_vars,
           NEW w \in Workspace, derived'[w] # None
    PROVE  projected'[w] # None /\ w \in helped'
<1>0. WorkspacesTypeOK
  BY DEF RowsInv
<1>1. CASE derived[w] # None
  <2>1. projected[w] # None /\ w \in helped
    BY <1>1 DEF ProjectionsInv
  <2>2. w \in Workspaces
    BY <1>1 DEF Workspaces
  <2>3. w \in helped'
    <3>1. CASE PlayerRowsStay
      BY <2>1, <2>2, <3>1 DEF PlayerRowsStay
    <3>2. ASSUME NEW q \in PlayerRequest, CreateWorkspace(q) PROVE w \in helped'
      BY <2>1, <3>2 DEF CreateWorkspace
    <3> QED
      BY <2>1, <3>1, <3>2, PlayerSteps DEF CreateTimeSlice, MaterializeStandalone
  <2> QED
    BY <2>1, <2>3, ProjectedStays
<1>2. CASE derived[w] = None
  <2>1. PICK q \in PlayerRequest : CreateWorkspace(q)
    BY <1>2, PlayerSteps DEF PlayerRowsStay, CreateTimeSlice, MaterializeStandalone
  <2>2. \A v \in Workspace \ {q.workspace} : derived'[v] = derived[v]
    BY <1>0, <2>1, CreateWrites
  <2>3. w = q.workspace
    BY <1>2, <2>2
  <2>4. projected'[q.workspace] = q.ifMatch /\ helped' = helped \cup {q.workspace}
    BY <1>0, <2>1, CreateWrites
  <2>5. q.ifMatch # None
    BY PlayerRequestFields, NoneAssumption
  <2> QED
    BY <2>3, <2>4, <2>5
<1> QED
  BY <1>1, <1>2

LEMMA ProjectionsStep ==
    ASSUME RowsInv, ProjectionsInv, [WorkspacesNext]_vars
    PROVE  ProjectionsInv'
<1>1. \A w \in Workspaces' : PinnedWell(w)'
  BY PinnedStep DEF ProjectionsInv
<1>2. /\ \A v \in Workspace : IF projected'[v] = None THEN ProjectionReceipts(v)' = {}
                              ELSE Proven(v)'
      /\ \A c \in Definition : snapshots'[c] # None =>
            \E v \in Workspaces' : Pin(v)'.definition = c /\ projected'[v] # None
  BY ReceiptsProveStep
<1>3. \A w \in Workspace : derived'[w] # None => projected'[w] # None /\ w \in helped'
  BY DerivedStep
<1> QED
  BY <1>1, <1>2, <1>3 DEF ProjectionsInv

-----------------------------------------------------------------------------
(* Keys are taken once.                                                    *)

\* The operation keys that Studio adds are not those of the Player's receipts.
LEMMA ReceiptKeys ==
    ASSUME AttemptsInv, [WorkspacesNext]_vars, NEW x \in receipts'
    PROVE  x \in receipts \/ /\ \A e \in events : x.key # e.key
                             /\ events' = events
<1>1. ASSUME NEW r \in Request, StudioOperation(r)
      PROVE  x \in receipts \/ /\ \A e \in events : x.key # e.key
                               /\ events' = events
  <2>1. /\ Operation(r) /\ events' = events
        /\ r.op \in WriteOp => \A e \in events : e.key # r.key
    BY <1>1 DEF StudioOperation, OperationWithBindings, playervars
  <2>2. CASE r.op \in WriteOp /\ HumanWrite(r, AfterRow(r))
    <3>1. x \in receipts \/ x.key = r.key
      BY <2>2 DEF HumanWrite
    <3> QED
      BY <2>1, <2>2, <3>1
  <2>3. CASE Publish(r, AfterRow(r))
    BY <2>3 DEF Publish
  <2> QED
    BY <2>1, <2>2, <2>3, OperationWrites
<1>2. ASSUME NEW y \in Package, StudioImport(y) PROVE receipts' = receipts
  <2>1. CASE CommitImport(y)
    BY <2>1, CommitKinds DEF BringsDraft, Bootstraps, dbvars
  <2> QED
    BY <1>2, <2>1 DEF StudioImport, ImportStep, AdmitImport, PreviewImport, RollBackImport,
                      RecordUnsuccessful, AbandonImport, dbvars
<1>3. ASSUME \/ \E q \in PlayerRequest : CreateWorkspace(q) \/ CreateTimeSlice(q)
             \/ \E w \in Workspace : MaterializeStandalone(w)
             \/ ProvisionHelp
             \/ UNCHANGED vars
      PROVE  receipts' = receipts
  BY <1>3 DEF CreateWorkspace, CreateTimeSlice, MaterializeStandalone, ProvisionHelp, vars, dbvars
<1> QED
  BY <1>1, <1>2, <1>3 DEF WorkspacesNext

\* The receipt that a step of the Player adds, if any.
NewEvent(new) ==
    \/ \E q \in PlayerRequest :
          /\ CreateWorkspace(q)
          /\ new = [key |-> q.key, contract |-> "WORKSPACE_CREATE", workspace |-> q.workspace,
                    request |-> q, manifest |-> q.ifMatch]
    \/ \E q \in PlayerRequest :
          /\ CreateTimeSlice(q)
          /\ new = [key |-> q.key, contract |-> "SLICE_CREATE", workspace |-> q.workspace,
                    request |-> q, manifest |-> q.ifMatch]
    \/ \E w \in Workspace :
          /\ MaterializeStandalone(w)
          /\ new = [key |-> None, contract |-> "STANDALONE", workspace |-> w,
                    request |-> None, manifest |-> Pin(w).manifest]

LEMMA EventSteps ==
    ASSUME [WorkspacesNext]_vars
    PROVE  events' = events \/ \E new : NewEvent(new) /\ events' = events \cup {new}
<1>1. ASSUME NEW q \in PlayerRequest, CreateWorkspace(q)
      PROVE  \E new : NewEvent(new) /\ events' = events \cup {new}
  <2>1. PICK new : new = Event("WORKSPACE_CREATE", q, q.workspace, q.ifMatch)
    OBVIOUS
  <2>2. NewEvent(new)
    BY <1>1, <2>1, PlayerRequestFields DEF NewEvent, Event
  <2>3. events' = events \cup {new}
    BY <1>1, <2>1 DEF CreateWorkspace
  <2> QED
    BY <2>2, <2>3
<1>2. ASSUME NEW q \in PlayerRequest, CreateTimeSlice(q)
      PROVE  \E new : NewEvent(new) /\ events' = events \cup {new}
  <2>1. PICK new : new = Event("SLICE_CREATE", q, q.workspace, q.ifMatch)
    OBVIOUS
  <2>2. NewEvent(new)
    BY <1>2, <2>1, PlayerRequestFields DEF NewEvent, Event
  <2>3. events' = events \cup {new}
    BY <1>2, <2>1 DEF CreateTimeSlice
  <2> QED
    BY <2>2, <2>3
<1>3. ASSUME NEW w \in Workspace, MaterializeStandalone(w)
      PROVE  \E new : NewEvent(new) /\ events' = events \cup {new}
  <2>1. PICK new : new = Event("STANDALONE", None, w, Pin(w).manifest)
    OBVIOUS
  <2>2. NewEvent(new)
    BY <1>3, <2>1 DEF NewEvent, Event
  <2>3. events' = events \cup {new}
    BY <1>3, <2>1 DEF MaterializeStandalone
  <2> QED
    BY <2>2, <2>3
<1> QED
  BY <1>1, <1>2, <1>3, PlayerSteps DEF PlayerRowsStay

LEMMA NewEventKey ==
    ASSUME NEW new, NewEvent(new)
    PROVE  /\ new.key = None \/ ~KeyTaken(new.key)
           /\ receipts' = receipts
<1>1. ASSUME NEW q \in PlayerRequest, CreateWorkspace(q)
      PROVE  ~KeyTaken(q.key) /\ receipts' = receipts
  BY <1>1, CreateFacts DEF CreateWorkspace, dbvars
<1>2. ASSUME NEW q \in PlayerRequest, CreateTimeSlice(q)
      PROVE  ~KeyTaken(q.key) /\ receipts' = receipts
  BY <1>2, SliceFacts DEF CreateTimeSlice, dbvars
<1>3. ASSUME NEW w \in Workspace, MaterializeStandalone(w)
      PROVE  receipts' = receipts
  BY <1>3 DEF MaterializeStandalone, dbvars
<1> QED
  BY <1>1, <1>2, <1>3 DEF NewEvent

LEMMA KeysApartStep ==
    ASSUME AttemptsInv, KeysApart, [WorkspacesNext]_vars
    PROVE  KeysApart'
<1>1. CASE events' = events
  BY <1>1, ReceiptKeys DEF KeysApart
<1>2. ASSUME NEW new, NewEvent(new), events' = events \cup {new}
      PROVE  KeysApart'
  <2>1. /\ receipts' = receipts
        /\ new.key # None => \A row \in receipts \cup events : row.key # new.key
    BY <1>2, NewEventKey DEF KeyTaken
  <2>2. \A x \in receipts', e \in events' : e.key # None => x.key # e.key
    BY <1>2, <2>1 DEF KeysApart
  <2>3. \A x, y \in events' : x.key = y.key /\ x.key # None => x = y
    BY <1>2, <2>1 DEF KeysApart
  <2> QED
    BY <2>2, <2>3 DEF KeysApart
<1> QED
  BY <1>1, <1>2, EventSteps

-----------------------------------------------------------------------------
(* Receipts tell what was created.                                         *)

\* A project does not lose its default workspace.
LEMMA DefaultsStay ==
    ASSUME RowsInv, [WorkspacesNext]_vars, NEW p, DefaultsOf(p) # {}
    PROVE  DefaultsOf(p)' # {}
<1>1. defaults \subseteq defaults'
  <2>1. ASSUME NEW r \in Request, StudioOperation(r) PROVE defaults \subseteq defaults'
    BY <2>1 DEF StudioOperation, OperationWithBindings
  <2>2. ASSUME NEW x \in Package, StudioImport(x) PROVE defaults \subseteq defaults'
    <3>1. CASE CommitImport(x)
      <4>1. AttemptsInv
        BY DEF RowsInv, StudioInv
      <4> QED
        BY <3>1, <4>1, CommitKinds
    <3> QED
      BY <2>2, <3>1 DEF StudioImport, ImportStep, AdmitImport, PreviewImport, RollBackImport,
                        RecordUnsuccessful, AbandonImport
  <2> QED
    BY <2>1, <2>2 DEF WorkspacesNext, CreateWorkspace, CreateTimeSlice, MaterializeStandalone,
                      ProvisionHelp, vars, importvars
<1>2. PICK w \in DefaultsOf(p) : TRUE
  OBVIOUS
<1>3. w \in Workspace /\ workspaces[w] # None /\ workspaces[w].project = p /\ w \in defaults
  BY <1>2 DEF DefaultsOf, RowsInv, WorkspacesTypeOK, ImportTypeOK
<1>4. workspaces'[w] = workspaces[w]
  BY <1>3, RowsStep DEF RowsKept
<1>5. w \in DefaultsOf(p)'
  BY <1>1, <1>3, <1>4 DEF DefaultsOf
<1> QED
  BY <1>5

LEMMA CreationStays ==
    ASSUME RowsInv, ProjectionsInv, [WorkspacesNext]_vars, NEW e, CreationTold(e)
    PROVE  CreationTold(e)'
<1>1. PICK q \in PlayerRequest : q = e.request
  BY DEF CreationTold
<1>2. /\ q.contract = "WORKSPACE_CREATE" /\ e.key = q.key /\ e.workspace = q.workspace
      /\ derived[q.workspace] = [project |-> q.project, definition |-> q.definition,
                                 manifest |-> q.ifMatch, code |-> q.code]
      /\ catalog /\ DefaultsOf(q.project) # {}
  BY <1>1 DEF CreationTold
<1>3. derived[q.workspace] # None /\ q.workspace \in Workspace
  <2>1. derived[q.workspace] \in DerivedRow
    BY <1>2, PlayerRequestFields DEF DerivedRow
  <2> QED
    BY <2>1, DerivedAssumption, PlayerRequestFields
<1>4. derived'[q.workspace] = derived[q.workspace]
  BY <1>3, DerivedStays
<1>5. catalog'
  BY <1>2, PlayerSteps DEF PlayerRowsStay, CreateWorkspace, CreateTimeSlice, MaterializeStandalone
<1>6. DefaultsOf(q.project)' # {}
  BY <1>2, DefaultsStay
<1> QED
  BY <1>1, <1>2, <1>4, <1>5, <1>6 DEF CreationTold

LEMMA SlicesGrow ==
    ASSUME [WorkspacesNext]_vars
    PROVE  slices \subseteq slices'
  BY PlayerSteps DEF PlayerRowsStay, CreateWorkspace, CreateTimeSlice, MaterializeStandalone

LEMMA SliceToldStays ==
    ASSUME RowsInv, ProjectionsInv, [WorkspacesNext]_vars, NEW e, SliceTold(e)
    PROVE  SliceTold(e)'
<1>1. PICK q \in PlayerRequest : q = e.request
  BY DEF SliceTold
<1>2. /\ q.contract = "SLICE_CREATE" /\ e.key = q.key /\ e.workspace = q.workspace
      /\ q.workspace \in Workspaces /\ projected[q.workspace] # None
      /\ Pin(q.workspace).manifest = q.ifMatch /\ SliceOf(q) \in slices
  BY <1>1 DEF SliceTold
<1>3. q.workspace \in Workspaces' /\ Pin(q.workspace)' = Pin(q.workspace)
  BY <1>2, PinStays
<1>4. Pin(q.workspace)'.manifest = q.ifMatch
  BY <1>2, <1>3
<1>5. projected'[q.workspace] # None
  BY <1>2, ProjectedStays, PlayerRequestFields
<1>6. SliceOf(q) \in slices'
  BY <1>2, SlicesGrow
<1> QED
  BY <1>1, <1>2, <1>3, <1>4, <1>5, <1>6 DEF SliceTold

\* A verified workspace has its rows.
LEMMA CompleteIsProjected ==
    ASSUME WorkspacesTypeOK, NEW w \in Workspaces, Verify(w) = "COMPLETE"
    PROVE  projected[w] # None
<1>1. Pin(w).manifest # None
  BY PinType, NoneAssumption
<1>2. projected[w] = Pin(w).manifest
  BY DEF Verify
<1> QED
  BY <1>1, <1>2

LEMMA NewCreationTold ==
    ASSUME WorkspacesTypeOK, NEW q \in PlayerRequest, CreateWorkspace(q),
           NEW new, new.request = q, new.key = q.key, new.workspace = q.workspace
    PROVE  CreationTold(new)'
<1>1. /\ q.contract = "WORKSPACE_CREATE"
      /\ derived'[q.workspace] = [project |-> q.project, definition |-> q.definition,
                                  manifest |-> q.ifMatch, code |-> q.code]
      /\ UNCHANGED <<workspaces, defaults, catalog>>
  BY CreateWrites
<1>2. catalog /\ Topology(q.project, q.definition)
  BY CreateFacts DEF CreateWorkspace
<1>3. DefaultsOf(q.project) # {}
  BY <1>2 DEF Topology
<1>4. DefaultsOf(q.project)' # {}
  BY <1>1, <1>3 DEF DefaultsOf
<1> QED
  BY <1>1, <1>2, <1>4 DEF CreationTold

LEMMA NewSliceTold ==
    ASSUME RowsInv, [WorkspacesNext]_vars, NEW q \in PlayerRequest, CreateTimeSlice(q),
           NEW new, new.request = q, new.key = q.key, new.workspace = q.workspace
    PROVE  SliceTold(new)'
<1>1. /\ q.contract = "SLICE_CREATE" /\ projected' = projected
      /\ SliceOf(q) \in slices'
  BY DEF CreateTimeSlice, SliceOf
<1>2. /\ q.workspace \in Workspaces /\ Pin(q.workspace).manifest = q.ifMatch
      /\ Verify(q.workspace) = "COMPLETE"
  BY SliceFacts DEF CreateTimeSlice
<1>3. projected[q.workspace] # None
  BY <1>2, CompleteIsProjected DEF RowsInv
<1>4. q.workspace \in Workspaces' /\ Pin(q.workspace)' = Pin(q.workspace)
  BY <1>2, PinStays
<1>5. Pin(q.workspace)'.manifest = q.ifMatch
  BY <1>2, <1>4
<1> QED
  BY <1>1, <1>3, <1>4, <1>5 DEF SliceTold

\* Whatever is told of a receipt is told when it is written, and from then on.
LEMMA ToldStep ==
    ASSUME RowsInv, ProjectionsInv, EventsInv, [WorkspacesNext]_vars
    PROVE  /\ \A e \in events' : e.contract = "WORKSPACE_CREATE" => CreationTold(e)'
           /\ \A e \in events' : e.contract = "SLICE_CREATE" => SliceTold(e)'
           /\ \A e \in events' : e.contract = "STANDALONE" => e.key = None
<1>0. WorkspacesTypeOK
  BY DEF RowsInv
<1>1. ASSUME NEW e \in events
      PROVE  /\ e.contract = "WORKSPACE_CREATE" => CreationTold(e)'
             /\ e.contract = "SLICE_CREATE" => SliceTold(e)'
             /\ e.contract = "STANDALONE" => e.key = None
  BY CreationStays, SliceToldStays DEF EventsInv
<1>2. ASSUME NEW new, NewEvent(new)
      PROVE  /\ new.contract = "WORKSPACE_CREATE" => CreationTold(new)'
             /\ new.contract = "SLICE_CREATE" => SliceTold(new)'
             /\ new.contract = "STANDALONE" => new.key = None
  <2>1. ASSUME NEW q \in PlayerRequest, CreateWorkspace(q),
               new = [key |-> q.key, contract |-> "WORKSPACE_CREATE", workspace |-> q.workspace,
                      request |-> q, manifest |-> q.ifMatch]
        PROVE  new.contract = "WORKSPACE_CREATE" /\ CreationTold(new)'
    <3>1. /\ new.contract = "WORKSPACE_CREATE" /\ new.request = q /\ new.key = q.key
          /\ new.workspace = q.workspace
      BY <2>1
    <3> QED
      BY <1>0, <2>1, <3>1, NewCreationTold
  <2>2. ASSUME NEW q \in PlayerRequest, CreateTimeSlice(q),
               new = [key |-> q.key, contract |-> "SLICE_CREATE", workspace |-> q.workspace,
                      request |-> q, manifest |-> q.ifMatch]
        PROVE  new.contract = "SLICE_CREATE" /\ SliceTold(new)'
    <3>1. /\ new.contract = "SLICE_CREATE" /\ new.request = q /\ new.key = q.key
          /\ new.workspace = q.workspace
      BY <2>2
    <3> QED
      BY <2>2, <3>1, NewSliceTold
  <2>3. ASSUME NEW w,
               new = [key |-> None, contract |-> "STANDALONE", workspace |-> w,
                      request |-> None, manifest |-> Pin(w).manifest]
        PROVE  new.contract = "STANDALONE" /\ new.key = None
    BY <2>3
  <2> QED
    BY <1>2, <2>1, <2>2, <2>3 DEF NewEvent
<1> QED
  BY <1>1, <1>2, EventSteps

\* A slice has its one receipt.
LEMMA SlicesStep ==
    ASSUME RowsInv, ProjectionsInv, EventsInv, [WorkspacesNext]_vars
    PROVE  \A s \in slices' : /\ s.workspace \in Workspaces' /\ projected'[s.workspace] # None
                              /\ \E e \in events' : SliceEvents(s.slice)' = {e}
<1>0. WorkspacesTypeOK
  BY DEF RowsInv
<1>1. ASSUME NEW s \in slices
      PROVE  /\ s.workspace \in Workspaces' /\ projected'[s.workspace] # None
             /\ s.workspace \in Workspaces
             /\ \E e \in events : SliceEvents(s.slice) = {e}
  BY PinStays, ProjectedStays DEF EventsInv, Workspaces
<1>2. ASSUME NEW q \in PlayerRequest, CreateTimeSlice(q)
      PROVE  \A s \in slices' : /\ s.workspace \in Workspaces' /\ projected'[s.workspace] # None
                                /\ \E e \in events' : SliceEvents(s.slice)' = {e}
  <2>1. PICK new : new = [key |-> q.key, contract |-> "SLICE_CREATE", workspace |-> q.workspace,
                          request |-> q, manifest |-> q.ifMatch]
    OBVIOUS
  <2>2. Event("SLICE_CREATE", q, q.workspace, q.ifMatch) = new
    BY <2>1, PlayerRequestFields DEF Event
  <2>3. events' = events \cup {new} /\ slices' = slices \cup {SliceOf(q)}
    BY <1>2, <2>2 DEF CreateTimeSlice, SliceOf
  <2>4. new.contract = "SLICE_CREATE" /\ new.request = q
    BY <2>1
  <2>5. \A s \in slices : s.slice # q.slice
    BY <1>2, SliceFacts DEF CreateTimeSlice, SliceOccupied
  <2>6. SliceEvents(q.slice) = {}
    <3> SUFFICES ASSUME NEW e \in SliceEvents(q.slice) PROVE FALSE
      OBVIOUS
    <3>1. e \in events /\ e.contract = "SLICE_CREATE" /\ e.request.slice = q.slice
      BY DEF SliceEvents
    <3>2. SliceOf(e.request) \in slices
      BY <3>1 DEF EventsInv, SliceTold
    <3>3. SliceOf(e.request).slice = q.slice
      BY <3>1 DEF SliceOf
    <3> QED
      BY <2>5, <3>2, <3>3
  <2>7. SliceEvents(q.slice)' = {new}
    BY <2>3, <2>4, <2>6 DEF SliceEvents
  <2>8. ASSUME NEW s \in slices
        PROVE  SliceEvents(s.slice)' = SliceEvents(s.slice)
    BY <2>3, <2>4, <2>5 DEF SliceEvents
  <2>9. SliceOf(q).slice = q.slice /\ SliceOf(q).workspace = q.workspace
    BY DEF SliceOf
  <2>10. q.workspace \in Workspaces /\ projected[q.workspace] # None
    BY <1>0, <1>2, SliceFacts, CompleteIsProjected DEF CreateTimeSlice
  <2>11. q.workspace \in Workspaces' /\ projected'[q.workspace] # None
    BY <2>10, PinStays, ProjectedStays, PlayerRequestFields
  <2>12. ASSUME NEW s \in slices'
         PROVE  /\ s.workspace \in Workspaces' /\ projected'[s.workspace] # None
                /\ \E e \in events' : SliceEvents(s.slice)' = {e}
    <3>1. CASE s \in slices
      BY <1>1, <2>3, <2>8, <3>1
    <3>2. CASE s = SliceOf(q)
      <4>1. s.slice = q.slice /\ s.workspace = q.workspace
        BY <2>9, <3>2
      <4>2. SliceEvents(s.slice)' = {new}
        BY <2>3, <2>4, <2>6, <4>1 DEF SliceEvents
      <4> QED
        BY <2>3, <2>11, <4>1, <4>2
    <3> QED
      BY <2>3, <3>1, <3>2
  <2> QED
    BY <2>12
<1>3. ASSUME slices' = slices,
             events' = events \/ \E new : new.contract # "SLICE_CREATE" /\ events' = events \cup {new}
      PROVE  \A s \in slices' : /\ s.workspace \in Workspaces' /\ projected'[s.workspace] # None
                                /\ \E e \in events' : SliceEvents(s.slice)' = {e}
  <2>1. \A s \in slices : SliceEvents(s.slice)' = SliceEvents(s.slice)
    BY <1>3 DEF SliceEvents
  <2>2. events \subseteq events'
    BY <1>3
  <2> QED
    BY <1>1, <1>3, <2>1, <2>2
<1>4. CASE PlayerRowsStay
  BY <1>3, <1>4 DEF PlayerRowsStay
<1>5. ASSUME NEW q \in PlayerRequest, CreateWorkspace(q)
      PROVE  /\ slices' = slices
             /\ \E new : new.contract # "SLICE_CREATE" /\ events' = events \cup {new}
  BY <1>5 DEF CreateWorkspace, Event
<1>6. ASSUME NEW w \in Workspace, MaterializeStandalone(w)
      PROVE  /\ slices' = slices
             /\ \E new : new.contract # "SLICE_CREATE" /\ events' = events \cup {new}
  BY <1>6 DEF MaterializeStandalone, Event
<1> QED
  BY <1>2, <1>3, <1>4, <1>5, <1>6, PlayerSteps

\* The whole invariant.
PlayerInv == RowsInv /\ ProjectionsInv /\ EventsInv /\ KeysApart

LEMMA PlayerStep ==
    ASSUME PlayerInv, [WorkspacesNext]_vars
    PROVE  PlayerInv'
<1>1. RowsInv' /\ ProjectionsInv' /\ KeysApart'
  BY RowsStep, ProjectionsStep, KeysApartStep DEF PlayerInv, RowsInv, StudioInv
<1>2. /\ \A e \in events' : e.contract = "WORKSPACE_CREATE" => CreationTold(e)'
      /\ \A e \in events' : e.contract = "SLICE_CREATE" => SliceTold(e)'
      /\ \A e \in events' : e.contract = "STANDALONE" => e.key = None
  BY ToldStep DEF PlayerInv
<1>3. \A s \in slices' : /\ s.workspace \in Workspaces' /\ projected'[s.workspace] # None
                         /\ \E e \in events' : SliceEvents(s.slice)' = {e}
  BY SlicesStep DEF PlayerInv
<1>4. EventsInv'
  BY <1>2, <1>3 DEF EventsInv
<1> QED
  BY <1>1, <1>4 DEF PlayerInv

LEMMA PlayerHolds == WorkspacesSpec => []PlayerInv
<1>1. WorkspacesInit => PlayerInv
  <2> SUFFICES ASSUME WorkspacesInit PROVE PlayerInv
    OBVIOUS
  <2>1. RowsInv
    BY RowsInitially
  <2>2. Workspaces = {}
    BY DEF WorkspacesInit, ImportInit, LifecycleInit, Workspaces
  <2>3. ProjectionsInv
    BY <2>2 DEF WorkspacesInit, ProjectionsInv, ProjectionReceipts
  <2>4. EventsInv /\ KeysApart
    BY DEF WorkspacesInit, EventsInv, KeysApart
  <2> QED
    BY <2>1, <2>3, <2>4 DEF PlayerInv
<1>2. PlayerInv /\ [WorkspacesNext]_vars => PlayerInv'
  BY PlayerStep
<1> QED
  BY <1>1, <1>2, PTL DEF WorkspacesSpec

-----------------------------------------------------------------------------
(* What the invariant says to whoever asks.                                *)

\* An unproven workspace is NOT_PROVEN and a proven one COMPLETE.
LEMMA Verified ==
    ASSUME PlayerInv, NEW w \in Workspaces
    PROVE  /\ projected[w] = None => Verify(w) = "NOT_PROVEN"
           /\ projected[w] # None => Verify(w) = "COMPLETE"
<1>1. PinnedWell(w) /\ w \in Workspace
  BY DEF PlayerInv, ProjectionsInv, Workspaces
<1>2. CASE projected[w] = None
  <2>1. ProjectionReceipts(w) = {}
    BY <1>1, <1>2 DEF PlayerInv, ProjectionsInv
  <2> QED
    BY <1>1, <1>2, <2>1 DEF Verify, PinnedWell
<1>3. CASE projected[w] # None
  <2>1. Proven(w)
    BY <1>1, <1>3 DEF PlayerInv, ProjectionsInv
  <2>2. PICK e \in events : ProjectionReceipts(w) = {e} /\ e.manifest = Pin(w).manifest
    BY <2>1 DEF Proven
  <2>3. Cardinality(ProjectionReceipts(w)) = 1
    BY <2>2, FS_Singleton
  <2>4. ReceiptProves(w)
    BY <2>2, <2>3 DEF ReceiptProves
  <2> QED
    BY <1>1, <1>3, <2>1, <2>4 DEF Verify, PinnedWell, Proven
<1> QED
  BY <1>2, <1>3

\* A definition of the project is PUBLISHED iff it has a publication.
LEMMA PublishedIsReceipted ==
    ASSUME PlayerInv, NEW p \in Project, NEW d \in InProject(p)
    PROVE  definitions[d].status = "PUBLISHED" <=> IsPublished(d)
  BY ChainParts DEF PlayerInv, RowsInv, StudioInv, ChainInv, Agrees

\* No workspace is ever diagnosed as an integrity conflict; what the Player
\* created is COMPLETE at once and for good, with Help and an exact pin; time
\* slices hang on COMPLETE workspaces, each with its one receipt.
THEOREM ProjectionsAlwaysProven == WorkspacesSpec => []ProjectionsProven
<1>1. PlayerInv => ProjectionsProven
  <2> SUFFICES ASSUME PlayerInv PROVE ProjectionsProven
    OBVIOUS
  <2>1. ASSUME NEW w \in Workspaces
        PROVE  /\ Verify(w) # "INTEGRITY_CONFLICT"
               /\ derived[w] # None =>
                     /\ Verify(w) = "COMPLETE"
                     /\ w \in helped
                     /\ Pin(w).definition \in InProject(Pin(w).project)
                     /\ IsPublished(Pin(w).definition)
    <3>1. PinnedWell(w) /\ w \in Workspace /\ Pin(w).project \in Project
      BY PinType DEF PlayerInv, ProjectionsInv, RowsInv
    <3>2. IsPublished(Pin(w).definition)
      BY <3>1, PublishedIsReceipted DEF PinnedWell
    <3>3. derived[w] # None => projected[w] # None /\ w \in helped
      BY <3>1 DEF PlayerInv, ProjectionsInv
    <3> QED
      BY <3>1, <3>2, <3>3, Verified DEF PinnedWell
  <2>2. ASSUME NEW s \in slices
        PROVE  /\ Verify(s.workspace) = "COMPLETE"
               /\ Cardinality({e \in events : /\ e.contract = "SLICE_CREATE"
                                              /\ e.request.slice = s.slice}) = 1
    <3>1. PICK e \in events : SliceEvents(s.slice) = {e}
      BY DEF PlayerInv, EventsInv
    <3>2. Cardinality(SliceEvents(s.slice)) = 1
      BY <3>1, FS_Singleton
    <3>3. Verify(s.workspace) = "COMPLETE"
      BY Verified DEF PlayerInv, EventsInv
    <3> QED
      BY <3>2, <3>3 DEF SliceEvents
  <2> QED
    BY <2>1, <2>2 DEF ProjectionsProven
<1> QED
  BY <1>1, PlayerHolds, PTL

\* A published definition of a project with a default workspace finds the
\* topology that creations ask for.
LEMMA TopologyHolds ==
    ASSUME PlayerInv, NEW p \in Project, NEW d \in InProject(p), IsPublished(d),
           DefaultsOf(p) # {}
    PROVE  Topology(p, d)
<1>0. /\ Agrees(p) /\ OneReceipt(p) /\ OneHead(p) /\ Grounded /\ PinsExact
      /\ publications \subseteq PublicationRow /\ defaults \subseteq Workspace
  BY ChainParts DEF PlayerInv, RowsInv, StudioInv, ChainInv, WorkspacesTypeOK, ImportTypeOK, TypeOK
<1>1. PICK w \in DefaultsOf(p) : TRUE
  OBVIOUS
<1>2. ASSUME NEW v \in DefaultsOf(p)
      PROVE  /\ v \in Workspace
             /\ workspaces[v].definition \in InProject(p)
             /\ definitions[workspaces[v].definition].status = "PUBLISHED"
             /\ definitions[workspaces[v].definition].manifest = workspaces[v].manifest
             /\ \E row \in InitialReceipts(p) :
                   row.workspace = v /\ row.definition = workspaces[v].definition
  BY <1>0 DEF DefaultsOf, PinsExact
<1>3. PICK row \in InitialReceipts(p) :
         row.workspace = w /\ row.definition = workspaces[w].definition
  BY <1>2
<1>4. ASSUME NEW y \in InitialReceipts(p) PROVE y = row
  BY <1>0 DEF OneReceipt, InitialReceipts
<1>5. InitialReceipts(p) = {row} /\ row \in publications
  BY <1>4 DEF InitialReceipts, PublicationsOf
<1>6. DefaultsOf(p) = {w}
  BY <1>2, <1>3, <1>4
<1>7. PublicationsOf(p) # {}
  BY <1>3 DEF InitialReceipts
<1>8. PICK c \in InProject(p) : Current(p) = {c}
  BY <1>0, <1>7 DEF OneHead
<1>9. definitions[c].status = "PUBLISHED" /\ IsPublished(c) /\ c \in Definition
  <2>1. definitions[c].current
    BY <1>8 DEF Current
  <2> QED
    BY <1>0, <2>1 DEF Agrees, InProject
<1>10. ASSUME NEW x \in InProject(p), IsPublished(x) PROVE HasOneReceipt(x)
  <2>1. PICK y \in publications : y.definition = x
    BY <1>10 DEF IsPublished
  <2>2. ASSUME NEW z \in publications, z.definition = x PROVE z \in PublicationsOf(p)
    <3>1. z.definition \in InProject(z.project)
      BY <1>0 DEF Grounded
    <3> QED
      BY <2>2, <3>1 DEF InProject, PublicationsOf
  <2>3. {z \in publications : z.definition = x} = {y}
    BY <1>0, <2>1, <2>2 DEF OneReceipt
  <2> QED
    BY <2>3, FS_Singleton DEF HasOneReceipt
<1>11. IsPublished(workspaces[w].definition)
  BY <1>0, <1>2 DEF Agrees
<1>12. \A x \in {workspaces[w].definition, c, d} : HasOneReceipt(x)
  BY <1>2, <1>9, <1>10, <1>11
<1> QED
  BY <1>2, <1>3, <1>5, <1>6, <1>8, <1>9, <1>12 DEF Topology

\* With its exact hash, free identities and Help provisioned, a creation on a
\* published definition is never refused for the state of the project, be the
\* definition current or superseded, from Studio or from a package.
THEOREM WorkspacesAlwaysCreatable == WorkspacesSpec => []AlwaysCreatable
<1>1. PlayerInv => AlwaysCreatable
  <2> SUFFICES ASSUME PlayerInv, NEW q \in PlayerRequest, q.contract = "WORKSPACE_CREATE",
                      catalog, q.definition \in InProject(q.project), IsPublished(q.definition),
                      definitions[q.definition].manifest = q.ifMatch, ~Occupied(q),
                      ~KeyTaken(q.key), DefaultsOf(q.project) # {}
               PROVE  CreateAnswer(q) = Accepted
    BY DEF AlwaysCreatable
  <2>0. q.project \in Project /\ q.definition \in Definition
    BY PlayerRequestFields
  <2>1. definitions[q.definition].status = "PUBLISHED"
    BY <2>0, PublishedIsReceipted
  <2>2. Topology(q.project, q.definition)
    BY <2>0, TopologyHolds
  <2>3. CreateReceipts(q) = {}
    BY DEF CreateReceipts, KeyTaken
  <2>4. SnapshotUsable(q.definition, q.ifMatch, q.workspace)
    <3>1. CASE snapshots[q.definition] = None
      BY <3>1 DEF SnapshotUsable
    <3>2. CASE snapshots[q.definition] # None
      <4>1. PICK v \in Workspaces : Pin(v).definition = q.definition /\ projected[v] # None
        BY <2>0, <3>2 DEF PlayerInv, ProjectionsInv
      <4>2. Proven(v) /\ PinnedWell(v)
        BY <4>1 DEF PlayerInv, ProjectionsInv, Workspaces
      <4>3. Pin(v).manifest = q.ifMatch /\ snapshots[q.definition] = q.ifMatch
        BY <4>1, <4>2 DEF PinnedWell, Proven
      <4>4. PICK e \in events : ProjectionReceipts(v) = {e} /\ e.manifest = Pin(v).manifest
        BY <4>2 DEF Proven
      <4>5. Cardinality(ProjectionReceipts(v)) = 1
        BY <4>4, FS_Singleton
      <4>6. ReceiptProves(v)
        BY <4>4, <4>5 DEF ReceiptProves
      <4>7. v # q.workspace
        BY DEF Occupied
      <4> QED
        BY <4>1, <4>3, <4>6, <4>7 DEF SnapshotUsable
    <3> QED
      BY <3>1, <3>2
  <2> QED
    BY <2>1, <2>2, <2>3, <2>4 DEF CreateAnswer
<1> QED
  BY <1>1, PlayerHolds, PTL

\* Only the receipt of the same request is answered with.
LEMMA ReplayNeedsReceipt ==
    ASSUME NEW q
    PROVE  /\ CreateAnswer(q) = Replayed => \E e \in events : e.key = q.key /\ e.request = q
           /\ SliceAnswer(q) = Replayed => \E e \in events : e.key = q.key /\ e.request = q
<1>1. CreateAnswer(q) = Replayed => CreateReplay(q) = Replayed
  BY DEF CreateAnswer, Replayed, Accepted
<1>2. CreateReplay(q) = Replayed => \E e \in CreateReceipts(q) : e.request = q
  BY DEF CreateReplay, Replayed
<1>3. SliceAnswer(q) = Replayed => SliceReplay(q) = Replayed
  BY DEF SliceAnswer, Replayed, Accepted
<1>4. SliceReplay(q) = Replayed => \E e \in SliceReceipts(q) : e.request = q
  BY DEF SliceReplay, Replayed
<1> QED
  BY <1>1, <1>2, <1>3, <1>4 DEF CreateReceipts, SliceReceipts

\* A creation that committed is answered with its receipt.
LEMMA CreationReplays ==
    ASSUME PlayerInv, NEW e \in events, e.contract = "WORKSPACE_CREATE"
    PROVE  CreateAnswer(e.request) = Replayed
<1>1. PICK q \in PlayerRequest : q = e.request
  BY DEF PlayerInv, EventsInv, CreationTold
<1>2. /\ q.contract = "WORKSPACE_CREATE" /\ e.key = q.key /\ e.workspace = q.workspace
      /\ derived[q.workspace] = [project |-> q.project, definition |-> q.definition,
                                 manifest |-> q.ifMatch, code |-> q.code]
      /\ catalog /\ DefaultsOf(q.project) # {}
  BY <1>1 DEF PlayerInv, EventsInv, CreationTold
<1>3. q.workspace \in Workspace /\ q.project \in Project /\ derived[q.workspace] # None
  <2>1. derived[q.workspace] \in DerivedRow
    BY <1>2, PlayerRequestFields DEF DerivedRow
  <2> QED
    BY <1>2, <2>1, DerivedAssumption, PlayerRequestFields
<1>4. /\ q.workspace \in Workspaces /\ workspaces[q.workspace] = None
      /\ projected[q.workspace] # None /\ q.workspace \in helped
  BY <1>3 DEF PlayerInv, RowsInv, WorkspacesTypeOK, ProjectionsInv, Workspaces
<1>5. Verify(q.workspace) = "COMPLETE" /\ PinnedWell(q.workspace)
  BY <1>4, Verified DEF PlayerInv, ProjectionsInv
<1>6. Pin(q.workspace) = [project |-> q.project, definition |-> q.definition,
                          manifest |-> q.ifMatch]
  BY <1>2, <1>4 DEF Pin
<1>7. /\ q.definition \in InProject(q.project)
      /\ definitions[q.definition].status = "PUBLISHED"
      /\ definitions[q.definition].manifest = q.ifMatch
  BY <1>5, <1>6 DEF PinnedWell
<1>8. Topology(q.project, q.definition)
  BY <1>2, <1>3, <1>7, PublishedIsReceipted, TopologyHolds
<1>9. e \in CreateReceipts(q) /\ e.request = q
  BY <1>1, <1>2 DEF CreateReceipts
<1>10. CreateReplay(q) = Replayed
  BY <1>2, <1>4, <1>5, <1>9 DEF CreateReplay
<1>11. CreateAnswer(q) = CreateReplay(q)
  BY <1>2, <1>7, <1>8, <1>9 DEF CreateAnswer
<1> QED
  BY <1>1, <1>10, <1>11

LEMMA SliceReplays ==
    ASSUME PlayerInv, NEW e \in events, e.contract = "SLICE_CREATE"
    PROVE  SliceAnswer(e.request) = Replayed
<1>1. PICK q \in PlayerRequest : q = e.request
  BY DEF PlayerInv, EventsInv, SliceTold
<1>2. /\ q.contract = "SLICE_CREATE" /\ e.key = q.key /\ e.workspace = q.workspace
      /\ q.workspace \in Workspaces /\ projected[q.workspace] # None
      /\ Pin(q.workspace).manifest = q.ifMatch /\ SliceOf(q) \in slices
  BY <1>1 DEF PlayerInv, EventsInv, SliceTold
<1>3. /\ Verify(q.workspace) = "COMPLETE"
      /\ definitions[Pin(q.workspace).definition].status = "PUBLISHED"
  BY <1>2, Verified DEF PlayerInv, ProjectionsInv, PinnedWell
<1>4. e \in SliceReceipts(q) /\ e.request = q
  BY <1>1, <1>2 DEF SliceReceipts
<1>5. SliceReplay(q) = Replayed
  BY <1>2, <1>4 DEF SliceReplay, SliceOf
<1>6. SliceAnswer(q) = SliceReplay(q)
  BY <1>2, <1>3, <1>4 DEF SliceAnswer
<1> QED
  BY <1>1, <1>5, <1>6

\* A committed Player request is answered with its receipt for ever, and no other
\* request under its key is ever accepted or given that receipt, Studio's included.
THEOREM PlayerReplaysAlwaysExact == WorkspacesSpec => []PlayerReplaysAreExact
<1>1. PlayerInv => PlayerReplaysAreExact
  <2> SUFFICES ASSUME PlayerInv PROVE PlayerReplaysAreExact
    OBVIOUS
  <2>1. ASSUME NEW e \in events, e.key # None
        PROVE  IF e.contract = "SLICE_CREATE" THEN SliceAnswer(e.request) = Replayed
               ELSE CreateAnswer(e.request) = Replayed
    <3>1. e.contract \in {"WORKSPACE_CREATE", "SLICE_CREATE"}
      BY <2>1 DEF PlayerInv, EventsInv, RowsInv, WorkspacesTypeOK, EventRow
    <3> QED
      BY <3>1, CreationReplays, SliceReplays
  <2>2. ASSUME NEW e \in events, e.key # None,
               NEW q \in PlayerRequest \ {e.request}, q.key = e.key
        PROVE  /\ SliceAnswer(q) \notin {Accepted, Replayed}
               /\ CreateAnswer(q) \notin {Accepted, Replayed}
    <3>1. \A x \in events : x.key = q.key => x.request # q
      BY <2>2 DEF PlayerInv, KeysApart
    <3>2. KeyTaken(q.key)
      BY <2>2 DEF KeyTaken
    <3> QED
      BY <3>1, <3>2, ReplayNeedsReceipt, CreateFacts, SliceFacts
  <2>3. \A x, y \in receipts \cup events : x.key = y.key /\ x.key # None => x = y
    BY DEF PlayerInv, KeysApart, RowsInv, StudioInv, KeyBindsOneIntent
  <2> QED
    BY <2>1, <2>2, <2>3 DEF PlayerReplaysAreExact
<1> QED
  BY <1>1, PlayerHolds, PTL

-----------------------------------------------------------------------------
(* Every committed receipt of an import stays evidence of what it brought,   *)
(* and the first workspaces have all of their Help.                          *)
THEOREM ImportsAlwaysWhole == WorkspacesSpec => []ImportsAreWhole
<1>1. ImportsAreTrue /\ BindingsAreWhole => ImportsAreWhole
  BY DEF ImportsAreWhole
<1> QED
  BY <1>1, ImportsAlwaysTrue, BindingsAlwaysWhole, PTL
=============================================================================
