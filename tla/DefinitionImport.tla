-------------------------- MODULE DefinitionImport --------------------------
(***************************************************************************)
(* Foundation 2.1 packages of one definition, imported into a Project next *)
(* to the lifecycle.                                                       *)
(*                                                                         *)
(* An attempt is made of separate transactions: the route reads a plan and *)
(* derives from it what the SERVICE principal may do; the service reads a  *)
(* plan of its own; the commit locks the Project, plans a third time and   *)
(* writes; and an attempt that did not commit appends a receipt after its  *)
(* rollback.  Anything may happen in between, a crash included.            *)
(*                                                                         *)
(* A package stands for its canonical payload, so that it is its checksum. *)
(***************************************************************************)
EXTENDS DefinitionLifecycle

CONSTANTS
    Package,      \* packages whose envelope, schema and manifest hash are valid
    Importer,     \* the HUMANs who may upload packages: those with DEFINITION_READ
    Capability,   \* Importer -> what else its role lets the HUMAN do, of Elevated
    Binding,      \* UIHelpBinding UUIDs
    BindingsOf    \* Manifest -> the binding UUIDs it names

Elevated == {"DRAFT_CREATE", "DEFINITION_VALIDATE", "DEFINITION_PUBLISH"}

Action == {"REUSE_EXACT", "CREATE_DRAFT", "BOOTSTRAP_PUBLISHED"}

\* row is the exported definition, its predecessor named by supersedesCode.
\* Lifecycle stamps of a foreign package are those of another installation.
\* workspace and default come with the request that uploads the package.
PackageType ==
    [id : Key, definition : Definition, row : DefinitionRow,
     supersedesCode : Name \cup {None}, foreign : BOOLEAN,
     workspace : Workspace, default : BOOLEAN]

ASSUME PackageAssumption ==
    /\ Package \subseteq PackageType
    /\ Package \subseteq Origin
    /\ \A x, y \in Package : x.id = y.id => x = y
    /\ \A x \in Package : x.row.status = "DRAFT" => ~x.row.current
    /\ BindingsOf \in [Manifest -> SUBSET Binding]
    /\ None \notin Action

\* An EDITOR creates drafts, a PUBLISHER validates and publishes; permissions
\* that span both roles are denied everything.
ASSUME RoleAssumption ==
    Capability \in [Importer -> SUBSET {"DRAFT_CREATE"} \cup
                                SUBSET {"DEFINITION_VALIDATE", "DEFINITION_PUBLISH"}]

ASSUME PackageKeyAssumption ==
    \A x \in Package, r \in Request : x.id # r.key

VARIABLES
    imports,   \* ImportRun rows of PROJECT_DEFINITION scope
    attempt,   \* Package -> the attempt under way, or None
    bindings,  \* UIHelpBinding UUID -> its workspace, scope STUDIO
    defaults,  \* the workspaces with is_default
    derived    \* Workspace -> its row when the Player created it, or None

importvars == <<imports, attempt, bindings, defaults>>

\* A receipt of an attempt; rejected ones carry a UUID of their own, so that
\* equal ones are one element here.
ImportRun == [package : Package, status : {"COMMITTED", "REJECTED", "FAILED"},
              action : Action \cup {None}, definition : Definition \cup {None},
              importer : Importer]

Attempt == [step : {"admitted", "previewed", "refused"}, importer : Importer,
            granted : Action \cup {None}, planned : Action \cup {None},
            status : {"REJECTED", "FAILED", None}]

ImportTypeOK ==
    /\ TypeOK
    /\ imports \subseteq ImportRun
    /\ attempt \in [Package -> Attempt \cup {None}]
    /\ bindings \in [Binding -> Workspace \cup {None}]
    /\ defaults \subseteq Workspace

-----------------------------------------------------------------------------
(* The plan: what an import would do to the rows as they are now.          *)

Conflict == "CONFLICT"

\* The rows that share an identity with the package.
Persisted(x) ==
    {d \in Definition : Exists(d) /\
        \/ d = x.definition
        \/ /\ definitions[d].project = x.row.project
           /\ definitions[d].code = x.row.code \/ definitions[d].version = x.row.version}

Parent(x) == {d \in InProject(x.row.project) : definitions[d].code = x.supersedesCode}

SupersedesCode(d) ==
    IF definitions[d].supersedes = None THEN None
    ELSE definitions[definitions[d].supersedes].code

\* The export of the stored row equals the package, stamps included.
ExportEquals(x) ==
    LET row == definitions[x.definition] IN
    /\ [row EXCEPT !.supersedes = None] = [x.row EXCEPT !.supersedes = None]
    /\ SupersedesCode(x.definition) = x.supersedesCode
    /\ x.row.status # "DRAFT" => ~x.foreign

Plan(x) ==
    IF Persisted(x) # {}
    THEN IF Persisted(x) = {x.definition} /\ ExportEquals(x) THEN "REUSE_EXACT"
         ELSE Conflict
    ELSE IF x.row.status = "DRAFT" THEN "CREATE_DRAFT"
    ELSE IF x.row.status = "PUBLISHED" /\ x.row.current THEN "BOOTSTRAP_PUBLISHED"
    ELSE Conflict

\* What the route asks of the HUMAN for the plan it reads.
HumanCapabilities(action) ==
    CASE action = "CREATE_DRAFT" -> {"DRAFT_CREATE"}
      [] action = "BOOTSTRAP_PUBLISHED" -> {"DEFINITION_VALIDATE", "DEFINITION_PUBLISH"}
      [] OTHER -> {}

\* What the SERVICE principal gets for a plan, and what carrying it out takes: a
\* bootstrap creates a draft as well, which no HUMAN who publishes may do.
ServiceCapabilities(action) ==
    CASE action = "CREATE_DRAFT" -> {"DRAFT_CREATE"}
      [] action = "BOOTSTRAP_PUBLISHED" -> Elevated
      [] OTHER -> {}

-----------------------------------------------------------------------------
(* Committing a plan.                                                      *)

\* Mutant: taken UUIDs are bound again.
BindingsUnchecked(m) == m \in Manifest

BindingsFree(m) == \A b \in BindingsOf[m] : bindings[b] = None

\* bootstrap_initial_project_definition on the draft just created.
BootstrapAllowed(x) ==
    LET p == x.row.project IN
    /\ x.row.manifest \in ValidManifest
    /\ PublicationsOf(p) = {}
    /\ WorkspacesOf(p) = {}
    /\ Current(p) = {}
    /\ workspaces[x.workspace] = None /\ derived[x.workspace] = None
    /\ BindingsFree(x.row.manifest)

AlreadyImported(x) == \E run \in imports : run.package = x /\ run.status = "COMMITTED"

\* Mutant: the plan of the locked rows is not compared with the preview.
CommitOutcomeUnplanned(x) ==
    IF attempt[x].planned = "BOOTSTRAP_PUBLISHED" /\ ~BootstrapAllowed(x) THEN "FAILED"
    ELSE IF AlreadyImported(x) THEN "REJECTED"
    ELSE "COMMITTED"

\* Package errors reject an attempt; every other exception fails it.
CommitOutcome(x) ==
    LET action == Plan(x)
        granted == attempt[x].granted
        capable == ServiceCapabilities(action) \subseteq ServiceCapabilities(granted)
    IN  IF action # attempt[x].planned THEN "REJECTED"
        ELSE IF granted = "BOOTSTRAP_PUBLISHED" /\ action # granted THEN "REJECTED"
        ELSE IF action # "REUSE_EXACT" /\ x.supersedesCode # None /\ Parent(x) = {}
             THEN "REJECTED"
        ELSE IF ~capable THEN "FAILED"
        ELSE IF action = "BOOTSTRAP_PUBLISHED" /\ ~BootstrapAllowed(x) THEN "FAILED"
        ELSE IF AlreadyImported(x) THEN "REJECTED"
        ELSE "COMMITTED"

ImportedDraft(x) ==
    [x.row EXCEPT !.status = "DRAFT", !.current = FALSE,
        !.supersedes = IF Parent(x) = {} THEN None ELSE CHOOSE d \in Parent(x) : TRUE]

CommitRows(x) ==
    CASE attempt[x].planned = "REUSE_EXACT" ->
           UNCHANGED <<dbvars, bindings, defaults>>
      [] attempt[x].planned = "CREATE_DRAFT" ->
           /\ definitions' = [definitions EXCEPT ![x.definition] = ImportedDraft(x)]
           /\ UNCHANGED <<projects, receipts, publications, workspaces, bindings, defaults>>
      [] attempt[x].planned = "BOOTSTRAP_PUBLISHED" ->
           LET row == [ImportedDraft(x) EXCEPT !.status = "PUBLISHED", !.current = TRUE] IN
           /\ definitions' = [definitions EXCEPT ![x.definition] = row]
           /\ publications' = publications \cup
                 {[project |-> row.project, definition |-> x.definition, key |-> x.id,
                   request |-> x, workspace |-> x.workspace]}
           /\ workspaces' = [workspaces EXCEPT ![x.workspace] =
                 [project |-> row.project, definition |-> x.definition,
                  manifest |-> row.manifest]]
           /\ bindings' = [b \in Binding |-> IF b \in BindingsOf[row.manifest]
                                             THEN x.workspace ELSE bindings[b]]
           /\ defaults' = IF x.default THEN defaults \cup {x.workspace} ELSE defaults
           /\ UNCHANGED <<projects, receipts>>

-----------------------------------------------------------------------------
(* The attempt.                                                            *)

\* A package with stamps of this installation was exported from an existing row.
\* The route: the HUMAN must hold what it asks for the plan it reads.  A conflict
\* grants nothing, and the attempt goes on to be recorded.
AdmitImport(x, h) ==
    /\ projects[x.row.project] # None
    /\ x.row.status # "DRAFT" /\ ~x.foreign => Exists(x.definition)
    /\ attempt[x] = None
    /\ HumanCapabilities(Plan(x)) \subseteq Capability[h]
    /\ attempt' = [attempt EXCEPT ![x] =
          [step |-> "admitted", importer |-> h,
           granted |-> IF Plan(x) = Conflict THEN None ELSE Plan(x),
           planned |-> None, status |-> None]]
    /\ UNCHANGED <<dbvars, imports, bindings, defaults>>

PreviewImport(x) ==
    /\ attempt[x] # None /\ attempt[x].step = "admitted"
    /\ attempt' = [attempt EXCEPT ![x] =
          IF Plan(x) = Conflict THEN [@ EXCEPT !.step = "refused", !.status = "REJECTED"]
          ELSE [@ EXCEPT !.step = "previewed", !.planned = Plan(x)]]
    /\ UNCHANGED <<dbvars, imports, bindings, defaults>>

CommitImport(x) ==
    /\ attempt[x] # None /\ attempt[x].step = "previewed"
    /\ CommitOutcome(x) = "COMMITTED"
    /\ CommitRows(x)
    /\ imports' = imports \cup {[package |-> x, status |-> "COMMITTED",
                                 action |-> attempt[x].planned, definition |-> x.definition,
                                 importer |-> attempt[x].importer]}
    /\ attempt' = [attempt EXCEPT ![x] = None]

\* The transaction rolls back, and with it whatever it wrote.
RollBackImport(x) ==
    /\ attempt[x] # None /\ attempt[x].step = "previewed"
    /\ CommitOutcome(x) # "COMMITTED"
    /\ attempt' = [attempt EXCEPT ![x].step = "refused", ![x].status = CommitOutcome(x)]
    /\ UNCHANGED <<dbvars, imports, bindings, defaults>>

\* The receipt names a definition only when the identities of the package lead
\* to one row of its project.
RecordUnsuccessful(x) ==
    /\ attempt[x] # None /\ attempt[x].step = "refused"
    /\ LET here == Persisted(x) \cap InProject(x.row.project) IN
       imports' = imports \cup
          {[package |-> x, status |-> attempt[x].status, action |-> attempt[x].planned,
            definition |-> IF Cardinality(here) = 1 THEN CHOOSE d \in here : TRUE
                           ELSE None,
            importer |-> attempt[x].importer]}
    /\ attempt' = [attempt EXCEPT ![x] = None]
    /\ UNCHANGED <<dbvars, bindings, defaults>>

\* The worker dies outside of a transaction: the attempt leaves no receipt.
AbandonImport(x) ==
    /\ attempt[x] # None
    /\ attempt' = [attempt EXCEPT ![x] = None]
    /\ UNCHANGED <<dbvars, imports, bindings, defaults>>

ImportStep(x) ==
    \/ \E h \in Importer : AdmitImport(x, h)
    \/ PreviewImport(x)
    \/ CommitImport(x)
    \/ RollBackImport(x)
    \/ RecordUnsuccessful(x)
    \/ AbandonImport(x)

\* A lifecycle operation next to imports: the first publication also inserts
\* the manifest's Help bindings under the UUIDs that the manifest names.
OperationWithBindings(r) ==
    /\ Operation(r)
    /\ IF r.op = "INITIAL"
       THEN LET m == definitions[r.target].manifest IN
            /\ derived[r.workspace] = None
            /\ BindingsFree(m)
            /\ bindings' = [b \in Binding |-> IF b \in BindingsOf[m] THEN r.workspace
                                              ELSE bindings[b]]
            /\ defaults' = defaults \cup {r.workspace}
       ELSE UNCHANGED <<bindings, defaults>>
    /\ UNCHANGED <<imports, attempt>>

ImportInit ==
    /\ LifecycleInit
    /\ imports = {}
    /\ attempt = [x \in Package |-> None]
    /\ bindings = [b \in Binding |-> None]
    /\ defaults = {}

-----------------------------------------------------------------------------
\* A COMMITTED receipt is unique for its package, and is evidence: the row it
\* names has the identity of the package, a draft was brought by an editor and a
\* publication by a publisher, whatever the plan was when the route let the HUMAN
\* in, and what it published is published with the package's bytes, has that
\* package as the publication's intent, and was the first publication of its
\* project.
ImportsAreTrue ==
    \A run \in imports :
        run.status = "COMMITTED" =>
          LET x == run.package IN
          /\ \A other \in imports :
                other.package = x /\ other.status = "COMMITTED" => other = run
          /\ HumanCapabilities(run.action) \subseteq Capability[run.importer]
          /\ x.definition \in InProject(x.row.project)
          /\ definitions[x.definition].code = x.row.code
          /\ definitions[x.definition].version = x.row.version
          /\ run.action = "BOOTSTRAP_PUBLISHED" =>
                /\ definitions[x.definition].manifest = x.row.manifest
                /\ InitialReceipts(x.row.project) =
                      {row \in publications : row.definition = x.definition}
          /\ (run.action = "REUSE_EXACT" /\ x.row.status # "DRAFT") =>
                definitions[x.definition].manifest = x.row.manifest

\* Every first workspace has all the Help bindings of the manifest it pins and
\* no others, whichever projects share binding UUIDs: a publication that finds
\* one of them taken leaves nothing behind.
BindingsAreWhole ==
    \A w \in Workspace :
        {b \in Binding : bindings[b] = w} =
           IF workspaces[w] = None THEN {} ELSE BindingsOf[workspaces[w].manifest]

\* An import either says truly what it left or leaves nothing, Help included.
ImportsAreWhole == ImportsAreTrue /\ BindingsAreWhole
=============================================================================
