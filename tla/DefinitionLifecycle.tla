------------------------- MODULE DefinitionLifecycle -------------------------
(***************************************************************************)
(* The persisted rows of Foundation Studio and the operations on them, one *)
(* atomic step per committed operation.                                    *)
(*                                                                         *)
(* Five audited HUMAN writes (bootstrap, create, clone, save, validate)    *)
(* and two publication operations (initial, successor) move typed          *)
(* ProjectDefinitionVersion rows along DRAFT -> VALIDATED -> PUBLISHED.    *)
(* StudioGateway.tla runs the same checks and the same writes as           *)
(* interleaved transactions and implements this specification.             *)
(*                                                                         *)
(* A manifest stands for its exact canonical bytes, so that it is its own  *)
(* SHA-256 and its own ETag: equal hashes mean equal manifests.            *)
(***************************************************************************)
EXTENDS Naturals, FiniteSets

CONSTANTS
    Project,        \* Project UUIDs
    Definition,     \* ProjectDefinitionVersion UUIDs
    Workspace,      \* ProjectWorkspace UUIDs
    Manifest,       \* typed manifests that parse
    ValidManifest,  \* those the FD01 policy reports valid
    Name,           \* codes and versions
    Actor,          \* persisted HUMAN principals
    Key,            \* operation UUIDs (the Idempotency-Key header)
    Request,        \* the requests that clients may send
    Origin,         \* what publications may come from: requests, and packages
    None            \* SQL NULL, or no row

WriteOp == {"BOOTSTRAP_DRAFT", "CREATE_DRAFT", "CLONE_DRAFT", "SAVE_DRAFT",
            "VALIDATE_DEFINITION"}
PublicationOp == {"INITIAL", "SUCCESSOR"}

\* Operations that insert a definition row, and those that need one.
InsertOp == {"BOOTSTRAP_DRAFT", "CREATE_DRAFT", "CLONE_DRAFT"}

(***************************************************************************)
(* One HTTP intent.  Its key apart, the record is what the request SHA-256 *)
(* covers: two requests have the same identity iff they are equal.         *)
(***************************************************************************)
RequestType ==
    [op : WriteOp \cup PublicationOp, key : Key, actor : Actor,
     project : Project, projectCode : Name \cup {None},
     target : Definition, source : Definition \cup {None},
     ifMatch : Manifest \cup {None}, manifest : Manifest \cup {None},
     code : Name \cup {None}, version : Name \cup {None},
     workspace : Workspace \cup {None}]

\* The envelope each route admits: which fields are present.
EnvelopeAdmitted(r) ==
    /\ r.op \in InsertOp => r.code # None /\ r.version # None
    /\ r.op = "BOOTSTRAP_DRAFT" => r.projectCode # None
    /\ r.op \in {"BOOTSTRAP_DRAFT", "CREATE_DRAFT", "SAVE_DRAFT"} => r.manifest # None
    /\ r.op = "CLONE_DRAFT" => r.source # None
    /\ r.op \notin {"BOOTSTRAP_DRAFT", "CREATE_DRAFT"} => r.ifMatch # None
    /\ (r.op = "INITIAL") <=> (r.workspace # None)

ASSUME ManifestAssumption == ValidManifest \subseteq Manifest
ASSUME RequestAssumption ==
    /\ Request \subseteq RequestType
    /\ \A r \in Request : EnvelopeAdmitted(r)
    /\ Request \subseteq Origin

DefinitionRow ==
    [project : Project, code : Name, version : Name,
     status : {"DRAFT", "VALIDATED", "PUBLISHED"}, manifest : Manifest,
     supersedes : Definition \cup {None}, current : BOOLEAN]
WorkspaceRow == [project : Project, definition : Definition, manifest : Manifest]
ReceiptRow == [key : Key, request : Request, after : DefinitionRow]
PublicationRow ==
    [project : Project, definition : Definition, key : Key,
     request : Origin, workspace : Workspace \cup {None}]

ASSUME NoneAssumption ==
    /\ None \notin Project /\ None \notin Definition /\ None \notin Workspace
    /\ None \notin Manifest /\ None \notin Name
    /\ None \notin DefinitionRow /\ None \notin WorkspaceRow

VARIABLES
    projects,      \* Project -> its unique code, None when there is no row
    definitions,   \* Definition -> row or None
    receipts,      \* AuditEvent rows of HUMAN writes; the key is the primary key
    publications,  \* ProjectPublication rows
    workspaces     \* Workspace -> pin or None

dbvars == <<projects, definitions, receipts, publications, workspaces>>

TypeOK ==
    /\ projects \in [Project -> Name \cup {None}]
    /\ definitions \in [Definition -> DefinitionRow \cup {None}]
    /\ receipts \subseteq ReceiptRow
    /\ publications \subseteq PublicationRow
    /\ workspaces \in [Workspace -> WorkspaceRow \cup {None}]

-----------------------------------------------------------------------------
(* Reading the rows.                                                       *)

Exists(d) == definitions[d] # None
InProject(p) == {d \in Definition : Exists(d) /\ definitions[d].project = p}
PublicationsOf(p) == {row \in publications : row.project = p}
InitialReceipts(p) == {row \in PublicationsOf(p) : row.workspace # None}
WorkspacesOf(p) == {w \in Workspace : workspaces[w] # None /\ workspaces[w].project = p}
Current(p) == {d \in InProject(p) : definitions[d].current}
IsPublished(d) == \E row \in publications : row.definition = d

\* The request names an existing Project or definition, and its project is the
\* one the gateway reads from that row.
Resolves(r) ==
    CASE r.op = "BOOTSTRAP_DRAFT" -> TRUE
      [] r.op = "CREATE_DRAFT"    -> projects[r.project] # None
      [] r.op = "CLONE_DRAFT"     -> r.source \in InProject(r.project)
      [] OTHER                    -> r.target \in InProject(r.project)

\* Mutant: keys looked up per definition and not globally or per project.
BoundRequestsOfTarget(r) ==
    {e.request : e \in {e \in receipts \cup publications :
                          e.key = r.key /\ e.request.target = r.target}}

(***************************************************************************)
(* An operation key is global for HUMAN writes, which use it as the        *)
(* primary key of their AuditEvent, and scoped to the project for          *)
(* publications, which keep it in ProjectPublication.code.                 *)
(***************************************************************************)
BoundRequests(r) ==
    IF r.op \in WriteOp
    THEN {row.request : row \in {e \in receipts : e.key = r.key}}
    ELSE {row.request : row \in {e \in PublicationsOf(r.project) : e.key = r.key}}

-----------------------------------------------------------------------------
(* What each operation refuses, in the order in which the code looks.      *)

Accepted == "ACCEPTED"

DefinitionIdentityConflict(r) ==
    IF Exists(r.target) THEN "DEFINITION_ID_CONFLICT"
    ELSE IF \E d \in InProject(r.project) : definitions[d].code = r.code
         THEN "DEFINITION_CODE_CONFLICT"
    ELSE IF \E d \in InProject(r.project) : definitions[d].version = r.version
         THEN "DEFINITION_VERSION_CONFLICT"
    ELSE Accepted

\* The scope group's name is derived from the Project UUID: it exists exactly
\* when the Project does.
FirstProjectIdentityConflict(r) ==
    IF projects[r.project] # None THEN "PROJECT_ID_CONFLICT"
    ELSE IF \E p \in Project : projects[p] = r.projectCode THEN "PROJECT_CODE_CONFLICT"
    ELSE IF Exists(r.target) THEN "DEFINITION_ID_CONFLICT"
    ELSE Accepted

CloneRefusal(r) ==
    IF definitions[r.source].manifest # r.ifMatch THEN "CLONE_SOURCE_STALE"
    ELSE DefinitionIdentityConflict(r)

\* Mutant: any status may be saved.
SaveRefusalAnyStatus(r) ==
    IF definitions[r.target].manifest # r.ifMatch THEN "DRAFT_STALE" ELSE Accepted

SaveRefusal(r) ==
    IF definitions[r.target].status # "DRAFT" THEN "DEFINITION_NOT_DRAFT"
    ELSE IF definitions[r.target].manifest # r.ifMatch THEN "DRAFT_STALE"
    ELSE Accepted

\* Mutant: the If-Match of a validation is not compared.
ValidateRefusalUnmatched(r) ==
    IF definitions[r.target].status = "VALIDATED" THEN "DEFINITION_ALREADY_VALIDATED"
    ELSE IF definitions[r.target].status # "DRAFT" THEN "DEFINITION_NOT_DRAFT"
    ELSE IF definitions[r.target].manifest \notin ValidManifest
         THEN "DEFINITION_VALIDATION_FAILED"
    ELSE Accepted

ValidateRefusal(r) ==
    IF definitions[r.target].status = "VALIDATED" THEN "DEFINITION_ALREADY_VALIDATED"
    ELSE IF definitions[r.target].status # "DRAFT" THEN "DEFINITION_NOT_DRAFT"
    ELSE IF definitions[r.target].manifest # r.ifMatch THEN "DRAFT_STALE"
    ELSE IF definitions[r.target].manifest \notin ValidManifest
         THEN "DEFINITION_VALIDATION_FAILED"
    ELSE Accepted

\* Mutant: an already validated definition is published without validation.
InitialLifecycleAllowsValidated(r) ==
    /\ definitions[r.target].status \in {"DRAFT", "VALIDATED"}
    /\ definitions[r.target].manifest \in ValidManifest
    /\ Current(r.project) \ {r.target} = {}

\* validate_project_definition and then publish_project_definition, in the one
\* transaction of bootstrap_initial_project_definition.
InitialLifecycleAllows(r) ==
    /\ definitions[r.target].status = "DRAFT"
    /\ definitions[r.target].manifest \in ValidManifest
    /\ Current(r.project) \ {r.target} = {}

InitialRefusal(r) ==
    IF definitions[r.target].manifest # r.ifMatch THEN "PUBLICATION_STALE"
    ELSE IF IsPublished(r.target) THEN "PUBLICATION_ALREADY_COMMITTED"
    ELSE IF PublicationsOf(r.project) # {} THEN "PUBLICATION_TARGET_STATE_CONFLICT"
    ELSE IF WorkspacesOf(r.project) # {} THEN "PUBLICATION_WORKSPACE_CONFLICT"
    ELSE IF workspaces[r.workspace] # None THEN "PUBLICATION_ID_CONFLICT"
    ELSE IF ~InitialLifecycleAllows(r) THEN "PUBLICATION_TARGET_STATE_CONFLICT"
    ELSE Accepted

\* Mutant: any published predecessor will do, not only the current one.
SuccessorLifecycleAllowsAny(r) ==
    /\ definitions[r.target].status = "VALIDATED"
    /\ PublicationsOf(r.project) # {}
    /\ Cardinality(InitialReceipts(r.project)) = 1
    /\ \E d \in InProject(r.project) \ {r.target} :
          /\ definitions[d].status = "PUBLISHED"
          /\ definitions[r.target].supersedes = d

\* publish_project_definition without a workspace: a VALIDATED target in a
\* project whose one initial receipt exists, superseding the exact current
\* published definition.
SuccessorLifecycleAllows(r) ==
    /\ definitions[r.target].status = "VALIDATED"
    /\ PublicationsOf(r.project) # {}
    /\ Cardinality(InitialReceipts(r.project)) = 1
    /\ \E d \in Current(r.project) \ {r.target} :
          /\ definitions[d].status = "PUBLISHED"
          /\ definitions[r.target].supersedes = d

SuccessorRefusal(r) ==
    IF definitions[r.target].manifest # r.ifMatch THEN "PUBLICATION_STALE"
    ELSE IF IsPublished(r.target) THEN "PUBLICATION_ALREADY_COMMITTED"
    ELSE IF ~SuccessorLifecycleAllows(r) THEN "PUBLICATION_TARGET_STATE_CONFLICT"
    ELSE Accepted

Refusal(r) ==
    CASE r.op = "BOOTSTRAP_DRAFT"     -> FirstProjectIdentityConflict(r)
      [] r.op = "CREATE_DRAFT"        -> DefinitionIdentityConflict(r)
      [] r.op = "CLONE_DRAFT"         -> CloneRefusal(r)
      [] r.op = "SAVE_DRAFT"          -> SaveRefusal(r)
      [] r.op = "VALIDATE_DEFINITION" -> ValidateRefusal(r)
      [] r.op = "INITIAL"             -> InitialRefusal(r)
      [] r.op = "SUCCESSOR"           -> SuccessorRefusal(r)

-----------------------------------------------------------------------------
(* What an accepted operation writes.                                      *)

DraftRow(r, manifest, supersedes) ==
    [project |-> r.project, code |-> r.code, version |-> r.version,
     status |-> "DRAFT", manifest |-> manifest, supersedes |-> supersedes,
     current |-> FALSE]

\* The row the target has once the operation has committed.
AfterRow(r) ==
    CASE r.op \in {"BOOTSTRAP_DRAFT", "CREATE_DRAFT"} -> DraftRow(r, r.manifest, None)
      [] r.op = "CLONE_DRAFT" -> DraftRow(r, definitions[r.source].manifest, r.source)
      [] r.op = "SAVE_DRAFT" -> [definitions[r.target] EXCEPT !.manifest = r.manifest]
      [] r.op = "VALIDATE_DEFINITION" ->
            [definitions[r.target] EXCEPT !.status = "VALIDATED"]
      [] r.op \in PublicationOp ->
            [definitions[r.target] EXCEPT !.status = "PUBLISHED", !.current = TRUE]

\* Mutants: the flag is set to NULL; the flag is kept.
DemotedToNull(p, d) ==
    IF Exists(d) /\ definitions[d].project = p
    THEN [definitions[d] EXCEPT !.current = None]
    ELSE definitions[d]
NotDemoted(p, d) == definitions[d]

\* The UPDATE that a publication runs first: every other current row of the
\* project loses the flag.
Demoted(p, d) ==
    IF Exists(d) /\ definitions[d].project = p
    THEN [definitions[d] EXCEPT !.current = FALSE]
    ELSE definitions[d]

HumanWrite(r, row) ==
    /\ definitions' = [definitions EXCEPT ![r.target] = row]
    /\ receipts' = receipts \cup {[key |-> r.key, request |-> r, after |-> row]}
    /\ projects' = IF r.op = "BOOTSTRAP_DRAFT"
                   THEN [projects EXCEPT ![r.project] = r.projectCode]
                   ELSE projects
    /\ UNCHANGED <<publications, workspaces>>

\* Mutant: every publication moves the pins of its project to the new definition.
PublishMovingPins(r, row) ==
    /\ definitions' = [d \in Definition |-> IF d = r.target THEN row
                                            ELSE Demoted(r.project, d)]
    /\ publications' = publications \cup
          {[project |-> r.project, definition |-> r.target, key |-> r.key,
            request |-> r, workspace |-> r.workspace]}
    /\ workspaces' =
          [w \in Workspace |->
             IF w = r.workspace \/ w \in WorkspacesOf(r.project)
             THEN [project |-> r.project, definition |-> r.target,
                   manifest |-> row.manifest]
             ELSE workspaces[w]]
    /\ UNCHANGED <<projects, receipts>>

Publish(r, row) ==
    /\ definitions' = [d \in Definition |-> IF d = r.target THEN row
                                            ELSE Demoted(r.project, d)]
    /\ publications' = publications \cup
          {[project |-> r.project, definition |-> r.target, key |-> r.key,
            request |-> r, workspace |-> r.workspace]}
    /\ workspaces' =
          IF r.op = "INITIAL"
          THEN [workspaces EXCEPT ![r.workspace] =
                  [project |-> r.project, definition |-> r.target,
                   manifest |-> row.manifest]]
          ELSE workspaces
    /\ UNCHANGED <<projects, receipts>>

-----------------------------------------------------------------------------
Allowed(r) == Resolves(r) /\ BoundRequests(r) = {} /\ Refusal(r) = Accepted

BootstrapDraft(r) == r.op = "BOOTSTRAP_DRAFT" /\ Allowed(r) /\ HumanWrite(r, AfterRow(r))
CreateDraft(r) == r.op = "CREATE_DRAFT" /\ Allowed(r) /\ HumanWrite(r, AfterRow(r))
CloneDraft(r) == r.op = "CLONE_DRAFT" /\ Allowed(r) /\ HumanWrite(r, AfterRow(r))
SaveDraft(r) == r.op = "SAVE_DRAFT" /\ Allowed(r) /\ HumanWrite(r, AfterRow(r))
ValidateDefinition(r) ==
    r.op = "VALIDATE_DEFINITION" /\ Allowed(r) /\ HumanWrite(r, AfterRow(r))
PublishInitial(r) == r.op = "INITIAL" /\ Allowed(r) /\ Publish(r, AfterRow(r))
PublishSuccessor(r) == r.op = "SUCCESSOR" /\ Allowed(r) /\ Publish(r, AfterRow(r))

Operation(r) ==
    \/ BootstrapDraft(r)
    \/ CreateDraft(r)
    \/ CloneDraft(r)
    \/ SaveDraft(r)
    \/ ValidateDefinition(r)
    \/ PublishInitial(r)
    \/ PublishSuccessor(r)

LifecycleInit ==
    /\ projects = [p \in Project |-> None]
    /\ definitions = [d \in Definition |-> None]
    /\ receipts = {}
    /\ publications = {}
    /\ workspaces = [w \in Workspace |-> None]

LifecycleNext == \E r \in Request : Operation(r)

LifecycleSpec == LifecycleInit /\ [][LifecycleNext]_dbvars

-----------------------------------------------------------------------------
(* Safety.                                                                 *)

\* The publications of a project and its definition rows tell one story: a
\* definition is PUBLISHED iff exactly one receipt says so; a project with
\* publications has exactly one initial receipt and one current definition; the
\* others each supersede a published definition, no two the same one, and
\* nothing published supersedes the current one.
PublishedChain ==
    \A p \in Project :
        /\ \A d \in InProject(p) :
              /\ definitions[d].status = "PUBLISHED" <=> IsPublished(d)
              /\ definitions[d].current => definitions[d].status = "PUBLISHED"
        /\ \A x, y \in PublicationsOf(p) :
              /\ x.definition = y.definition => x = y
              /\ x.workspace # None /\ y.workspace # None => x = y
              /\ x.workspace = None =>
                    /\ definitions[x.definition].supersedes \in InProject(p)
                    /\ definitions[definitions[x.definition].supersedes].status = "PUBLISHED"
                    /\ ~definitions[definitions[x.definition].supersedes].current
              /\ /\ x.workspace = None /\ y.workspace = None
                 /\ definitions[x.definition].supersedes = definitions[y.definition].supersedes
                 => x = y
        /\ PublicationsOf(p) # {} =>
              /\ InitialReceipts(p) # {}
              /\ \E d \in InProject(p) : Current(p) = {d}

\* A workspace pins the exact bytes of a definition of its own project that is
\* published, and it is the initial workspace of that definition's receipt.
PinsExact ==
    \A w \in Workspace : workspaces[w] # None =>
        LET pin == workspaces[w] IN
        /\ pin.definition \in InProject(pin.project)
        /\ definitions[pin.definition].status = "PUBLISHED"
        /\ definitions[pin.definition].manifest = pin.manifest
        /\ \E row \in InitialReceipts(pin.project) :
              row.workspace = w /\ row.definition = pin.definition

\* Whoever moved a definition out of DRAFT had exactly its bytes in the If-Match
\* of the request, and the policy found them valid: no version is validated or
\* published that its actor had not seen.
ReviewedBytes ==
    \A d \in Definition : Exists(d) /\ definitions[d].status # "DRAFT" =>
        /\ definitions[d].manifest \in ValidManifest
        /\ \/ \E row \in receipts :
                 /\ row.request.op = "VALIDATE_DEFINITION"
                 /\ row.request.target = d
                 /\ row.request.ifMatch = definitions[d].manifest
           \/ \E row \in publications :
                 /\ row.request.op = "INITIAL"
                 /\ row.definition = d
                 /\ row.request.ifMatch = definitions[d].manifest
        /\ \A row \in publications :
              row.definition = d => row.request.ifMatch = definitions[d].manifest

\* An operation key binds one intent: a HUMAN-write key has one receipt, and a
\* publication key one receipt in its project.
KeyBindsOneIntent ==
    /\ \A x, y \in receipts : x.key = y.key => x = y
    /\ \A x, y \in publications : x.project = y.project /\ x.key = y.key => x = y

-----------------------------------------------------------------------------
(* The advisory readiness snapshot, computed by a query of its own and not *)
(* by the checks of the publication path.  Manifests here are typed and    *)
(* hash to their stored checksum, and RETIRED is a status nothing sets.    *)

\* An initial receipt whose workspace pins its published definition exactly.
ValidInitialReceipts(p) ==
    {row \in InitialReceipts(p) :
        /\ definitions[row.definition].status = "PUBLISHED"
        /\ workspaces[row.workspace] =
              [project |-> p, definition |-> row.definition,
               manifest |-> definitions[row.definition].manifest]}

InitialBlockers(d) ==
    LET p == definitions[d].project
        found == {b \in {"INITIAL_REQUIRES_DRAFT", "INITIAL_PROJECT_HAS_PUBLICATION",
                         "INITIAL_PROJECT_HAS_WORKSPACE",
                         "INITIAL_PROJECT_HAS_CURRENT_DEFINITION"} :
                    \/ b = "INITIAL_REQUIRES_DRAFT" /\ definitions[d].status # "DRAFT"
                    \/ b = "INITIAL_PROJECT_HAS_PUBLICATION" /\ PublicationsOf(p) # {}
                    \/ b = "INITIAL_PROJECT_HAS_WORKSPACE" /\ WorkspacesOf(p) # {}
                    \/ /\ b = "INITIAL_PROJECT_HAS_CURRENT_DEFINITION"
                       /\ Current(p) # {}}
    IN  IF found = {} THEN {} ELSE found \cup {"SUCCESSOR_PREDECESSOR_REQUIRED"}

\* Mutant: the predecessor is not compared with the current definition.
SuccessorBlockersUnmatched(d) ==
    LET p == definitions[d].project
    IN  {b \in {"SUCCESSOR_PROJECT_PUBLICATION_REQUIRED",
                "SUCCESSOR_CURRENT_PUBLISHED_REQUIRED"} :
            \/ /\ b = "SUCCESSOR_PROJECT_PUBLICATION_REQUIRED"
               /\ PublicationsOf(p) = {}
            \/ /\ b = "SUCCESSOR_CURRENT_PUBLISHED_REQUIRED"
               /\ \A c \in Current(p) : definitions[c].status # "PUBLISHED"}

SuccessorBlockers(d) ==
    LET p == definitions[d].project
    IN  {b \in {"SUCCESSOR_PROJECT_PUBLICATION_REQUIRED",
                "SUCCESSOR_INITIAL_RECEIPT_COUNT_INVALID",
                "SUCCESSOR_CURRENT_PUBLISHED_REQUIRED",
                "SUCCESSOR_PREDECESSOR_MISMATCH"} :
            \/ /\ b = "SUCCESSOR_PROJECT_PUBLICATION_REQUIRED"
               /\ PublicationsOf(p) = {}
            \/ /\ b = "SUCCESSOR_INITIAL_RECEIPT_COUNT_INVALID"
               /\ \/ Cardinality(InitialReceipts(p)) # 1
                  \/ Cardinality(ValidInitialReceipts(p)) # 1
            \/ /\ b = "SUCCESSOR_CURRENT_PUBLISHED_REQUIRED"
               /\ \A c \in Current(p) : definitions[c].status # "PUBLISHED"
            \/ /\ b = "SUCCESSOR_PREDECESSOR_MISMATCH"
               /\ \E c \in Current(p) : definitions[d].supersedes # c}

Blockers(d) ==
    IF IsPublished(d) \/ definitions[d].status = "PUBLISHED"
    THEN {"DEFINITION_ALREADY_PUBLISHED"}
    ELSE IF definitions[d].supersedes = None THEN InitialBlockers(d)
    ELSE SuccessorBlockers(d)

RequiredNextAction(d) ==
    IF Blockers(d) # {} THEN "NONE"
    ELSE IF definitions[d].supersedes = None THEN "PREVIEW_OR_INITIAL_PUBLISH"
    ELSE IF definitions[d].status = "DRAFT" THEN "VALIDATE"
    ELSE "SUCCESSOR_PUBLISH"

\* Readiness advises what the publication path then accepts: a request with the
\* advised operation, the stored hash, a fresh key and (INITIAL) a fresh
\* workspace is refused only for an invalid manifest.  For a successor the
\* advice is also complete: whatever would be accepted is advised.
ReadinessAgrees ==
    \A r \in Request :
        (/\ Resolves(r)
         /\ BoundRequests(r) = {}
         /\ r.op \in {"INITIAL", "SUCCESSOR", "VALIDATE_DEFINITION"}
         /\ r.ifMatch = definitions[r.target].manifest) =>
           /\ /\ RequiredNextAction(r.target) = "PREVIEW_OR_INITIAL_PUBLISH"
              /\ r.op = "INITIAL" /\ workspaces[r.workspace] = None
              /\ r.ifMatch \in ValidManifest
              => Refusal(r) = Accepted
           /\ /\ RequiredNextAction(r.target) = "VALIDATE"
              /\ r.op = "VALIDATE_DEFINITION" /\ r.ifMatch \in ValidManifest
              => Refusal(r) = Accepted
           /\ r.op = "SUCCESSOR" =>
              (RequiredNextAction(r.target) = "SUCCESSOR_PUBLISH" <=> Refusal(r) = Accepted)

-----------------------------------------------------------------------------
(* Action properties.                                                      *)

\* Bytes that left DRAFT are frozen, statuses only advance, pins and receipts
\* are append-only, and no row ever disappears.
FrozenHistory ==
    [][/\ receipts \subseteq receipts'
       /\ publications \subseteq publications'
       /\ \A w \in Workspace : workspaces[w] # None => workspaces'[w] = workspaces[w]
       /\ \A d \in Definition : Exists(d) =>
             /\ definitions'[d] # None
             /\ definitions[d].status # "DRAFT" =>
                   \E s \in {definitions[d].status, "PUBLISHED"}, c \in BOOLEAN :
                      definitions'[d] = [definitions[d] EXCEPT !.status = s, !.current = c]
      ]_dbvars

\* A dead end: once VALIDATED without a predecessor a definition can never be
\* published.  Initial publication wants a DRAFT, successor publication wants
\* the current definition as predecessor; validating the first draft of a
\* project alone therefore forfeits it.
DeadEnd(d) == Exists(d) /\ definitions[d].status = "VALIDATED"
                        /\ definitions[d].supersedes = None
DeadEndStays == [][\A d \in Definition : DeadEnd(d) => DeadEnd(d)']_dbvars

-----------------------------------------------------------------------------
(* The promise to readers, implemented.                                    *)

PublicationOf(d) == CHOOSE row \in publications : row.definition = d

SnapshotOf(d) ==
    IF IsPublished(d)
    THEN [project |-> definitions[d].project, manifest |-> definitions[d].manifest,
          parent |-> IF PublicationOf(d).workspace # None THEN None
                     ELSE definitions[d].supersedes]
    ELSE None

HeadOf(p) == IF Current(p) = {} THEN None ELSE CHOOSE d \in Current(p) : TRUE

Snapshots == INSTANCE PublishedSnapshots WITH
    head <- [p \in Project |-> HeadOf(p)],
    snapshot <- [d \in Definition |-> SnapshotOf(d)],
    pin <- workspaces

\* Every committed operation is a step of PublishedSnapshots or leaves what
\* readers see alone.
ImplementsSnapshots == Snapshots!SnapshotSpec
=============================================================================
