-------------------------- MODULE PlayerWorkspaces --------------------------
(***************************************************************************)
(* The Player's workspaces next to the lifecycle and to package imports:   *)
(* workspaces derived from any published definition, the rows projected    *)
(* from the manifest they pin, the receipts that prove them, time slices   *)
(* and Player Help.                                                        *)
(*                                                                         *)
(* Every operation is one transaction under the Project, Definition and    *)
(* Workspace locks, hence one step.  Whoever loses a race for an identity  *)
(* that is unique over all projects finds it taken once the other one has  *)
(* committed, exactly as if it had come later.                             *)
(***************************************************************************)
EXTENDS DefinitionImport

CONSTANTS
    PlayerRequest,   \* requests that Player users may send
    Slice,           \* TimeSlice UUIDs
    Cutoff,          \* calendar dates
    InitialCode      \* the code that first workspaces are given

\* A request is its key and what its SHA-256 covers.  A slice request names
\* the workspace of its route, a workspace request the one to create.
WorkspaceRequestType ==
    [contract : {"WORKSPACE_CREATE"}, key : Key, actor : Actor, project : Project,
     workspace : Workspace, definition : Definition, ifMatch : Manifest, code : Name]
SliceRequestType ==
    [contract : {"SLICE_CREATE"}, key : Key, actor : Actor, workspace : Workspace,
     ifMatch : Manifest, slice : Slice, code : Name, cutoff : Cutoff]

ASSUME PlayerAssumption ==
    /\ PlayerRequest \subseteq WorkspaceRequestType \cup SliceRequestType
    /\ None \notin PlayerRequest
    /\ InitialCode \in Name
    /\ \A x \in Package, q \in PlayerRequest : x.id # q.key

DerivedRow == [project : Project, definition : Definition, manifest : Manifest, code : Name]
SliceRow == [slice : Slice, workspace : Workspace, code : Name, cutoff : Cutoff]
ASSUME DerivedAssumption == None \notin DerivedRow

\* AuditEvents of the Player: combined receipts of workspace creations, slice
\* receipts, and standalone projection receipts, which have a UUID of their own.
EventRow ==
    [key : Key \cup {None}, contract : {"WORKSPACE_CREATE", "SLICE_CREATE", "STANDALONE"},
     workspace : Workspace, request : PlayerRequest \cup {None}, manifest : Manifest]

VARIABLES
    events,      \* the Player's AuditEvents
    projected,   \* Workspace -> the manifest its canonical rows come from, or None
    snapshots,   \* Definition -> the manifest its parameter rows come from, or None
    slices,      \* TimeSlice rows
    catalog,     \* the Player Help topics are provisioned
    helped       \* the workspaces with Player Help bindings

playervars == <<derived, events, projected, snapshots, slices, catalog, helped>>
vars == <<dbvars, importvars, playervars>>

WorkspacesTypeOK ==
    /\ ImportTypeOK
    /\ derived \in [Workspace -> DerivedRow \cup {None}]
    /\ events \subseteq EventRow
    /\ projected \in [Workspace -> Manifest \cup {None}]
    /\ snapshots \in [Definition -> Manifest \cup {None}]
    /\ slices \subseteq SliceRow
    /\ catalog \in BOOLEAN
    /\ helped \subseteq Workspace
    /\ \A w \in Workspace : derived[w] # None => workspaces[w] = None
    /\ \A x, y \in slices : (\/ x.slice = y.slice
                             \/ /\ x.workspace = y.workspace
                                /\ x.code = y.code \/ x.cutoff = y.cutoff) => x = y

-----------------------------------------------------------------------------
(* Reading the rows.                                                       *)

Pin(w) ==
    IF workspaces[w] # None THEN workspaces[w]
    ELSE [project |-> derived[w].project, definition |-> derived[w].definition,
          manifest |-> derived[w].manifest]

Workspaces == {w \in Workspace : workspaces[w] # None \/ derived[w] # None}

CodeOf(w) == IF workspaces[w] # None THEN InitialCode ELSE derived[w].code

\* The AuditEvent primary key is shared with the receipts of Studio.
KeyTaken(k) == \E row \in receipts \cup events : row.key = k

ProjectionReceipts(w) ==
    {e \in events : e.workspace = w /\ e.contract # "SLICE_CREATE"}

\* The one receipt of w proves the projection of the manifest that w pins.
ReceiptProves(w) ==
    /\ Cardinality(ProjectionReceipts(w)) = 1
    /\ \A e \in ProjectionReceipts(w) : e.manifest = Pin(w).manifest

Verify(w) ==
    LET m == Pin(w).manifest
        d == Pin(w).definition
    IN  IF definitions[d].manifest # m THEN "INTEGRITY_CONFLICT"
        ELSE IF ProjectionReceipts(w) = {} /\ projected[w] = None THEN "NOT_PROVEN"
        ELSE IF ReceiptProves(w) /\ projected[w] = m /\ snapshots[d] = m THEN "COMPLETE"
        ELSE "INTEGRITY_CONFLICT"

\* Mutant: parameter rows are taken for the project's current definition only.
SnapshotUsableCurrent(d, m, w) ==
    \/ snapshots[d] = None
    \/ /\ snapshots[d] = m
       /\ definitions[d].current

\* Parameter rows of a definition are shared by its workspaces: they are reused
\* only when another workspace of the same definition proves them.
SnapshotUsable(d, m, w) ==
    \/ snapshots[d] = None
    \/ /\ snapshots[d] = m
       /\ \E v \in Workspaces \ {w} :
             Pin(v).definition = d /\ Pin(v).manifest = m /\ ReceiptProves(v)

-----------------------------------------------------------------------------
(* Creating a workspace.                                                   *)

DefaultsOf(p) == {w \in defaults : workspaces[w] # None /\ workspaces[w].project = p}

HasOneReceipt(d) == Cardinality({row \in publications : row.definition = d}) = 1

\* One default workspace, one current definition and one initial publication,
\* which agree; and the definitions involved are published with one receipt.
Topology(p, d) ==
    \E w \in Workspace, c \in Definition, row \in publications :
        /\ DefaultsOf(p) = {w}
        /\ Current(p) = {c}
        /\ InitialReceipts(p) = {row}
        /\ LET first == workspaces[w].definition IN
           /\ definitions[first].status = "PUBLISHED"
           /\ definitions[first].manifest = workspaces[w].manifest
           /\ row.workspace = w /\ row.definition = first
           /\ definitions[c].status = "PUBLISHED"
           /\ \A x \in {first, c, d} : HasOneReceipt(x)

Occupied(q) ==
    \E w \in Workspaces :
        w = q.workspace \/ (Pin(w).project = q.project /\ CodeOf(w) = q.code)

\* A receipt of the same key in the authorized project and contract.
CreateReceipts(q) ==
    {e \in events : /\ e.key = q.key
                    /\ e.contract = "WORKSPACE_CREATE"
                    /\ e.request.project = q.project}

Replayed == "REPLAYED"

\* Mutant: a receipt is found by its key alone, whatever was asked.
CreateReplayAnyIntent(q) ==
    IF \A e \in CreateReceipts(q) : Verify(e.workspace) # "COMPLETE"
    THEN "ASSESSMENT_PROJECTION_INTEGRITY_CONFLICT"
    ELSE Replayed

CreateReplay(q) ==
    IF \A e \in CreateReceipts(q) : e.request # q THEN "PLAYER_OPERATION_KEY_REUSE"
    ELSE IF derived[q.workspace] # [project |-> q.project, definition |-> q.definition,
                                    manifest |-> q.ifMatch, code |-> q.code]
         THEN "PLAYER_OPERATION_RESULT_DRIFT"
    ELSE IF Verify(q.workspace) # "COMPLETE"
         THEN "ASSESSMENT_PROJECTION_INTEGRITY_CONFLICT"
    ELSE IF q.workspace \notin helped THEN "PLAYER_HELP_CATALOG_CONFLICT"
    ELSE Replayed

\* In the order in which the service looks.
CreateAnswer(q) ==
    IF q.definition \notin InProject(q.project) THEN "PLAYER_NOT_FOUND"
    ELSE IF definitions[q.definition].status # "PUBLISHED" THEN "PLAYER_NOT_FOUND"
    ELSE IF definitions[q.definition].manifest # q.ifMatch THEN "PLAYER_STALE"
    ELSE IF ~Topology(q.project, q.definition) THEN "PLAYER_PROJECT_TOPOLOGY_INVALID"
    ELSE IF ~catalog THEN "PLAYER_HELP_CATALOG_CONFLICT"
    ELSE IF CreateReceipts(q) # {} THEN CreateReplay(q)
    ELSE IF Occupied(q) THEN "PLAYER_IDENTITY_CONFLICT"
    ELSE IF KeyTaken(q.key) THEN "PLAYER_OPERATION_KEY_REUSE"
    ELSE IF ~SnapshotUsable(q.definition, q.ifMatch, q.workspace)
         THEN "ASSESSMENT_PROJECTION_INTEGRITY_CONFLICT"
    ELSE Accepted

Event(contract, q, w, m) ==
    [key |-> IF q = None THEN None ELSE q.key, contract |-> contract, workspace |-> w,
     request |-> q, manifest |-> m]

\* The rows of a projection; the parameter rows are inserted once.
MaterializeRows(w, d, m) ==
    /\ projected' = [projected EXCEPT ![w] = m]
    /\ snapshots' = [snapshots EXCEPT ![d] = m]

CreateWorkspace(q) ==
    /\ q.contract = "WORKSPACE_CREATE"
    /\ CreateAnswer(q) = Accepted
    /\ derived' = [derived EXCEPT ![q.workspace] =
          [project |-> q.project, definition |-> q.definition,
           manifest |-> q.ifMatch, code |-> q.code]]
    /\ events' = events \cup {Event("WORKSPACE_CREATE", q, q.workspace, q.ifMatch)}
    /\ MaterializeRows(q.workspace, q.definition, q.ifMatch)
    /\ helped' = helped \cup {q.workspace}
    /\ UNCHANGED <<dbvars, importvars, slices, catalog>>

-----------------------------------------------------------------------------
(* Time slices, standalone projections and Help.                           *)

SliceReceipts(q) ==
    {e \in events : /\ e.key = q.key
                    /\ e.contract = "SLICE_CREATE"
                    /\ e.workspace = q.workspace}

SliceReplay(q) ==
    IF \A e \in SliceReceipts(q) : e.request # q THEN "PLAYER_OPERATION_KEY_REUSE"
    ELSE IF [slice |-> q.slice, workspace |-> q.workspace, code |-> q.code,
             cutoff |-> q.cutoff] \notin slices
         THEN "PLAYER_OPERATION_RESULT_DRIFT"
    ELSE Replayed

SliceOccupied(q) ==
    \E s \in slices : \/ s.slice = q.slice
                      \/ /\ s.workspace = q.workspace
                         /\ s.code = q.code \/ s.cutoff = q.cutoff

\* Mutant: the projection is not verified.
SliceAnswerUnverified(q) ==
    IF q.workspace \notin Workspaces THEN "PLAYER_NOT_FOUND"
    ELSE IF Pin(q.workspace).manifest # q.ifMatch THEN "PLAYER_STALE"
    ELSE IF SliceReceipts(q) # {} THEN SliceReplay(q)
    ELSE IF SliceOccupied(q) THEN "PLAYER_IDENTITY_CONFLICT"
    ELSE IF KeyTaken(q.key) THEN "PLAYER_OPERATION_KEY_REUSE"
    ELSE Accepted

SliceAnswer(q) ==
    IF q.workspace \notin Workspaces THEN "PLAYER_NOT_FOUND"
    ELSE IF definitions[Pin(q.workspace).definition].status # "PUBLISHED"
         THEN "PLAYER_NOT_FOUND"
    ELSE IF Pin(q.workspace).manifest # q.ifMatch THEN "PLAYER_STALE"
    ELSE IF Verify(q.workspace) = "NOT_PROVEN" THEN "ASSESSMENT_PROJECTION_NOT_PROVEN"
    ELSE IF Verify(q.workspace) # "COMPLETE"
         THEN "ASSESSMENT_PROJECTION_INTEGRITY_CONFLICT"
    ELSE IF SliceReceipts(q) # {} THEN SliceReplay(q)
    ELSE IF SliceOccupied(q) THEN "PLAYER_IDENTITY_CONFLICT"
    ELSE IF KeyTaken(q.key) THEN "PLAYER_OPERATION_KEY_REUSE"
    ELSE Accepted

CreateTimeSlice(q) ==
    /\ q.contract = "SLICE_CREATE"
    /\ SliceAnswer(q) = Accepted
    /\ slices' = slices \cup {[slice |-> q.slice, workspace |-> q.workspace,
                               code |-> q.code, cutoff |-> q.cutoff]}
    /\ events' = events \cup {Event("SLICE_CREATE", q, q.workspace, q.ifMatch)}
    /\ UNCHANGED <<dbvars, importvars, derived, projected, snapshots, catalog, helped>>

\* materialize_workspace_assessment_projection outside of a creation: the way
\* in which a first workspace, which Studio leaves without rows, gets them.
MaterializeStandalone(w) ==
    /\ w \in Workspaces
    /\ Verify(w) = "NOT_PROVEN"
    /\ SnapshotUsable(Pin(w).definition, Pin(w).manifest, w)
    /\ events' = events \cup {Event("STANDALONE", None, w, Pin(w).manifest)}
    /\ MaterializeRows(w, Pin(w).definition, Pin(w).manifest)
    /\ UNCHANGED <<dbvars, importvars, derived, slices, catalog, helped>>

\* The deployment command: topics, and bindings for every workspace there is.
ProvisionHelp ==
    /\ catalog' = TRUE
    /\ helped' = Workspaces
    /\ UNCHANGED <<dbvars, importvars, derived, events, projected, snapshots, slices>>

-----------------------------------------------------------------------------
(* Composition.                                                            *)

\* A HUMAN write finds its operation UUID taken by a receipt of the Player.
StudioOperation(r) ==
    /\ r.op \in WriteOp => \A e \in events : e.key # r.key
    /\ OperationWithBindings(r)
    /\ UNCHANGED playervars

StudioImport(x) == ImportStep(x) /\ UNCHANGED playervars

WorkspacesInit ==
    /\ ImportInit
    /\ derived = [w \in Workspace |-> None]
    /\ events = {}
    /\ projected = [w \in Workspace |-> None]
    /\ snapshots = [d \in Definition |-> None]
    /\ slices = {}
    /\ catalog = FALSE
    /\ helped = {}

WorkspacesNext ==
    \/ \E r \in Request : StudioOperation(r)
    \/ \E x \in Package : StudioImport(x)
    \/ \E q \in PlayerRequest : CreateWorkspace(q) \/ CreateTimeSlice(q)
    \/ \E w \in Workspace : MaterializeStandalone(w)
    \/ ProvisionHelp

WorkspacesSpec == WorkspacesInit /\ [][WorkspacesNext]_vars

-----------------------------------------------------------------------------
(* Safety.                                                                 *)

\* No workspace is ever diagnosed as an integrity conflict, whatever is edited,
\* imported, published or projected later: what the Player created is COMPLETE
\* at once and for good, a first workspace is NOT_PROVEN until it is projected,
\* time slices hang on COMPLETE workspaces alone, each with its one receipt,
\* and a derived workspace pins the exact bytes of a published definition.
ProjectionsProven ==
    /\ \A w \in Workspaces :
          /\ Verify(w) # "INTEGRITY_CONFLICT"
          /\ derived[w] # None =>
                /\ Verify(w) = "COMPLETE"
                /\ w \in helped
                /\ Pin(w).definition \in InProject(Pin(w).project)
                /\ IsPublished(Pin(w).definition)
    /\ \A s \in slices :
          /\ Verify(s.workspace) = "COMPLETE"
          /\ Cardinality({e \in events : /\ e.contract = "SLICE_CREATE"
                                         /\ e.request.slice = s.slice}) = 1

\* A published definition can always be given another workspace: with its exact
\* hash, free identities and Help provisioned, a creation is never refused for
\* the state of the project, be the definition the current one or one that was
\* superseded, published in Studio or by a package, projected by nobody yet or
\* by a sibling.  The one exception is a project whose package made its first
\* workspace not the default one.
AlwaysCreatable ==
    \A q \in PlayerRequest :
        (/\ q.contract = "WORKSPACE_CREATE"
         /\ catalog
         /\ q.definition \in InProject(q.project)
         /\ IsPublished(q.definition)
         /\ definitions[q.definition].manifest = q.ifMatch
         /\ ~Occupied(q)
         /\ ~KeyTaken(q.key)
         /\ DefaultsOf(q.project) # {})
        => CreateAnswer(q) = Accepted

\* What the code says of a project, however it was bootstrapped: it has its one
\* default workspace, so that its published definitions can be opened.
PackagesBootstrapPlayers ==
    \A p \in Project :
        InitialReceipts(p) # {} =>
           \A d \in InProject(p) : IsPublished(d) => Topology(p, d)

\* A committed Player request is answered with its receipt for ever, through
\* successor publications, siblings and imports; and no other request under its
\* key is ever accepted or given that receipt, in any project and under any
\* contract, Studio's included.
PlayerReplaysAreExact ==
    /\ \A e \in events : e.key # None =>
          /\ IF e.contract = "SLICE_CREATE" THEN SliceAnswer(e.request) = Replayed
             ELSE CreateAnswer(e.request) = Replayed
          /\ \A q \in PlayerRequest \ {e.request} : q.key = e.key =>
                IF q.contract = "SLICE_CREATE"
                THEN SliceAnswer(q) \notin {Accepted, Replayed}
                ELSE CreateAnswer(q) \notin {Accepted, Replayed}
    /\ \A x, y \in receipts \cup events : x.key = y.key /\ x.key # None => x = y
=============================================================================
