------------------------- MODULE PlayerExperiments -------------------------
(***************************************************************************)
(* The assessment experiments of the production Player: expert profiles,   *)
(* experiments with their lifecycle, manual values with corrections, and   *)
(* the atomic XLSX import.                                                 *)
(*                                                                         *)
(* Every operation admits its request without a lock and then runs one     *)
(* transaction that locks the Project row and reads all it decides on      *)
(* again, so that the transactions of a project run one after the other:   *)
(* an operation is one step here.  Rows are never deleted, so what         *)
(* admission found is still there under the lock.  The user's scope is     *)
(* read just before the lock: a grant revoked while a transaction waits    *)
(* counts as revoked after it.                                             *)
(***************************************************************************)
EXTENDS Naturals

CONSTANTS
    Workspace,    \* workspaces of the project
    Experiment,   \* experiment UUIDs
    Profile,      \* expert profile UUIDs
    Identity,     \* a profile's code and identity key, unique in a workspace
    Label,        \* names, descriptions, colours
    User,         \* users with exactly the assessment permissions
    Key,          \* operation UUIDs
    Target,       \* <actor, element, time slice> contexts of the projection
    ScopeChange,  \* users whose membership administrators may toggle
    Request,      \* the requests that clients send, each as often as they like
    None

Kind == {"HUMAN", "AI"}
Parameter == {"POS", "SAL"}
Category == {"LOW", "MEDIUM", "HIGH", "UNKNOWN"}
ValueStatus == {"PROVISIONAL", "UNKNOWN"}
ExperimentStatus == {"DRAFT", "FROZEN", "ARCHIVED"}

ScopedOp == {"PROFILE", "CREATE"}  \* named by a workspace; the others by an experiment
Transition == {"UPDATE", "FREEZE", "ARCHIVE"}
Op == ScopedOp \cup Transition \cup {"VALUE", "IMPORT"}

\* What a client is answered: success, a replay, or one of the error codes.
AnswerCode ==
    {"CREATED", "REPLAYED", "PLAYER_NOT_FOUND", "PLAYER_STALE", "PLAYER_REQUEST_INVALID",
     "PLAYER_OPERATION_KEY_REUSE", "PLAYER_IDENTITY_CONFLICT", "G8_EXPERIMENT_NOT_DRAFT",
     "G8_EXPERIMENT_TRANSITION_FORBIDDEN", "G8_IMPORT_NONEMPTY_EXPERIMENT",
     "G8_IMPORT_PRECONDITION_FAILED", "G8_XLSX_MAPPING_INVALID", "PLAYER_OPERATION_FAILED"}

\* A row's UUID comes from the operation that inserts it: fresh in a manual
\* entry, derived from the operation UUID in an import.
AssessmentId == Key \X Target
ValueId == Key \X Target \X Parameter

ProfileRow == [workspace : Workspace, identity : Identity, kind : Kind, title : Label]

\* kind is that of the experiment's AssessmentSet, label also its description.
ExperimentRow ==
    [workspace : Workspace, profile : Profile, kind : Kind, label : Label,
     status : ExperimentStatus, frozen : BOOLEAN]

\* version is the last number of "1.0.n".
AssessmentRow ==
    [experiment : Experiment, supersedes : AssessmentId \cup {None}, version : Nat,
     status : ValueStatus, confidence : [Parameter -> Category]]

ValueRow ==
    [assessment : AssessmentId, supersedes : ValueId \cup {None}, status : ValueStatus]

\* A row of a workbook that the packaged profile maps to a value.
FileRow == [target : Target, parameter : Parameter, status : ValueStatus, category : Category]

ProfileEtag ==
    [profile : Profile, identity : Identity, kind : Kind, title : Label, used : BOOLEAN]
ExperimentEtag ==
    [experiment : Experiment, label : Label, status : ExperimentStatus, frozen : BOOLEAN]

\* A workspace's etag is the manifest it pins and never changes; nor does a
\* value's, for the row is immutable.
ManifestEtag == [manifest : Workspace]
ValueEtag == [value : ValueId]

\* Whatever an operation is called with, besides its payload's wording.
RequestType ==
    [op : Op, key : Key, user : User, workspace : Workspace \cup {None},
     experiment : Experiment \cup {None}, profile : Profile \cup {None},
     identity : Identity \cup {None}, kind : Kind \cup {None},
     title : Label \cup {None}, label : Label \cup {None},
     target : Target \cup {None}, parameter : Parameter \cup {None},
     status : ValueStatus \cup {None}, category : Category \cup {None},
     supersedes : ValueId \cup {None}, rows : SUBSET FileRow,
     ifMatch : ManifestEtag \cup ProfileEtag \cup ExperimentEtag \cup ValueEtag \cup {None}]

ASSUME NoneAssumption ==
    /\ None \notin Workspace \cup Experiment \cup Profile \cup Identity \cup Label
                   \cup Target \cup Key \cup Request
    /\ None \notin ProfileRow \cup ExperimentRow \cup AssessmentRow \cup ValueRow
    /\ None \notin AssessmentId \cup ValueId
    /\ None \notin AnswerCode

\* The routes pass every operation its own arguments, and a workbook has one row
\* for a parameter of a target.
ASSUME RequestAssumption ==
    /\ Request \subseteq RequestType
    /\ \A r \in Request :
          /\ r.op \in ScopedOp =>
                /\ None \notin {r.workspace, r.profile, r.identity, r.kind, r.title}
                /\ r.supersedes = None
          /\ r.op = "CREATE" => r.label # None
          /\ r.op # "PROFILE" => r.experiment # None
          /\ r.op = "UPDATE" => r.label # None
          /\ r.op = "VALUE" => None \notin {r.target, r.parameter, r.status, r.category}
          /\ r.op # "VALUE" => r.supersedes = None
          /\ \A f, g \in r.rows : f.target = g.target /\ f.parameter = g.parameter => f = g

ASSUME ScopeAssumption == ScopeChange \subseteq User

VARIABLES
    members,      \* users in the project's scope group
    profiles,     \* Profile -> row, or None
    experiments,  \* Experiment -> row, or None
    assessments,  \* AssessmentId -> row, or None
    values,       \* ValueId -> row, or None
    audit,        \* Key -> the request whose AuditEvent has this UUID, or None
    runs          \* Key -> the request whose ImportRun has this UUID, or None

vars == <<members, profiles, experiments, assessments, values, audit, runs>>

TypeOK ==
    /\ members \subseteq User
    /\ profiles \in [Profile -> ProfileRow \cup {None}]
    /\ experiments \in [Experiment -> ExperimentRow \cup {None}]
    /\ assessments \in [AssessmentId -> AssessmentRow \cup {None}]
    /\ values \in [ValueId -> ValueRow \cup {None}]
    /\ audit \in [Key -> Request \cup {None}]
    /\ runs \in [Key -> Request \cup {None}]

-----------------------------------------------------------------------------
\* What is there, and what is current: the rows without a successor.
Assessments == {a \in AssessmentId : assessments[a] # None}
Values == {v \in ValueId : values[v] # None}

ExperimentOf(v) == assessments[values[v].assessment].experiment

CurrentAssessments(e, t) ==
    {a \in Key \X {t} : /\ assessments[a] # None
                        /\ assessments[a].experiment = e
                        /\ \A b \in Assessments : assessments[b].supersedes # a}

CurrentAssessment(e, t) ==
    LET now == CurrentAssessments(e, t)
    IN  IF now = {} THEN None ELSE CHOOSE a \in now : TRUE

HasSuccessor(v) == \E u \in ValueId : values[u] # None /\ values[u].supersedes = v

CurrentValues(e, t, p) ==
    {v \in Key \X {t} \X {p} : values[v] # None /\ ExperimentOf(v) = e /\ ~HasSuccessor(v)}

\* An assessment and all it supersedes, directly or not.
Lineage(a) ==
    LET up[b \in Assessments] ==
            {b} \cup IF assessments[b].supersedes = None THEN {}
                     ELSE up[assessments[b].supersedes]
    IN  up[a]

\* Mutant: only the experiments on display count as a use.
UsedProfileOnDisplay(p) ==
    \E e \in Experiment : /\ experiments[e] # None
                          /\ experiments[e].profile = p
                          /\ experiments[e].status # "ARCHIVED"

UsedProfile(p) == \E e \in Experiment : experiments[e] # None /\ experiments[e].profile = p

\* Mutant: only FROZEN is closed.
IsDraftUnlessFrozen(e) == experiments[e].status # "FROZEN"

IsDraft(e) == experiments[e].status = "DRAFT"

\* What a client must have read to change a row.
EtagOfProfile(p) ==
    [profile |-> p, identity |-> profiles[p].identity, kind |-> profiles[p].kind,
     title |-> profiles[p].title, used |-> UsedProfile(p)]
EtagOfExperiment(e) ==
    [experiment |-> e, label |-> experiments[e].label, status |-> experiments[e].status,
     frozen |-> experiments[e].frozen]

\* Where a request applies.
WorkspaceOf(r) ==
    IF r.op \in ScopedOp THEN r.workspace ELSE experiments[r.experiment].workspace

\* Scope and the rows a request names, at admission and again in the transaction.
Admitted(r) ==
    /\ r.user \in members
    /\ r.op \notin ScopedOp => experiments[r.experiment] # None
    /\ r.supersedes # None => r.supersedes \in Values /\ ExperimentOf(r.supersedes) = r.experiment

\* The stored receipts that the operation's own lookup finds: by contract and
\* workspace, an import by its experiment.
FindsReceipt(r) ==
    IF r.op = "IMPORT"
    THEN runs[r.key] # None /\ runs[r.key].experiment = r.experiment
    ELSE /\ audit[r.key] # None
         /\ audit[r.key].op = r.op
         /\ WorkspaceOf(audit[r.key]) = WorkspaceOf(r)

\* Mutant: the hash is compared, the actor is not.
KeyOutcomeOfAnyActor(r) ==
    IF \E x \in {audit[r.key], runs[r.key]} \ {None} : [x EXCEPT !.user = r.user] = r
    THEN "REPLAYED" ELSE "PLAYER_OPERATION_KEY_REUSE"

\* A bound key answers for the same request of the same user, and for no other.
KeyOutcome(r) ==
    IF r \in {audit[r.key], runs[r.key]} THEN "REPLAYED" ELSE "PLAYER_OPERATION_KEY_REUSE"

-----------------------------------------------------------------------------
\* Why the transaction of a request with a new key refuses it, None otherwise.
\* A 503, PLAYER_OPERATION_FAILED, is an INSERT that the database refuses.

\* The first profile of this identity in the workspace, if any.
Bearers(r) ==
    {p \in Profile : /\ profiles[p] # None
                     /\ profiles[p].workspace = WorkspaceOf(r)
                     /\ profiles[p].identity = r.identity}

InWorkspace(p, w) == profiles[p] # None /\ profiles[p].workspace = w

RequestedProfile(r) ==
    [workspace |-> r.workspace, identity |-> r.identity, kind |-> r.kind, title |-> r.title]

ProfileRefusal(r) ==
    IF Bearers(r) \ {r.profile} # {} THEN "PLAYER_IDENTITY_CONFLICT"
    ELSE IF InWorkspace(r.profile, r.workspace)
    THEN IF r.ifMatch # EtagOfProfile(r.profile) THEN "PLAYER_STALE"
         ELSE IF UsedProfile(r.profile) THEN "PLAYER_IDENTITY_CONFLICT"
         ELSE None
    ELSE IF r.ifMatch # [manifest |-> r.workspace] THEN "PLAYER_STALE"
    ELSE IF profiles[r.profile] # None THEN "PLAYER_OPERATION_FAILED"
    ELSE None

\* Mutant: the identity key alone finds the expert.
CreateRefusalByIdentity(r) ==
    IF Bearers(r) # {} /\ r.profile \notin Bearers(r) THEN "PLAYER_IDENTITY_CONFLICT"
    ELSE IF Bearers(r) = {} /\ profiles[r.profile] # None THEN "PLAYER_OPERATION_FAILED"
    ELSE IF experiments[r.experiment] # None THEN "PLAYER_OPERATION_FAILED"
    ELSE None

\* A new experiment takes the profile of its identity exactly as it is, or makes it.
CreateRefusal(r) ==
    IF Bearers(r) # {} /\ ~(r.profile \in Bearers(r) /\ profiles[r.profile] = RequestedProfile(r))
    THEN "PLAYER_IDENTITY_CONFLICT"
    ELSE IF Bearers(r) = {} /\ profiles[r.profile] # None THEN "PLAYER_OPERATION_FAILED"
    ELSE IF experiments[r.experiment] # None THEN "PLAYER_OPERATION_FAILED"
    ELSE None

TransitionRefusal(r) ==
    IF r.ifMatch # EtagOfExperiment(r.experiment) THEN "PLAYER_STALE"
    ELSE IF r.op = "UPDATE" /\ ~IsDraft(r.experiment) THEN "G8_EXPERIMENT_NOT_DRAFT"
    ELSE IF r.op = "FREEZE" /\ ~IsDraft(r.experiment) THEN "G8_EXPERIMENT_TRANSITION_FORBIDDEN"
    ELSE IF r.op = "ARCHIVE" /\ experiments[r.experiment].status \notin {"DRAFT", "FROZEN"}
    THEN "G8_EXPERIMENT_TRANSITION_FORBIDDEN"
    ELSE None

\* Mutant: a first value looks for another one in the current assessment only.
ValueRefusalInAssessment(r) ==
    LET e == r.experiment
        a == CurrentAssessment(e, r.target)
        first == r.supersedes = None
    IN  IF first /\ r.ifMatch # EtagOfExperiment(e) THEN "PLAYER_STALE"
        ELSE IF ~IsDraft(e) THEN "G8_EXPERIMENT_NOT_DRAFT"
        ELSE IF ~first /\ (r.ifMatch # [value |-> r.supersedes] \/ HasSuccessor(r.supersedes))
        THEN "PLAYER_STALE"
        ELSE IF a = None THEN None
        ELSE IF first
        THEN IF \E v \in CurrentValues(e, r.target, r.parameter) : values[v].assessment = a
             THEN "PLAYER_STALE" ELSE None
        ELSE IF <<r.supersedes[2], r.supersedes[3]>> # <<r.target, r.parameter>>
        THEN "PLAYER_REQUEST_INVALID"
        ELSE None

ValueRefusal(r) ==
    LET e == r.experiment
        a == CurrentAssessment(e, r.target)
        first == r.supersedes = None
    IN  IF first /\ r.ifMatch # EtagOfExperiment(e) THEN "PLAYER_STALE"
        ELSE IF ~IsDraft(e) THEN "G8_EXPERIMENT_NOT_DRAFT"
        ELSE IF ~first /\ (r.ifMatch # [value |-> r.supersedes] \/ HasSuccessor(r.supersedes))
        THEN "PLAYER_STALE"
        ELSE IF a = None THEN None
        ELSE IF first
        THEN IF CurrentValues(e, r.target, r.parameter) # {} THEN "PLAYER_STALE" ELSE None
        ELSE IF <<r.supersedes[2], r.supersedes[3]>> # <<r.target, r.parameter>>
        THEN "PLAYER_REQUEST_INVALID"
        ELSE IF values[r.supersedes].assessment \notin Lineage(a)
        THEN "PLAYER_REQUEST_INVALID"
        ELSE None

\* Mutant: only a second import is refused.
NonEmptyByRuns(e) == \E k \in Key : runs[k] # None /\ runs[k].experiment = e

\* Nothing at all may have been entered.
NonEmpty(e) ==
    \/ \E a \in Assessments : assessments[a].experiment = e
    \/ \E k \in Key : runs[k] # None /\ runs[k].experiment = e

\* rows is empty for a workbook with diagnostics or without a mapped row; the
\* column that was selected belongs to one kind.
ImportRefusal(r) ==
    IF runs[r.key] # None \/ audit[r.key] # None THEN "PLAYER_OPERATION_KEY_REUSE"
    ELSE IF ~IsDraft(r.experiment) THEN "G8_EXPERIMENT_NOT_DRAFT"
    ELSE IF r.kind # experiments[r.experiment].kind THEN "G8_XLSX_MAPPING_INVALID"
    ELSE IF NonEmpty(r.experiment) THEN "G8_IMPORT_NONEMPTY_EXPERIMENT"
    ELSE IF r.rows = {} THEN "G8_IMPORT_PRECONDITION_FAILED"
    ELSE None

Refusal(r) ==
    CASE r.op = "PROFILE" -> ProfileRefusal(r)
      [] r.op = "CREATE" -> CreateRefusal(r)
      [] r.op \in Transition -> TransitionRefusal(r)
      [] r.op = "VALUE" -> ValueRefusal(r)
      [] r.op = "IMPORT" -> ImportRefusal(r)

-----------------------------------------------------------------------------
\* The assessment that a manual value is attached to.

\* Is a current value of the target a number, once r is entered?
Numeric(r) ==
    \/ r.status = "PROVISIONAL"
    \/ \E p \in Parameter \ {r.parameter} :
          \E v \in CurrentValues(r.experiment, r.target, p) : values[v].status = "PROVISIONAL"

FirstAssessment(r) ==
    [experiment |-> r.experiment, supersedes |-> None, version |-> 0, status |-> r.status,
     confidence |-> [[p \in Parameter |-> "UNKNOWN"] EXCEPT ![r.parameter] = r.category]]

NextAssessment(r) ==
    LET a == CurrentAssessment(r.experiment, r.target)
    IN  [assessments[a] EXCEPT
            !.supersedes = a,
            !.version = @ + 1,
            !.status = IF Numeric(r) THEN "PROVISIONAL" ELSE "UNKNOWN",
            !.confidence[r.parameter] = r.category]

NewAssessment(r) ==
    IF CurrentAssessment(r.experiment, r.target) = None THEN FirstAssessment(r)
    ELSE NextAssessment(r)

\* Mutant: a correction compares the status only.
NeedsVersionForStatus(r) ==
    LET a == CurrentAssessment(r.experiment, r.target)
    IN  \/ a = None
        \/ r.supersedes = None
        \/ NextAssessment(r).status # assessments[a].status

\* A correction that changes neither confidence nor status stays in the
\* current assessment; everything else gets a version of its own.
NeedsVersion(r) ==
    LET a == CurrentAssessment(r.experiment, r.target)
    IN  \/ a = None
        \/ r.supersedes = None
        \/ NextAssessment(r).confidence # assessments[a].confidence
        \/ NextAssessment(r).status # assessments[a].status

AttachedTo(r) ==
    IF NeedsVersion(r) THEN <<r.key, r.target>> ELSE CurrentAssessment(r.experiment, r.target)

\* The database and the models refuse a second root, a second successor, a
\* version twice, and a successor of another target or parameter.
RefusedByModel(r) ==
    \/ /\ r.op = "VALUE"
       /\ \/ NeedsVersion(r) /\ \E a \in Assessments :
                /\ assessments[a].experiment = r.experiment
                /\ a[2] = r.target
                /\ \/ assessments[a].version = NewAssessment(r).version
                   \/ assessments[a].supersedes = NewAssessment(r).supersedes
          \/ r.supersedes # None /\ \/ HasSuccessor(r.supersedes)
                                    \/ r.supersedes[2] # r.target
                                    \/ r.supersedes[3] # r.parameter
          \/ r.supersedes = None /\ \E v \in Values :
                /\ values[v].assessment = AttachedTo(r)
                /\ v[3] = r.parameter
                /\ values[v].supersedes = None
    \/ /\ r.op = "IMPORT"
       /\ \E f \in r.rows, a \in Assessments :
             /\ assessments[a].experiment = r.experiment
             /\ a[2] = f.target

\* Mutant: the state is judged before the receipt is looked up.
OutcomeStateFirst(r) ==
    IF ~Admitted(r) THEN "PLAYER_NOT_FOUND"
    ELSE IF Refusal(r) # None THEN Refusal(r)
    ELSE IF FindsReceipt(r) THEN KeyOutcome(r)
    ELSE IF RefusedByModel(r) \/ audit[r.key] # None THEN "PLAYER_OPERATION_FAILED"
    ELSE "CREATED"

\* What the client is answered.  The receipt is looked up before anything that
\* later operations may change; a key that another contract or workspace has
\* used is met only by the INSERT of the AuditEvent.
Outcome(r) ==
    IF ~Admitted(r) THEN "PLAYER_NOT_FOUND"
    ELSE IF r.op = "CREATE" /\ r.ifMatch # [manifest |-> r.workspace] THEN "PLAYER_STALE"
    ELSE IF FindsReceipt(r) THEN KeyOutcome(r)
    ELSE IF Refusal(r) # None THEN Refusal(r)
    ELSE IF RefusedByModel(r) \/ audit[r.key] # None THEN "PLAYER_OPERATION_FAILED"
    ELSE "CREATED"

-----------------------------------------------------------------------------
ExperimentsInit ==
    /\ members = User
    /\ profiles = [p \in Profile |-> None]
    /\ experiments = [e \in Experiment |-> None]
    /\ assessments = [a \in AssessmentId |-> None]
    /\ values = [v \in ValueId |-> None]
    /\ audit = [k \in Key |-> None]
    /\ runs = [k \in Key |-> None]

\* Every operation leaves its AuditEvent in the same transaction.
Commit(r) ==
    /\ Outcome(r) = "CREATED"
    /\ audit' = [audit EXCEPT ![r.key] = r]
    /\ UNCHANGED members

SaveProfile(r) ==
    /\ r.op = "PROFILE"
    /\ Commit(r)
    /\ profiles' = [profiles EXCEPT ![r.profile] = RequestedProfile(r)]
    /\ UNCHANGED <<experiments, assessments, values, runs>>

CreateExperiment(r) ==
    /\ r.op = "CREATE"
    /\ Commit(r)
    /\ profiles' = IF Bearers(r) = {}
                   THEN [profiles EXCEPT ![r.profile] = RequestedProfile(r)]
                   ELSE profiles
    /\ experiments' = [experiments EXCEPT ![r.experiment] =
                         [workspace |-> r.workspace, profile |-> r.profile, kind |-> r.kind,
                          label |-> r.label, status |-> "DRAFT", frozen |-> FALSE]]
    /\ UNCHANGED <<assessments, values, runs>>

UpdateExperiment(r) ==
    /\ r.op = "UPDATE"
    /\ Commit(r)
    /\ experiments' = [experiments EXCEPT ![r.experiment].label = r.label]
    /\ UNCHANGED <<profiles, assessments, values, runs>>

FreezeExperiment(r) ==
    /\ r.op = "FREEZE"
    /\ Commit(r)
    /\ experiments' = [experiments EXCEPT ![r.experiment].status = "FROZEN",
                                          ![r.experiment].frozen = TRUE]
    /\ UNCHANGED <<profiles, assessments, values, runs>>

ArchiveExperiment(r) ==
    /\ r.op = "ARCHIVE"
    /\ Commit(r)
    /\ experiments' = [experiments EXCEPT ![r.experiment].status = "ARCHIVED"]
    /\ UNCHANGED <<profiles, assessments, values, runs>>

RecordValue(r) ==
    /\ r.op = "VALUE"
    /\ Commit(r)
    /\ assessments' = IF NeedsVersion(r)
                      THEN [assessments EXCEPT ![<<r.key, r.target>>] = NewAssessment(r)]
                      ELSE assessments
    /\ values' = [values EXCEPT ![<<r.key, r.target, r.parameter>>] =
                    [assessment |-> AttachedTo(r), supersedes |-> r.supersedes,
                     status |-> r.status]]
    /\ UNCHANGED <<profiles, experiments, runs>>

\* The rows of the workbook for one target make one assessment.
FileRows(r, t) == {f \in r.rows : f.target = t}

ImportedAssessment(r, t) ==
    [experiment |-> r.experiment, supersedes |-> None, version |-> 0,
     status |-> IF \E f \in FileRows(r, t) : f.status = "PROVISIONAL"
                THEN "PROVISIONAL" ELSE "UNKNOWN",
     confidence |-> [p \in Parameter |->
        IF \E f \in FileRows(r, t) : f.parameter = p
        THEN (CHOOSE f \in FileRows(r, t) : f.parameter = p).category
        ELSE "UNKNOWN"]]

ImportWorkbook(r) ==
    /\ r.op = "IMPORT"
    /\ Commit(r)
    /\ assessments' = [a \in AssessmentId |->
                         IF a[1] = r.key /\ FileRows(r, a[2]) # {}
                         THEN ImportedAssessment(r, a[2]) ELSE assessments[a]]
    /\ values' = [v \in ValueId |->
                    IF v[1] = r.key /\ \E f \in FileRows(r, v[2]) : f.parameter = v[3]
                    THEN [assessment |-> <<v[1], v[2]>>, supersedes |-> None,
                          status |-> (CHOOSE f \in FileRows(r, v[2]) :
                                         f.parameter = v[3]).status]
                    ELSE values[v]]
    /\ runs' = [runs EXCEPT ![r.key] = r]
    /\ UNCHANGED <<profiles, experiments>>

\* Every other answer, a replay included, changes nothing.
Answer(r) ==
    /\ Outcome(r) # "CREATED"
    /\ UNCHANGED vars

\* An administrator grants or revokes a user's membership of the scope group.
ChangeScope(u) ==
    /\ members' = IF u \in members THEN members \ {u} ELSE members \cup {u}
    /\ UNCHANGED <<profiles, experiments, assessments, values, audit, runs>>

Operation(r) ==
    \/ SaveProfile(r)
    \/ CreateExperiment(r)
    \/ UpdateExperiment(r)
    \/ FreezeExperiment(r)
    \/ ArchiveExperiment(r)
    \/ RecordValue(r)
    \/ ImportWorkbook(r)
    \/ Answer(r)

ExperimentsNext ==
    \/ \E r \in Request : Operation(r)
    \/ \E u \in ScopeChange : ChangeScope(u)

ExperimentsSpec == ExperimentsInit /\ [][ExperimentsNext]_vars

-----------------------------------------------------------------------------
\* What the client submitted for a value.
Submitted(v) ==
    IF audit[v[1]].op = "IMPORT"
    THEN CHOOSE f \in audit[v[1]].rows : f.target = v[2] /\ f.parameter = v[3]
    ELSE audit[v[1]]

(* Corrections keep every value of a cell on one line: a successor stays in  *)
(* its predecessor's experiment, target and parameter and never falls back   *)
(* to an older assessment; no value has two successors, no cell two first    *)
(* values; and assessments are versioned along one line as well, whatever    *)
(* mix of first values, corrections and imports wrote them.                  *)
OneLine ==
    /\ \A v \in Values :
          /\ values[v].assessment \in Assessments
          /\ values[v].assessment[2] = v[2]
          /\ values[v].supersedes # None =>
                LET u == values[v].supersedes
                IN  /\ u \in Values
                    /\ <<ExperimentOf(u), u[2], u[3]>> = <<ExperimentOf(v), v[2], v[3]>>
                    /\ assessments[values[u].assessment].version
                          <= assessments[values[v].assessment].version
    /\ \A u, v \in Values :
          /\ <<ExperimentOf(u), u[2], u[3]>> = <<ExperimentOf(v), v[2], v[3]>>
          /\ values[u].supersedes = values[v].supersedes
          => u = v
    /\ \A a, b \in Assessments :
          /\ assessments[a].experiment = assessments[b].experiment
          /\ a[2] = b[2]
          /\ assessments[a].version = assessments[b].version
          => a = b
    /\ \A a \in Assessments :
          IF assessments[a].supersedes = None THEN assessments[a].version = 0
          ELSE \E b \in Assessments :
                  /\ b = assessments[a].supersedes
                  /\ assessments[b].experiment = assessments[a].experiment
                  /\ b[2] = a[2]
                  /\ assessments[a].version = assessments[b].version + 1

(* The current assessment of a target sums up its current values, though     *)
(* each operation only patches one parameter of the assessment before: its   *)
(* confidence in a parameter is the one submitted with the parameter's       *)
(* current value (UNKNOWN without one), it counts as numeric exactly when    *)
(* one of them is a number, and every value, current or corrected, keeps     *)
(* showing the confidence it was submitted with.                             *)
SummaryIsCurrent ==
    /\ \A e \in Experiment, t \in Target :
          \A a \in CurrentAssessments(e, t) :
              /\ \A p \in Parameter :
                    /\ CurrentValues(e, t, p) = {} => assessments[a].confidence[p] = "UNKNOWN"
                    /\ \A v \in CurrentValues(e, t, p) :
                          assessments[a].confidence[p] = Submitted(v).category
              /\ (assessments[a].status = "PROVISIONAL") <=>
                    \E p \in Parameter : \E v \in CurrentValues(e, t, p) :
                        values[v].status = "PROVISIONAL"
    /\ \A v \in Values :
          assessments[values[v].assessment].confidence[v[3]] = Submitted(v).category


(* An operation's rows and its receipt come together or not at all: the key   *)
(* of a value is bound to the entry or the import that names exactly that     *)
(* value, with the status it asked for; an accepted entry has its value; an   *)
(* import has all of its rows, its ImportRun and its AuditEvent.              *)
ReceiptsAreExact ==
    /\ \A v \in Values :
          LET r == audit[v[1]]
          IN  /\ r # None
              /\ r.experiment = ExperimentOf(v)
              /\ \/ r.op = "VALUE" /\ r.target = v[2] /\ r.parameter = v[3]
                 \/ r.op = "IMPORT" /\ \E f \in r.rows : f.target = v[2] /\ f.parameter = v[3]
              /\ values[v].status = Submitted(v).status
    /\ \A k \in Key :
          /\ audit[k] # None /\ audit[k].op = "VALUE" =>
                <<k, audit[k].target, audit[k].parameter>> \in Values
          /\ audit[k] # None /\ audit[k].op = "IMPORT" =>
                \A f \in audit[k].rows : <<k, f.target, f.parameter>> \in Values
          /\ runs[k] = IF audit[k] # None /\ audit[k].op = "IMPORT" THEN audit[k] ELSE None

(* ADR 0015: "Same-key replay is resolved before mutable-state rejection and  *)
(* remains bound to the request, principal, project, workspace and            *)
(* experiment".  A committed request is answered with its receipt for ever,   *)
(* whatever happened to its experiment since; any other request under its     *)
(* key neither gets that receipt nor takes effect.                            *)
ReplaysAreExact ==
    \A r \in Request :
        LET outcome == Outcome(r)
        IN  /\ audit[r.key] = r /\ r.user \in members => outcome = "REPLAYED"
            /\ audit[r.key] # r => outcome # "REPLAYED"
            /\ audit[r.key] \notin {None, r} => outcome # "CREATED"

(* A key tells for ever what was done under it: the receipt it is answered    *)
(* with is of exactly the rows that the operation made.                       *)
KeysTellHistory == ReceiptsAreExact /\ ReplaysAreExact

(* An experiment's expert is one: identities are unique in a workspace, and   *)
(* an experiment keeps a profile of its own workspace and lane however        *)
(* profile edits, creations and imports interleave; a workbook column only    *)
(* enters the lane it belongs to.                                             *)
LanesMatch ==
    /\ \A p, q \in Profile :
          /\ profiles[p] # None /\ profiles[q] # None
          /\ profiles[p].workspace = profiles[q].workspace
          /\ profiles[p].identity = profiles[q].identity
          => p = q
    /\ \A e \in Experiment :
          experiments[e] # None =>
             LET p == experiments[e].profile
             IN  /\ profiles[p] # None
                 /\ profiles[p].workspace = experiments[e].workspace
                 /\ profiles[p].kind = experiments[e].kind
    /\ \A k \in Key :
          runs[k] # None => runs[k].kind = experiments[runs[k].experiment].kind

(* What an experiment shows of its assessments fits together: one expert of   *)
(* its lane, one line of values in each cell, and a summary of their ends.    *)
RowsFitTogether == LanesMatch /\ OneLine /\ SummaryIsCurrent

(* ADR 0015: "A profile becomes immutable after first use.  FROZEN and        *)
(* ARCHIVED experiments reject semantic writes.  Corrections create immutable *)
(* successor rows; they never rewrite historical values."  No step changes a  *)
(* profile that an experiment uses, an assessment, a value, a receipt, or a   *)
(* closed experiment, which may only still go from FROZEN to ARCHIVED; and no *)
(* row is added to a closed experiment.                                       *)
HistoryStays ==
    /\ \A e \in Experiment :
          experiments[e] # None =>
             profiles'[experiments[e].profile] = profiles[experiments[e].profile]
    /\ \A a \in Assessments : assessments'[a] = assessments[a]
    /\ \A v \in Values : values'[v] = values[v]
    /\ \A k \in Key : audit[k] # None => audit'[k] = audit[k] /\ runs'[k] = runs[k]
    /\ \A e \in Experiment :
          experiments[e] # None /\ experiments[e].status # "DRAFT" =>
             /\ \/ experiments'[e] = experiments[e]
                \/ /\ experiments[e].status = "FROZEN"
                   /\ experiments'[e] = [experiments[e] EXCEPT !.status = "ARCHIVED"]
             /\ \A a \in AssessmentId :
                   assessments[a] = None /\ assessments'[a] # None =>
                      assessments'[a].experiment # e
             /\ \A v \in ValueId :
                   values[v] = None /\ values'[v] # None =>
                      assessments'[values'[v].assessment].experiment # e

HistoryIsKept == [][HistoryStays]_vars

(* What remains of an experiment when profiles, assessments, keys and         *)
(* receipts are forgotten is the abstract ledger: the current value of a cell *)
(* is the one without a successor, an import fills a blank experiment in one  *)
(* step, and a closed experiment is closed for ever.                          *)
Ledger ==
    INSTANCE AssessmentLedger WITH
        Cell <- Target \X Parameter,
        Value <- ValueId,
        Blank <- None,
        current <- [x \in Experiment \X (Target \X Parameter) |->
                       LET now == CurrentValues(x[1], x[2][1], x[2][2])
                       IN  IF now = {} THEN None ELSE CHOOSE v \in now : TRUE],
        past <- {v \in Values : HasSuccessor(v)},
        closed <- {e \in Experiment : experiments[e] # None /\ experiments[e].status # "DRAFT"}

LedgerImplemented == Ledger!LedgerSpec
=============================================================================
