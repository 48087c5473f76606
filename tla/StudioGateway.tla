--------------------------- MODULE StudioGateway ---------------------------
(***************************************************************************)
(* The Foundation Studio gateways as they run: HTTP workers that admit a   *)
(* request without a lock, then run one READ COMMITTED transaction that    *)
(* locks the Project row, looks the operation key up, checks, inserts and  *)
(* commits; and that, when the transaction is rolled back, look the key up *)
(* once more without any lock before they answer.                          *)
(*                                                                         *)
(* The Project lock serializes a project, but two things are global: the   *)
(* primary keys of ProjectDefinitionVersion and AuditEvent (a definition   *)
(* UUID, an operation UUID), for which transactions of two projects race;  *)
(* and the first-project bootstrap has no Project row to lock.  As in      *)
(* PostgreSQL, an INSERT waits for an uncommitted row with the same key    *)
(* and fails on a committed one.                                           *)
(***************************************************************************)
EXTENDS DefinitionLifecycle

CONSTANTS
    Worker,       \* HTTP workers
    ScopeChange,  \* the <<actor, project>> grants that administrators may toggle
    Free          \* no worker: a row nobody has locked

ASSUME FreeAssumption == Free \notin Worker
ASSUME ScopeAssumption == ScopeChange \subseteq Actor \X Project

\* Where a worker is in its request.
Idle == "idle"
InTransaction == {"check", "project", "insert", "record", "commit"}
Phase == {"idle", "waiting", "classify", "answered"} \cup InTransaction

\* What a worker may answer.
Success == {"FRESH", "RECONCILED"}
IdentityConflict == {"PROJECT_ID_CONFLICT", "PROJECT_CODE_CONFLICT",
                     "DEFINITION_ID_CONFLICT", "DEFINITION_CODE_CONFLICT",
                     "DEFINITION_VERSION_CONFLICT", "PUBLICATION_ID_CONFLICT"}
LifecycleConflict == {"CLONE_SOURCE_STALE", "DEFINITION_NOT_DRAFT", "DRAFT_STALE",
                      "DEFINITION_ALREADY_VALIDATED", "DEFINITION_VALIDATION_FAILED",
                      "PUBLICATION_STALE", "PUBLICATION_ALREADY_COMMITTED",
                      "PUBLICATION_TARGET_STATE_CONFLICT",
                      "PUBLICATION_WORKSPACE_CONFLICT"}
KeyConflict == {"WRITE_OPERATION_KEY_REUSED", "PUBLICATION_OPERATION_KEY_REUSE"}
Outcome == Success \cup IdentityConflict \cup LifecycleConflict \cup KeyConflict
           \cup {"SCOPE_DENIED", "INTEGRITY_ERROR", "NONE"}

VARIABLES
    pc,       \* Worker -> phase
    request,  \* Worker -> the request it serves, or None
    seen,     \* Worker -> for a validation, the target's manifest as the unlocked
              \* admission read it, else None
    staged,   \* Worker -> the row its transaction is about to write, or None
    outcome,  \* Worker -> what it found or will answer
    scope,    \* <<actor, project>> pairs: membership of the project's scope group
    lock,     \* Project and Actor rows -> the worker that holds FOR UPDATE, or Free
    effects,  \* history: Request -> how often it has been committed
    refused   \* history: requests answered with a conflict that is final

gvars == <<pc, request, seen, staged, outcome, scope, lock, effects, refused>>
vars == <<dbvars, gvars>>

\* Bound on the history counter: one effect too many is enough to see.
MaxEffects == 2

GatewayTypeOK ==
    /\ TypeOK
    /\ pc \in [Worker -> Phase]
    /\ request \in [Worker -> Request \cup {None}]
    /\ seen \in [Worker -> Manifest \cup {None}]
    /\ staged \in [Worker -> DefinitionRow \cup {None}]
    /\ outcome \in [Worker -> Outcome]
    /\ scope \subseteq Actor \X Project
    /\ lock \in [Project \cup Actor -> Worker \cup {Free}]
    /\ effects \in [Request -> 0 .. MaxEffects]
    /\ refused \subseteq Request

-----------------------------------------------------------------------------
\* The row a transaction locks first: the Project, or for a bootstrap, whose
\* Project does not exist yet, the row of the user.
LockedRow(r) == IF r.op = "BOOTSTRAP_DRAFT" THEN r.actor ELSE r.project

\* What a transaction in flight has inserted and not yet committed.
InsertedProject(v) ==
    pc[v] \in {"insert", "record", "commit"} /\ request[v].op = "BOOTSTRAP_DRAFT"
InsertedDefinition(v) == pc[v] \in {"record", "commit"} /\ request[v].op \in InsertOp
InsertedWorkspace(v) == pc[v] = "commit" /\ request[v].op = "INITIAL"
InsertedReceipt(v) == pc[v] = "commit" /\ request[v].op \in WriteOp

-----------------------------------------------------------------------------
GatewayInit ==
    /\ LifecycleInit
    /\ pc = [w \in Worker |-> Idle]
    /\ request = [w \in Worker |-> None]
    /\ seen = [w \in Worker |-> None]
    /\ staged = [w \in Worker |-> None]
    /\ outcome = [w \in Worker |-> "NONE"]
    /\ scope = {}
    /\ lock = [x \in Project \cup Actor |-> Free]
    /\ effects = [r \in Request |-> 0]
    /\ refused = {}

Scoped(r) == <<r.actor, r.project>> \in scope

\* A bootstrap reveals nothing of an existing Project outside the actor's scope.
BootstrapDenied(r) ==
    r.op = "BOOTSTRAP_DRAFT" /\ projects[r.project] # None /\ ~Scoped(r)

\* Mutants: a bound key is a replay, whatever the intent; a bound key is a reuse,
\* even for the same intent.
KeyOutcomeTrusting(r) == "RECONCILED"
KeyOutcomeStrict(r) ==
    IF r.op \in WriteOp THEN "WRITE_OPERATION_KEY_REUSED"
    ELSE "PUBLICATION_OPERATION_KEY_REUSE"

\* Look the key up: replay of the same intent, or reuse for another one.
KeyOutcome(r) ==
    IF r \in BoundRequests(r) THEN "RECONCILED"
    ELSE IF r.op \in WriteOp THEN "WRITE_OPERATION_KEY_REUSED"
    ELSE "PUBLICATION_OPERATION_KEY_REUSE"

(***************************************************************************)
(* Admission, without a lock.  The route resolves the Project or the       *)
(* definition and checks the actor's scope (otherwise 404 or 403, and      *)
(* nothing else happens); of the row it read only a failed validation uses *)
(* anything later.  A bootstrap already looks its key up here, before any  *)
(* transaction.                                                            *)
(***************************************************************************)
Admit(w, r) ==
    /\ pc[w] = Idle
    /\ Resolves(r)
    /\ IF r.op = "BOOTSTRAP_DRAFT" THEN ~BootstrapDenied(r) ELSE Scoped(r)
    /\ request' = [request EXCEPT ![w] = r]
    /\ seen' = [seen EXCEPT ![w] = IF r.op = "VALIDATE_DEFINITION"
                                   THEN definitions[r.target].manifest ELSE None]
    /\ IF r.op = "BOOTSTRAP_DRAFT" /\ BoundRequests(r) # {}
       THEN /\ pc' = [pc EXCEPT ![w] = "answered"]
            /\ outcome' = [outcome EXCEPT ![w] = KeyOutcome(r)]
       ELSE /\ pc' = [pc EXCEPT ![w] = "waiting"]
            /\ UNCHANGED outcome
    /\ UNCHANGED <<dbvars, staged, scope, lock, effects, refused>>

\* Mutant: locks outlive their transaction.
KeepLocks(w) == UNCHANGED lock

Release(w) == lock' = [x \in DOMAIN lock |-> IF lock[x] = w THEN Free ELSE lock[x]]

\* Mutant: a SELECT without FOR UPDATE.
LockUnguarded(w) ==
    LET r == request[w] IN
    /\ pc[w] = "waiting"
    /\ IF r.op # "BOOTSTRAP_DRAFT" /\ BoundRequests(r) # {}
       THEN /\ pc' = [pc EXCEPT ![w] = "answered"]
            /\ outcome' = [outcome EXCEPT ![w] = KeyOutcome(r)]
       ELSE /\ pc' = [pc EXCEPT ![w] = "check"]
            /\ UNCHANGED outcome
    /\ UNCHANGED <<dbvars, request, seen, staged, scope, lock, effects, refused>>

(***************************************************************************)
(* SELECT ... FOR UPDATE of the Project row, and the key lookup under it:  *)
(* a known key is answered before any stale, lifecycle or duplicate check. *)
(* (A write's key conflict is raised inside the transaction and found      *)
(* again after the rollback: receipts are immutable.)                      *)
(***************************************************************************)
Lock(w) ==
    LET r == request[w] IN
    /\ pc[w] = "waiting"
    /\ lock[LockedRow(r)] = Free
    /\ IF r.op # "BOOTSTRAP_DRAFT" /\ BoundRequests(r) # {}
       THEN /\ pc' = [pc EXCEPT ![w] = "answered"]
            /\ outcome' = [outcome EXCEPT ![w] = KeyOutcome(r)]
            /\ UNCHANGED lock
       ELSE /\ pc' = [pc EXCEPT ![w] = "check"]
            /\ lock' = [lock EXCEPT ![LockedRow(r)] = w]
            /\ UNCHANGED outcome
    /\ UNCHANGED <<dbvars, request, seen, staged, scope, effects, refused>>

\* Roll the transaction back.  A HUMAN write goes on to look its key up again;
\* a publication answers what it found.
RollBack(w, code) ==
    /\ pc' = [pc EXCEPT ![w] = IF request[w].op \in WriteOp THEN "classify" ELSE "answered"]
    /\ outcome' = [outcome EXCEPT ![w] = code]
    /\ staged' = [staged EXCEPT ![w] = None]
    /\ Release(w)

\* The identity, staleness and lifecycle checks, and the row to write.
Check(w) ==
    LET r == request[w] IN
    /\ pc[w] = "check"
    /\ IF Refusal(r) = Accepted
       THEN /\ staged' = [staged EXCEPT ![w] = AfterRow(r)]
            /\ pc' = [pc EXCEPT ![w] =
                        IF r.op = "BOOTSTRAP_DRAFT" THEN "project" ELSE "insert"]
            /\ UNCHANGED <<outcome, lock>>
       ELSE RollBack(w, Refusal(r))
    /\ UNCHANGED <<dbvars, request, seen, scope, effects, refused>>

(***************************************************************************)
(* An INSERT under a unique constraint: it waits while another transaction *)
(* has the same key uncommitted, fails when the key is committed, and      *)
(* otherwise goes on to phase next.                                        *)
(***************************************************************************)
InsertUnique(w, uncommitted, committed, code, next) ==
    /\ ~uncommitted
    /\ IF committed
       THEN RollBack(w, code)
       ELSE /\ pc' = [pc EXCEPT ![w] = next]
            /\ UNCHANGED <<outcome, staged, lock>>
    /\ UNCHANGED <<dbvars, request, seen, scope, effects, refused>>

\* INSERT INTO project, unique by UUID and by code.
InsertProject(w) ==
    LET r == request[w] IN
    /\ pc[w] = "project"
    /\ InsertUnique(w,
          \E v \in Worker \ {w} :
             /\ InsertedProject(v)
             /\ \/ request[v].project = r.project
                \/ request[v].projectCode = r.projectCode,
          projects[r.project] # None \/ \E p \in Project : projects[p] = r.projectCode,
          "INTEGRITY_ERROR", "insert")

\* What a taken UUID is reported as.  A workspace UUID that full_clean finds
\* committed is a ValidationError, one that only the INSERT runs into is an
\* IntegrityError; the publication gateway maps them differently.
TakenCodes(r) ==
    IF r.op \in WriteOp THEN {"INTEGRITY_ERROR"}
    ELSE {"PUBLICATION_ID_CONFLICT", "PUBLICATION_TARGET_STATE_CONFLICT"}

\* Mutant: no primary key on definitions and workspaces.
MutateUnconstrained(w) ==
    /\ pc[w] = "insert"
    /\ InsertUnique(w, FALSE, FALSE, "INTEGRITY_ERROR",
          IF request[w].op \in WriteOp THEN "record" ELSE "commit")

\* The domain mutation: INSERT of a new definition or of the initial workspace,
\* or an UPDATE of rows that the Project lock already protects.
Mutate(w) ==
    LET r == request[w] IN
    /\ pc[w] = "insert"
    /\ \E code \in TakenCodes(r) : InsertUnique(w,
          \E v \in Worker \ {w} :
             \/ r.op \in InsertOp /\ InsertedDefinition(v) /\ request[v].target = r.target
             \/ r.op = "INITIAL" /\ InsertedWorkspace(v)
                /\ request[v].workspace = r.workspace,
          \/ r.op \in InsertOp /\ Exists(r.target)
          \/ r.op = "INITIAL" /\ workspaces[r.workspace] # None,
          code, IF r.op \in WriteOp THEN "record" ELSE "commit")

\* Mutant: the operation UUID is not unique.
RecordUnconstrained(w) ==
    /\ pc[w] = "record"
    /\ InsertUnique(w, FALSE, FALSE, "INTEGRITY_ERROR", "commit")

\* INSERT of the AuditEvent whose primary key is the operation UUID.
Record(w) ==
    LET r == request[w] IN
    /\ pc[w] = "record"
    /\ InsertUnique(w,
          \E v \in Worker \ {w} : InsertedReceipt(v) /\ request[v].key = r.key,
          BoundRequests(r) # {},
          "INTEGRITY_ERROR", "commit")

Commit(w) ==
    LET r == request[w] IN
    /\ pc[w] = "commit"
    /\ IF r.op \in WriteOp THEN HumanWrite(r, staged[w]) ELSE Publish(r, staged[w])
    /\ Release(w)
    /\ pc' = [pc EXCEPT ![w] = "answered"]
    /\ outcome' = [outcome EXCEPT ![w] = "FRESH"]
    /\ staged' = [staged EXCEPT ![w] = None]
    /\ effects' = [effects EXCEPT ![r] = IF @ < MaxEffects THEN @ + 1 ELSE @]
    /\ scope' = IF r.op = "BOOTSTRAP_DRAFT" THEN scope \cup {<<r.actor, r.project>>}
                ELSE scope
    /\ UNCHANGED <<request, seen, refused>>

\* Mutant: only a bootstrap is reclassified.
ReclassifiedBootstrap(r) ==
    IF r.op = "BOOTSTRAP_DRAFT" THEN FirstProjectIdentityConflict(r) ELSE Accepted

\* An integrity error with no receipt to show for it: say which identity is taken.
Reclassified(r) ==
    IF r.op = "BOOTSTRAP_DRAFT" THEN FirstProjectIdentityConflict(r)
    ELSE IF r.op \in InsertOp THEN DefinitionIdentityConflict(r)
    ELSE Accepted

\* Mutant: the key is not looked up again after the rollback.
ClassifyFromRows(w) ==
    LET r == request[w] IN
    /\ pc[w] = "classify"
    /\ pc' = [pc EXCEPT ![w] = "answered"]
    /\ outcome' = [outcome EXCEPT ![w] =
          IF BootstrapDenied(r) THEN "SCOPE_DENIED"
          ELSE IF outcome[w] # "INTEGRITY_ERROR" THEN outcome[w]
          ELSE IF Reclassified(r) # Accepted THEN Reclassified(r)
          ELSE "INTEGRITY_ERROR"]
    /\ UNCHANGED <<dbvars, request, seen, staged, scope, lock, effects, refused>>

(***************************************************************************)
(* After a rollback, without a lock: a bootstrap first proves its scope    *)
(* again, if the Project exists by now; then the winner of a race may have *)
(* left a receipt under this key; otherwise an application conflict        *)
(* stands, and an integrity error is reclassified from the rows.  An error *)
(* that no row explains escapes as INTEGRITY_ERROR.                        *)
(***************************************************************************)
Classify(w) ==
    LET r == request[w] IN
    /\ pc[w] = "classify"
    /\ pc' = [pc EXCEPT ![w] = "answered"]
    /\ outcome' = [outcome EXCEPT ![w] =
          IF BootstrapDenied(r) THEN "SCOPE_DENIED"
          ELSE IF BoundRequests(r) # {} THEN KeyOutcome(r)
          ELSE IF outcome[w] # "INTEGRITY_ERROR" THEN outcome[w]
          ELSE IF Reclassified(r) # Accepted THEN Reclassified(r)
          ELSE "INTEGRITY_ERROR"]
    /\ UNCHANGED <<dbvars, request, seen, staged, scope, lock, effects, refused>>

\* Refusals that no later state can undo: what they complain of is permanent.
Final(r, code) ==
    \/ code \in IdentityConflict \cup KeyConflict
    \/ code \in {"DEFINITION_NOT_DRAFT", "DEFINITION_ALREADY_VALIDATED",
                 "PUBLICATION_ALREADY_COMMITTED"}
    \/ code = "PUBLICATION_TARGET_STATE_CONFLICT" /\ r.op = "INITIAL"
          /\ PublicationsOf(r.project) # {}

Forget(w) ==
    /\ pc' = [pc EXCEPT ![w] = Idle]
    /\ request' = [request EXCEPT ![w] = None]
    /\ seen' = [seen EXCEPT ![w] = None]
    /\ staged' = [staged EXCEPT ![w] = None]
    /\ outcome' = [outcome EXCEPT ![w] = "NONE"]

\* The response leaves the worker.
Answer(w) ==
    /\ pc[w] = "answered"
    /\ refused' = IF Final(request[w], outcome[w]) THEN refused \cup {request[w]} ELSE refused
    /\ Forget(w)
    /\ UNCHANGED <<dbvars, scope, lock, effects>>

\* The worker dies or its connection breaks: PostgreSQL rolls an open
\* transaction back and frees its locks, and nobody is answered.
Crash(w) ==
    /\ pc[w] # Idle
    /\ Forget(w)
    /\ Release(w)
    /\ UNCHANGED <<dbvars, scope, effects, refused>>

\* An administrator grants or revokes a scope, whatever the workers are doing.
ChangeScope(grant) ==
    /\ projects[grant[2]] # None
    /\ scope' = IF grant \in scope THEN scope \ {grant} ELSE scope \cup {grant}
    /\ UNCHANGED <<dbvars, pc, request, seen, staged, outcome, lock, effects, refused>>

Serve(w) ==
    \/ Check(w)
    \/ InsertProject(w)
    \/ Mutate(w)
    \/ Record(w)
    \/ Commit(w)
    \/ Classify(w)
    \/ Answer(w)

GatewayNext ==
    \/ \E w \in Worker :
          \/ \E r \in Request : Admit(w, r)
          \/ Lock(w)
          \/ Serve(w)
          \/ Crash(w)
    \/ \E grant \in ScopeChange : ChangeScope(grant)

GatewaySpec == GatewayInit /\ [][GatewayNext]_vars

\* A worker that can take a step takes it.  Row locks are granted in the order
\* in which they were asked for, so a waiting transaction gets its turn even if
\* the row is locked and freed again and again.  Workers eventually stop dying:
\* without that, peers that insert the same UUID and die before they commit
\* could keep an INSERT waiting for ever.  Requests need not come.
Fairness ==
    /\ \A w \in Worker : WF_vars(Serve(w)) /\ SF_vars(Lock(w))
    /\ <>[][\A w \in Worker : pc'[w] = Idle => pc[w] \in {Idle, "answered"}]_vars
FairGatewaySpec == GatewaySpec /\ Fairness

-----------------------------------------------------------------------------
(* Properties.                                                             *)

\* The interleaved transactions of all workers are serializable: what they
\* commit is a behaviour of the atomic operations.
Serializable == LifecycleSpec

\* A request takes effect at most once, however often it is sent, and exactly
\* when its receipt is there; no second intent takes effect under its key.
ExactlyOnceEffects ==
    /\ \A r \in Request : effects[r] = (IF r \in BoundRequests(r) THEN 1 ELSE 0)
    /\ KeyBindsOneIntent

\* A worker that answers success has, or the worker it reconciles with had,
\* committed exactly this request.
TruthfulSuccess ==
    \A w \in Worker : pc[w] = "answered" /\ outcome[w] \in Success => effects[request[w]] = 1

\* A final refusal is final: the request has had no effect and never will, not
\* even through a duplicate that is still in flight.
FinalRefusals == \A r \in refused : effects[r] = 0

\* Every lost race is explained by a row: no integrity error reaches a client
\* unclassified.
RacesAreClassified ==
    \A w \in Worker : pc[w] = "answered" => outcome[w] # "INTEGRITY_ERROR"

\* Whatever a worker answers is true, and a client may rely on it: its request
\* was committed, or never will be, or at least the row in its way is named.
AnswersAreTrue == TruthfulSuccess /\ FinalRefusals /\ RacesAreClassified

\* Draft bytes are replaced only by a save whose If-Match was exactly the bytes
\* that are lost.
NoLostUpdate ==
    [][\A d \in Definition :
          Exists(d) /\ definitions'[d].manifest # definitions[d].manifest =>
             \E row \in receipts' \ receipts :
                /\ row.request.op = "SAVE_DRAFT"
                /\ row.request.target = d
                /\ row.request.ifMatch = definitions[d].manifest
                /\ row.request.manifest = definitions'[d].manifest
      ]_vars

\* The report of a failed validation describes one manifest: the bytes it names
\* as base and candidate are the bytes that were diagnosed.
FailureReportBindsManifest ==
    \A w \in Worker :
        pc[w] = "answered" /\ outcome[w] = "DEFINITION_VALIDATION_FAILED" =>
            seen[w] = request[w].ifMatch

\* Every request that waits for the lock is answered, unless its worker dies.
AdmittedIsAnswered ==
    \A w \in Worker : pc[w] = "waiting" ~> pc[w] \in {"answered", Idle}
=============================================================================
