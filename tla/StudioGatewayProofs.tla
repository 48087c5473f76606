------------------------- MODULE StudioGatewayProofs -------------------------
(***************************************************************************)
(* Theorems about StudioGateway, for any workers, requests, projects and   *)
(* definitions: its interleaved transactions implement the atomic          *)
(* operations of DefinitionLifecycle, so that everything proved of those   *)
(* holds of the running gateway; and what it answers is true.              *)
(***************************************************************************)
EXTENDS StudioGateway, DefinitionLifecycleProofs

-----------------------------------------------------------------------------
(* What a transaction knows while it runs.                                 *)

\* The phases that follow the checks.
Staged == {"project", "insert", "record", "commit"}

\* The checks a transaction has passed and on which its Project lock still lets
\* it rely: those that look at rows of its own project.
ChecksHold(r) ==
    /\ r.op \in {"CREATE_DRAFT", "CLONE_DRAFT"} =>
          \A d \in InProject(r.project) :
             definitions[d].code # r.code /\ definitions[d].version # r.version
    /\ r.op = "CLONE_DRAFT" => definitions[r.source].manifest = r.ifMatch
    /\ r.op = "SAVE_DRAFT" => SaveRefusal(r) = Accepted
    /\ r.op = "VALIDATE_DEFINITION" => ValidateRefusal(r) = Accepted
    /\ r.op = "INITIAL" =>
          /\ definitions[r.target].manifest = r.ifMatch
          /\ ~IsPublished(r.target)
          /\ PublicationsOf(r.project) = {}
          /\ WorkspacesOf(r.project) = {}
          /\ InitialLifecycleAllows(r)
    /\ r.op = "SUCCESSOR" => SuccessorRefusal(r) = Accepted

\* Neither the UUID nor the code of a new Project is taken.
ProjectFree(r) ==
    projects[r.project] = None /\ \A p \in Project : projects[p] # r.projectCode

Serving(w, r) == pc[w] # Idle /\ request[w] = r

\* What holds of worker w while it serves request r: the Project lock is its own
\* from the check to the end, what it has staged is still what the operation would
\* write, and no identity it has inserted is committed.
HoldsFor(w, r) ==
    /\ Resolves(r)
    /\ pc[w] = "project" => r.op = "BOOTSTRAP_DRAFT"
    /\ pc[w] \in {"record", "classify"} => r.op \in WriteOp
    /\ pc[w] \in InTransaction => lock[LockedRow(r)] = w
    /\ pc[w] \in Staged => staged[w] = AfterRow(r) /\ ChecksHold(r)
    /\ pc[w] \in InTransaction /\ r.op \in PublicationOp => BoundRequests(r) = {}
    /\ pc[w] \in {"insert", "record", "commit"} /\ r.op = "BOOTSTRAP_DRAFT" => ProjectFree(r)
    /\ pc[w] \in {"record", "commit"} /\ r.op \in InsertOp => ~Exists(r.target)
    /\ pc[w] = "commit" /\ r.op = "INITIAL" => workspaces[r.workspace] = None
    /\ pc[w] = "commit" /\ r.op \in WriteOp => BoundRequests(r) = {}

\* Two transactions in flight have not inserted the same identity.
Apart(v, w) ==
    /\ InsertedProject(v) /\ InsertedProject(w) =>
          /\ request[v].project # request[w].project
          /\ request[v].projectCode # request[w].projectCode
    /\ InsertedDefinition(v) /\ InsertedDefinition(w) =>
          request[v].target # request[w].target
    /\ InsertedWorkspace(v) /\ InsertedWorkspace(w) =>
          request[v].workspace # request[w].workspace
    /\ InsertedReceipt(v) /\ InsertedReceipt(w) => request[v].key # request[w].key

\* A definition belongs to a Project that is there.
RowsBelong == \A d \in Definition : Exists(d) => projects[definitions[d].project] # None

TransactionInv ==
    /\ GatewayTypeOK
    /\ RowsBelong
    /\ \A w \in Worker : pc[w] # Idle => request[w] \in Request
    /\ \A w \in Worker, r \in Request : Serving(w, r) => HoldsFor(w, r)
    /\ \A v \in Worker, w \in Worker : v # w => Apart(v, w)

-----------------------------------------------------------------------------
(* Types.                                                                  *)

\* Everything an operation is refused with may be answered.
LEMMA RefusalType ==
    ASSUME NEW r \in Request
    PROVE  Refusal(r) \in IdentityConflict \cup LifecycleConflict \cup {Accepted}
<1>1. r.op \in WriteOp \cup PublicationOp
  BY RequestFields
<1> USE DEF IdentityConflict, LifecycleConflict, Accepted
<1>2. CASE r.op = "BOOTSTRAP_DRAFT"
  BY <1>2 DEF Refusal, FirstProjectIdentityConflict
<1>3. DefinitionIdentityConflict(r) \in IdentityConflict \cup {Accepted}
  BY DEF DefinitionIdentityConflict
<1>4. CASE r.op = "CREATE_DRAFT"
  BY <1>3, <1>4 DEF Refusal
<1>5. CASE r.op = "CLONE_DRAFT"
  BY <1>3, <1>5 DEF Refusal, CloneRefusal
<1>6. CASE r.op = "SAVE_DRAFT"
  BY <1>6 DEF Refusal, SaveRefusal
<1>7. CASE r.op = "VALIDATE_DEFINITION"
  BY <1>7 DEF Refusal, ValidateRefusal
<1>8. CASE r.op = "INITIAL"
  BY <1>8 DEF Refusal, InitialRefusal
<1>9. CASE r.op = "SUCCESSOR"
  BY <1>9 DEF Refusal, SuccessorRefusal
<1> QED
  BY <1>1, <1>2, <1>4, <1>5, <1>6, <1>7, <1>8, <1>9 DEF WriteOp, PublicationOp

LEMMA KeyOutcomeType ==
    \A r \in Request : KeyOutcome(r) \in {"RECONCILED"} \cup KeyConflict
  BY DEF KeyOutcome, KeyConflict

\* The row that is locked is a Project's or a user's.
LEMMA LockedRowType ==
    \A r \in Request : LockedRow(r) \in Project \cup Actor
<1> SUFFICES ASSUME NEW r \in Request PROVE LockedRow(r) \in Project \cup Actor
  OBVIOUS
<1>1. r \in RequestType
  BY RequestAssumption
<1> QED
  BY <1>1 DEF LockedRow, RequestType

\* What all steps of a worker that leave the rows alone have in common: the rest
\* of the types follows from the new phase, outcome, row and lock.
GatewayPart ==
    /\ pc \in [Worker -> Phase]
    /\ request \in [Worker -> Request \cup {None}]
    /\ seen \in [Worker -> Manifest \cup {None}]
    /\ staged \in [Worker -> DefinitionRow \cup {None}]
    /\ outcome \in [Worker -> Outcome]
    /\ scope \subseteq Actor \X Project
    /\ lock \in [Project \cup Actor -> Worker \cup {Free}]
    /\ effects \in [Request -> 0 .. MaxEffects]
    /\ refused \subseteq Request

LEMMA TypeParts == GatewayTypeOK <=> TypeOK /\ GatewayPart
  BY DEF GatewayTypeOK, GatewayPart

\* Rows that do not change keep their types.
LEMMA SameRowsType == TypeOK /\ UNCHANGED dbvars => TypeOK'
  BY DEF TypeOK, dbvars

\* A rollback answers a typed outcome and frees the locks of its worker.
LEMMA RollBackType ==
    ASSUME GatewayPart, NEW w \in Worker, NEW code \in Outcome, RollBack(w, code)
    PROVE  /\ pc' \in [Worker -> Phase]
           /\ staged' \in [Worker -> DefinitionRow \cup {None}]
           /\ outcome' \in [Worker -> Outcome]
           /\ lock' \in [Project \cup Actor -> Worker \cup {Free}]
<1>1. pc' \in [Worker -> Phase] /\ outcome' \in [Worker -> Outcome]
  BY DEF GatewayPart, RollBack, Phase
<1>2. staged' \in [Worker -> DefinitionRow \cup {None}]
  BY DEF GatewayPart, RollBack
<1>3. lock' \in [Project \cup Actor -> Worker \cup {Free}]
  BY DEF GatewayPart, RollBack, Release
<1> QED
  BY <1>1, <1>2, <1>3

\* So does an INSERT, which succeeds or is rolled back.
LEMMA InsertType ==
    ASSUME GatewayPart, NEW w \in Worker, NEW uncommitted, NEW committed,
           NEW code \in Outcome, NEW next \in Phase,
           InsertUnique(w, uncommitted, committed, code, next)
    PROVE  GatewayPart'
<1>1. CASE committed
  <2>1. RollBack(w, code)
    BY <1>1 DEF InsertUnique
  <2> QED
    BY <2>1, RollBackType DEF InsertUnique, GatewayPart
<1>2. CASE ~committed
  BY <1>2 DEF InsertUnique, GatewayPart
<1> QED
  BY <1>1, <1>2

\* Steps that leave the rows alone keep the types.
LEMMA QuietTypes ==
    ASSUME GatewayTypeOK, NEW w \in Worker,
           pc[w] # Idle => request[w] \in Request,
           \/ \E r \in Request : Admit(w, r)
           \/ Lock(w)
           \/ Check(w) /\ AfterRow(request[w]) \in DefinitionRow
           \/ InsertProject(w) \/ Mutate(w) \/ Record(w)
           \/ Classify(w) \/ Answer(w) \/ Crash(w)
    PROVE  GatewayTypeOK' /\ UNCHANGED dbvars
<1> DEFINE r == request[w]
<1>0. GatewayPart
  BY TypeParts
<1> SUFFICES GatewayPart' /\ UNCHANGED dbvars
  BY SameRowsType DEF GatewayTypeOK, GatewayPart
<1>1. ASSUME NEW a \in Request, Admit(w, a) PROVE GatewayPart' /\ UNCHANGED dbvars
  <2>1. UNCHANGED <<dbvars, staged, scope, lock, effects, refused>>
    BY <1>1 DEF Admit
  <2>2. pc' \in [Worker -> Phase] /\ request' \in [Worker -> Request \cup {None}]
    BY <1>0, <1>1 DEF Admit, GatewayPart, Phase
  <2>3. seen' \in [Worker -> Manifest \cup {None}]
    <3>1. a.op = "VALIDATE_DEFINITION" => definitions[a.target] \in DefinitionRow
      <4>1. a.op = "VALIDATE_DEFINITION" => a.target \in InProject(a.project)
        BY <1>1 DEF Admit, Resolves
      <4> QED
        BY <4>1, RowType DEF GatewayTypeOK, InProject
    <3>2. a.op = "VALIDATE_DEFINITION" => definitions[a.target].manifest \in Manifest
      BY <3>1 DEF DefinitionRow
    <3> QED
      BY <1>0, <1>1, <3>2 DEF Admit, GatewayPart
  <2>4. outcome' \in [Worker -> Outcome]
    <3>1. KeyOutcome(a) \in Outcome
      BY KeyOutcomeType DEF Outcome, Success
    <3> QED
      BY <1>0, <1>1, <3>1 DEF Admit, GatewayPart
  <2> QED
    BY <1>0, <2>1, <2>2, <2>3, <2>4 DEF GatewayPart
<1>2. CASE Lock(w)
  <2>1. UNCHANGED <<dbvars, request, seen, staged, scope, effects, refused>>
    BY <1>2 DEF Lock
  <2>2. r \in Request
    BY <1>2 DEF Lock, Idle
  <2>3. KeyOutcome(r) \in Outcome
    BY <2>2, KeyOutcomeType DEF Outcome, Success
  <2>4. pc' \in [Worker -> Phase] /\ outcome' \in [Worker -> Outcome]
    BY <1>0, <1>2, <2>3 DEF Lock, GatewayPart, Phase, InTransaction
  <2>5. lock' \in [Project \cup Actor -> Worker \cup {Free}]
    BY <1>0, <1>2, <2>2 DEF Lock, GatewayPart
  <2> QED
    BY <1>0, <2>1, <2>4, <2>5 DEF GatewayPart
<1>3. CASE Check(w) /\ AfterRow(request[w]) \in DefinitionRow
  <2>1. UNCHANGED <<dbvars, request, seen, scope, effects, refused>>
    BY <1>3 DEF Check
  <2>2. CASE Refusal(r) = Accepted
    BY <1>0, <1>3, <2>1, <2>2 DEF Check, GatewayPart, Phase, InTransaction
  <2>3. CASE Refusal(r) # Accepted
    <3>1. r \in Request
      BY <1>3 DEF Check, Idle
    <3>2. Refusal(r) \in Outcome
      BY <2>3, <3>1, RefusalType DEF Outcome
    <3>3. RollBack(w, Refusal(r))
      BY <1>3, <2>3 DEF Check
    <3> QED
      BY <1>0, <2>1, <3>2, <3>3, RollBackType DEF GatewayPart
  <2> QED
    BY <2>2, <2>3
<1>4. CASE InsertProject(w)
  <2>1. "INTEGRITY_ERROR" \in Outcome /\ "insert" \in Phase
    BY DEF Outcome, Phase, InTransaction
  <2>2. GatewayPart'
    BY <1>0, <1>4, <2>1, InsertType DEF InsertProject
  <2> QED
    BY <1>4, <2>2 DEF InsertProject, InsertUnique
<1>5. CASE Mutate(w)
  <2> DEFINE next == IF r.op \in WriteOp THEN "record" ELSE "commit"
             uncommitted == \E v \in Worker \ {w} :
                \/ r.op \in InsertOp /\ InsertedDefinition(v) /\ request[v].target = r.target
                \/ r.op = "INITIAL" /\ InsertedWorkspace(v)
                   /\ request[v].workspace = r.workspace
             committed == \/ r.op \in InsertOp /\ Exists(r.target)
                          \/ r.op = "INITIAL" /\ workspaces[r.workspace] # None
  <2>1. PICK code \in TakenCodes(r) : InsertUnique(w, uncommitted, committed, code, next)
    BY <1>5 DEF Mutate
  <2>2. code \in Outcome /\ next \in Phase
    BY DEF TakenCodes, Outcome, IdentityConflict, LifecycleConflict, Phase, InTransaction
  <2> HIDE DEF next, uncommitted, committed
  <2>3. GatewayPart'
    BY <1>0, <2>1, <2>2, InsertType
  <2> QED
    BY <2>1, <2>3 DEF InsertUnique
<1>6. CASE Record(w)
  <2>1. "INTEGRITY_ERROR" \in Outcome /\ "commit" \in Phase
    BY DEF Outcome, Phase, InTransaction
  <2>2. GatewayPart'
    BY <1>0, <1>6, <2>1, InsertType DEF Record
  <2> QED
    BY <1>6, <2>2 DEF Record, InsertUnique
<1>7. CASE Classify(w)
  <2>1. r \in Request
    BY <1>7 DEF Classify, Idle
  <2>2. KeyOutcome(r) \in Outcome
    BY <2>1, KeyOutcomeType DEF Outcome, Success
  <2>3. Reclassified(r) \in Outcome \cup {Accepted}
    BY DEF Reclassified, Outcome, IdentityConflict, FirstProjectIdentityConflict, DefinitionIdentityConflict
  <2>4. outcome[w] \in Outcome /\ "SCOPE_DENIED" \in Outcome /\ "INTEGRITY_ERROR" \in Outcome
    BY <1>0 DEF GatewayPart, Outcome
  <2>5. outcome' \in [Worker -> Outcome]
    BY <1>0, <1>7, <2>2, <2>3, <2>4 DEF Classify, GatewayPart
  <2> QED
    BY <1>0, <1>7, <2>5 DEF Classify, GatewayPart, Phase
<1>8. ASSUME Forget(w)
      PROVE  /\ pc' \in [Worker -> Phase]
             /\ request' \in [Worker -> Request \cup {None}]
             /\ seen' \in [Worker -> Manifest \cup {None}]
             /\ staged' \in [Worker -> DefinitionRow \cup {None}]
             /\ outcome' \in [Worker -> Outcome]
  BY <1>0, <1>8 DEF Forget, GatewayPart, Phase, Idle, Outcome
<1>9. CASE Answer(w)
  <2>1. r \in Request
    BY <1>9 DEF Answer, Idle
  <2> QED
    BY <1>0, <1>8, <1>9, <2>1 DEF Answer, GatewayPart
<1>10. CASE Crash(w)
  <2>1. lock' \in [Project \cup Actor -> Worker \cup {Free}]
    BY <1>0, <1>10 DEF Crash, Release, GatewayPart
  <2> QED
    BY <1>0, <1>8, <1>10, <2>1 DEF Crash, GatewayPart
<1> QED
  BY <1>1, <1>2, <1>3, <1>4, <1>5, <1>6, <1>7, <1>9, <1>10

-----------------------------------------------------------------------------
(* Steps that leave the rows alone.                                        *)

\* Whatever is said of the rows for one request is still said.
LEMMA SameRows ==
    ASSUME UNCHANGED dbvars, NEW r
    PROVE  /\ Resolves(r)' <=> Resolves(r)
           /\ AfterRow(r)' = AfterRow(r)
           /\ ChecksHold(r)' <=> ChecksHold(r)
           /\ BoundRequests(r)' = BoundRequests(r)
           /\ ProjectFree(r)' <=> ProjectFree(r)
           /\ Exists(r.target)' <=> Exists(r.target)
           /\ workspaces' = workspaces
           /\ RowsBelong' <=> RowsBelong
<1> USE DEF dbvars, InProject, Exists
<1>1. Resolves(r)' <=> Resolves(r)
  BY DEF Resolves
<1>2. AfterRow(r)' = AfterRow(r)
  BY DEF AfterRow, DraftRow
<1>3. BoundRequests(r)' = BoundRequests(r)
  BY DEF BoundRequests, PublicationsOf
<1>4. ProjectFree(r)' <=> ProjectFree(r)
  BY DEF ProjectFree
<1>5. RowsBelong' <=> RowsBelong
  BY DEF RowsBelong
<1>6. ChecksHold(r)' <=> ChecksHold(r)
  <2>1. /\ SaveRefusal(r)' = SaveRefusal(r)
        /\ ValidateRefusal(r)' = ValidateRefusal(r)
    BY DEF SaveRefusal, ValidateRefusal
  <2>2. /\ IsPublished(r.target)' <=> IsPublished(r.target)
        /\ PublicationsOf(r.project)' = PublicationsOf(r.project)
        /\ InitialReceipts(r.project)' = InitialReceipts(r.project)
        /\ WorkspacesOf(r.project)' = WorkspacesOf(r.project)
        /\ Current(r.project)' = Current(r.project)
        /\ InProject(r.project)' = InProject(r.project)
    BY DEF IsPublished, PublicationsOf, WorkspacesOf, Current, InitialReceipts
  <2>3. InitialLifecycleAllows(r)' <=> InitialLifecycleAllows(r)
    BY <2>2 DEF InitialLifecycleAllows
  <2>4. SuccessorRefusal(r)' = SuccessorRefusal(r)
    BY <2>2 DEF SuccessorRefusal, SuccessorLifecycleAllows
  <2> QED
    BY <2>1, <2>2, <2>3, <2>4 DEF ChecksHold
<1> QED
  BY <1>1, <1>2, <1>3, <1>4, <1>5, <1>6

\* The other workers: where they are, what they serve, what they lock.
OthersStay(w) ==
    \A v \in Worker \ {w} :
       /\ pc'[v] = pc[v] /\ request'[v] = request[v] /\ staged'[v] = staged[v]
       /\ \A x \in Project \cup Actor : lock[x] = v => lock'[x] = v

\* What worker w has to show after a step of its own.
OwnPart(w) ==
    /\ pc[w] # Idle => request[w] \in Request
    /\ \A r \in Request : Serving(w, r) => HoldsFor(w, r)
    /\ \A v \in Worker \ {w} : Apart(v, w) /\ Apart(w, v)

LEMMA QuietStep ==
    ASSUME TransactionInv, GatewayTypeOK', UNCHANGED dbvars, NEW w \in Worker,
           OthersStay(w), OwnPart(w)'
    PROVE  TransactionInv'
<1>1. RowsBelong'
  BY SameRows DEF TransactionInv
<1>2. \A v \in Worker : pc'[v] # Idle => request'[v] \in Request
  BY DEF TransactionInv, OthersStay, OwnPart
<1>3. ASSUME NEW v \in Worker, NEW r \in Request, Serving(v, r)'
      PROVE  HoldsFor(v, r)'
  <2>1. CASE v = w
    BY <1>3, <2>1 DEF OwnPart
  <2>2. CASE v # w
    <3>1. pc'[v] = pc[v] /\ request'[v] = request[v] /\ staged'[v] = staged[v]
      BY <2>2 DEF OthersStay
    <3>2. HoldsFor(v, r)
      BY <1>3, <3>1 DEF TransactionInv, Serving
    <3>3. lock[LockedRow(r)] = v => lock'[LockedRow(r)] = v
      BY <2>2, LockedRowType DEF OthersStay
    <3> QED
      BY <3>1, <3>2, <3>3, SameRows DEF HoldsFor
  <2> QED
    BY <2>1, <2>2
<1>4. ASSUME NEW u \in Worker, NEW v \in Worker, u # v
      PROVE  Apart(u, v)'
  <2>1. CASE u = w \/ v = w
    BY <1>4, <2>1 DEF OwnPart
  <2>2. CASE u # w /\ v # w
    <3>1. Apart(u, v)
      BY <1>4 DEF TransactionInv
    <3>2. /\ pc'[u] = pc[u] /\ request'[u] = request[u]
          /\ pc'[v] = pc[v] /\ request'[v] = request[v]
      BY <2>2 DEF OthersStay
    <3> QED
      BY <3>1, <3>2 DEF Apart, InsertedProject, InsertedDefinition, InsertedWorkspace, InsertedReceipt
  <2> QED
    BY <2>1, <2>2
<1> QED
  BY <1>1, <1>2, <1>3, <1>4 DEF TransactionInv

\* Outside its transaction a worker has nothing to show but its request.
LEMMA LooseStep ==
    ASSUME TransactionInv, GatewayTypeOK', UNCHANGED dbvars, NEW w \in Worker,
           OthersStay(w), pc'[w] \notin InTransaction,
           pc'[w] # Idle => request'[w] \in Request /\ Resolves(request'[w]),
           pc'[w] = "classify" => request'[w].op \in WriteOp
    PROVE  TransactionInv'
<1>1. \A r \in Request : Serving(w, r)' => HoldsFor(w, r)'
  <2> SUFFICES ASSUME NEW r \in Request, Serving(w, r)' PROVE HoldsFor(w, r)'
    OBVIOUS
  <2>1. request'[w] = r /\ Resolves(r)
    BY DEF Serving
  <2>2. Resolves(r)'
    BY <2>1, SameRows
  <2> QED
    BY <2>1, <2>2 DEF HoldsFor, InTransaction, Staged
<1>2. \A v \in Worker \ {w} : Apart(v, w)' /\ Apart(w, v)'
  BY DEF Apart, InsertedProject, InsertedDefinition, InsertedWorkspace, InsertedReceipt, InTransaction
<1> QED
  BY <1>1, <1>2, QuietStep DEF OwnPart

\* Releasing the locks of w takes none from another worker.
LEMMA ReleaseOwn ==
    ASSUME GatewayTypeOK, NEW w \in Worker, Release(w)
    PROVE  \A v \in Worker \ {w}, x \in Project \cup Actor : lock[x] = v => lock'[x] = v
  BY DEF GatewayTypeOK, Release

\* A rollback leaves the transaction.
LEMMA RollBackKeeps ==
    ASSUME TransactionInv, GatewayTypeOK', UNCHANGED <<dbvars, request>>,
           NEW w \in Worker, pc[w] # Idle, NEW code, RollBack(w, code)
    PROVE  TransactionInv'
<1>1. request[w] \in Request /\ Resolves(request[w])
  BY DEF TransactionInv, Serving, HoldsFor
<1>2. OthersStay(w)
  <2>1. \A v \in Worker \ {w} : pc'[v] = pc[v] /\ staged'[v] = staged[v]
    BY DEF RollBack, TransactionInv, GatewayTypeOK
  <2>2. \A v \in Worker \ {w}, x \in Project \cup Actor : lock[x] = v => lock'[x] = v
    BY ReleaseOwn DEF RollBack, TransactionInv
  <2> QED
    BY <2>1, <2>2 DEF OthersStay
<1>3. /\ pc'[w] \in {"classify", "answered"}
      /\ pc'[w] = "classify" => request[w].op \in WriteOp
  BY DEF RollBack, TransactionInv, GatewayTypeOK
<1> QED
  BY <1>1, <1>2, <1>3, LooseStep DEF InTransaction

\* Refusal(r) = Accepted says that the checks hold, of any operation.
LEMMA AcceptedChecksHold ==
    ASSUME NEW r \in Request, Refusal(r) = Accepted
    PROVE  ChecksHold(r)
<1> USE DEF Accepted
<1>1. CASE r.op = "BOOTSTRAP_DRAFT"
  BY <1>1 DEF ChecksHold
<1>2. CASE r.op = "CREATE_DRAFT"
  <2>1. DefinitionIdentityConflict(r) = Accepted
    BY <1>2 DEF Refusal
  <2> QED
    BY <1>2, <2>1 DEF ChecksHold, DefinitionIdentityConflict
<1>3. CASE r.op = "CLONE_DRAFT"
  <2>1. CloneRefusal(r) = Accepted
    BY <1>3 DEF Refusal
  <2> QED
    BY <1>3, <2>1 DEF ChecksHold, CloneRefusal, DefinitionIdentityConflict
<1>4. CASE r.op = "SAVE_DRAFT"
  BY <1>4 DEF Refusal, ChecksHold
<1>5. CASE r.op = "VALIDATE_DEFINITION"
  BY <1>5 DEF Refusal, ChecksHold
<1>6. CASE r.op = "INITIAL"
  <2>1. InitialRefusal(r) = Accepted
    BY <1>6 DEF Refusal
  <2> QED
    BY <1>6, <2>1 DEF ChecksHold, InitialRefusal
<1>7. CASE r.op = "SUCCESSOR"
  BY <1>7 DEF Refusal, ChecksHold
<1> QED
  BY <1>1, <1>2, <1>3, <1>4, <1>5, <1>6, <1>7, RequestFields DEF WriteOp, PublicationOp

\* An INSERT waits, is rolled back, or goes on without touching another worker.
LEMMA InsertKeeps ==
    ASSUME TransactionInv, GatewayTypeOK', NEW w \in Worker, pc[w] # Idle,
           NEW uncommitted, NEW committed, NEW code, NEW next \in {"insert", "record", "commit"},
           InsertUnique(w, uncommitted, committed, code, next),
           NEW r \in Request, request[w] = r,
           ~uncommitted /\ ~committed /\ pc'[w] = next /\ pc' = [pc EXCEPT ![w] = next]
              /\ UNCHANGED <<request, staged, lock>> => OwnPart(w)'
    PROVE  TransactionInv'
<1>1. UNCHANGED <<dbvars, request>>
  BY DEF InsertUnique
<1>2. CASE committed
  <2>1. RollBack(w, code)
    BY <1>2 DEF InsertUnique
  <2> QED
    BY <1>1, <2>1, RollBackKeeps
<1>3. CASE ~committed
  <2>1. ~uncommitted /\ pc' = [pc EXCEPT ![w] = next] /\ UNCHANGED <<staged, lock>>
    BY <1>3 DEF InsertUnique
  <2>2. pc'[w] = next /\ OthersStay(w)
    BY <1>1, <2>1 DEF OthersStay, TransactionInv, GatewayTypeOK
  <2>3. OwnPart(w)'
    BY <1>1, <1>3, <2>1, <2>2
  <2> QED
    BY <1>1, <2>2, <2>3, QuietStep
<1> QED
  BY <1>2, <1>3

\* Check, and the INSERT of the Project.
LEMMA CheckKeeps ==
    ASSUME TransactionInv, GatewayTypeOK', NEW w \in Worker, Check(w)
    PROVE  TransactionInv'
<1> DEFINE r == request[w]
<1>1. pc[w] = "check" /\ pc[w] # Idle
  BY DEF Check, Idle
<1>2. r \in Request /\ HoldsFor(w, r)
  BY <1>1 DEF TransactionInv, Serving
<1>3. UNCHANGED <<dbvars, request>>
  BY DEF Check
<1>4. CASE Refusal(r) # Accepted
  <2>1. RollBack(w, Refusal(r))
    BY <1>4 DEF Check
  <2> QED
    BY <1>1, <1>3, <2>1, RollBackKeeps
<1>5. CASE Refusal(r) = Accepted
  <2>1. /\ staged' = [staged EXCEPT ![w] = AfterRow(r)]
        /\ pc' = [pc EXCEPT ![w] = IF r.op = "BOOTSTRAP_DRAFT" THEN "project" ELSE "insert"]
        /\ UNCHANGED lock
    BY <1>5 DEF Check
  <2>2. OthersStay(w)
    BY <1>3, <2>1 DEF OthersStay, TransactionInv, GatewayTypeOK
  <2>3. /\ staged'[w] = AfterRow(r) /\ request'[w] = r
        /\ pc'[w] = IF r.op = "BOOTSTRAP_DRAFT" THEN "project" ELSE "insert"
    BY <1>3, <2>1 DEF TransactionInv, GatewayTypeOK
  <2>4. ASSUME NEW a \in Request, Serving(w, a)' PROVE HoldsFor(w, a)'
    <3>1. a = r
      BY <2>3, <2>4 DEF Serving
    <3> HIDE DEF r
    <3>2. ChecksHold(a)
      BY <1>5, <3>1, AcceptedChecksHold
    <3>3. staged'[w] = AfterRow(a) /\ HoldsFor(w, a) /\ lock' = lock
      BY <1>2, <2>1, <2>3, <3>1
    <3>4. pc'[w] = IF a.op = "BOOTSTRAP_DRAFT" THEN "project" ELSE "insert"
      BY <2>3, <3>1
    <3> QED
      BY <1>1, <1>3, <3>2, <3>3, <3>4, SameRows DEF HoldsFor, InTransaction, Staged
  <2>5. \A v \in Worker \ {w} : Apart(v, w)' /\ Apart(w, v)'
    BY <2>3 DEF Apart, InsertedProject, InsertedDefinition, InsertedWorkspace, InsertedReceipt
  <2>6. OwnPart(w)'
    BY <1>2, <2>3, <2>4, <2>5 DEF OwnPart
  <2> QED
    BY <1>3, <2>2, <2>6, QuietStep
<1> QED
  BY <1>4, <1>5

LEMMA InsertProjectKeeps ==
    ASSUME TransactionInv, GatewayTypeOK', NEW w \in Worker, InsertProject(w)
    PROVE  TransactionInv'
<1>1. PICK r \in Request : request[w] = r /\ HoldsFor(w, r)
  BY DEF InsertProject, TransactionInv, Serving, Idle
<1>2. pc[w] = "project" /\ pc[w] # Idle
  BY DEF InsertProject, Idle
<1> DEFINE uncommitted == \E v \in Worker \ {w} :
              /\ InsertedProject(v)
              /\ \/ request[v].project = r.project
                 \/ request[v].projectCode = r.projectCode
           committed == projects[r.project] # None \/ \E p \in Project : projects[p] = r.projectCode
<1>3. InsertUnique(w, uncommitted, committed, "INTEGRITY_ERROR", "insert")
  BY <1>1 DEF InsertProject
<1>4. ASSUME ~uncommitted, ~committed, pc'[w] = "insert", pc' = [pc EXCEPT ![w] = "insert"],
             UNCHANGED <<request, staged, lock>>
      PROVE  OwnPart(w)'
  <2>0. UNCHANGED dbvars
    BY <1>3 DEF InsertUnique
  <2>1. ASSUME NEW a \in Request, Serving(w, a)' PROVE HoldsFor(w, a)'
    <3>1. a = r
      BY <1>1, <1>4, <2>1 DEF Serving
    <3>2. ProjectFree(r)
      BY <1>4 DEF ProjectFree
    <3> QED
      BY <1>1, <1>2, <1>4, <2>0, <3>1, <3>2, SameRows DEF HoldsFor, InTransaction, Staged
  <2>2. ASSUME NEW v \in Worker, v # w PROVE Apart(v, w)' /\ Apart(w, v)'
    <3>1. pc'[v] = pc[v]
      BY <1>4, <2>2 DEF TransactionInv, GatewayTypeOK
    <3>2. ~(InsertedProject(v) /\ (request[v].project = r.project \/ request[v].projectCode = r.projectCode))
      BY <1>4, <2>2
    <3> QED
      BY <1>1, <1>4, <3>1, <3>2
      DEF Apart, InsertedProject, InsertedDefinition, InsertedWorkspace, InsertedReceipt
  <2> QED
    BY <1>1, <1>4, <2>1, <2>2 DEF OwnPart
<1> HIDE DEF uncommitted, committed
<1> QED
  BY <1>1, <1>2, <1>3, <1>4, InsertKeeps

LEMMA MutateKeeps ==
    ASSUME TransactionInv, GatewayTypeOK', NEW w \in Worker, Mutate(w)
    PROVE  TransactionInv'
<1>1. PICK r \in Request : request[w] = r /\ HoldsFor(w, r)
  BY DEF Mutate, TransactionInv, Serving, Idle
<1>2. pc[w] = "insert" /\ pc[w] # Idle
  BY DEF Mutate, Idle
<1> DEFINE uncommitted == \E v \in Worker \ {w} :
              \/ r.op \in InsertOp /\ InsertedDefinition(v) /\ request[v].target = r.target
              \/ r.op = "INITIAL" /\ InsertedWorkspace(v) /\ request[v].workspace = r.workspace
           committed == \/ r.op \in InsertOp /\ Exists(r.target)
                        \/ r.op = "INITIAL" /\ workspaces[r.workspace] # None
           next == IF r.op \in WriteOp THEN "record" ELSE "commit"
<1>3. PICK code \in TakenCodes(r) : InsertUnique(w, uncommitted, committed, code, next)
  BY <1>1 DEF Mutate
<1>4. ASSUME ~uncommitted, ~committed, pc'[w] = next, pc' = [pc EXCEPT ![w] = next],
             UNCHANGED <<request, staged, lock>>
      PROVE  OwnPart(w)'
  <2>0. UNCHANGED dbvars
    BY <1>3 DEF InsertUnique
  <2>1. ASSUME NEW a \in Request, Serving(w, a)' PROVE HoldsFor(w, a)'
    <3>1. a = r
      BY <1>1, <1>4, <2>1 DEF Serving
    <3>2. /\ r.op \in InsertOp => ~Exists(r.target)
          /\ r.op = "INITIAL" => workspaces[r.workspace] = None
      BY <1>4
    <3>3. pc'[w] = IF r.op \in WriteOp THEN "record" ELSE "commit"
      BY <1>4
    <3>4. r.op \in InsertOp => r.op \in WriteOp
      BY DEF InsertOp, WriteOp
    <3> HIDE DEF next, uncommitted, committed
    <3> QED
      BY <1>1, <1>2, <1>4, <2>0, <3>1, <3>2, <3>3, <3>4, SameRows DEF HoldsFor, InTransaction, Staged
  <2>2. ASSUME NEW v \in Worker, v # w PROVE Apart(v, w)' /\ Apart(w, v)'
    <3>1. pc'[v] = pc[v] /\ request'[v] = request[v] /\ request'[w] = r
      BY <1>1, <1>4, <2>2 DEF TransactionInv, GatewayTypeOK
    <3>2. /\ ~(r.op \in InsertOp /\ InsertedDefinition(v) /\ request[v].target = r.target)
          /\ ~(r.op = "INITIAL" /\ InsertedWorkspace(v) /\ request[v].workspace = r.workspace)
      BY <1>4, <2>2
    <3>3. pc'[w] = IF r.op \in WriteOp THEN "record" ELSE "commit"
      BY <1>4
    <3>4. Apart(v, w) /\ Apart(w, v)
      BY <2>2 DEF TransactionInv
    <3> HIDE DEF next, uncommitted, committed
    <3>5. /\ InsertedProject(v)' <=> InsertedProject(v)
          /\ InsertedDefinition(v)' <=> InsertedDefinition(v)
          /\ InsertedWorkspace(v)' <=> InsertedWorkspace(v)
          /\ InsertedReceipt(v)' <=> InsertedReceipt(v)
      BY <3>1 DEF InsertedProject, InsertedDefinition, InsertedWorkspace, InsertedReceipt
    <3>6. /\ InsertedProject(w)' => InsertedProject(w)
          /\ InsertedDefinition(w)' => r.op \in InsertOp
          /\ InsertedWorkspace(w)' => r.op = "INITIAL"
          /\ ~InsertedReceipt(w)'
      BY <1>1, <1>2, <3>1, <3>3 DEF InsertedProject, InsertedDefinition, InsertedWorkspace, InsertedReceipt
    <3> QED
      BY <1>1, <3>1, <3>2, <3>4, <3>5, <3>6 DEF Apart
  <2> QED
    BY <1>1, <1>4, <2>1, <2>2 DEF OwnPart
<1>5. next \in {"insert", "record", "commit"}
  OBVIOUS
<1> HIDE DEF uncommitted, committed, next
<1> QED
  BY <1>1, <1>2, <1>3, <1>4, <1>5, InsertKeeps

LEMMA RecordKeeps ==
    ASSUME TransactionInv, GatewayTypeOK', NEW w \in Worker, Record(w)
    PROVE  TransactionInv'
<1>1. PICK r \in Request : request[w] = r /\ HoldsFor(w, r)
  BY DEF Record, TransactionInv, Serving, Idle
<1>2. pc[w] = "record" /\ pc[w] # Idle /\ r.op \in WriteOp
  BY <1>1 DEF Record, Idle, HoldsFor
<1> DEFINE uncommitted == \E v \in Worker \ {w} : InsertedReceipt(v) /\ request[v].key = r.key
           committed == BoundRequests(r) # {}
<1>3. InsertUnique(w, uncommitted, committed, "INTEGRITY_ERROR", "commit")
  BY <1>1 DEF Record
<1>4. ASSUME ~uncommitted, ~committed, pc'[w] = "commit", pc' = [pc EXCEPT ![w] = "commit"],
             UNCHANGED <<request, staged, lock>>
      PROVE  OwnPart(w)'
  <2>0. UNCHANGED dbvars
    BY <1>3 DEF InsertUnique
  <2>1. ASSUME NEW a \in Request, Serving(w, a)' PROVE HoldsFor(w, a)'
    <3>1. a = r
      BY <1>1, <1>4, <2>1 DEF Serving
    <3>2. BoundRequests(r) = {}
      BY <1>4
    <3>3. r.op # "INITIAL"
      BY <1>2 DEF WriteOp
    <3> QED
      BY <1>1, <1>2, <1>4, <2>0, <3>1, <3>2, <3>3, SameRows DEF HoldsFor, InTransaction, Staged
  <2>2. ASSUME NEW v \in Worker, v # w PROVE Apart(v, w)' /\ Apart(w, v)'
    <3>1. pc'[v] = pc[v] /\ request'[v] = request[v] /\ request'[w] = r
      BY <1>1, <1>4, <2>2 DEF TransactionInv, GatewayTypeOK
    <3>2. ~(InsertedReceipt(v) /\ request[v].key = r.key)
      BY <1>4, <2>2
    <3>4. Apart(v, w) /\ Apart(w, v)
      BY <2>2 DEF TransactionInv
    <3>5. /\ InsertedProject(v)' <=> InsertedProject(v)
          /\ InsertedDefinition(v)' <=> InsertedDefinition(v)
          /\ InsertedWorkspace(v)' <=> InsertedWorkspace(v)
          /\ InsertedReceipt(v)' <=> InsertedReceipt(v)
      BY <3>1 DEF InsertedProject, InsertedDefinition, InsertedWorkspace, InsertedReceipt
    <3>6. /\ InsertedProject(w)' => InsertedProject(w)
          /\ InsertedDefinition(w)' => InsertedDefinition(w)
          /\ ~InsertedWorkspace(w)'
      BY <1>1, <1>2, <1>4, <3>1 DEF InsertedProject, InsertedDefinition, InsertedWorkspace, WriteOp
    <3> QED
      BY <1>1, <3>1, <3>2, <3>4, <3>5, <3>6 DEF Apart
  <2> QED
    BY <1>1, <1>4, <2>1, <2>2 DEF OwnPart
<1> HIDE DEF uncommitted, committed
<1> QED
  BY <1>1, <1>2, <1>3, <1>4, InsertKeeps

\* SELECT ... FOR UPDATE: the lock was free, so nobody loses it.
LEMMA LockKeeps ==
    ASSUME TransactionInv, GatewayTypeOK', NEW w \in Worker, Lock(w)
    PROVE  TransactionInv'
<1>1. PICK r \in Request : request[w] = r /\ HoldsFor(w, r)
  BY DEF Lock, TransactionInv, Serving, Idle
<1>2. /\ pc[w] = "waiting"
      /\ lock[LockedRow(r)] = Free
      /\ UNCHANGED <<dbvars, request, staged>>
  BY <1>1 DEF Lock
<1>3. CASE r.op # "BOOTSTRAP_DRAFT" /\ BoundRequests(r) # {}
  <2>1. pc' = [pc EXCEPT ![w] = "answered"] /\ UNCHANGED lock
    BY <1>1, <1>3 DEF Lock
  <2>2. OthersStay(w) /\ pc'[w] = "answered" /\ request'[w] = r
    BY <1>1, <1>2, <2>1 DEF OthersStay, TransactionInv, GatewayTypeOK
  <2>3. Resolves(r)
    BY <1>1 DEF HoldsFor
  <2> QED
    BY <1>2, <2>2, <2>3, LooseStep DEF InTransaction
<1>4. CASE ~(r.op # "BOOTSTRAP_DRAFT" /\ BoundRequests(r) # {})
  <2>1. pc' = [pc EXCEPT ![w] = "check"] /\ lock' = [lock EXCEPT ![LockedRow(r)] = w]
    BY <1>1, <1>4 DEF Lock
  <2>2. pc'[w] = "check" /\ request'[w] = r /\ lock'[LockedRow(r)] = w
    BY <1>1, <1>2, <2>1, LockedRowType DEF TransactionInv, GatewayTypeOK
  <2>3. OthersStay(w)
    BY <1>2, <2>1, FreeAssumption, LockedRowType DEF OthersStay, TransactionInv, GatewayTypeOK
  <2>4. ASSUME NEW a \in Request, Serving(w, a)' PROVE HoldsFor(w, a)'
    <3>1. a = r
      BY <2>2, <2>4 DEF Serving
    <3>2. r.op \in PublicationOp => BoundRequests(r) = {}
      BY <1>4 DEF PublicationOp
    <3> QED
      BY <1>1, <1>2, <2>2, <3>1, <3>2, SameRows DEF HoldsFor, InTransaction, Staged
  <2>5. \A v \in Worker \ {w} : Apart(v, w)' /\ Apart(w, v)'
    BY <2>2 DEF Apart, InsertedProject, InsertedDefinition, InsertedWorkspace, InsertedReceipt
  <2>6. OwnPart(w)'
    BY <2>2, <2>4, <2>5 DEF OwnPart
  <2> QED
    BY <1>2, <2>3, <2>6, QuietStep
<1> QED
  BY <1>3, <1>4

\* Admission, classification, the answer and a crash: outside any transaction.
LEMMA LooseKeeps ==
    ASSUME TransactionInv, GatewayTypeOK', NEW w \in Worker,
           \/ \E r \in Request : Admit(w, r)
           \/ Classify(w) \/ Answer(w) \/ Crash(w)
    PROVE  TransactionInv'
<1>0. GatewayTypeOK
  BY DEF TransactionInv
<1>1. ASSUME NEW r \in Request, Admit(w, r) PROVE TransactionInv'
  <2>1. UNCHANGED <<dbvars, staged, lock>>
    BY <1>1 DEF Admit
  <2>2. /\ request'[w] = r /\ Resolves(r)
        /\ pc'[w] \in {"answered", "waiting"}
        /\ \A v \in Worker \ {w} : pc'[v] = pc[v] /\ request'[v] = request[v]
    BY <1>0, <1>1 DEF Admit, GatewayTypeOK
  <2>3. OthersStay(w)
    BY <2>1, <2>2 DEF OthersStay
  <2> QED
    BY <2>1, <2>2, <2>3, LooseStep DEF InTransaction
<1>2. CASE Classify(w)
  <2>1. UNCHANGED <<dbvars, request, staged, lock>>
    BY <1>2 DEF Classify
  <2>2. /\ pc'[w] = "answered" /\ pc[w] # Idle
        /\ \A v \in Worker \ {w} : pc'[v] = pc[v]
    BY <1>0, <1>2 DEF Classify, GatewayTypeOK, Idle
  <2>3. OthersStay(w)
    BY <2>1, <2>2 DEF OthersStay
  <2>4. request'[w] \in Request /\ Resolves(request'[w])
    BY <2>1, <2>2 DEF TransactionInv, Serving, HoldsFor
  <2> QED
    BY <2>1, <2>2, <2>3, <2>4, LooseStep DEF InTransaction
<1>3. ASSUME Forget(w)
      PROVE  /\ pc'[w] = "idle"
             /\ \A v \in Worker \ {w} :
                   pc'[v] = pc[v] /\ request'[v] = request[v] /\ staged'[v] = staged[v]
  BY <1>0, <1>3 DEF Forget, GatewayTypeOK, Idle
<1>4. CASE Answer(w)
  <2>1. UNCHANGED <<dbvars, lock>> /\ Forget(w)
    BY <1>4 DEF Answer
  <2>2. OthersStay(w)
    BY <1>3, <2>1 DEF OthersStay
  <2> QED
    BY <1>3, <2>1, <2>2, LooseStep DEF InTransaction, Idle
<1>5. CASE Crash(w)
  <2>1. UNCHANGED dbvars /\ Forget(w) /\ Release(w)
    BY <1>5 DEF Crash
  <2>2. OthersStay(w)
    BY <1>0, <1>3, <2>1, ReleaseOwn DEF OthersStay
  <2> QED
    BY <1>3, <2>1, <2>2, LooseStep DEF InTransaction, Idle
<1> QED
  BY <1>1, <1>2, <1>4, <1>5

-----------------------------------------------------------------------------
(* The commit.                                                             *)

\* At its commit a transaction could pass all its checks again, and it writes
\* what the operation writes.
LEMMA CommitIsAllowed ==
    ASSUME TransactionInv, NEW w \in Worker, NEW r \in Request, Serving(w, r), pc[w] = "commit"
    PROVE  Allowed(r) /\ staged[w] = AfterRow(r)
<1>1. HoldsFor(w, r)
  BY DEF TransactionInv
<1>2. Resolves(r) /\ staged[w] = AfterRow(r) /\ ChecksHold(r)
  BY <1>1 DEF HoldsFor, Staged
<1>3. r.op \in WriteOp \cup PublicationOp
  BY RequestFields
<1>4. BoundRequests(r) = {}
  BY <1>1, <1>3 DEF HoldsFor, InTransaction
<1>5. Refusal(r) = Accepted
  <2>1. r.op \in InsertOp => ~Exists(r.target)
    BY <1>1 DEF HoldsFor
  <2>2. CASE r.op = "BOOTSTRAP_DRAFT"
    <3>1. ProjectFree(r)
      BY <1>1, <2>2 DEF HoldsFor
    <3>2. FirstProjectIdentityConflict(r) = Accepted
      BY <2>1, <2>2, <3>1 DEF ProjectFree, FirstProjectIdentityConflict, InsertOp
    <3> QED
      BY <2>2, <3>2 DEF Refusal
  <2>3. CASE r.op = "CREATE_DRAFT"
    <3>1. DefinitionIdentityConflict(r) = Accepted
      BY <1>2, <2>1, <2>3 DEF ChecksHold, DefinitionIdentityConflict, InsertOp
    <3> QED
      BY <2>3, <3>1 DEF Refusal
  <2>4. CASE r.op = "CLONE_DRAFT"
    <3>1. CloneRefusal(r) = Accepted
      BY <1>2, <2>1, <2>4 DEF ChecksHold, CloneRefusal, DefinitionIdentityConflict, InsertOp
    <3> QED
      BY <2>4, <3>1 DEF Refusal
  <2>5. CASE r.op = "SAVE_DRAFT"
    BY <1>2, <2>5 DEF ChecksHold, Refusal
  <2>6. CASE r.op = "VALIDATE_DEFINITION"
    BY <1>2, <2>6 DEF ChecksHold, Refusal
  <2>7. CASE r.op = "INITIAL"
    <3>1. workspaces[r.workspace] = None
      BY <1>1, <2>7 DEF HoldsFor
    <3>2. InitialRefusal(r) = Accepted
      BY <1>2, <2>7, <3>1 DEF ChecksHold, InitialRefusal
    <3> QED
      BY <2>7, <3>2 DEF Refusal
  <2>8. CASE r.op = "SUCCESSOR"
    BY <1>2, <2>8 DEF ChecksHold, Refusal
  <2> QED
    BY <1>3, <2>2, <2>3, <2>4, <2>5, <2>6, <2>7, <2>8 DEF WriteOp, PublicationOp
<1> QED
  BY <1>2, <1>4, <1>5 DEF Allowed

\* What the gateway commits is one operation.
LEMMA CommitIsOperation ==
    ASSUME TransactionInv, NEW w \in Worker, NEW r \in Request, request[w] = r, Commit(w)
    PROVE  Allowed(r) /\ Operation(r)
<1>1. pc[w] = "commit" /\ Serving(w, r)
  BY DEF Commit, Serving, Idle
<1>2. Allowed(r) /\ staged[w] = AfterRow(r)
  BY <1>1, CommitIsAllowed
<1>3. IF r.op \in WriteOp THEN HumanWrite(r, AfterRow(r)) ELSE Publish(r, AfterRow(r))
  BY <1>2 DEF Commit
<1>4. r.op \in WriteOp \cup PublicationOp
  BY RequestFields
<1> QED
  BY <1>2, <1>3, <1>4
  DEF Operation, BootstrapDraft, CreateDraft, CloneDraft, SaveDraft, ValidateDefinition,
      PublishInitial, PublishSuccessor, WriteOp, PublicationOp

\* An operation keeps the identity of every row: its project, code and version.
LEMMA IdentityStays ==
    ASSUME TypeOK, NEW r \in Request, Operation(r)
    PROVE  /\ \A d \in Definition : Exists(d) =>
                 /\ definitions'[d] # None
                 /\ definitions'[d].project = definitions[d].project
                 /\ definitions'[d].code = definitions[d].code
                 /\ definitions'[d].version = definitions[d].version
           /\ \A d \in Definition : ~Exists(d) /\ definitions'[d] # None =>
                 /\ d = r.target /\ r.op \in InsertOp
                 /\ definitions'[d].project = r.project
           /\ \A p \in Project : projects[p] # None => projects'[p] = projects[p]
           /\ \A p \in Project : projects[p] = None /\ projects'[p] # None =>
                 r.op = "BOOTSTRAP_DRAFT" /\ p = r.project /\ projects'[p] = r.projectCode
<1>1. Allowed(r) /\ r.target \in Definition /\ r.project \in Project
  BY OperationWrites, RequestFields
<1>2. CASE r.op \in WriteOp /\ HumanWrite(r, AfterRow(r))
  <2>1. /\ \A d \in Definition \ {r.target} : definitions'[d] = definitions[d]
        /\ definitions'[r.target] = AfterRow(r)
        /\ AfterRow(r) \in DefinitionRow
        /\ r.op \in InsertOp => ~Exists(r.target) /\ AfterRow(r).project = r.project
        /\ r.op \notin InsertOp => definitions[r.target] \in DefinitionRow
    BY <1>1, <1>2, HumanWriteFrame
  <2>2. AfterRow(r) # None
    BY <2>1, NoneAssumption
  <2>3. r.op \notin InsertOp =>
           /\ AfterRow(r).project = definitions[r.target].project
           /\ AfterRow(r).code = definitions[r.target].code
           /\ AfterRow(r).version = definitions[r.target].version
    <3>1. CASE r.op = "SAVE_DRAFT"
      <4>1. AfterRow(r) = [definitions[r.target] EXCEPT !.manifest = r.manifest]
        BY <3>1 DEF AfterRow, PublicationOp
      <4> QED
        BY <2>1, <3>1, <4>1 DEF DefinitionRow, InsertOp
    <3>2. CASE r.op = "VALIDATE_DEFINITION"
      <4>1. AfterRow(r) = [definitions[r.target] EXCEPT !.status = "VALIDATED"]
        BY <3>2 DEF AfterRow, PublicationOp
      <4> QED
        BY <2>1, <3>2, <4>1 DEF DefinitionRow, InsertOp
    <3> QED
      BY <1>2, <3>1, <3>2 DEF WriteOp, InsertOp
  <2>4. \A p \in Project : projects[p] # None => projects'[p] = projects[p]
    <3>1. CASE r.op = "BOOTSTRAP_DRAFT"
      <4>1. FirstProjectIdentityConflict(r) = Accepted
        BY <1>1, <3>1 DEF Allowed, Refusal
      <4>2. projects[r.project] = None
        BY <4>1 DEF FirstProjectIdentityConflict, Accepted
      <4> QED
        BY <1>1, <1>2, <3>1, <4>2 DEF HumanWrite, TypeOK
    <3>2. CASE r.op # "BOOTSTRAP_DRAFT"
      BY <1>2, <3>2 DEF HumanWrite
    <3> QED
      BY <3>1, <3>2
  <2>5. \A p \in Project : projects[p] = None /\ projects'[p] # None =>
           r.op = "BOOTSTRAP_DRAFT" /\ p = r.project /\ projects'[p] = r.projectCode
    <3>1. CASE r.op = "BOOTSTRAP_DRAFT"
      BY <1>1, <1>2, <3>1 DEF HumanWrite, TypeOK
    <3>2. CASE r.op # "BOOTSTRAP_DRAFT"
      BY <1>2, <3>2 DEF HumanWrite
    <3> QED
      BY <3>1, <3>2
  <2>6. ASSUME NEW d \in Definition
        PROVE  /\ Exists(d) =>
                     /\ definitions'[d] # None
                     /\ definitions'[d].project = definitions[d].project
                     /\ definitions'[d].code = definitions[d].code
                     /\ definitions'[d].version = definitions[d].version
               /\ ~Exists(d) /\ definitions'[d] # None =>
                     /\ d = r.target /\ r.op \in InsertOp
                     /\ definitions'[d].project = r.project
    <3>1. CASE d # r.target
      BY <2>1, <3>1 DEF Exists
    <3>2. CASE d = r.target /\ r.op \in InsertOp
      BY <2>1, <3>2
    <3>3. CASE d = r.target /\ r.op \notin InsertOp
      <4>1. Exists(d)
        BY <2>1, <3>3, NoneAssumption DEF Exists
      <4> QED
        BY <2>1, <2>2, <2>3, <3>3, <4>1
    <3> QED
      BY <3>1, <3>2, <3>3
  <2> QED
    BY <2>4, <2>5, <2>6
<1>3. CASE r.op \in PublicationOp /\ Publish(r, AfterRow(r))
  <2>1. projects' = projects
    BY <1>3 DEF Publish
  <2>2. /\ definitions[r.target] \in DefinitionRow
        /\ definitions'[r.target] =
              [definitions[r.target] EXCEPT !.status = "PUBLISHED", !.current = TRUE]
        /\ \A d \in Definition \ {r.target} : definitions'[d] = Demoted(r.project, d)
    BY <1>1, <1>3, PublishFrame
  <2>3. ASSUME NEW d \in Definition
        PROVE  /\ Exists(d) => /\ definitions'[d] \in DefinitionRow
                               /\ definitions'[d].project = definitions[d].project
                               /\ definitions'[d].code = definitions[d].code
                               /\ definitions'[d].version = definitions[d].version
               /\ ~Exists(d) => definitions'[d] = None
    <3>1. CASE d = r.target
      <4>1. Exists(d)
        BY <2>2, <3>1, NoneAssumption DEF Exists
      <4>2. definitions[d] \in DefinitionRow
            /\ definitions'[d] = [definitions[d] EXCEPT !.status = "PUBLISHED", !.current = TRUE]
        BY <2>2, <3>1
      <4> QED
        BY <4>1, <4>2 DEF DefinitionRow
    <3>2. CASE d # r.target
      <4>1. Exists(d) => definitions[d] \in DefinitionRow
        BY RowType
      <4>2. \/ definitions'[d] = definitions[d]
            \/ Exists(d) /\ definitions'[d] = [definitions[d] EXCEPT !.current = FALSE]
        BY <2>2, <3>2 DEF Demoted
      <4>3. CASE definitions'[d] = definitions[d]
        BY <4>1, <4>3 DEF Exists
      <4>4. CASE Exists(d) /\ definitions'[d] = [definitions[d] EXCEPT !.current = FALSE]
        BY <4>1, <4>4 DEF DefinitionRow
      <4> QED
        BY <4>2, <4>3, <4>4
    <3> QED
      BY <3>1, <3>2
  <2> QED
    BY <2>1, <2>3, NoneAssumption
<1> QED
  BY <1>2, <1>3, OperationWrites

\* An operation leaves the rows of the other projects alone.
LEMMA ElsewhereStays ==
    ASSUME TypeOK, NEW r \in Request, Operation(r), NEW p \in Project, p # r.project
    PROVE  /\ InProject(p)' = InProject(p)
           /\ \A d \in InProject(p) :
                 /\ definitions'[d] = definitions[d]
                 /\ IsPublished(d)' <=> IsPublished(d)
           /\ PublicationsOf(p)' = PublicationsOf(p)
           /\ InitialReceipts(p)' = InitialReceipts(p)
           /\ Current(p)' = Current(p)
           /\ WorkspacesOf(p)' = WorkspacesOf(p)
<1>1. Allowed(r) /\ r.target \in Definition /\ r.project \in Project
  BY OperationWrites, RequestFields
<1>2. r.target \notin InProject(p)
  <2>1. CASE r.op \in WriteOp /\ HumanWrite(r, AfterRow(r))
    <3>1. CASE r.op \in InsertOp
      BY <1>1, <2>1, <3>1, HumanWriteFrame DEF InProject
    <3>2. CASE r.op \notin InsertOp
      BY <1>1, <2>1, <3>2, HumanWriteFrame DEF InProject
    <3> QED
      BY <3>1, <3>2
  <2>2. CASE r.op \in PublicationOp /\ Publish(r, AfterRow(r))
    BY <1>1, <2>2, PublishFrame DEF InProject
  <2> QED
    BY <2>1, <2>2, OperationWrites
<1>3. \A d \in InProject(p) : definitions'[d] = definitions[d]
  <2>1. CASE r.op \in WriteOp /\ HumanWrite(r, AfterRow(r))
    BY <1>1, <1>2, <2>1, HumanWriteFrame DEF InProject
  <2>2. CASE r.op \in PublicationOp /\ Publish(r, AfterRow(r))
    <3>1. \A d \in Definition \ {r.target} : definitions'[d] = Demoted(r.project, d)
      BY <1>1, <2>2, PublishFrame
    <3> QED
      BY <1>2, <3>1 DEF InProject, Demoted
  <2> QED
    BY <2>1, <2>2, OperationWrites
<1>4. InProject(p)' = InProject(p)
  <2>1. \A d \in Definition : definitions'[d] # None /\ definitions'[d].project = p => Exists(d)
    BY IdentityStays
  <2>2. \A d \in Definition : definitions'[d] # None /\ definitions'[d].project = p
                              => definitions[d].project = p
    BY <2>1, IdentityStays
  <2>3. InProject(p)' \subseteq InProject(p)
    BY <2>1, <2>2 DEF InProject, Exists
  <2>4. InProject(p) \subseteq InProject(p)'
    BY <1>3 DEF InProject, Exists
  <2> QED
    BY <2>3, <2>4
<1>5. PublicationsOf(p)' = PublicationsOf(p)
  <2>1. CASE r.op \in WriteOp /\ HumanWrite(r, AfterRow(r))
    BY <2>1 DEF HumanWrite, PublicationsOf
  <2>2. CASE r.op \in PublicationOp /\ Publish(r, AfterRow(r))
    BY <2>2 DEF Publish, PublicationsOf
  <2> QED
    BY <2>1, <2>2, OperationWrites
<1>6. WorkspacesOf(p)' = WorkspacesOf(p)
  <2>1. CASE r.op \in WriteOp /\ HumanWrite(r, AfterRow(r))
    BY <2>1 DEF HumanWrite, WorkspacesOf
  <2>2. CASE r.op = "SUCCESSOR" /\ Publish(r, AfterRow(r))
    BY <2>2 DEF Publish, WorkspacesOf
  <2>3. CASE r.op = "INITIAL" /\ Publish(r, AfterRow(r))
    <3>1. workspaces[r.workspace] = None /\ r.workspace \in Workspace
      BY <1>1, <2>3, PublishFrame, RequestFields DEF PublicationOp
    <3>2. /\ \A w \in Workspace \ {r.workspace} : workspaces'[w] = workspaces[w]
          /\ workspaces'[r.workspace].project = r.project
      BY <2>3, <3>1 DEF Publish, TypeOK
    <3> QED
      BY <3>1, <3>2 DEF WorkspacesOf
  <2> QED
    BY <2>1, <2>2, <2>3, OperationWrites DEF PublicationOp
<1>7. ASSUME NEW d \in InProject(p) PROVE IsPublished(d)' <=> IsPublished(d)
  <2>2. CASE r.op \in WriteOp /\ HumanWrite(r, AfterRow(r))
    BY <2>2 DEF HumanWrite, IsPublished
  <2>3. CASE r.op \in PublicationOp /\ Publish(r, AfterRow(r))
    BY <1>2, <2>3 DEF Publish, IsPublished
  <2> QED
    BY <2>2, <2>3, OperationWrites
<1>8. Current(p)' = Current(p)
  BY <1>3, <1>4 DEF Current
<1>9. InitialReceipts(p)' = InitialReceipts(p)
  BY <1>5 DEF InitialReceipts
<1> QED
  BY <1>3, <1>4, <1>5, <1>6, <1>7, <1>8, <1>9

\* What an operation in another project does to a request: nothing.
LEMMA ForeignOperation ==
    ASSUME TypeOK, NEW r \in Request, Operation(r),
           NEW s \in Request, s.op # "BOOTSTRAP_DRAFT", s.project # r.project, Resolves(s)
    PROVE  /\ AfterRow(s)' = AfterRow(s)
           /\ ChecksHold(s) => ChecksHold(s)'
<1> DEFINE p == s.project
<1>0. p \in Project /\ p # r.project /\ s.op \in WriteOp \cup PublicationOp
  BY RequestFields
<1>1. /\ InProject(p)' = InProject(p)
      /\ \A d \in InProject(p) :
            definitions'[d] = definitions[d] /\ (IsPublished(d)' <=> IsPublished(d))
      /\ PublicationsOf(p)' = PublicationsOf(p)
      /\ InitialReceipts(p)' = InitialReceipts(p)
      /\ Current(p)' = Current(p)
      /\ WorkspacesOf(p)' = WorkspacesOf(p)
  BY <1>0, ElsewhereStays
<1>2. /\ s.op = "CLONE_DRAFT" => definitions'[s.source] = definitions[s.source]
      /\ s.op \notin InsertOp =>
            /\ definitions'[s.target] = definitions[s.target]
            /\ IsPublished(s.target)' <=> IsPublished(s.target)
  BY <1>1 DEF Resolves, InsertOp
<1>3. AfterRow(s)' = AfterRow(s)
  <2>1. CASE s.op \in {"CREATE_DRAFT", "CLONE_DRAFT"}
    BY <1>2, <2>1 DEF AfterRow, DraftRow, PublicationOp
  <2>2. CASE s.op \in {"SAVE_DRAFT", "VALIDATE_DEFINITION", "INITIAL", "SUCCESSOR"}
    BY <1>2, <2>2 DEF AfterRow, PublicationOp, InsertOp
  <2> QED
    BY <1>0, <2>1, <2>2 DEF WriteOp, PublicationOp
<1>4. ASSUME ChecksHold(s) PROVE ChecksHold(s)'
  <2>1. CASE s.op = "CREATE_DRAFT"
    <3>1. \A d \in InProject(p) : definitions[d].code # s.code /\ definitions[d].version # s.version
      BY <1>4, <2>1 DEF ChecksHold
    <3>2. \A d \in InProject(p)' : definitions'[d].code # s.code /\ definitions'[d].version # s.version
      BY <1>1, <3>1
    <3> QED
      BY <2>1, <3>2 DEF ChecksHold
  <2>2. CASE s.op = "CLONE_DRAFT"
    <3>1. \A d \in InProject(p) : definitions[d].code # s.code /\ definitions[d].version # s.version
      BY <1>4, <2>2 DEF ChecksHold
    <3>2. \A d \in InProject(p)' : definitions'[d].code # s.code /\ definitions'[d].version # s.version
      BY <1>1, <3>1
    <3>3. definitions'[s.source].manifest = s.ifMatch
      BY <1>2, <1>4, <2>2 DEF ChecksHold
    <3> QED
      BY <2>2, <3>2, <3>3 DEF ChecksHold
  <2>3. CASE s.op \in {"SAVE_DRAFT", "VALIDATE_DEFINITION"}
    <3>1. definitions'[s.target] = definitions[s.target]
      BY <1>2, <2>3 DEF InsertOp
    <3>2. SaveRefusal(s)' = SaveRefusal(s) /\ ValidateRefusal(s)' = ValidateRefusal(s)
      BY <3>1 DEF SaveRefusal, ValidateRefusal
    <3> QED
      BY <1>4, <2>3, <3>2 DEF ChecksHold
  <2>4. CASE s.op = "INITIAL"
    <3>1. /\ definitions'[s.target] = definitions[s.target]
          /\ IsPublished(s.target)' <=> IsPublished(s.target)
      BY <1>2, <2>4 DEF InsertOp
    <3>2. InitialLifecycleAllows(s)' <=> InitialLifecycleAllows(s)
      BY <1>1, <3>1 DEF InitialLifecycleAllows
    <3> QED
      BY <1>1, <1>4, <2>4, <3>1, <3>2 DEF ChecksHold
  <2>5. CASE s.op = "SUCCESSOR"
    <3>1. /\ definitions'[s.target] = definitions[s.target]
          /\ IsPublished(s.target)' <=> IsPublished(s.target)
      BY <1>2, <2>5 DEF InsertOp
    <3>2. (\E d \in Current(p) \ {s.target} :
             definitions[d].status = "PUBLISHED" /\ definitions[s.target].supersedes = d)'
          <=> \E d \in Current(p) \ {s.target} :
                 definitions[d].status = "PUBLISHED" /\ definitions[s.target].supersedes = d
      BY <1>1, <3>1 DEF Current
    <3>3. SuccessorLifecycleAllows(s)' <=> SuccessorLifecycleAllows(s)
      BY <1>1, <3>1, <3>2 DEF SuccessorLifecycleAllows
    <3>4. SuccessorRefusal(s)' = SuccessorRefusal(s)
      BY <3>1, <3>3 DEF SuccessorRefusal
    <3> QED
      BY <1>4, <2>5, <3>4 DEF ChecksHold
  <2> QED
    BY <1>0, <2>1, <2>2, <2>3, <2>4, <2>5 DEF WriteOp, PublicationOp
<1> QED
  BY <1>3, <1>4

\* What a request names does not go away.
LEMMA ResolvesStays ==
    ASSUME TypeOK, NEW r \in Request, Operation(r), NEW s \in Request, Resolves(s)
    PROVE  Resolves(s)'
<1>1. \A d \in Definition : Exists(d) =>
         definitions'[d] # None /\ definitions'[d].project = definitions[d].project
  BY IdentityStays
<1>2. \A d \in InProject(s.project) : d \in InProject(s.project)'
  BY <1>1 DEF InProject, Exists
<1>3. s.op = "CREATE_DRAFT" /\ projects[s.project] # None => projects'[s.project] # None
  BY IdentityStays, RequestFields
<1>4. s.op \in WriteOp \cup PublicationOp
  BY RequestFields
<1>5. CASE s.op = "BOOTSTRAP_DRAFT"
  BY <1>5 DEF Resolves
<1>6. CASE s.op = "CREATE_DRAFT"
  BY <1>3, <1>6 DEF Resolves
<1>7. CASE s.op = "CLONE_DRAFT"
  BY <1>2, <1>7 DEF Resolves
<1>8. CASE s.op \in {"SAVE_DRAFT", "VALIDATE_DEFINITION", "INITIAL", "SUCCESSOR"}
  BY <1>2, <1>8 DEF Resolves
<1> QED
  BY <1>4, <1>5, <1>6, <1>7, <1>8 DEF WriteOp, PublicationOp

\* A transaction in flight is none of the committing one's business: they hold
\* different locks, and a bootstrap's Project is not there for anybody else.
LEMMA InFlightElsewhere ==
    ASSUME TransactionInv, NEW w \in Worker, NEW r \in Request, Serving(w, r), pc[w] = "commit",
           NEW v \in Worker, v # w, NEW s \in Request, Serving(v, s), pc[v] \in InTransaction,
           s.op # "BOOTSTRAP_DRAFT"
    PROVE  s.project # r.project
<1>1. HoldsFor(w, r) /\ HoldsFor(v, s)
  BY DEF TransactionInv
<1>2. CASE r.op = "BOOTSTRAP_DRAFT"
  <2>1. projects[r.project] = None
    BY <1>1, <1>2 DEF HoldsFor, ProjectFree
  <2>2. projects[s.project] # None
    <3>1. CASE s.op = "CREATE_DRAFT"
      BY <1>1, <3>1 DEF HoldsFor, Resolves
    <3>2. CASE s.op = "CLONE_DRAFT"
      BY <1>1, <3>2 DEF HoldsFor, Resolves, InProject, TransactionInv, RowsBelong
    <3>3. CASE s.op \in {"SAVE_DRAFT", "VALIDATE_DEFINITION", "INITIAL", "SUCCESSOR"}
      BY <1>1, <3>3 DEF HoldsFor, Resolves, InProject, TransactionInv, RowsBelong
    <3> QED
      BY <3>1, <3>2, <3>3, RequestFields DEF WriteOp, PublicationOp
  <2> QED
    BY <2>1, <2>2
<1>3. CASE r.op # "BOOTSTRAP_DRAFT"
  <2>1. lock[r.project] = w /\ lock[s.project] = v
    BY <1>1, <1>3 DEF HoldsFor, LockedRow, InTransaction
  <2> QED
    BY <2>1
<1> QED
  BY <1>2, <1>3

\* A committed operation binds the key of its own request and no other.
LEMMA NewBindings ==
    ASSUME NEW r \in Request, Operation(r), NEW s \in Request
    PROVE  /\ BoundRequests(s) \subseteq BoundRequests(s)'
           /\ BoundRequests(s)' \subseteq BoundRequests(s) \cup {r}
           /\ r \in BoundRequests(r)'
           /\ BoundRequests(s)' # BoundRequests(s) =>
                 /\ s.key = r.key
                 /\ (s.op \in WriteOp) <=> (r.op \in WriteOp)
                 /\ s.op \notin WriteOp => s.project = r.project
<1>1. CASE r.op \in WriteOp /\ HumanWrite(r, AfterRow(r))
  <2> DEFINE new == [key |-> r.key, request |-> r, after |-> AfterRow(r)]
  <2>1. publications' = publications /\ receipts' = receipts \cup {new}
    BY <1>1 DEF HumanWrite
  <2>4. new.key = r.key /\ new.request = r
    OBVIOUS
  <2> HIDE DEF new
  <2>5. r \in BoundRequests(r)'
    BY <1>1, <2>1, <2>4 DEF BoundRequests
  <2>2. CASE s.op \in WriteOp
    <3>1. BoundRequests(s) = {row.request : row \in {e \in receipts : e.key = s.key}}
      BY <2>2 DEF BoundRequests
    <3>2. BoundRequests(s)' = {row.request : row \in {e \in receipts' : e.key = s.key}}
      BY <2>2 DEF BoundRequests
    <3>3. s.key # r.key => BoundRequests(s)' = BoundRequests(s)
      BY <2>1, <2>4, <3>1, <3>2
    <3>4. /\ BoundRequests(s) \subseteq BoundRequests(s)'
          /\ BoundRequests(s)' \subseteq BoundRequests(s) \cup {r}
      BY <2>1, <2>4, <3>1, <3>2
    <3> QED
      BY <1>1, <2>2, <2>5, <3>3, <3>4
  <2>3. CASE s.op \notin WriteOp
    <3>1. BoundRequests(s)' = BoundRequests(s)
      BY <2>1, <2>3 DEF BoundRequests, PublicationsOf
    <3> QED
      BY <2>5, <3>1
  <2> QED
    BY <2>2, <2>3
<1>2. CASE r.op \in PublicationOp /\ Publish(r, AfterRow(r))
  <2> DEFINE new == [project |-> r.project, definition |-> r.target, key |-> r.key,
                     request |-> r, workspace |-> r.workspace]
  <2>0. r.op \notin WriteOp
    BY <1>2 DEF WriteOp, PublicationOp
  <2>1. receipts' = receipts /\ publications' = publications \cup {new}
    BY <1>2 DEF Publish
  <2>2. new.project = r.project /\ new.key = r.key /\ new.request = r
    OBVIOUS
  <2> HIDE DEF new
  <2>3. r \in BoundRequests(r)'
    BY <2>0, <2>1, <2>2 DEF BoundRequests, PublicationsOf
  <2>4. CASE s.op \in WriteOp
    BY <2>1, <2>3, <2>4 DEF BoundRequests
  <2>5. CASE s.op \notin WriteOp
    <3>1. BoundRequests(s) =
             {row.request : row \in {e \in publications : e.project = s.project /\ e.key = s.key}}
      BY <2>5 DEF BoundRequests, PublicationsOf
    <3>2. BoundRequests(s)' =
             {row.request : row \in {e \in publications' : e.project = s.project /\ e.key = s.key}}
      BY <2>5 DEF BoundRequests, PublicationsOf
    <3>3. ~(s.key = r.key /\ s.project = r.project) => BoundRequests(s)' = BoundRequests(s)
      BY <2>1, <2>2, <3>1, <3>2
    <3>4. /\ BoundRequests(s) \subseteq BoundRequests(s)'
          /\ BoundRequests(s)' \subseteq BoundRequests(s) \cup {r}
      BY <2>1, <2>2, <3>1, <3>2
    <3> QED
      BY <2>0, <2>3, <2>5, <3>3, <3>4
  <2> QED
    BY <2>4, <2>5
<1> QED
  BY <1>1, <1>2, OperationWrites

\* A commit keeps the types.
LEMMA CommitTypes ==
    ASSUME TransactionInv, NEW w \in Worker, Commit(w)
    PROVE  GatewayTypeOK'
<1>1. PICK r \in Request : request[w] = r /\ Serving(w, r)
  BY DEF Commit, TransactionInv, Serving, Idle
<1>2. Allowed(r) /\ Operation(r)
  BY <1>1, CommitIsOperation
<1>3. TypeOK'
  <2>1. AfterRow(r) \in DefinitionRow
    BY <1>2, AfterRowType DEF Allowed, TransactionInv, GatewayTypeOK
  <2> QED
    BY <1>2, <2>1, OperationWrites, HumanWriteType, PublishType DEF TransactionInv, GatewayTypeOK
<1>4. GatewayPart
  BY TypeParts DEF TransactionInv
<1>5. pc' \in [Worker -> Phase] /\ outcome' \in [Worker -> Outcome]
  BY <1>4 DEF Commit, GatewayPart, Phase, Outcome, Success
<1>6. staged' \in [Worker -> DefinitionRow \cup {None}]
  BY <1>4 DEF Commit, GatewayPart
<1>7. effects' \in [Request -> 0 .. MaxEffects]
  <2>1. effects' = [effects EXCEPT ![r] = IF @ < MaxEffects THEN @ + 1 ELSE @]
    BY <1>1 DEF Commit
  <2>2. effects[r] \in 0 .. MaxEffects
    BY <1>4 DEF GatewayPart
  <2> QED
    BY <1>4, <2>1, <2>2 DEF GatewayPart, MaxEffects
<1>8. scope' \subseteq Actor \X Project
  <2>1. r \in RequestType
    BY RequestAssumption
  <2>2. <<r.actor, r.project>> \in Actor \X Project
    BY <2>1 DEF RequestType
  <2>3. scope' = IF r.op = "BOOTSTRAP_DRAFT" THEN scope \cup {<<r.actor, r.project>>} ELSE scope
    BY <1>1 DEF Commit
  <2> QED
    BY <1>4, <2>2, <2>3 DEF GatewayPart
<1>9. lock' \in [Project \cup Actor -> Worker \cup {Free}]
  BY <1>4 DEF Commit, Release, GatewayPart
<1>10. UNCHANGED <<request, seen, refused>>
  BY DEF Commit
<1> QED
  BY <1>3, <1>4, <1>5, <1>6, <1>7, <1>8, <1>9, <1>10 DEF GatewayPart, GatewayTypeOK

\* A commit takes nothing from a worker that is still serving a request.
LEMMA CommitKeepsOthers ==
    ASSUME TransactionInv, NEW w \in Worker, Commit(w), NEW r \in Request, request[w] = r,
           NEW v \in Worker, v # w, NEW s \in Request, Serving(v, s)
    PROVE  HoldsFor(v, s)'
<1>0. TypeOK /\ HoldsFor(v, s) /\ pc[w] = "commit" /\ Serving(w, r)
  BY DEF TransactionInv, GatewayTypeOK, Commit, Serving, Idle
<1>1. Allowed(r) /\ Operation(r)
  BY CommitIsOperation
<1>2. HoldsFor(w, r) /\ Apart(v, w)
  BY <1>0 DEF TransactionInv
<1>3. /\ pc'[v] = pc[v] /\ request'[v] = request[v] /\ staged'[v] = staged[v]
      /\ \A x \in Project \cup Actor : lock[x] = v => lock'[x] = v
  BY ReleaseOwn DEF Commit, TransactionInv, GatewayTypeOK
<1>4. Resolves(s)'
  BY <1>0, <1>1, ResolvesStays DEF HoldsFor
<1>5. pc'[v] \in InTransaction => lock'[LockedRow(s)] = v
  BY <1>0, <1>3, LockedRowType DEF HoldsFor
<1>6. pc'[v] \in Staged => staged'[v] = AfterRow(s)' /\ ChecksHold(s)'
  <2> SUFFICES ASSUME pc[v] \in Staged PROVE staged[v] = AfterRow(s)' /\ ChecksHold(s)'
    BY <1>3
  <2>1. staged[v] = AfterRow(s) /\ ChecksHold(s)
    BY <1>0 DEF HoldsFor
  <2>2. CASE s.op = "BOOTSTRAP_DRAFT"
    BY <2>1, <2>2 DEF AfterRow, DraftRow, ChecksHold
  <2>3. CASE s.op # "BOOTSTRAP_DRAFT"
    <3>1. s.project # r.project
      BY <1>0, <2>3, InFlightElsewhere DEF Staged, InTransaction
    <3>2. Resolves(s)
      BY <1>0 DEF HoldsFor
    <3> QED
      BY <1>0, <1>1, <2>1, <2>3, <3>1, <3>2, ForeignOperation
  <2> QED
    BY <2>2, <2>3
<1>7. pc[v] \in InTransaction /\ s.op \in PublicationOp => BoundRequests(s)' = {}
  <2> SUFFICES ASSUME pc[v] \in InTransaction, s.op \in PublicationOp PROVE BoundRequests(s)' = {}
    OBVIOUS
  <2>1. s.op \notin WriteOp /\ s.op # "BOOTSTRAP_DRAFT"
    BY DEF WriteOp, PublicationOp
  <2>2. s.project # r.project
    BY <1>0, <2>1, InFlightElsewhere
  <2>3. BoundRequests(s) = {}
    BY <1>0 DEF HoldsFor
  <2> QED
    BY <1>1, <2>1, <2>2, <2>3, NewBindings
<1>8. InsertedProject(v) => ProjectFree(s)'
  <2> SUFFICES ASSUME InsertedProject(v) PROVE ProjectFree(s)'
    OBVIOUS
  <2>1. ProjectFree(s)
    BY <1>0 DEF InsertedProject, HoldsFor, Serving
  <2>2. s.project \in Project /\ s.projectCode \in Name
    BY RequestFields DEF InsertedProject, Serving
  <2>3. r.op = "BOOTSTRAP_DRAFT" => r.project # s.project /\ r.projectCode # s.projectCode
    BY <1>0, <1>2 DEF Apart, InsertedProject, Serving
  <2>4. \A p \in Project : projects[p] # None => projects'[p] = projects[p]
    BY <1>0, <1>1, IdentityStays
  <2>5. \A p \in Project : projects[p] = None /\ projects'[p] # None =>
           r.op = "BOOTSTRAP_DRAFT" /\ p = r.project /\ projects'[p] = r.projectCode
    BY <1>0, <1>1, IdentityStays
  <2>6. projects'[s.project] = None
    BY <2>1, <2>2, <2>3, <2>5 DEF ProjectFree
  <2>7. \A p \in Project : projects'[p] # s.projectCode
    BY <2>1, <2>2, <2>3, <2>4, <2>5, NoneAssumption DEF ProjectFree
  <2> QED
    BY <2>6, <2>7 DEF ProjectFree
<1>9. pc[v] \in {"record", "commit"} /\ s.op \in InsertOp => ~Exists(s.target)'
  <2> SUFFICES ASSUME pc[v] \in {"record", "commit"}, s.op \in InsertOp PROVE definitions'[s.target] = None
    BY DEF Exists
  <2>1. ~Exists(s.target) /\ s.target \in Definition
    BY <1>0, RequestFields DEF HoldsFor
  <2>2. r.op \in InsertOp => r.target # s.target
    BY <1>0, <1>2 DEF Apart, InsertedDefinition, Serving
  <2>3. \A d \in Definition : ~Exists(d) /\ definitions'[d] # None => d = r.target /\ r.op \in InsertOp
    BY <1>0, <1>1, IdentityStays
  <2> QED
    BY <2>1, <2>2, <2>3
<1>10. pc[v] = "commit" /\ s.op = "INITIAL" => workspaces'[s.workspace] = None
  <2> SUFFICES ASSUME pc[v] = "commit", s.op = "INITIAL" PROVE workspaces'[s.workspace] = None
    OBVIOUS
  <2>1. workspaces[s.workspace] = None /\ s.workspace \in Workspace
    BY <1>0, RequestFields DEF HoldsFor
  <2>2. r.op = "INITIAL" => r.workspace # s.workspace
    BY <1>0, <1>2 DEF Apart, InsertedWorkspace, Serving
  <2>3. CASE r.op = "INITIAL"
    BY <1>0, <1>1, <2>1, <2>2, <2>3, OperationWrites DEF Publish, TypeOK, WriteOp
  <2>4. CASE r.op # "INITIAL"
    BY <1>1, <2>1, <2>4, OperationWrites DEF HumanWrite, Publish
  <2> QED
    BY <2>3, <2>4
<1>11. pc[v] = "commit" /\ s.op \in WriteOp => BoundRequests(s)' = {}
  <2> SUFFICES ASSUME pc[v] = "commit", s.op \in WriteOp PROVE BoundRequests(s)' = {}
    OBVIOUS
  <2>1. BoundRequests(s) = {}
    BY <1>0 DEF HoldsFor
  <2>2. r.op \in WriteOp => r.key # s.key
    BY <1>0, <1>2 DEF Apart, InsertedReceipt, Serving
  <2> QED
    BY <1>1, <2>1, <2>2, NewBindings
<1>12. pc[v] \in {"insert", "record", "commit"} /\ s.op = "BOOTSTRAP_DRAFT" => InsertedProject(v)
  BY DEF InsertedProject, Serving
<1> QED
  BY <1>0, <1>3, <1>4, <1>5, <1>6, <1>7, <1>8, <1>9, <1>10, <1>11, <1>12 DEF HoldsFor

LEMMA CommitKeeps ==
    ASSUME TransactionInv, NEW w \in Worker, Commit(w)
    PROVE  TransactionInv'
<1>1. PICK r \in Request : request[w] = r /\ Serving(w, r)
  BY DEF Commit, TransactionInv, Serving, Idle
<1>2. Allowed(r) /\ Operation(r) /\ HoldsFor(w, r) /\ TypeOK
  BY <1>1, CommitIsOperation DEF TransactionInv, GatewayTypeOK
<1>3. /\ request' = request /\ pc'[w] = "answered"
      /\ \A v \in Worker \ {w} : pc'[v] = pc[v]
  BY DEF Commit, TransactionInv, GatewayTypeOK
<1>4. GatewayTypeOK'
  BY CommitTypes
<1>5. RowsBelong'
  <2> SUFFICES ASSUME NEW d \in Definition, definitions'[d] # None
               PROVE  projects'[definitions'[d].project] # None
    BY DEF RowsBelong, Exists
  <2>1. \A p \in Project : projects[p] # None => projects'[p] # None
    BY <1>2, IdentityStays
  <2>2. CASE Exists(d)
    <3>1. definitions'[d].project = definitions[d].project
      BY <1>2, <2>2, IdentityStays
    <3>2. definitions[d].project \in Project
      BY <1>2, <2>2, RowType DEF DefinitionRow
    <3>3. projects[definitions[d].project] # None
      BY <2>2 DEF TransactionInv, RowsBelong
    <3> QED
      BY <2>1, <3>1, <3>2, <3>3
  <2>3. CASE ~Exists(d)
    <3>1. r.op \in InsertOp /\ definitions'[d].project = r.project
      BY <1>2, <2>3, IdentityStays
    <3>2. r.project \in Project
      BY RequestFields
    <3>3. CASE r.op = "BOOTSTRAP_DRAFT"
      <4>1. projects' = [projects EXCEPT ![r.project] = r.projectCode]
        BY <1>2, <3>3, OperationWrites DEF HumanWrite, PublicationOp
      <4>2. r.projectCode # None
        BY <3>3, RequestFields, NoneAssumption
      <4> QED
        BY <1>2, <3>1, <3>2, <4>1, <4>2 DEF TypeOK
    <3>4. CASE r.op = "CREATE_DRAFT"
      BY <1>2, <2>1, <3>1, <3>2, <3>4 DEF Allowed, Resolves
    <3>5. CASE r.op = "CLONE_DRAFT"
      <4>1. r.source \in InProject(r.project)
        BY <1>2, <3>5 DEF Allowed, Resolves
      <4>2. projects[r.project] # None
        BY <4>1 DEF TransactionInv, RowsBelong, InProject
      <4> QED
        BY <2>1, <3>1, <3>2, <4>2
    <3> QED
      BY <3>1, <3>3, <3>4, <3>5 DEF InsertOp
  <2> QED
    BY <2>2, <2>3
<1>6. \A v \in Worker : pc'[v] # Idle => request'[v] \in Request
  BY <1>1, <1>3 DEF TransactionInv
<1>7. ASSUME NEW v \in Worker, NEW s \in Request, Serving(v, s)' PROVE HoldsFor(v, s)'
  <2>1. CASE v = w
    <3>1. s = r
      BY <1>1, <1>3, <1>7, <2>1 DEF Serving
    <3>2. Resolves(r)'
      BY <1>2, ResolvesStays DEF Allowed
    <3> QED
      BY <1>3, <2>1, <3>1, <3>2 DEF HoldsFor, InTransaction, Staged
  <2>2. CASE v # w
    <3>1. Serving(v, s)
      BY <1>3, <1>7, <2>2 DEF Serving
    <3> QED
      BY <1>1, <2>2, <3>1, CommitKeepsOthers
  <2> QED
    BY <2>1, <2>2
<1>8. ASSUME NEW u \in Worker, NEW v \in Worker, u # v PROVE Apart(u, v)'
  <2>1. Apart(u, v)
    BY <1>8 DEF TransactionInv
  <2>2. ASSUME NEW x \in Worker
        PROVE  /\ InsertedProject(x)' => InsertedProject(x)
               /\ InsertedDefinition(x)' => InsertedDefinition(x)
               /\ InsertedWorkspace(x)' => InsertedWorkspace(x)
               /\ InsertedReceipt(x)' => InsertedReceipt(x)
    BY <1>3 DEF InsertedProject, InsertedDefinition, InsertedWorkspace, InsertedReceipt
  <2> QED
    BY <1>3, <2>1, <2>2 DEF Apart
<1> QED
  BY <1>4, <1>5, <1>6, <1>7, <1>8 DEF TransactionInv

\* Grants and revocations, and steps that change nothing.
LEMMA RestKeeps ==
    ASSUME TransactionInv, scope' \subseteq Actor \X Project,
           UNCHANGED <<dbvars, pc, request, seen, staged, outcome, lock, effects, refused>>
    PROVE  TransactionInv'
<1>1. GatewayTypeOK'
  <2>1. TypeOK'
    BY SameRowsType DEF TransactionInv, GatewayTypeOK
  <2> QED
    BY <2>1 DEF TransactionInv, GatewayTypeOK
<1>2. RowsBelong'
  BY SameRows DEF TransactionInv
<1>3. ASSUME NEW v \in Worker, NEW s \in Request, Serving(v, s)' PROVE HoldsFor(v, s)'
  <2>1. HoldsFor(v, s)
    BY <1>3 DEF TransactionInv, Serving
  <2> QED
    BY <2>1, SameRows DEF HoldsFor
<1>4. ASSUME NEW u \in Worker, NEW v \in Worker, u # v PROVE Apart(u, v)'
  <2>1. Apart(u, v)
    BY <1>4 DEF TransactionInv
  <2> QED
    BY <2>1 DEF Apart, InsertedProject, InsertedDefinition, InsertedWorkspace, InsertedReceipt
<1>5. \A v \in Worker : pc'[v] # Idle => request'[v] \in Request
  BY DEF TransactionInv
<1> QED
  BY <1>1, <1>2, <1>3, <1>4, <1>5 DEF TransactionInv

\* A step of a worker that is not a commit.
LEMMA WorkerKeeps ==
    ASSUME TransactionInv, NEW w \in Worker,
           (\E r \in Request : Admit(w, r)) \/ Lock(w) \/ Serve(w) \/ Crash(w), ~Commit(w)
    PROVE  TransactionInv' /\ UNCHANGED dbvars
<1>1. GatewayTypeOK /\ (pc[w] # Idle => request[w] \in Request)
  BY DEF TransactionInv
<1>2. Check(w) => AfterRow(request[w]) \in DefinitionRow
  <2> SUFFICES ASSUME Check(w) PROVE AfterRow(request[w]) \in DefinitionRow
    OBVIOUS
  <2>1. PICK r \in Request : request[w] = r /\ Serving(w, r)
    BY DEF Check, TransactionInv, Serving, Idle
  <2>2. Resolves(r)
    BY <2>1 DEF TransactionInv, HoldsFor
  <2>3. AfterRow(r) \in DefinitionRow
    BY <2>2, AfterRowType DEF TransactionInv, GatewayTypeOK
  <2> QED
    BY <2>1, <2>3
<1>3. GatewayTypeOK' /\ UNCHANGED dbvars
  BY <1>1, <1>2, QuietTypes DEF Serve
<1> QED
  BY <1>3, LockKeeps, CheckKeeps, InsertProjectKeeps, MutateKeeps, RecordKeeps, LooseKeeps DEF Serve

\* The locks, the staged rows and the unique keys stay consistent.
LEMMA TransactionInductive == GatewaySpec => []TransactionInv
<1>1. GatewayInit => TransactionInv
  <2> SUFFICES ASSUME GatewayInit PROVE TransactionInv
    OBVIOUS
  <2>1. GatewayTypeOK
    <3>1. TypeOK
      BY DEF GatewayInit, LifecycleInit, TypeOK
    <3> QED
      BY <3>1 DEF GatewayInit, GatewayTypeOK, Phase, Idle, Outcome, MaxEffects
  <2>2. RowsBelong
    BY DEF GatewayInit, LifecycleInit, RowsBelong, Exists
  <2>3. \A w \in Worker : pc[w] = "idle"
    BY DEF GatewayInit, Idle
  <2> QED
    BY <2>1, <2>2, <2>3
    DEF TransactionInv, Serving, Idle, Apart, InsertedProject, InsertedDefinition,
        InsertedWorkspace, InsertedReceipt
<1>2. TransactionInv /\ [GatewayNext]_vars => TransactionInv'
  <2> SUFFICES ASSUME TransactionInv, [GatewayNext]_vars PROVE TransactionInv'
    OBVIOUS
  <2>1. CASE UNCHANGED vars
    BY <2>1, RestKeeps DEF vars, gvars, TransactionInv, GatewayTypeOK
  <2>2. CASE GatewayNext
    <3>1. CASE \E grant \in ScopeChange : ChangeScope(grant)
      BY <3>1, RestKeeps, ScopeAssumption DEF ChangeScope, TransactionInv, GatewayTypeOK
    <3>2. ASSUME NEW w \in Worker,
                 (\E r \in Request : Admit(w, r)) \/ Lock(w) \/ Serve(w) \/ Crash(w)
          PROVE  TransactionInv'
      BY <3>2, WorkerKeeps, CommitKeeps
    <3> QED
      BY <2>2, <3>1, <3>2 DEF GatewayNext
  <2> QED
    BY <2>1, <2>2
<1> QED
  BY <1>1, <1>2, PTL DEF GatewaySpec

\* Every worker is in a proper phase, with a typed row, lock and answer.
THEOREM GatewayTypes == GatewaySpec => []GatewayTypeOK
<1>1. TransactionInv => GatewayTypeOK
  BY DEF TransactionInv
<1> QED
  BY <1>1, TransactionInductive, PTL

\* A step of the gateway is one operation or changes no row.
LEMMA GatewayStep ==
    ASSUME TransactionInv, [GatewayNext]_vars
    PROVE  [LifecycleNext]_dbvars
<1>1. CASE UNCHANGED vars
  BY <1>1 DEF vars
<1>2. CASE \E grant \in ScopeChange : ChangeScope(grant)
  BY <1>2 DEF ChangeScope
<1>3. ASSUME NEW w \in Worker,
             (\E r \in Request : Admit(w, r)) \/ Lock(w) \/ Serve(w) \/ Crash(w)
      PROVE  [LifecycleNext]_dbvars
  <2>1. CASE Commit(w)
    <3>1. PICK r \in Request : request[w] = r
      BY <2>1 DEF Commit, TransactionInv, Idle
    <3> QED
      BY <2>1, <3>1, CommitIsOperation DEF LifecycleNext
  <2>2. CASE ~Commit(w)
    BY <1>3, <2>2, WorkerKeeps
  <2> QED
    BY <2>1, <2>2
<1> QED
  BY <1>1, <1>2, <1>3 DEF GatewayNext

\* The interleaved transactions of any number of workers, for any requests, over
\* any number of projects, commit a behaviour of the atomic operations.
THEOREM TransactionsSerialize == GatewaySpec => Serializable
<1>1. GatewayInit => LifecycleInit
  BY DEF GatewayInit
<1> QED
  BY <1>1, TransactionInductive, GatewayStep, PTL DEF GatewaySpec, Serializable, LifecycleSpec

\* So everything proved of the operations holds of the gateway that runs them:
\* what is published, pinned, reviewed and read by others.
THEOREM GatewayInherits ==
    GatewaySpec => /\ [](PublishedChain /\ PinsExact /\ ReviewedBytes /\ KeyBindsOneIntent)
                   /\ FrozenHistory
                   /\ ImplementsSnapshots
  BY TransactionsSerialize, ChainHolds, PinsAreExact, BytesAreReviewed, KeysBindOneIntent,
     HistoryIsFrozen, SnapshotsImplemented, PTL DEF Serializable

-----------------------------------------------------------------------------
(* What the workers answer.                                                *)

\* The request has had no effect, and something that no operation undoes stands
\* in its way: its key, an identity, a status, a publication.
Blocked(r) ==
    /\ r \notin BoundRequests(r)
    /\ \/ BoundRequests(r) # {}
       \/ r.op \in InsertOp /\ Reclassified(r) # Accepted
       \/ r.op \notin InsertOp /\ Exists(r.target) /\
             \/ r.op \in WriteOp /\ definitions[r.target].status # "DRAFT"
             \/ r.op \in PublicationOp /\ IsPublished(r.target)
             \/ r.op = "INITIAL" /\
                   \/ PublicationsOf(r.project) # {}
                   \/ workspaces[r.workspace] # None
                   \/ definitions[r.target].status # "DRAFT"
                   \/ r.ifMatch \notin ValidManifest

\* An operation that is allowed is not blocked.
LEMMA AllowedIsNotBlocked ==
    ASSUME NEW r \in Request, Allowed(r)
    PROVE  ~Blocked(r)
<1>1. BoundRequests(r) = {} /\ Refusal(r) = Accepted
  BY DEF Allowed
<1> USE DEF Accepted
<1>2. CASE r.op = "BOOTSTRAP_DRAFT"
  BY <1>1, <1>2 DEF Refusal, Blocked, Reclassified, InsertOp
<1>3. CASE r.op = "CREATE_DRAFT"
  BY <1>1, <1>3 DEF Refusal, Blocked, Reclassified, InsertOp
<1>4. CASE r.op = "CLONE_DRAFT"
  <2>1. CloneRefusal(r) = Accepted
    BY <1>1, <1>4 DEF Refusal
  <2> QED
    BY <1>1, <1>4, <2>1 DEF CloneRefusal, Blocked, Reclassified, InsertOp
<1>5. CASE r.op = "SAVE_DRAFT"
  <2>1. SaveRefusal(r) = Accepted
    BY <1>1, <1>5 DEF Refusal
  <2> QED
    BY <1>1, <1>5, <2>1 DEF SaveRefusal, Blocked, InsertOp, PublicationOp
<1>6. CASE r.op = "VALIDATE_DEFINITION"
  <2>1. ValidateRefusal(r) = Accepted
    BY <1>1, <1>6 DEF Refusal
  <2> QED
    BY <1>1, <1>6, <2>1 DEF ValidateRefusal, Blocked, InsertOp, PublicationOp
<1>7. CASE r.op = "INITIAL"
  <2>1. InitialRefusal(r) = Accepted
    BY <1>1, <1>7 DEF Refusal
  <2> QED
    BY <1>1, <1>7, <2>1 DEF InitialRefusal, InitialLifecycleAllows, Blocked, InsertOp, WriteOp
<1>8. CASE r.op = "SUCCESSOR"
  <2>1. SuccessorRefusal(r) = Accepted
    BY <1>1, <1>8 DEF Refusal
  <2> QED
    BY <1>1, <1>8, <2>1 DEF SuccessorRefusal, Blocked, InsertOp, WriteOp
<1> QED
  BY <1>2, <1>3, <1>4, <1>5, <1>6, <1>7, <1>8, RequestFields DEF WriteOp, PublicationOp

\* An identity that is taken stays taken.
LEMMA TakenStays ==
    ASSUME TypeOK, NEW q \in Request, Operation(q), NEW r \in Request, r.op \in InsertOp,
           Reclassified(r) # Accepted
    PROVE  Reclassified(r)' # Accepted
<1>1. /\ r.target \in Definition /\ r.project \in Project
      /\ r.op = "BOOTSTRAP_DRAFT" => r.projectCode \in Name
  BY RequestFields
<1>2. /\ \A d \in Definition : Exists(d) =>
            /\ definitions'[d] # None
            /\ definitions'[d].project = definitions[d].project
            /\ definitions'[d].code = definitions[d].code
            /\ definitions'[d].version = definitions[d].version
      /\ \A p \in Project : projects[p] # None => projects'[p] = projects[p]
  BY IdentityStays
<1>3. CASE r.op = "BOOTSTRAP_DRAFT"
  <2>1. FirstProjectIdentityConflict(r) # Accepted
    BY <1>3 DEF Reclassified
  <2>2. \/ projects[r.project] # None
        \/ \E p \in Project : projects[p] = r.projectCode
        \/ Exists(r.target)
    BY <2>1 DEF FirstProjectIdentityConflict
  <2>3. \/ projects'[r.project] # None
        \/ \E p \in Project : projects'[p] = r.projectCode
        \/ definitions'[r.target] # None
    BY <1>1, <1>2, <1>3, <2>2, NoneAssumption
  <2>4. FirstProjectIdentityConflict(r)' # Accepted
    BY <2>3 DEF FirstProjectIdentityConflict, Accepted, Exists
  <2> QED
    BY <1>3, <2>4 DEF Reclassified
<1>4. CASE r.op # "BOOTSTRAP_DRAFT"
  <2>1. DefinitionIdentityConflict(r) # Accepted
    BY <1>4 DEF Reclassified
  <2>2. \/ Exists(r.target)
        \/ \E d \in InProject(r.project) :
              definitions[d].code = r.code \/ definitions[d].version = r.version
    BY <2>1 DEF DefinitionIdentityConflict
  <2>3. \A d \in InProject(r.project) : d \in InProject(r.project)'
    BY <1>2 DEF InProject, Exists
  <2>4. \/ definitions'[r.target] # None
        \/ \E d \in InProject(r.project)' :
              definitions'[d].code = r.code \/ definitions'[d].version = r.version
    <3>1. CASE Exists(r.target)
      BY <1>1, <1>2, <3>1
    <3>2. CASE \E d \in InProject(r.project) :
                  definitions[d].code = r.code \/ definitions[d].version = r.version
      BY <1>2, <2>3, <3>2 DEF InProject
    <3> QED
      BY <2>2, <3>1, <3>2
  <2>5. DefinitionIdentityConflict(r)' # Accepted
    BY <2>4 DEF DefinitionIdentityConflict, Accepted, Exists
  <2> QED
    BY <1>4, <2>5 DEF Reclassified
<1> QED
  BY <1>3, <1>4

\* What blocks a request blocks it for ever.
LEMMA BlockedStays ==
    ASSUME TypeOK, NEW q \in Request, Operation(q), NEW r \in Request, Blocked(r)
    PROVE  Blocked(r)'
<1>1. r # q
  BY AllowedIsNotBlocked, OperationWrites
<1>2. /\ r \notin BoundRequests(r)'
      /\ BoundRequests(r) # {} => BoundRequests(r)' # {}
  BY <1>1, NewBindings DEF Blocked
<1>3. /\ publications \subseteq publications'
      /\ \A w \in Workspace : workspaces[w] # None => workspaces'[w] = workspaces[w]
      /\ \A d \in Definition : Exists(d) =>
            /\ definitions'[d] # None
            /\ definitions[d].status # "DRAFT" =>
                  \E s \in {definitions[d].status, "PUBLISHED"}, c \in BOOLEAN :
                     definitions'[d] = [definitions[d] EXCEPT !.status = s, !.current = c]
  BY FrozenStep DEF LifecycleNext
<1>4. CASE BoundRequests(r) # {}
  BY <1>2, <1>4 DEF Blocked
<1>5. CASE r.op \in InsertOp /\ Reclassified(r) # Accepted
  BY <1>2, <1>5, TakenStays DEF Blocked
<1>6. CASE r.op \notin InsertOp /\ Exists(r.target) /\ BoundRequests(r) = {}
  <2>0. r.target \in Definition /\ (r.op = "INITIAL" => r.workspace \in Workspace)
    BY RequestFields
  <2>1. definitions'[r.target] # None
    BY <1>3, <1>6, <2>0
  <2>2. definitions[r.target].status # "DRAFT" => definitions'[r.target].status # "DRAFT"
    <3> SUFFICES ASSUME definitions[r.target].status # "DRAFT"
                 PROVE  definitions'[r.target].status # "DRAFT"
      OBVIOUS
    <3>1. definitions[r.target] \in DefinitionRow
      BY <1>6, <2>0, RowType
    <3>2. PICK s \in {definitions[r.target].status, "PUBLISHED"}, c \in BOOLEAN :
             definitions'[r.target] = [definitions[r.target] EXCEPT !.status = s, !.current = c]
      BY <1>3, <1>6, <2>0
    <3> QED
      BY <3>1, <3>2 DEF DefinitionRow
  <2>3. /\ IsPublished(r.target) => IsPublished(r.target)'
        /\ PublicationsOf(r.project) # {} => PublicationsOf(r.project)' # {}
    BY <1>3 DEF IsPublished, PublicationsOf
  <2>4. r.op = "INITIAL" /\ workspaces[r.workspace] # None => workspaces'[r.workspace] # None
    BY <1>3, <2>0
  <2> QED
    BY <1>2, <1>6, <2>1, <2>2, <2>3, <2>4 DEF Blocked, Exists
<1> QED
  BY <1>4, <1>5, <1>6 DEF Blocked

\* Codes that say that the request will never take effect.
FinalCode(r, code) ==
    \/ code \in IdentityConflict \cup KeyConflict
    \/ code \in {"DEFINITION_NOT_DRAFT", "DEFINITION_ALREADY_VALIDATED",
                 "PUBLICATION_ALREADY_COMMITTED"}
    \/ code = "PUBLICATION_TARGET_STATE_CONFLICT" /\ r.op = "INITIAL"

\* A refusal with a final code names something that blocks the request.
LEMMA FinalRefusalBlocks ==
    ASSUME ChainInv, NEW r \in Request, Resolves(r), BoundRequests(r) = {},
           Refusal(r) # Accepted, FinalCode(r, Refusal(r))
    PROVE  Blocked(r)
<1> USE DEF FinalCode, IdentityConflict, KeyConflict, Accepted
<1>1. CASE r.op \in {"BOOTSTRAP_DRAFT", "CREATE_DRAFT"}
  BY <1>1 DEF Refusal, Blocked, Reclassified, InsertOp
<1>2. CASE r.op = "CLONE_DRAFT"
  <2>1. CloneRefusal(r) # Accepted /\ CloneRefusal(r) # "CLONE_SOURCE_STALE"
    BY <1>2 DEF Refusal
  <2>2. DefinitionIdentityConflict(r) # Accepted
    BY <2>1 DEF CloneRefusal
  <2> QED
    BY <1>2, <2>2 DEF Blocked, Reclassified, InsertOp
<1>3. r.op \notin InsertOp => Exists(r.target)
  BY DEF Resolves, InProject, InsertOp
<1>4. CASE r.op = "SAVE_DRAFT"
  <2>1. SaveRefusal(r) = "DEFINITION_NOT_DRAFT"
    BY <1>4 DEF Refusal, SaveRefusal
  <2> QED
    BY <1>3, <1>4, <2>1 DEF SaveRefusal, Blocked, InsertOp, WriteOp
<1>5. CASE r.op = "VALIDATE_DEFINITION"
  <2>1. ValidateRefusal(r) \in {"DEFINITION_NOT_DRAFT", "DEFINITION_ALREADY_VALIDATED"}
    BY <1>5 DEF Refusal, ValidateRefusal
  <2>2. definitions[r.target].status # "DRAFT"
    BY <2>1 DEF ValidateRefusal
  <2> QED
    BY <1>3, <1>5, <2>2 DEF Blocked, InsertOp, WriteOp
<1>6. CASE r.op = "INITIAL"
  <2>0. InitialRefusal(r) # Accepted /\ FinalCode(r, InitialRefusal(r)) /\ r.project \in Project
    BY <1>6, RequestFields DEF Refusal
  <2>1. definitions[r.target].manifest = r.ifMatch
    BY <2>0 DEF InitialRefusal
  <2>2. \/ IsPublished(r.target)
        \/ PublicationsOf(r.project) # {}
        \/ workspaces[r.workspace] # None
        \/ PublicationsOf(r.project) = {} /\ ~InitialLifecycleAllows(r)
    BY <2>0, <2>1 DEF InitialRefusal
  <2>3. ASSUME PublicationsOf(r.project) = {}, ~InitialLifecycleAllows(r)
        PROVE  definitions[r.target].status # "DRAFT" \/ r.ifMatch \notin ValidManifest
    <3>1. Current(r.project) = {}
      BY <2>0, <2>3, NoHeadBefore
    <3> QED
      BY <2>1, <2>3, <3>1 DEF InitialLifecycleAllows
  <2> QED
    BY <1>3, <1>6, <2>2, <2>3 DEF Blocked, InsertOp, PublicationOp
<1>7. CASE r.op = "SUCCESSOR"
  <2>1. SuccessorRefusal(r) = "PUBLICATION_ALREADY_COMMITTED"
    BY <1>7 DEF Refusal, SuccessorRefusal
  <2>2. IsPublished(r.target)
    BY <2>1 DEF SuccessorRefusal
  <2> QED
    BY <1>3, <1>7, <2>2 DEF Blocked, InsertOp, PublicationOp
<1> QED
  BY <1>1, <1>2, <1>4, <1>5, <1>6, <1>7, RequestFields DEF WriteOp, PublicationOp

\* What a worker will answer is true of the rows, and stays true until it does.
AnswerHolds(w, r) ==
    /\ pc[w] = "answered" =>
          /\ outcome[w] \in Success => r \in BoundRequests(r)
          /\ FinalCode(r, outcome[w]) => Blocked(r)
          /\ outcome[w] # "INTEGRITY_ERROR"
    /\ pc[w] = "classify" =>
          /\ outcome[w] \notin Success
          /\ FinalCode(r, outcome[w]) => Blocked(r) \/ BoundRequests(r) # {}
          /\ outcome[w] = "INTEGRITY_ERROR" =>
                BoundRequests(r) # {} \/ (r.op \in InsertOp /\ Reclassified(r) # Accepted)

AnswersInv ==
    /\ \A r \in Request : effects[r] = IF r \in BoundRequests(r) THEN 1 ELSE 0
    /\ \A r \in refused : Blocked(r)
    /\ \A w \in Worker, r \in Request : Serving(w, r) => AnswerHolds(w, r)

\* Nothing of this depends on more than the rows.
LEMMA SameAnswers ==
    ASSUME UNCHANGED dbvars, NEW r
    PROVE  /\ Blocked(r)' <=> Blocked(r)
           /\ Reclassified(r)' = Reclassified(r)
<1>1. Reclassified(r)' = Reclassified(r)
  BY DEF dbvars, Reclassified, FirstProjectIdentityConflict, DefinitionIdentityConflict,
         InProject, Exists
<1>2. BoundRequests(r)' = BoundRequests(r) /\ (Exists(r.target)' <=> Exists(r.target))
  BY SameRows
<1>3. /\ IsPublished(r.target)' <=> IsPublished(r.target)
      /\ PublicationsOf(r.project)' = PublicationsOf(r.project)
  BY DEF dbvars, IsPublished, PublicationsOf
<1> QED
  BY <1>1, <1>2, <1>3 DEF Blocked, dbvars

\* A quiet step of w keeps what the others will answer.
LEMMA QuietAnswers ==
    ASSUME AnswersInv, UNCHANGED <<dbvars, effects>>, NEW w \in Worker,
           \A v \in Worker \ {w} :
              pc'[v] = pc[v] /\ request'[v] = request[v] /\ outcome'[v] = outcome[v],
           \A r \in refused' : Blocked(r),
           \A r \in Request : Serving(w, r)' => AnswerHolds(w, r)'
    PROVE  AnswersInv'
<1>1. \A r \in Request : effects'[r] = IF r \in BoundRequests(r)' THEN 1 ELSE 0
  BY SameRows DEF AnswersInv
<1>2. \A r \in refused' : Blocked(r)'
  BY SameAnswers
<1>3. ASSUME NEW v \in Worker, NEW r \in Request, Serving(v, r)' PROVE AnswerHolds(v, r)'
  <2>1. CASE v = w
    BY <1>3, <2>1
  <2>2. CASE v # w
    <3>1. pc'[v] = pc[v] /\ request'[v] = request[v] /\ outcome'[v] = outcome[v]
      BY <2>2
    <3>2. AnswerHolds(v, r)
      BY <1>3, <3>1 DEF AnswersInv, Serving
    <3> QED
      BY <3>1, <3>2, SameRows, SameAnswers DEF AnswerHolds
  <2> QED
    BY <2>1, <2>2
<1> QED
  BY <1>1, <1>2, <1>3 DEF AnswersInv

\* What a lookup of the key finds is true.
LEMMA KeyOutcomeHolds ==
    ASSUME NEW r \in Request, BoundRequests(r) # {}
    PROVE  /\ KeyOutcome(r) \in Success => r \in BoundRequests(r)
           /\ FinalCode(r, KeyOutcome(r)) => Blocked(r)
           /\ KeyOutcome(r) # "INTEGRITY_ERROR"
<1>1. CASE r \in BoundRequests(r)
  BY <1>1 DEF KeyOutcome, FinalCode, IdentityConflict, KeyConflict
<1>2. CASE r \notin BoundRequests(r)
  BY <1>2 DEF KeyOutcome, Blocked, Success
<1> QED
  BY <1>1, <1>2

\* A rollback with a true code: a publication answers it, a HUMAN write goes on to
\* classify it.
LEMMA RollBackAnswers ==
    ASSUME TransactionInv, AnswersInv, UNCHANGED <<dbvars, request, effects, refused>>,
           NEW w \in Worker, NEW r \in Request, request[w] = r, NEW code, RollBack(w, code),
           code \notin Success,
           r.op \notin WriteOp => (FinalCode(r, code) => Blocked(r)) /\ code # "INTEGRITY_ERROR",
           r.op \in WriteOp => (FinalCode(r, code) => Blocked(r) \/ BoundRequests(r) # {}),
           code = "INTEGRITY_ERROR" =>
              BoundRequests(r) # {} \/ (r.op \in InsertOp /\ Reclassified(r) # Accepted)
    PROVE  AnswersInv'
<1>1. /\ pc'[w] = IF r.op \in WriteOp THEN "classify" ELSE "answered"
      /\ outcome'[w] = code
      /\ \A v \in Worker \ {w} : pc'[v] = pc[v] /\ request'[v] = request[v] /\ outcome'[v] = outcome[v]
  BY DEF RollBack, TransactionInv, GatewayTypeOK
<1>2. ASSUME NEW a \in Request, Serving(w, a)' PROVE AnswerHolds(w, a)'
  <2>1. a = r
    BY <1>2 DEF Serving
  <2> QED
    BY <1>1, <2>1, SameRows, SameAnswers DEF AnswerHolds
<1>3. \A a \in refused' : Blocked(a)
  BY DEF AnswersInv
<1> QED
  BY <1>1, <1>2, <1>3, QuietAnswers

\* A worker in a phase in which it has not yet found an answer.
LEMMA PendingAnswers ==
    ASSUME TransactionInv, AnswersInv, UNCHANGED <<dbvars, effects, refused>>,
           NEW w \in Worker,
           \A v \in Worker \ {w} :
              pc'[v] = pc[v] /\ request'[v] = request[v] /\ outcome'[v] = outcome[v],
           pc'[w] \notin {"answered", "classify"}
    PROVE  AnswersInv'
<1>1. \A a \in Request : AnswerHolds(w, a)'
  BY DEF AnswerHolds
<1>2. \A a \in refused' : Blocked(a)
  BY DEF AnswersInv
<1> QED
  BY <1>1, <1>2, QuietAnswers

\* An INSERT that fails says which.
LEMMA InsertAnswers ==
    ASSUME TransactionInv, AnswersInv, NEW w \in Worker, NEW r \in Request, request[w] = r,
           NEW uncommitted, NEW committed, NEW code, NEW next \in {"insert", "record", "commit"},
           InsertUnique(w, uncommitted, committed, code, next),
           code \notin Success,
           committed =>
              /\ r.op \notin WriteOp => Blocked(r) /\ code # "INTEGRITY_ERROR"
              /\ r.op \in WriteOp =>
                    /\ code = "INTEGRITY_ERROR"
                    /\ BoundRequests(r) # {} \/ (r.op \in InsertOp /\ Reclassified(r) # Accepted)
    PROVE  AnswersInv'
<1>1. UNCHANGED <<dbvars, request, effects, refused>>
  BY DEF InsertUnique
<1>2. CASE committed
  <2>1. RollBack(w, code)
    BY <1>2 DEF InsertUnique
  <2>2. code = "INTEGRITY_ERROR" => ~FinalCode(r, code)
    BY DEF FinalCode, IdentityConflict, KeyConflict
  <2> QED
    BY <1>1, <1>2, <2>1, <2>2, RollBackAnswers
<1>3. CASE ~committed
  <2>1. /\ pc'[w] = next
        /\ \A v \in Worker \ {w} : pc'[v] = pc[v] /\ request'[v] = request[v] /\ outcome'[v] = outcome[v]
    BY <1>1, <1>3 DEF InsertUnique, TransactionInv, GatewayTypeOK
  <2> QED
    BY <1>1, <2>1, PendingAnswers
<1> QED
  BY <1>2, <1>3

LEMMA CheckAnswers ==
    ASSUME TransactionInv, ChainInv, AnswersInv, NEW w \in Worker, Check(w)
    PROVE  AnswersInv'
<1>1. PICK r \in Request : request[w] = r /\ HoldsFor(w, r)
  BY DEF Check, TransactionInv, Serving, Idle
<1>2. UNCHANGED <<dbvars, request, effects, refused>> /\ pc[w] = "check"
  BY DEF Check
<1>3. CASE Refusal(r) = Accepted
  <2>1. /\ pc'[w] \in {"project", "insert"}
        /\ \A v \in Worker \ {w} : pc'[v] = pc[v] /\ request'[v] = request[v] /\ outcome'[v] = outcome[v]
    BY <1>1, <1>2, <1>3 DEF Check, TransactionInv, GatewayTypeOK
  <2> QED
    BY <1>2, <2>1, PendingAnswers
<1>4. CASE Refusal(r) # Accepted
  <2>1. RollBack(w, Refusal(r))
    BY <1>1, <1>4 DEF Check
  <2>2. Refusal(r) \in IdentityConflict \cup LifecycleConflict
    BY <1>4, RefusalType
  <2>3. Refusal(r) \notin Success /\ Refusal(r) # "INTEGRITY_ERROR"
    BY <2>2 DEF IdentityConflict, LifecycleConflict, Success
  <2>4. r.op \notin WriteOp => BoundRequests(r) = {}
    BY <1>1, <1>2, RequestFields DEF HoldsFor, InTransaction
  <2>5. FinalCode(r, Refusal(r)) /\ BoundRequests(r) = {} => Blocked(r)
    BY <1>1, <1>4, FinalRefusalBlocks DEF HoldsFor
  <2> QED
    BY <1>1, <1>2, <2>1, <2>3, <2>4, <2>5, RollBackAnswers
<1> QED
  BY <1>3, <1>4

LEMMA InsertsAnswer ==
    ASSUME TransactionInv, AnswersInv, NEW w \in Worker,
           InsertProject(w) \/ Mutate(w) \/ Record(w)
    PROVE  AnswersInv'
<1>1. PICK r \in Request : request[w] = r /\ HoldsFor(w, r)
  BY DEF InsertProject, Mutate, Record, TransactionInv, Serving, Idle
<1>2. "INTEGRITY_ERROR" \notin Success
  BY DEF Success
<1>3. CASE InsertProject(w)
  <2> DEFINE uncommitted == \E v \in Worker \ {w} :
                /\ InsertedProject(v)
                /\ \/ request[v].project = r.project
                   \/ request[v].projectCode = r.projectCode
             committed == projects[r.project] # None \/ \E p \in Project : projects[p] = r.projectCode
  <2>1. InsertUnique(w, uncommitted, committed, "INTEGRITY_ERROR", "insert")
    BY <1>1, <1>3 DEF InsertProject
  <2>2. r.op = "BOOTSTRAP_DRAFT"
    BY <1>1, <1>3 DEF InsertProject, HoldsFor
  <2>3. committed => Reclassified(r) # Accepted
    BY <2>2 DEF Reclassified, FirstProjectIdentityConflict, Accepted
  <2>4. r.op \in WriteOp /\ r.op \in InsertOp
    BY <2>2 DEF WriteOp, InsertOp
  <2> HIDE DEF uncommitted, committed
  <2> QED
    BY <1>1, <1>2, <2>1, <2>3, <2>4, InsertAnswers
<1>4. CASE Mutate(w)
  <2> DEFINE uncommitted == \E v \in Worker \ {w} :
                \/ r.op \in InsertOp /\ InsertedDefinition(v) /\ request[v].target = r.target
                \/ r.op = "INITIAL" /\ InsertedWorkspace(v) /\ request[v].workspace = r.workspace
             committed == \/ r.op \in InsertOp /\ Exists(r.target)
                          \/ r.op = "INITIAL" /\ workspaces[r.workspace] # None
             next == IF r.op \in WriteOp THEN "record" ELSE "commit"
  <2>1. PICK code \in TakenCodes(r) : InsertUnique(w, uncommitted, committed, code, next)
    BY <1>1, <1>4 DEF Mutate
  <2>2. next \in {"insert", "record", "commit"} /\ pc[w] = "insert"
    BY <1>4 DEF Mutate
  <2>3. code \notin Success
    BY DEF TakenCodes, Success
  <2>4. ASSUME committed, r.op \in WriteOp
        PROVE  code = "INTEGRITY_ERROR" /\ r.op \in InsertOp /\ Reclassified(r) # Accepted
    <3>1. r.op \in InsertOp /\ Exists(r.target)
      BY <2>4 DEF WriteOp
    <3> QED
      BY <2>4, <3>1
      DEF TakenCodes, Reclassified, FirstProjectIdentityConflict, DefinitionIdentityConflict, Accepted
  <2>5. ASSUME committed, r.op \notin WriteOp
        PROVE  code # "INTEGRITY_ERROR" /\ Blocked(r)
    <3>1. r.op = "INITIAL" /\ workspaces[r.workspace] # None
      BY <2>5 DEF InsertOp, WriteOp
    <3>2. BoundRequests(r) = {} /\ Exists(r.target)
      BY <1>1, <2>2, <3>1
      DEF HoldsFor, InTransaction, PublicationOp, Resolves, InProject
    <3> QED
      BY <2>5, <3>1, <3>2 DEF TakenCodes, Blocked, InsertOp
  <2> HIDE DEF uncommitted, committed, next
  <2> QED
    BY <1>1, <2>1, <2>2, <2>3, <2>4, <2>5, InsertAnswers
<1>5. CASE Record(w)
  <2> DEFINE uncommitted == \E v \in Worker \ {w} : InsertedReceipt(v) /\ request[v].key = r.key
             committed == BoundRequests(r) # {}
  <2>1. InsertUnique(w, uncommitted, committed, "INTEGRITY_ERROR", "commit")
    BY <1>1, <1>5 DEF Record
  <2>2. r.op \in WriteOp
    BY <1>1, <1>5 DEF Record, HoldsFor
  <2>3. committed => BoundRequests(r) # {}
    OBVIOUS
  <2> HIDE DEF uncommitted, committed
  <2> QED
    BY <1>1, <1>2, <2>1, <2>2, <2>3, InsertAnswers
<1> QED
  BY <1>3, <1>4, <1>5

LEMMA ClassifyAnswers ==
    ASSUME TransactionInv, AnswersInv, NEW w \in Worker, Classify(w)
    PROVE  AnswersInv'
<1>1. PICK r \in Request : request[w] = r /\ HoldsFor(w, r) /\ AnswerHolds(w, r)
  BY DEF Classify, TransactionInv, AnswersInv, Serving, Idle
<1>2. /\ UNCHANGED <<dbvars, request, effects, refused>> /\ pc[w] = "classify"
      /\ pc'[w] = "answered"
      /\ \A v \in Worker \ {w} : pc'[v] = pc[v] /\ request'[v] = request[v] /\ outcome'[v] = outcome[v]
  BY DEF Classify, TransactionInv, GatewayTypeOK
<1>3. outcome'[w] = IF BootstrapDenied(r) THEN "SCOPE_DENIED"
                    ELSE IF BoundRequests(r) # {} THEN KeyOutcome(r)
                    ELSE IF outcome[w] # "INTEGRITY_ERROR" THEN outcome[w]
                    ELSE IF Reclassified(r) # Accepted THEN Reclassified(r)
                    ELSE "INTEGRITY_ERROR"
  BY <1>1 DEF Classify, TransactionInv, GatewayTypeOK
<1>4. /\ outcome'[w] \in Success => r \in BoundRequests(r)
      /\ FinalCode(r, outcome'[w]) => Blocked(r)
      /\ outcome'[w] # "INTEGRITY_ERROR"
  <2>1. CASE BootstrapDenied(r)
    BY <1>3, <2>1 DEF Success, FinalCode, IdentityConflict, KeyConflict
  <2>2. CASE ~BootstrapDenied(r) /\ BoundRequests(r) # {}
    BY <1>3, <2>2, KeyOutcomeHolds
  <2>3. CASE ~BootstrapDenied(r) /\ BoundRequests(r) = {} /\ outcome[w] # "INTEGRITY_ERROR"
    <3>1. outcome'[w] = outcome[w]
      BY <1>3, <2>3
    <3> QED
      BY <1>1, <1>2, <2>3, <3>1 DEF AnswerHolds
  <2>4. CASE ~BootstrapDenied(r) /\ BoundRequests(r) = {} /\ outcome[w] = "INTEGRITY_ERROR"
    <3>1. r.op \in InsertOp /\ Reclassified(r) # Accepted
      BY <1>1, <1>2, <2>4 DEF AnswerHolds
    <3>2. Blocked(r)
      BY <2>4, <3>1 DEF Blocked
    <3>3. Reclassified(r) \in IdentityConflict
      BY <3>1 DEF Reclassified, IdentityConflict, FirstProjectIdentityConflict,
                  DefinitionIdentityConflict
    <3>4. outcome'[w] = Reclassified(r)
      BY <1>3, <2>4, <3>1
    <3> QED
      BY <3>2, <3>3, <3>4 DEF IdentityConflict, Success
  <2> QED
    BY <2>1, <2>2, <2>3, <2>4
<1>5. ASSUME NEW a \in Request, Serving(w, a)' PROVE AnswerHolds(w, a)'
  <2>1. a = r
    BY <1>1, <1>2, <1>5 DEF Serving
  <2> QED
    BY <1>2, <1>4, <2>1, SameRows, SameAnswers DEF AnswerHolds
<1>6. \A a \in refused' : Blocked(a)
  BY <1>2 DEF AnswersInv
<1> QED
  BY <1>2, <1>5, <1>6, QuietAnswers

\* Admission and the lock look the key up; an answer is remembered; a crash forgets.
LEMMA EdgeAnswers ==
    ASSUME TransactionInv, AnswersInv, NEW w \in Worker,
           \/ \E r \in Request : Admit(w, r)
           \/ Lock(w) \/ Answer(w) \/ Crash(w)
    PROVE  AnswersInv'
<1>0. GatewayTypeOK
  BY DEF TransactionInv
<1>1. ASSUME UNCHANGED <<dbvars, effects, refused>>, NEW r \in Request, request'[w] = r,
             \A v \in Worker \ {w} : pc'[v] = pc[v] /\ request'[v] = request[v] /\ outcome'[v] = outcome[v],
             BoundRequests(r) # {}, pc'[w] = "answered", outcome'[w] = KeyOutcome(r)
      PROVE  AnswersInv'
  <2>1. ASSUME NEW a \in Request, Serving(w, a)' PROVE AnswerHolds(w, a)'
    <3>1. a = r
      BY <1>1, <2>1 DEF Serving
    <3> QED
      BY <1>1, <3>1, KeyOutcomeHolds, SameRows, SameAnswers DEF AnswerHolds
  <2>2. \A a \in refused' : Blocked(a)
    BY <1>1 DEF AnswersInv
  <2> QED
    BY <1>1, <2>1, <2>2, QuietAnswers
<1>2. ASSUME NEW r \in Request, Admit(w, r) PROVE AnswersInv'
  <2>1. /\ UNCHANGED <<dbvars, effects, refused>> /\ request'[w] = r
        /\ \A v \in Worker \ {w} : pc'[v] = pc[v] /\ request'[v] = request[v] /\ outcome'[v] = outcome[v]
    BY <1>0, <1>2 DEF Admit, GatewayTypeOK
  <2>2. CASE r.op = "BOOTSTRAP_DRAFT" /\ BoundRequests(r) # {}
    <3>1. pc'[w] = "answered" /\ outcome'[w] = KeyOutcome(r)
      BY <1>0, <1>2, <2>2 DEF Admit, GatewayTypeOK
    <3> QED
      BY <1>1, <2>1, <2>2, <3>1
  <2>3. CASE ~(r.op = "BOOTSTRAP_DRAFT" /\ BoundRequests(r) # {})
    <3>1. pc'[w] = "waiting"
      BY <1>0, <1>2, <2>3 DEF Admit, GatewayTypeOK
    <3> QED
      BY <2>1, <3>1, PendingAnswers
  <2> QED
    BY <2>2, <2>3
<1>3. CASE Lock(w)
  <2>0. PICK r \in Request : request[w] = r
    BY <1>3 DEF Lock, TransactionInv, Idle
  <2>1. /\ UNCHANGED <<dbvars, effects, refused, request>>
        /\ \A v \in Worker \ {w} : pc'[v] = pc[v] /\ outcome'[v] = outcome[v]
    BY <1>0, <1>3 DEF Lock, GatewayTypeOK
  <2>2. CASE r.op # "BOOTSTRAP_DRAFT" /\ BoundRequests(r) # {}
    <3>1. pc'[w] = "answered" /\ outcome'[w] = KeyOutcome(r)
      BY <1>0, <1>3, <2>0, <2>2 DEF Lock, GatewayTypeOK
    <3> QED
      BY <1>1, <2>0, <2>1, <2>2, <3>1
  <2>3. CASE ~(r.op # "BOOTSTRAP_DRAFT" /\ BoundRequests(r) # {})
    <3>1. pc'[w] = "check"
      BY <1>0, <1>3, <2>0, <2>3 DEF Lock, GatewayTypeOK
    <3> QED
      BY <2>1, <3>1, PendingAnswers
  <2> QED
    BY <2>2, <2>3
<1>4. ASSUME Forget(w)
      PROVE  /\ pc'[w] = "idle"
             /\ \A v \in Worker \ {w} :
                   pc'[v] = pc[v] /\ request'[v] = request[v] /\ outcome'[v] = outcome[v]
  BY <1>0, <1>4 DEF Forget, GatewayTypeOK, Idle
<1>5. CASE Crash(w)
  BY <1>4, <1>5, PendingAnswers DEF Crash
<1>6. CASE Answer(w)
  <2>0. PICK r \in Request : request[w] = r /\ AnswerHolds(w, r)
    BY <1>6 DEF Answer, TransactionInv, AnswersInv, Serving, Idle
  <2>1. /\ Forget(w) /\ UNCHANGED <<dbvars, effects>> /\ pc[w] = "answered"
        /\ refused' = IF Final(r, outcome[w]) THEN refused \cup {r} ELSE refused
    BY <1>6, <2>0 DEF Answer
  <2>2. Final(r, outcome[w]) => FinalCode(r, outcome[w])
    BY DEF Final, FinalCode
  <2>3. \A a \in refused' : Blocked(a)
    BY <2>0, <2>1, <2>2 DEF AnswersInv, AnswerHolds
  <2>4. \A a \in Request : AnswerHolds(w, a)'
    BY <1>4, <2>1 DEF AnswerHolds
  <2> QED
    BY <1>4, <2>1, <2>3, <2>4, QuietAnswers
<1> QED
  BY <1>2, <1>3, <1>5, <1>6

\* A commit is counted once, and makes no answer of another worker untrue.
LEMMA CommitAnswers ==
    ASSUME TransactionInv, AnswersInv, NEW w \in Worker, Commit(w)
    PROVE  AnswersInv'
<1>1. PICK r \in Request : request[w] = r /\ Serving(w, r)
  BY DEF Commit, TransactionInv, Serving, Idle
<1>2. Allowed(r) /\ Operation(r) /\ TypeOK
  BY <1>1, CommitIsOperation DEF TransactionInv, GatewayTypeOK
<1>3. /\ request' = request /\ refused' = refused
      /\ pc'[w] = "answered" /\ outcome'[w] = "FRESH"
      /\ \A v \in Worker \ {w} : pc'[v] = pc[v] /\ outcome'[v] = outcome[v]
  BY DEF Commit, TransactionInv, GatewayTypeOK
<1>4. BoundRequests(r) = {}
  BY <1>2 DEF Allowed
<1>5. ASSUME NEW a \in Request
      PROVE  effects'[a] = IF a \in BoundRequests(a)' THEN 1 ELSE 0
  <2>1. effects' = [effects EXCEPT ![r] = IF @ < MaxEffects THEN @ + 1 ELSE @]
    BY <1>1 DEF Commit
  <2>2. effects[a] = IF a \in BoundRequests(a) THEN 1 ELSE 0
    BY DEF AnswersInv
  <2>3. CASE a = r
    <3>1. effects[r] = 0 /\ r \in BoundRequests(r)'
      BY <1>2, <1>4, <2>2, <2>3, NewBindings
    <3> QED
      BY <2>1, <2>3, <3>1 DEF MaxEffects, TransactionInv, GatewayTypeOK
  <2>4. CASE a # r
    <3>1. a \in BoundRequests(a)' <=> a \in BoundRequests(a)
      BY <1>2, <2>4, NewBindings
    <3> QED
      BY <2>1, <2>2, <2>4, <3>1 DEF TransactionInv, GatewayTypeOK
  <2> QED
    BY <2>3, <2>4
<1>6. \A a \in refused' : Blocked(a)'
  <2>1. \A a \in refused : a \in Request /\ Blocked(a)
    BY DEF AnswersInv, TransactionInv, GatewayTypeOK
  <2> QED
    BY <1>2, <1>3, <2>1, BlockedStays
<1>7. ASSUME NEW v \in Worker, NEW a \in Request, Serving(v, a)' PROVE AnswerHolds(v, a)'
  <2>1. CASE v = w
    <3>1. a = r
      BY <1>1, <1>3, <1>7, <2>1 DEF Serving
    <3>2. r \in BoundRequests(r)'
      BY <1>2, NewBindings
    <3> QED
      BY <1>3, <2>1, <3>1, <3>2 DEF AnswerHolds, FinalCode, IdentityConflict, KeyConflict
  <2>2. CASE v # w
    <3>1. AnswerHolds(v, a)
      BY <1>3, <1>7, <2>2 DEF AnswersInv, Serving
    <3>2. BoundRequests(a) \subseteq BoundRequests(a)'
      BY <1>2, NewBindings
    <3>3. Blocked(a) => Blocked(a)'
      BY <1>2, BlockedStays
    <3>4. a.op \in InsertOp /\ Reclassified(a) # Accepted => Reclassified(a)' # Accepted
      BY <1>2, TakenStays
    <3> QED
      BY <1>3, <2>2, <3>1, <3>2, <3>3, <3>4 DEF AnswerHolds, Accepted
  <2> QED
    BY <2>1, <2>2
<1> QED
  BY <1>5, <1>6, <1>7 DEF AnswersInv

\* The rows of a gateway satisfy what the operations guarantee.
LEMMA GatewayChain == GatewaySpec => []ChainInv
  BY TransactionsSerialize, ChainInductive, PTL DEF Serializable

LEMMA AnswersInductive == GatewaySpec => []AnswersInv
<1>1. GatewayInit => AnswersInv
  <2> SUFFICES ASSUME GatewayInit PROVE AnswersInv
    OBVIOUS
  <2>1. \A r \in Request : BoundRequests(r) = {}
    BY DEF GatewayInit, LifecycleInit, BoundRequests, PublicationsOf
  <2> QED
    BY <2>1 DEF GatewayInit, AnswersInv, Serving
<1>2. TransactionInv /\ ChainInv /\ AnswersInv /\ [GatewayNext]_vars => AnswersInv'
  <2> SUFFICES ASSUME TransactionInv, ChainInv, AnswersInv, [GatewayNext]_vars PROVE AnswersInv'
    OBVIOUS
  <2>1. ASSUME UNCHANGED <<dbvars, pc, request, outcome, effects, refused>> PROVE AnswersInv'
    <3>1. \A r \in Request : effects'[r] = IF r \in BoundRequests(r)' THEN 1 ELSE 0
      BY <2>1, SameRows DEF AnswersInv
    <3>2. \A r \in refused' : Blocked(r)'
      BY <2>1, SameAnswers DEF AnswersInv
    <3>3. ASSUME NEW v \in Worker, NEW r \in Request, Serving(v, r)' PROVE AnswerHolds(v, r)'
      <4>1. AnswerHolds(v, r)
        BY <2>1, <3>3 DEF AnswersInv, Serving
      <4> QED
        BY <2>1, <4>1, SameRows, SameAnswers DEF AnswerHolds
    <3> QED
      BY <3>1, <3>2, <3>3 DEF AnswersInv
  <2>2. CASE UNCHANGED vars
    BY <2>1, <2>2 DEF vars, gvars
  <2>3. CASE \E grant \in ScopeChange : ChangeScope(grant)
    BY <2>1, <2>3 DEF ChangeScope
  <2>4. ASSUME NEW w \in Worker,
               (\E r \in Request : Admit(w, r)) \/ Lock(w) \/ Serve(w) \/ Crash(w)
        PROVE  AnswersInv'
    BY <2>4, EdgeAnswers, CheckAnswers, InsertsAnswer, ClassifyAnswers, CommitAnswers DEF Serve
  <2> QED
    BY <2>2, <2>3, <2>4 DEF GatewayNext
<1> QED
  BY <1>1, <1>2, TransactionInductive, GatewayChain, PTL DEF GatewaySpec

\* A request takes effect at most once, exactly when its receipt is there, and no
\* second intent takes effect under its key.
THEOREM EffectsAreExactlyOnce == GatewaySpec => []ExactlyOnceEffects
<1>1. AnswersInv /\ KeyBindsOneIntent => ExactlyOnceEffects
  BY DEF AnswersInv, ExactlyOnceEffects
<1> QED
  BY <1>1, AnswersInductive, GatewayInherits, PTL

\* A success was committed, a final refusal stays true for ever, even for a
\* duplicate still in flight, and every lost race is named.
THEOREM AnswersAreAlwaysTrue == GatewaySpec => []AnswersAreTrue
<1>1. TransactionInv /\ AnswersInv => AnswersAreTrue
  <2> SUFFICES ASSUME TransactionInv, AnswersInv PROVE AnswersAreTrue
    OBVIOUS
  <2>1. ASSUME NEW w \in Worker, pc[w] = "answered"
        PROVE  /\ outcome[w] \in Success => effects[request[w]] = 1
               /\ outcome[w] # "INTEGRITY_ERROR"
    <3>1. PICK r \in Request : request[w] = r /\ AnswerHolds(w, r)
      BY <2>1 DEF TransactionInv, AnswersInv, Serving, Idle
    <3> QED
      BY <2>1, <3>1 DEF AnswersInv, AnswerHolds
  <2>2. \A r \in refused : effects[r] = 0
    BY DEF AnswersInv, Blocked, TransactionInv, GatewayTypeOK
  <2> QED
    BY <2>1, <2>2 DEF AnswersAreTrue, TruthfulSuccess, FinalRefusals, RacesAreClassified
<1> QED
  BY <1>1, TransactionInductive, AnswersInductive, PTL

-----------------------------------------------------------------------------
(* Edits.                                                                  *)

\* Bytes change only by a save whose If-Match was exactly the bytes it replaces.
LEMMA SavesMatch ==
    ASSUME TypeOK, NEW r \in Request, Operation(r), NEW d \in Definition, Exists(d),
           definitions'[d].manifest # definitions[d].manifest
    PROVE  \E row \in receipts' \ receipts :
              /\ row.request.op = "SAVE_DRAFT"
              /\ row.request.target = d
              /\ row.request.ifMatch = definitions[d].manifest
              /\ row.request.manifest = definitions'[d].manifest
<1>1. Allowed(r)
  BY OperationWrites
<1>2. CASE r.op \in WriteOp /\ HumanWrite(r, AfterRow(r))
  <2> DEFINE new == [key |-> r.key, request |-> r, after |-> AfterRow(r)]
  <2>1. d = r.target
    BY <1>1, <1>2, HumanWriteFrame
  <2>2. r.op \notin InsertOp
    BY <1>1, <1>2, <2>1, HumanWriteFrame
  <2>3. r.op = "SAVE_DRAFT"
    BY <1>1, <1>2, <2>1, <2>2, HumanWriteFrame
  <2>4. /\ definitions[d] \in DefinitionRow /\ definitions[d].manifest = r.ifMatch
        /\ definitions'[d] = AfterRow(r)
    BY <1>1, <1>2, <2>1, <2>2, HumanWriteFrame
  <2>5. definitions'[d].manifest = r.manifest
    <3>1. AfterRow(r) = [definitions[d] EXCEPT !.manifest = r.manifest]
      BY <2>1, <2>3 DEF AfterRow, PublicationOp
    <3> QED
      BY <2>4, <3>1 DEF DefinitionRow
  <2>6. receipts' = receipts \cup {new} /\ new.request = r /\ new.key = r.key
    BY <1>2 DEF HumanWrite
  <2> HIDE DEF new
  <2>7. \A e \in receipts : e.key # r.key
    BY <1>1, <1>2 DEF Allowed, BoundRequests
  <2>8. new \in receipts' \ receipts
    BY <2>6, <2>7
  <2> QED
    BY <2>1, <2>3, <2>4, <2>5, <2>6, <2>8
<1>3. CASE r.op \in PublicationOp /\ Publish(r, AfterRow(r))
  <2>1. definitions[d] \in DefinitionRow
    BY RowType
  <2>2. \/ definitions'[d] = [definitions[d] EXCEPT !.status = "PUBLISHED", !.current = TRUE]
        \/ definitions'[d] = [definitions[d] EXCEPT !.current = FALSE]
        \/ definitions'[d] = definitions[d]
    BY <1>1, <1>3, PublishFrame DEF Demoted
  <2>3. definitions'[d].manifest = definitions[d].manifest
    BY <2>1, <2>2 DEF DefinitionRow
  <2> QED
    BY <2>3
<1> QED
  BY <1>2, <1>3, OperationWrites

\* No worker, whenever it read, overwrites bytes it had not been shown.
THEOREM EditsAreNotLost == GatewaySpec => NoLostUpdate
<1>1. TransactionInv /\ [GatewayNext]_vars =>
         [\A d \in Definition :
             Exists(d) /\ definitions'[d].manifest # definitions[d].manifest =>
                \E row \in receipts' \ receipts :
                   /\ row.request.op = "SAVE_DRAFT"
                   /\ row.request.target = d
                   /\ row.request.ifMatch = definitions[d].manifest
                   /\ row.request.manifest = definitions'[d].manifest
         ]_vars
  <2> SUFFICES ASSUME TransactionInv, [GatewayNext]_vars,
                      NEW d \in Definition,
                      Exists(d), definitions'[d].manifest # definitions[d].manifest
               PROVE  \E row \in receipts' \ receipts :
                         /\ row.request.op = "SAVE_DRAFT"
                         /\ row.request.target = d
                         /\ row.request.ifMatch = definitions[d].manifest
                         /\ row.request.manifest = definitions'[d].manifest
    OBVIOUS
  <2>1. ~UNCHANGED dbvars
    BY DEF dbvars
  <2>2. PICK r \in Request : Operation(r)
    BY <2>1, GatewayStep DEF LifecycleNext
  <2> QED
    BY <2>2, SavesMatch DEF TransactionInv, GatewayTypeOK
<1> QED
  BY <1>1, TransactionInductive, PTL DEF GatewaySpec, NoLostUpdate
=============================================================================
