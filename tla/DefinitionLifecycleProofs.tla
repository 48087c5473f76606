---------------------- MODULE DefinitionLifecycleProofs ----------------------
(***************************************************************************)
(* Theorems about DefinitionLifecycle, for any projects, definitions,      *)
(* manifests and requests.                                                 *)
(***************************************************************************)
EXTENDS DefinitionLifecycle, TLAPS

-----------------------------------------------------------------------------
(* Types.                                                                  *)

\* What the routes admit, field by field.
LEMMA RequestFields ==
    ASSUME NEW r \in Request
    PROVE  /\ r.op \in WriteOp \cup PublicationOp
           /\ r.project \in Project
           /\ r.target \in Definition
           /\ r.op \in InsertOp => r.code \in Name /\ r.version \in Name
           /\ r.op = "BOOTSTRAP_DRAFT" => r.projectCode \in Name
           /\ r.op \in {"BOOTSTRAP_DRAFT", "CREATE_DRAFT", "SAVE_DRAFT"} => r.manifest \in Manifest
           /\ r.op = "CLONE_DRAFT" => r.source \in Definition
           /\ r.op \notin {"BOOTSTRAP_DRAFT", "CREATE_DRAFT"} => r.ifMatch \in Manifest
           /\ r.op = "INITIAL" => r.workspace \in Workspace
           /\ r.op # "INITIAL" => r.workspace = None
           /\ r.key \in Key
<1>1. r \in RequestType /\ EnvelopeAdmitted(r)
  BY RequestAssumption
<1> QED
  BY <1>1 DEF RequestType, EnvelopeAdmitted, WriteOp, PublicationOp, InsertOp

\* A row that is there has a row's type.
LEMMA RowType ==
    ASSUME TypeOK, NEW d \in Definition, Exists(d)
    PROVE  definitions[d] \in DefinitionRow
  BY DEF TypeOK, Exists

\* The operation of a request with an existing target leaves a proper row.
LEMMA AfterRowType ==
    ASSUME TypeOK, NEW r \in Request, Resolves(r)
    PROVE  AfterRow(r) \in DefinitionRow
<1>1. CASE r.op \in {"BOOTSTRAP_DRAFT", "CREATE_DRAFT"}
  <2>1. AfterRow(r) = DraftRow(r, r.manifest, None)
    BY <1>1 DEF AfterRow, PublicationOp
  <2> QED
    BY <1>1, <2>1, RequestFields DEF DraftRow, DefinitionRow, InsertOp
<1>2. CASE r.op = "CLONE_DRAFT"
  <2>1. AfterRow(r) = DraftRow(r, definitions[r.source].manifest, r.source)
    BY <1>2 DEF AfterRow, PublicationOp
  <2>2. r.source \in Definition /\ definitions[r.source] \in DefinitionRow
    BY <1>2, RowType DEF Resolves, InProject
  <2> QED
    BY <1>2, <2>1, <2>2, RequestFields DEF DraftRow, DefinitionRow, InsertOp
<1>3. CASE r.op \in {"SAVE_DRAFT", "VALIDATE_DEFINITION", "INITIAL", "SUCCESSOR"}
  <2>1. definitions[r.target] \in DefinitionRow
    BY <1>3, RowType, RequestFields DEF Resolves, InProject
  <2>2. AfterRow(r) = CASE r.op = "SAVE_DRAFT" -> [definitions[r.target] EXCEPT !.manifest = r.manifest]
                        [] r.op = "VALIDATE_DEFINITION" ->
                              [definitions[r.target] EXCEPT !.status = "VALIDATED"]
                        [] OTHER ->
                              [definitions[r.target] EXCEPT !.status = "PUBLISHED", !.current = TRUE]
    BY <1>3 DEF AfterRow, PublicationOp
  <2> QED
    BY <1>3, <2>1, <2>2, RequestFields DEF DefinitionRow
<1> QED
  BY <1>1, <1>2, <1>3, RequestFields DEF WriteOp, PublicationOp

\* A committed operation is one of two kinds of write.
LEMMA OperationWrites ==
    ASSUME NEW r \in Request, Operation(r)
    PROVE  /\ Allowed(r)
           /\ \/ r.op \in WriteOp /\ HumanWrite(r, AfterRow(r))
              \/ r.op \in PublicationOp /\ Publish(r, AfterRow(r))
  BY DEF Operation, BootstrapDraft, CreateDraft, CloneDraft, SaveDraft,
         ValidateDefinition, PublishInitial, PublishSuccessor, WriteOp, PublicationOp

\* A HUMAN write keeps the types of all rows.
LEMMA HumanWriteType ==
    ASSUME TypeOK, NEW r \in Request, NEW row \in DefinitionRow, HumanWrite(r, row)
    PROVE  TypeOK'
<1>1. definitions' \in [Definition -> DefinitionRow \cup {None}]
  BY RequestFields DEF TypeOK, HumanWrite
<1>2. projects' \in [Project -> Name \cup {None}]
  BY RequestFields DEF TypeOK, HumanWrite
<1>3. receipts' \subseteq ReceiptRow
  BY RequestFields DEF TypeOK, HumanWrite, ReceiptRow
<1> QED
  BY <1>1, <1>2, <1>3 DEF TypeOK, HumanWrite

\* So does a publication.
LEMMA PublishType ==
    ASSUME TypeOK, NEW r \in Request, r.op \in PublicationOp,
           NEW row \in DefinitionRow, Publish(r, row)
    PROVE  TypeOK'
<1>1. \A d \in Definition : Demoted(r.project, d) \in DefinitionRow \cup {None}
  BY DEF TypeOK, Demoted, Exists, DefinitionRow
<1>2. definitions' \in [Definition -> DefinitionRow \cup {None}]
  BY <1>1 DEF Publish
<1>3. publications' \subseteq PublicationRow
  BY RequestFields, RequestAssumption DEF TypeOK, Publish, PublicationRow
<1>4. workspaces' \in [Workspace -> WorkspaceRow \cup {None}]
  <2>1. CASE r.op = "INITIAL"
    <3>1. [project |-> r.project, definition |-> r.target, manifest |-> row.manifest] \in WorkspaceRow
      BY RequestFields DEF WorkspaceRow, DefinitionRow
    <3> QED
      BY <2>1, <3>1 DEF TypeOK, Publish
  <2>2. CASE r.op # "INITIAL"
    BY <2>2 DEF TypeOK, Publish
  <2> QED
    BY <2>1, <2>2
<1> QED
  BY <1>2, <1>3, <1>4 DEF TypeOK, Publish

\* Every operation keeps the types.
LEMMA RowTypesStep ==
    ASSUME TypeOK, [LifecycleNext]_dbvars
    PROVE  TypeOK'
<1>1. CASE LifecycleNext
  <2>1. PICK r \in Request : Operation(r)
    BY <1>1 DEF LifecycleNext
  <2>2. AfterRow(r) \in DefinitionRow
    BY <2>1, AfterRowType, OperationWrites DEF Allowed
  <2> QED
    BY <2>1, <2>2, OperationWrites, HumanWriteType, PublishType
<1>2. CASE UNCHANGED dbvars
  BY <1>2 DEF dbvars, TypeOK
<1> QED
  BY <1>1, <1>2

\* The rows keep their types: code, version and manifest are always there, the
\* predecessor and the workspace are references or NULL.
THEOREM LifecycleTypes == LifecycleSpec => []TypeOK
<1>1. LifecycleInit => TypeOK
  BY DEF LifecycleInit, TypeOK
<1>2. TypeOK /\ [LifecycleNext]_dbvars => TypeOK'
  BY RowTypesStep
<1> QED
  BY <1>1, <1>2, PTL DEF LifecycleSpec

-----------------------------------------------------------------------------
(* What an accepted operation found, and what it changes.                  *)

\* A HUMAN write touches one row: a new one, or a draft whose bytes the request
\* names.
LEMMA HumanWriteFrame ==
    ASSUME TypeOK, NEW r \in Request, Allowed(r), r.op \in WriteOp,
           HumanWrite(r, AfterRow(r))
    PROVE  /\ \A d \in Definition \ {r.target} : definitions'[d] = definitions[d]
           /\ definitions'[r.target] = AfterRow(r)
           /\ AfterRow(r) \in DefinitionRow
           /\ r.op \in InsertOp =>
                 /\ ~Exists(r.target)
                 /\ AfterRow(r).project = r.project
                 /\ AfterRow(r).status = "DRAFT"
                 /\ AfterRow(r).current = FALSE
           /\ r.op \notin InsertOp =>
                 /\ definitions[r.target] \in DefinitionRow
                 /\ definitions[r.target].project = r.project
                 /\ definitions[r.target].status = "DRAFT"
                 /\ definitions[r.target].manifest = r.ifMatch
                 /\ AfterRow(r).project = definitions[r.target].project
                 /\ AfterRow(r).supersedes = definitions[r.target].supersedes
                 /\ AfterRow(r).current = definitions[r.target].current
                 /\ \/ r.op = "SAVE_DRAFT" /\ AfterRow(r).status = "DRAFT"
                    \/ /\ r.op = "VALIDATE_DEFINITION"
                       /\ AfterRow(r).status = "VALIDATED"
                       /\ AfterRow(r).manifest = definitions[r.target].manifest
                       /\ AfterRow(r).manifest \in ValidManifest
<1>1. AfterRow(r) \in DefinitionRow
  BY AfterRowType DEF Allowed
<1>2. /\ \A d \in Definition \ {r.target} : definitions'[d] = definitions[d]
      /\ definitions'[r.target] = AfterRow(r)
  BY RequestFields DEF HumanWrite, TypeOK
<1>3. ASSUME r.op \in InsertOp
      PROVE  /\ ~Exists(r.target)
             /\ AfterRow(r).project = r.project
             /\ AfterRow(r).status = "DRAFT"
             /\ AfterRow(r).current = FALSE
  <2>1. ~Exists(r.target)
    <3>1. CASE r.op = "BOOTSTRAP_DRAFT"
      <4>1. FirstProjectIdentityConflict(r) = Accepted
        BY <3>1 DEF Allowed, Refusal
      <4> QED
        BY <4>1 DEF FirstProjectIdentityConflict, Accepted
    <3>2. CASE r.op \in {"CREATE_DRAFT", "CLONE_DRAFT"}
      <4>1. DefinitionIdentityConflict(r) = Accepted
        BY <3>2 DEF Allowed, Refusal, CloneRefusal, Accepted
      <4> QED
        BY <4>1 DEF DefinitionIdentityConflict, Accepted
    <3> QED
      BY <1>3, <3>1, <3>2 DEF InsertOp
  <2>2. \E m, s : AfterRow(r) = DraftRow(r, m, s)
    BY <1>3 DEF AfterRow, InsertOp, PublicationOp
  <2> QED
    BY <2>1, <2>2 DEF DraftRow
<1>4. ASSUME r.op \notin InsertOp
      PROVE  /\ definitions[r.target] \in DefinitionRow
             /\ definitions[r.target].project = r.project
             /\ definitions[r.target].status = "DRAFT"
             /\ definitions[r.target].manifest = r.ifMatch
             /\ \/ /\ r.op = "SAVE_DRAFT"
                   /\ AfterRow(r) = [definitions[r.target] EXCEPT !.manifest = r.manifest]
                \/ /\ r.op = "VALIDATE_DEFINITION"
                   /\ AfterRow(r) = [definitions[r.target] EXCEPT !.status = "VALIDATED"]
                   /\ definitions[r.target].manifest \in ValidManifest
  <2>0. r.op \in {"SAVE_DRAFT", "VALIDATE_DEFINITION"}
    BY <1>4 DEF WriteOp, InsertOp
  <2>1. r.target \in InProject(r.project)
    BY <2>0 DEF Allowed, Resolves
  <2>2. definitions[r.target] \in DefinitionRow /\ definitions[r.target].project = r.project
    BY <2>1, RowType DEF InProject
  <2>3. CASE r.op = "SAVE_DRAFT"
    <3>1. SaveRefusal(r) = Accepted
      BY <2>3 DEF Allowed, Refusal
    <3>2. AfterRow(r) = [definitions[r.target] EXCEPT !.manifest = r.manifest]
      BY <2>3 DEF AfterRow, PublicationOp
    <3> QED
      BY <2>2, <2>3, <3>1, <3>2 DEF SaveRefusal, Accepted
  <2>4. CASE r.op = "VALIDATE_DEFINITION"
    <3>1. ValidateRefusal(r) = Accepted
      BY <2>4 DEF Allowed, Refusal
    <3>2. AfterRow(r) = [definitions[r.target] EXCEPT !.status = "VALIDATED"]
      BY <2>4 DEF AfterRow, PublicationOp
    <3> QED
      BY <2>2, <2>4, <3>1, <3>2 DEF ValidateRefusal, Accepted
  <2> QED
    BY <2>0, <2>3, <2>4
<1>5. r.op \notin InsertOp =>
         /\ AfterRow(r).project = definitions[r.target].project
         /\ AfterRow(r).supersedes = definitions[r.target].supersedes
         /\ AfterRow(r).current = definitions[r.target].current
         /\ r.op = "SAVE_DRAFT" => AfterRow(r).status = "DRAFT"
         /\ r.op = "VALIDATE_DEFINITION" =>
               /\ AfterRow(r).status = "VALIDATED"
               /\ AfterRow(r).manifest = definitions[r.target].manifest
  BY <1>4 DEF DefinitionRow
<1> QED
  BY <1>1, <1>2, <1>3, <1>4, <1>5

\* A publication moves one row to PUBLISHED and current, and takes the flag from
\* the others of the project.
LEMMA PublishFrame ==
    ASSUME TypeOK, NEW r \in Request, Allowed(r), r.op \in PublicationOp,
           Publish(r, AfterRow(r))
    PROVE  /\ definitions[r.target] \in DefinitionRow
           /\ definitions[r.target].project = r.project
           /\ definitions[r.target].manifest = r.ifMatch
           /\ ~IsPublished(r.target)
           /\ definitions'[r.target] =
                 [definitions[r.target] EXCEPT !.status = "PUBLISHED", !.current = TRUE]
           /\ \A d \in Definition \ {r.target} : definitions'[d] = Demoted(r.project, d)
           /\ r.op = "INITIAL" =>
                 /\ definitions[r.target].status = "DRAFT"
                 /\ definitions[r.target].manifest \in ValidManifest
                 /\ PublicationsOf(r.project) = {}
                 /\ WorkspacesOf(r.project) = {}
                 /\ workspaces[r.workspace] = None
                 /\ Current(r.project) \ {r.target} = {}
           /\ r.op = "SUCCESSOR" =>
                 /\ definitions[r.target].status = "VALIDATED"
                 /\ PublicationsOf(r.project) # {}
                 /\ \E d \in Current(r.project) \ {r.target} :
                       /\ definitions[d].status = "PUBLISHED"
                       /\ definitions[r.target].supersedes = d
<1>1. r.target \in InProject(r.project)
  BY DEF Allowed, Resolves, PublicationOp
<1>2. definitions[r.target] \in DefinitionRow /\ definitions[r.target].project = r.project
  BY <1>1, RowType DEF InProject
<1>3. AfterRow(r) = [definitions[r.target] EXCEPT !.status = "PUBLISHED", !.current = TRUE]
  BY DEF AfterRow, PublicationOp
<1>4. /\ definitions'[r.target] = AfterRow(r)
      /\ \A d \in Definition \ {r.target} : definitions'[d] = Demoted(r.project, d)
  BY RequestFields DEF Publish
<1>5. CASE r.op = "INITIAL"
  <2>1. InitialRefusal(r) = Accepted
    BY <1>5 DEF Allowed, Refusal
  <2>2. /\ definitions[r.target].manifest = r.ifMatch
        /\ ~IsPublished(r.target)
        /\ PublicationsOf(r.project) = {}
        /\ WorkspacesOf(r.project) = {}
        /\ workspaces[r.workspace] = None
        /\ InitialLifecycleAllows(r)
    BY <2>1 DEF InitialRefusal, Accepted
  <2> QED
    BY <1>2, <1>3, <1>4, <1>5, <2>2 DEF InitialLifecycleAllows
<1>6. CASE r.op = "SUCCESSOR"
  <2>1. SuccessorRefusal(r) = Accepted
    BY <1>6 DEF Allowed, Refusal
  <2>2. /\ definitions[r.target].manifest = r.ifMatch
        /\ ~IsPublished(r.target)
        /\ SuccessorLifecycleAllows(r)
    BY <2>1 DEF SuccessorRefusal, Accepted
  <2> QED
    BY <1>2, <1>3, <1>4, <1>6, <2>2 DEF SuccessorLifecycleAllows
<1> QED
  BY <1>5, <1>6 DEF PublicationOp

-----------------------------------------------------------------------------
(* Keys, frozen bytes and dead ends.                                       *)

\* A key is looked up before it is used.
LEMMA KeysStep ==
    ASSUME KeyBindsOneIntent, [LifecycleNext]_dbvars
    PROVE  KeyBindsOneIntent'
<1>1. CASE LifecycleNext
  <2>1. PICK r \in Request : Operation(r)
    BY <1>1 DEF LifecycleNext
  <2>2. BoundRequests(r) = {}
    BY <2>1, OperationWrites DEF Allowed
  <2>3. CASE r.op \in WriteOp /\ HumanWrite(r, AfterRow(r))
    <3>1. \A e \in receipts : e.key # r.key
      BY <2>2, <2>3 DEF BoundRequests
    <3> QED
      BY <2>3, <3>1 DEF KeyBindsOneIntent, HumanWrite
  <2>4. CASE r.op \in PublicationOp /\ Publish(r, AfterRow(r))
    <3>1. \A e \in publications : e.project = r.project => e.key # r.key
      BY <2>2, <2>4 DEF BoundRequests, PublicationsOf, WriteOp, PublicationOp
    <3> QED
      BY <2>4, <3>1 DEF KeyBindsOneIntent, Publish
  <2> QED
    BY <2>1, <2>3, <2>4, OperationWrites
<1>2. CASE UNCHANGED dbvars
  BY <1>2 DEF dbvars, KeyBindsOneIntent
<1> QED
  BY <1>1, <1>2

\* An operation key binds one intent: it is looked up before every write.
THEOREM KeysBindOneIntent == LifecycleSpec => []KeyBindsOneIntent
<1>1. LifecycleInit => KeyBindsOneIntent
  BY DEF LifecycleInit, KeyBindsOneIntent
<1>2. KeyBindsOneIntent /\ [LifecycleNext]_dbvars => KeyBindsOneIntent'
  BY KeysStep
<1> QED
  BY <1>1, <1>2, PTL DEF LifecycleSpec

\* One committed operation never rewrites bytes that left DRAFT, a receipt or a
\* pin.
LEMMA FrozenStep ==
    ASSUME TypeOK, LifecycleNext
    PROVE  /\ receipts \subseteq receipts'
           /\ publications \subseteq publications'
           /\ \A w \in Workspace : workspaces[w] # None => workspaces'[w] = workspaces[w]
           /\ \A d \in Definition : Exists(d) =>
                 /\ definitions'[d] # None
                 /\ definitions[d].status # "DRAFT" =>
                       \E s \in {definitions[d].status, "PUBLISHED"}, c \in BOOLEAN :
                          definitions'[d] = [definitions[d] EXCEPT !.status = s, !.current = c]
<1>1. PICK r \in Request : Operation(r)
  BY DEF LifecycleNext
<1>2. Allowed(r)
  BY <1>1, OperationWrites
<1>3. CASE r.op \in WriteOp /\ HumanWrite(r, AfterRow(r))
  <2>1. /\ receipts \subseteq receipts'
        /\ publications' = publications
        /\ workspaces' = workspaces
    BY <1>3 DEF HumanWrite
  <2>2. ASSUME NEW d \in Definition, Exists(d)
        PROVE  /\ definitions'[d] # None
               /\ definitions[d].status # "DRAFT" => definitions'[d] = definitions[d]
    <3>1. CASE d = r.target
      BY <1>2, <1>3, <2>2, <3>1, HumanWriteFrame, NoneAssumption
    <3>2. CASE d # r.target
      BY <1>2, <1>3, <2>2, <3>2, HumanWriteFrame DEF Exists
    <3> QED
      BY <3>1, <3>2
  <2>3. ASSUME NEW d \in Definition, Exists(d)
        PROVE  definitions[d] = [definitions[d] EXCEPT !.status = definitions[d].status,
                                                       !.current = definitions[d].current]
    BY <2>3, RowType DEF DefinitionRow
  <2>4. \A d \in Definition : Exists(d) => definitions[d].current \in BOOLEAN
    BY RowType DEF DefinitionRow
  <2> QED
    BY <2>1, <2>2, <2>3, <2>4
<1>4. CASE r.op \in PublicationOp /\ Publish(r, AfterRow(r))
  <2>1. /\ receipts' = receipts
        /\ publications \subseteq publications'
    BY <1>4 DEF Publish
  <2>2. \A w \in Workspace : workspaces[w] # None => workspaces'[w] = workspaces[w]
    <3>1. CASE r.op = "INITIAL"
      BY <1>2, <1>4, <3>1, PublishFrame, RequestFields DEF Publish, TypeOK
    <3>2. CASE r.op # "INITIAL"
      BY <1>4, <3>2 DEF Publish
    <3> QED
      BY <3>1, <3>2
  <2>3. ASSUME NEW d \in Definition, Exists(d)
        PROVE  /\ definitions'[d] # None
               /\ \E s \in {definitions[d].status, "PUBLISHED"}, c \in BOOLEAN :
                     definitions'[d] = [definitions[d] EXCEPT !.status = s, !.current = c]
    <3>0. definitions[d] \in DefinitionRow
      BY <2>3, RowType
    <3>1. CASE d = r.target
      <4>1. definitions'[d] = [definitions[d] EXCEPT !.status = "PUBLISHED", !.current = TRUE]
        BY <1>2, <1>4, <3>1, PublishFrame
      <4>2. definitions'[d] \in DefinitionRow
        BY <3>0, <4>1 DEF DefinitionRow
      <4> QED
        BY <4>1, <4>2, NoneAssumption
    <3>2. CASE d # r.target
      <4>1. definitions'[d] = Demoted(r.project, d)
        BY <1>2, <1>4, <3>2, PublishFrame
      <4>2. \E c \in BOOLEAN :
               definitions'[d] = [definitions[d] EXCEPT !.status = definitions[d].status,
                                                        !.current = c]
        BY <3>0, <4>1 DEF Demoted, DefinitionRow
      <4>3. definitions'[d] \in DefinitionRow
        BY <3>0, <4>2 DEF DefinitionRow
      <4> QED
        BY <4>2, <4>3, NoneAssumption
    <3> QED
      BY <3>1, <3>2
  <2> QED
    BY <2>1, <2>2, <2>3
<1> QED
  BY <1>1, <1>3, <1>4, OperationWrites

\* Bytes that left DRAFT are frozen; receipts, publications and pins only grow.
THEOREM HistoryIsFrozen == LifecycleSpec => FrozenHistory
<1>1. TypeOK /\ [LifecycleNext]_dbvars =>
         [/\ receipts \subseteq receipts'
          /\ publications \subseteq publications'
          /\ \A w \in Workspace : workspaces[w] # None => workspaces'[w] = workspaces[w]
          /\ \A d \in Definition : Exists(d) =>
                /\ definitions'[d] # None
                /\ definitions[d].status # "DRAFT" =>
                      \E s \in {definitions[d].status, "PUBLISHED"}, c \in BOOLEAN :
                         definitions'[d] = [definitions[d] EXCEPT !.status = s, !.current = c]
         ]_dbvars
  BY FrozenStep
<1> QED
  BY <1>1, LifecycleTypes, PTL DEF LifecycleSpec, FrozenHistory

\* A VALIDATED definition without a predecessor can never be published.
THEOREM DeadEndsStay == LifecycleSpec => DeadEndStays
<1>1. TypeOK /\ [LifecycleNext]_dbvars =>
         [\A d \in Definition : DeadEnd(d) => DeadEnd(d)']_dbvars
  <2> SUFFICES ASSUME TypeOK, LifecycleNext, NEW d \in Definition, DeadEnd(d)
               PROVE  DeadEnd(d)'
    OBVIOUS
  <2>1. PICK r \in Request : Operation(r)
    BY DEF LifecycleNext
  <2>2. Allowed(r)
    BY <2>1, OperationWrites
  <2>3. definitions[d] \in DefinitionRow
    BY RowType DEF DeadEnd
  <2>4. CASE r.op \in WriteOp /\ HumanWrite(r, AfterRow(r))
    <3>1. d # r.target
      BY <2>2, <2>4, HumanWriteFrame DEF DeadEnd
    <3> QED
      BY <2>2, <2>4, <3>1, HumanWriteFrame DEF DeadEnd, Exists
  <2>5. CASE r.op \in PublicationOp /\ Publish(r, AfterRow(r))
    <3>1. d # r.target
      <4>1. \A x \in Current(r.project) : x # None
        BY NoneAssumption DEF Current, InProject
      <4>2. definitions[d].status = "VALIDATED" /\ definitions[d].supersedes = None
        BY DEF DeadEnd
      <4>3. CASE r.op = "INITIAL"
        BY <2>2, <2>5, <4>2, <4>3, PublishFrame
      <4>4. CASE r.op = "SUCCESSOR"
        BY <2>2, <2>5, <4>1, <4>2, <4>4, PublishFrame
      <4> QED
        BY <2>5, <4>3, <4>4 DEF PublicationOp
    <3>2. definitions'[d] = Demoted(r.project, d)
      BY <2>2, <2>5, <3>1, PublishFrame
    <3>3. /\ definitions'[d] \in DefinitionRow
          /\ definitions'[d].status = definitions[d].status
          /\ definitions'[d].supersedes = definitions[d].supersedes
      BY <2>3, <3>2 DEF Demoted, DefinitionRow
    <3> QED
      BY <3>3, NoneAssumption DEF DeadEnd, Exists
  <2> QED
    BY <2>1, <2>4, <2>5, OperationWrites
<1> QED
  BY <1>1, LifecycleTypes, PTL DEF LifecycleSpec, DeadEndStays

-----------------------------------------------------------------------------
(* The chain of publications.                                              *)

\* A publication names a definition of its own project: what PublishedChain needs
\* to be inductive.
Grounded == \A row \in publications : row.definition \in InProject(row.project)
ChainInv == TypeOK /\ Grounded /\ PublishedChain

\* What PublishedChain says of one project, by conjunct.
Agrees(p) ==
    \A d \in InProject(p) :
       /\ definitions[d].status = "PUBLISHED" <=> IsPublished(d)
       /\ definitions[d].current => definitions[d].status = "PUBLISHED"
OneReceipt(p) ==
    \A x, y \in PublicationsOf(p) :
       /\ x.definition = y.definition => x = y
       /\ x.workspace # None /\ y.workspace # None => x = y
Supersedes(p) ==
    \A x \in PublicationsOf(p) : x.workspace = None =>
       LET s == definitions[x.definition].supersedes IN
       s \in InProject(p) /\ definitions[s].status = "PUBLISHED" /\ ~definitions[s].current
NoRivals(p) ==
    \A x, y \in PublicationsOf(p) :
       /\ x.workspace = None /\ y.workspace = None
       /\ definitions[x.definition].supersedes = definitions[y.definition].supersedes
       => x = y
OneHead(p) ==
    PublicationsOf(p) # {} =>
       /\ InitialReceipts(p) # {}
       /\ \E d \in InProject(p) : Current(p) = {d}

\* The chain invariant, project by project.
LEMMA ChainParts ==
    PublishedChain <=> \A p \in Project :
        Agrees(p) /\ OneReceipt(p) /\ Supersedes(p) /\ NoRivals(p) /\ OneHead(p)
  BY DEF PublishedChain, Agrees, OneReceipt, Supersedes, NoRivals, OneHead

\* Where a project has no publication, no definition is current.
LEMMA NoHeadBefore ==
    ASSUME ChainInv, NEW p \in Project, PublicationsOf(p) = {}
    PROVE  Current(p) = {}
<1> SUFFICES ASSUME NEW d \in Current(p) PROVE FALSE
  OBVIOUS
<1>1. d \in InProject(p) /\ IsPublished(d)
  BY ChainParts DEF ChainInv, Current, Agrees
<1>2. PICK row \in publications : row.definition = d
  BY <1>1 DEF IsPublished
<1>3. row.project = p
  BY <1>1, <1>2 DEF ChainInv, Grounded, InProject
<1> QED
  BY <1>3 DEF PublicationsOf

\* A HUMAN write touches no published row and no flag.
LEMMA HumanWriteRows ==
    ASSUME ChainInv, NEW r \in Request, Allowed(r), r.op \in WriteOp,
           HumanWrite(r, AfterRow(r))
    PROVE  /\ publications' = publications
           /\ \A d \in Definition : Exists(d) /\ definitions[d].status # "DRAFT" => d # r.target
           /\ \A row \in publications :
                 /\ row.definition # r.target
                 /\ row.definition \in Definition
                 /\ row.project \in Project
                 /\ Exists(row.definition)
                 /\ definitions[row.definition].project = row.project
           /\ definitions'[r.target].status \in {"DRAFT", "VALIDATED"}
           /\ definitions'[r.target].current = FALSE
           /\ \A d \in Definition \ {r.target} : definitions'[d] = definitions[d]
           /\ \A p \in Project :
                 /\ InProject(p) \subseteq InProject(p)'
                 /\ InProject(p)' \subseteq InProject(p) \cup {r.target}
                 /\ Current(p)' = Current(p)
                 /\ PublicationsOf(p)' = PublicationsOf(p)
                 /\ InitialReceipts(p)' = InitialReceipts(p)
<1>1. TypeOK
  BY DEF ChainInv
<1>2. publications' = publications
  BY DEF HumanWrite
<1>3. r.target \in Definition /\ r.project \in Project
  BY RequestFields
<1>4. ASSUME NEW d \in Definition, Exists(d), definitions[d].status # "DRAFT"
      PROVE  d # r.target
  BY <1>1, <1>4, HumanWriteFrame
<1>5. ASSUME NEW row \in publications
      PROVE  /\ row.definition # r.target
             /\ row.definition \in Definition
             /\ row.project \in Project
             /\ Exists(row.definition)
             /\ definitions[row.definition].project = row.project
  <2>1. row.definition \in InProject(row.project) /\ row.project \in Project
    BY <1>1, <1>5 DEF ChainInv, Grounded, TypeOK, PublicationRow
  <2>2. definitions[row.definition].status = "PUBLISHED"
    BY <1>5, <2>1, ChainParts DEF ChainInv, Agrees, IsPublished
  <2> QED
    BY <1>4, <2>1, <2>2 DEF InProject
<1>6. /\ definitions'[r.target] \in DefinitionRow
      /\ definitions'[r.target].status \in {"DRAFT", "VALIDATED"}
      /\ definitions'[r.target].current = FALSE
  <2>1. CASE r.op \in InsertOp
    BY <1>1, <2>1, HumanWriteFrame
  <2>2. CASE r.op \notin InsertOp
    <3>1. /\ definitions[r.target] \in DefinitionRow
          /\ definitions[r.target].status = "DRAFT"
          /\ definitions[r.target].project = r.project
          /\ definitions'[r.target].current = definitions[r.target].current
          /\ definitions'[r.target].status \in {"DRAFT", "VALIDATED"}
          /\ definitions'[r.target] \in DefinitionRow
      BY <1>1, <2>2, HumanWriteFrame
    <3>2. r.target \in InProject(r.project)
      BY <1>3, <3>1, NoneAssumption DEF InProject, Exists
    <3>3. definitions[r.target].current = FALSE
      BY <1>3, <3>1, <3>2, ChainParts DEF ChainInv, Agrees, DefinitionRow
    <3> QED
      BY <3>1, <3>3
  <2> QED
    BY <2>1, <2>2
<1>7. \A d \in Definition \ {r.target} : definitions'[d] = definitions[d]
  BY <1>1, HumanWriteFrame
<1>8. ASSUME NEW p \in Project
      PROVE  /\ InProject(p) \subseteq InProject(p)'
             /\ InProject(p)' \subseteq InProject(p) \cup {r.target}
             /\ Current(p)' = Current(p)
             /\ PublicationsOf(p)' = PublicationsOf(p)
             /\ InitialReceipts(p)' = InitialReceipts(p)
  <2>1. InProject(p)' \subseteq InProject(p) \cup {r.target}
    BY <1>7 DEF InProject, Exists
  <2>2. InProject(p) \subseteq InProject(p)'
    <3> SUFFICES ASSUME NEW d \in InProject(p) PROVE d \in InProject(p)'
      OBVIOUS
    <3>1. CASE d # r.target
      BY <1>7, <3>1 DEF InProject, Exists
    <3>2. CASE d = r.target
      <4>1. r.op \notin InsertOp
        BY <1>1, <3>2, HumanWriteFrame DEF InProject
      <4>2. /\ definitions'[r.target] = AfterRow(r)
            /\ AfterRow(r).project = definitions[r.target].project
        BY <1>1, <4>1, HumanWriteFrame
      <4> QED
        BY <1>6, <3>2, <4>2, NoneAssumption DEF InProject, Exists
    <3> QED
      BY <3>1, <3>2
  <2>3. Current(p)' = Current(p)
    <3>1. r.target \notin Current(p)'
      BY <1>6 DEF Current
    <3>2. r.target \notin Current(p)
      <4> SUFFICES ASSUME r.target \in Current(p) PROVE FALSE
        OBVIOUS
      <4>1. Exists(r.target) /\ definitions[r.target].status = "PUBLISHED"
        BY ChainParts DEF Current, InProject, ChainInv, Agrees
      <4> QED
        BY <1>3, <1>4, <4>1
    <3> QED
      BY <1>7, <2>1, <2>2, <3>1, <3>2 DEF Current, InProject
  <2> QED
    BY <1>2, <2>1, <2>2, <2>3 DEF PublicationsOf, InitialReceipts
<1> QED
  BY <1>2, <1>4, <1>5, <1>6, <1>7, <1>8

\* A HUMAN write leaves the published chain of every project as it was.
LEMMA HumanWriteKeepsChain ==
    ASSUME ChainInv, NEW r \in Request, Allowed(r), r.op \in WriteOp,
           HumanWrite(r, AfterRow(r))
    PROVE  Grounded' /\ PublishedChain'
<1>2. publications' = publications
  BY HumanWriteRows
<1>4. \A d \in Definition : Exists(d) /\ definitions[d].status # "DRAFT" => d # r.target
  BY HumanWriteRows
<1>5. \A row \in publications :
         /\ row.definition # r.target
         /\ row.definition \in Definition
         /\ row.project \in Project
         /\ Exists(row.definition)
         /\ definitions[row.definition].project = row.project
  BY HumanWriteRows
<1>6. /\ definitions'[r.target].status \in {"DRAFT", "VALIDATED"}
      /\ definitions'[r.target].current = FALSE
  BY HumanWriteRows
<1>7. \A d \in Definition \ {r.target} : definitions'[d] = definitions[d]
  BY HumanWriteRows
<1>8. \A p \in Project :
         /\ InProject(p) \subseteq InProject(p)'
         /\ InProject(p)' \subseteq InProject(p) \cup {r.target}
         /\ Current(p)' = Current(p)
         /\ PublicationsOf(p)' = PublicationsOf(p)
         /\ InitialReceipts(p)' = InitialReceipts(p)
  BY HumanWriteRows
<1>9. Grounded'
  BY <1>2, <1>5, <1>8 DEF Grounded, InProject, Exists, ChainInv
<1>10. ASSUME NEW p \in Project
       PROVE  (Agrees(p) /\ OneReceipt(p) /\ Supersedes(p) /\ NoRivals(p) /\ OneHead(p))'
  <2>0. Agrees(p) /\ OneReceipt(p) /\ Supersedes(p) /\ NoRivals(p) /\ OneHead(p)
    BY ChainParts DEF ChainInv
  <2>1. Agrees(p)'
    <3> SUFFICES ASSUME NEW d \in InProject(p)'
                 PROVE  /\ definitions'[d].status = "PUBLISHED" <=> IsPublished(d)'
                        /\ definitions'[d].current => definitions'[d].status = "PUBLISHED"
      BY DEF Agrees
    <3>1. CASE d = r.target
      BY <1>2, <1>5, <1>6, <3>1 DEF IsPublished
    <3>2. CASE d # r.target
      <4>1. d \in InProject(p) /\ definitions'[d] = definitions[d]
        BY <1>7, <1>8, <3>2 DEF InProject
      <4> QED
        BY <1>2, <2>0, <4>1 DEF Agrees, IsPublished
    <3> QED
      BY <3>1, <3>2
  <2>2. OneReceipt(p)'
    BY <1>8, <2>0 DEF OneReceipt
  <2>3. \A x \in PublicationsOf(p) : definitions'[x.definition] = definitions[x.definition]
    BY <1>5, <1>7 DEF PublicationsOf
  <2>4. Supersedes(p)'
    <3> SUFFICES ASSUME NEW x \in PublicationsOf(p), x.workspace = None,
                        NEW s, s = definitions[x.definition].supersedes
                 PROVE  /\ s \in InProject(p)'
                        /\ definitions'[s].status = "PUBLISHED"
                        /\ ~definitions'[s].current
      BY <1>8, <2>3 DEF Supersedes
    <3>1. s \in InProject(p) /\ definitions[s].status = "PUBLISHED" /\ ~definitions[s].current
      BY <2>0 DEF Supersedes
    <3>2. definitions'[s] = definitions[s]
      BY <1>4, <1>7, <3>1 DEF InProject
    <3> QED
      BY <1>8, <3>1, <3>2
  <2>5. NoRivals(p)'
    BY <1>8, <2>0, <2>3 DEF NoRivals
  <2>6. OneHead(p)'
    BY <1>8, <2>0 DEF OneHead
  <2> QED
    BY <2>1, <2>2, <2>4, <2>5, <2>6
<1>11. PublishedChain'
  BY <1>10 DEF PublishedChain, Agrees, OneReceipt, Supersedes, NoRivals, OneHead
<1> QED
  BY <1>9, <1>11

\* Of every other row a publication changes only the flag, and only in its
\* project.
OnlyFlagsChange(r) ==
    \A d \in Definition \ {r.target} :
       /\ Exists(d)' <=> Exists(d)
       /\ Exists(d) =>
             /\ definitions'[d].project = definitions[d].project
             /\ definitions'[d].status = definitions[d].status
             /\ definitions'[d].supersedes = definitions[d].supersedes
             /\ definitions'[d].manifest = definitions[d].manifest
             /\ definitions'[d].current =
                   IF definitions[d].project = r.project THEN FALSE ELSE definitions[d].current
OtherProjectsKeep(r) ==
    \A p \in Project \ {r.project} :
       /\ PublicationsOf(p)' = PublicationsOf(p)
       /\ InitialReceipts(p)' = InitialReceipts(p)
       /\ Current(p)' = Current(p)
       /\ \A d \in InProject(p) : d # r.target /\ definitions'[d].status = definitions[d].status
                                               /\ definitions'[d].current = definitions[d].current

\* A publication appends one receipt to its project and moves the head there.
LEMMA PublishRows ==
    ASSUME ChainInv, NEW r \in Request, Allowed(r), r.op \in PublicationOp,
           Publish(r, AfterRow(r))
    PROVE  LET t == r.target
               q == r.project
               new == [project |-> q, definition |-> t, key |-> r.key,
                       request |-> r, workspace |-> r.workspace]
           IN
           /\ publications' = publications \cup {new}
           /\ /\ definitions[t] \in DefinitionRow
              /\ definitions[t].project = q
              /\ definitions[t].status # "PUBLISHED"
              /\ ~IsPublished(t)
              /\ t \in InProject(q)
           /\ /\ definitions'[t].project = q
              /\ definitions'[t].status = "PUBLISHED"
              /\ definitions'[t].current = TRUE
              /\ definitions'[t].supersedes = definitions[t].supersedes
              /\ definitions'[t].manifest = definitions[t].manifest
           /\ OnlyFlagsChange(r)
           /\ \A p \in Project : InProject(p)' = InProject(p)
           /\ \A row \in publications :
                 /\ row.definition \in Definition /\ row.definition # t
                 /\ row.project \in Project
                 /\ row.definition \in InProject(row.project)
                 /\ definitions[row.definition].status = "PUBLISHED"
                 /\ definitions'[row.definition].supersedes = definitions[row.definition].supersedes
           /\ \A d \in Definition : IsPublished(d)' <=> (IsPublished(d) \/ d = t)
           /\ OtherProjectsKeep(r)
           /\ PublicationsOf(q)' = PublicationsOf(q) \cup {new}
           /\ Current(q)' = {t}
<1> DEFINE t == r.target
           q == r.project
           new == [project |-> q, definition |-> t, key |-> r.key,
                   request |-> r, workspace |-> r.workspace]
<1>1. TypeOK
  BY DEF ChainInv
<1>2. publications' = publications \cup {new}
  BY DEF Publish
<1>3. t \in Definition /\ q \in Project
  BY RequestFields
<1>4. /\ definitions[t] \in DefinitionRow
      /\ definitions[t].project = q
      /\ ~IsPublished(t)
      /\ definitions'[t] = [definitions[t] EXCEPT !.status = "PUBLISHED", !.current = TRUE]
      /\ \A d \in Definition \ {t} : definitions'[d] = Demoted(q, d)
  BY <1>1, PublishFrame
<1>5. /\ definitions'[t] \in DefinitionRow
      /\ definitions'[t].project = q
      /\ definitions'[t].status = "PUBLISHED"
      /\ definitions'[t].current = TRUE
      /\ definitions'[t].supersedes = definitions[t].supersedes
      /\ definitions'[t].manifest = definitions[t].manifest
  BY <1>4 DEF DefinitionRow
<1>6. t \in InProject(q) /\ definitions[t].status # "PUBLISHED"
  <2>1. t \in InProject(q)
    BY <1>3, <1>4, NoneAssumption DEF InProject, Exists
  <2> QED
    BY <1>3, <1>4, <2>1, ChainParts DEF ChainInv, Agrees
<1>7. ASSUME NEW d \in Definition, d # t
      PROVE  /\ Exists(d)' <=> Exists(d)
             /\ Exists(d) =>
                   /\ definitions'[d].project = definitions[d].project
                   /\ definitions'[d].status = definitions[d].status
                   /\ definitions'[d].supersedes = definitions[d].supersedes
                   /\ definitions'[d].manifest = definitions[d].manifest
                   /\ definitions'[d].current =
                         IF definitions[d].project = q THEN FALSE ELSE definitions[d].current
  <2>1. definitions'[d] = Demoted(q, d)
    BY <1>4, <1>7
  <2>2. CASE Exists(d)
    <3>1. definitions[d] \in DefinitionRow
      BY <1>1, <2>2, RowType
    <3>2. CASE definitions[d].project = q
      <4>1. definitions'[d] = [definitions[d] EXCEPT !.current = FALSE]
        BY <2>1, <2>2, <3>2 DEF Demoted
      <4>2. definitions'[d] \in DefinitionRow
        BY <3>1, <4>1 DEF DefinitionRow
      <4> QED
        BY <2>2, <3>1, <3>2, <4>1, <4>2, NoneAssumption DEF DefinitionRow, Exists
    <3>3. CASE definitions[d].project # q
      BY <2>1, <2>2, <3>3 DEF Demoted, Exists
    <3> QED
      BY <3>2, <3>3
  <2>3. CASE ~Exists(d)
    BY <2>1, <2>3 DEF Demoted, Exists
  <2> QED
    BY <2>2, <2>3
<1>8. \A p \in Project : InProject(p)' = InProject(p)
  <2> SUFFICES ASSUME NEW p \in Project, NEW d \in Definition
               PROVE  d \in InProject(p)' <=> d \in InProject(p)
    BY DEF InProject
  <2>1. CASE d = t
    BY <1>4, <1>5, <1>6, <2>1, NoneAssumption DEF InProject, Exists
  <2>2. CASE d # t
    BY <1>7, <2>2 DEF InProject
  <2> QED
    BY <2>1, <2>2
<1>9. ASSUME NEW row \in publications
      PROVE  /\ row.definition \in Definition /\ row.definition # t
             /\ row.project \in Project
             /\ row.definition \in InProject(row.project)
             /\ definitions[row.definition].status = "PUBLISHED"
             /\ definitions'[row.definition].supersedes = definitions[row.definition].supersedes
  <2>1. row.definition \in InProject(row.project) /\ row.project \in Project
    BY <1>1, <1>9 DEF ChainInv, Grounded, TypeOK, PublicationRow
  <2>2. row.definition # t
    BY <1>4, <1>9 DEF IsPublished
  <2>3. definitions[row.definition].status = "PUBLISHED"
    BY <1>9, <2>1, ChainParts DEF ChainInv, Agrees, IsPublished
  <2> QED
    BY <1>7, <2>1, <2>2, <2>3 DEF InProject
<1>11. \A d \in Definition : IsPublished(d)' <=> (IsPublished(d) \/ d = t)
  <2>1. new.definition = t
    OBVIOUS
  <2> QED
    BY <1>2, <2>1 DEF IsPublished
<1>12. ASSUME NEW p \in Project, p # q
       PROVE  /\ PublicationsOf(p)' = PublicationsOf(p)
              /\ InitialReceipts(p)' = InitialReceipts(p)
              /\ Current(p)' = Current(p)
              /\ \A d \in InProject(p) : d # t /\ definitions'[d].status = definitions[d].status
                                               /\ definitions'[d].current = definitions[d].current
  <2>1. PublicationsOf(p)' = PublicationsOf(p)
    BY <1>2, <1>12 DEF PublicationsOf
  <2>2. InitialReceipts(p)' = InitialReceipts(p)
    BY <2>1 DEF InitialReceipts
  <2>3. \A d \in InProject(p) : d # t /\ d \in Definition /\ Exists(d) /\ definitions[d].project # q
    BY <1>4, <1>12 DEF InProject
  <2>4. \A d \in InProject(p) : /\ definitions'[d].status = definitions[d].status
                               /\ definitions'[d].current = definitions[d].current
    BY <1>7, <2>3
  <2>5. Current(p)' = Current(p)
    BY <1>8, <2>4 DEF Current
  <2> QED
    BY <2>1, <2>2, <2>3, <2>4, <2>5
<1>14. PublicationsOf(q)' = PublicationsOf(q) \cup {new}
  BY <1>2 DEF PublicationsOf
<1>15. Current(q)' = {t}
  <2>1. \A d \in InProject(q) : d # t => definitions'[d].current = FALSE
    BY <1>7 DEF InProject
  <2> QED
    BY <1>3, <1>5, <1>6, <1>8, <2>1 DEF Current
<1>16. OnlyFlagsChange(r) /\ OtherProjectsKeep(r)
  BY <1>7, <1>12 DEF OnlyFlagsChange, OtherProjectsKeep
<1> QED
  BY <1>2, <1>4, <1>5, <1>6, <1>8, <1>9, <1>11, <1>14, <1>15, <1>16

\* A publication lengthens the chain of its project by one and touches no other.
LEMMA PublishKeepsChain ==
    ASSUME ChainInv, NEW r \in Request, Allowed(r), r.op \in PublicationOp,
           Publish(r, AfterRow(r))
    PROVE  Grounded' /\ PublishedChain'
<1> DEFINE t == r.target
           q == r.project
           new == [project |-> q, definition |-> t, key |-> r.key,
                   request |-> r, workspace |-> r.workspace]
<1>1. TypeOK
  BY DEF ChainInv
<1>3. t \in Definition /\ q \in Project
  BY RequestFields
<1>2. publications' = publications \cup {new}
  BY PublishRows
<1>4. /\ definitions[t] \in DefinitionRow
      /\ definitions[t].project = q
      /\ definitions[t].status # "PUBLISHED"
      /\ ~IsPublished(t)
      /\ t \in InProject(q)
  BY PublishRows
<1>5. /\ definitions'[t].project = q
      /\ definitions'[t].status = "PUBLISHED"
      /\ definitions'[t].current = TRUE
      /\ definitions'[t].supersedes = definitions[t].supersedes
      /\ definitions'[t].manifest = definitions[t].manifest
  BY PublishRows
<1>7. \A d \in Definition \ {t} :
         /\ Exists(d)' <=> Exists(d)
         /\ Exists(d) =>
               /\ definitions'[d].project = definitions[d].project
               /\ definitions'[d].status = definitions[d].status
               /\ definitions'[d].supersedes = definitions[d].supersedes
               /\ definitions'[d].manifest = definitions[d].manifest
               /\ definitions'[d].current =
                     IF definitions[d].project = q THEN FALSE ELSE definitions[d].current
  BY PublishRows DEF OnlyFlagsChange
<1>8. \A p \in Project : InProject(p)' = InProject(p)
  BY PublishRows
<1>9. \A row \in publications :
         /\ row.definition \in Definition /\ row.definition # t
         /\ row.project \in Project
         /\ row.definition \in InProject(row.project)
         /\ definitions[row.definition].status = "PUBLISHED"
         /\ definitions'[row.definition].supersedes = definitions[row.definition].supersedes
  BY PublishRows
<1>11. \A d \in Definition : IsPublished(d)' <=> (IsPublished(d) \/ d = t)
  BY PublishRows
<1>12. \A p \in Project \ {q} :
          /\ PublicationsOf(p)' = PublicationsOf(p)
          /\ InitialReceipts(p)' = InitialReceipts(p)
          /\ Current(p)' = Current(p)
          /\ \A d \in InProject(p) : d # t /\ definitions'[d].status = definitions[d].status
                                           /\ definitions'[d].current = definitions[d].current
  BY PublishRows DEF OtherProjectsKeep
<1>14. PublicationsOf(q)' = PublicationsOf(q) \cup {new}
  BY PublishRows
<1>15. Current(q)' = {t}
  BY PublishRows
<1>6. t \in InProject(q) /\ definitions[t].status # "PUBLISHED"
  BY <1>4
<1>10. Grounded'
  <2> SUFFICES ASSUME NEW row \in publications' PROVE row.definition \in InProject(row.project)'
    BY DEF Grounded
  <2>1. CASE row \in publications
    BY <1>8, <1>9, <2>1
  <2>2. CASE row = new
    BY <1>3, <1>6, <1>8, <2>2
  <2> QED
    BY <1>2, <2>1, <2>2
<1>13. ASSUME NEW p \in Project, p # q
       PROVE  (Agrees(p) /\ OneReceipt(p) /\ Supersedes(p) /\ NoRivals(p) /\ OneHead(p))'
  <2>0. Agrees(p) /\ OneReceipt(p) /\ Supersedes(p) /\ NoRivals(p) /\ OneHead(p)
    BY ChainParts DEF ChainInv
  <2>1. Agrees(p)'
    <3>1. \A d \in InProject(p) : d \in Definition
      BY DEF InProject
    <3> QED
      BY <1>8, <1>11, <1>12, <1>13, <2>0, <3>1 DEF Agrees
  <2>2. OneReceipt(p)'
    BY <1>12, <1>13, <2>0 DEF OneReceipt
  <2>3. \A x \in PublicationsOf(p) :
           definitions'[x.definition].supersedes = definitions[x.definition].supersedes
    BY <1>9 DEF PublicationsOf
  <2>4. Supersedes(p)'
    BY <1>8, <1>12, <1>13, <2>0, <2>3 DEF Supersedes
  <2>5. NoRivals(p)'
    BY <1>12, <1>13, <2>0, <2>3 DEF NoRivals
  <2>6. OneHead(p)'
    BY <1>8, <1>12, <1>13, <2>0 DEF OneHead
  <2> QED
    BY <2>1, <2>2, <2>4, <2>5, <2>6
\* The project itself.
<1>16. \A d \in InProject(q) : d # t => definitions'[d].status = definitions[d].status
  BY <1>7 DEF InProject
<1>17. (Agrees(q) /\ OneReceipt(q) /\ Supersedes(q) /\ NoRivals(q) /\ OneHead(q))'
  <2>0. Agrees(q) /\ OneReceipt(q) /\ Supersedes(q) /\ NoRivals(q) /\ OneHead(q)
    BY <1>3, ChainParts DEF ChainInv
  <2>1. Agrees(q)'
    <3> SUFFICES ASSUME NEW d \in InProject(q)
                 PROVE  /\ definitions'[d].status = "PUBLISHED" <=> IsPublished(d)'
                        /\ definitions'[d].current => definitions'[d].status = "PUBLISHED"
      BY <1>3, <1>8 DEF Agrees
    <3>1. CASE d = t
      BY <1>3, <1>5, <1>11, <3>1
    <3>2. CASE d # t
      <4>1. /\ d \in Definition
            /\ definitions'[d].status = definitions[d].status
            /\ definitions'[d].current = FALSE
        BY <1>7, <3>2 DEF InProject
      <4> QED
        BY <1>11, <2>0, <3>2, <4>1 DEF Agrees
    <3> QED
      BY <3>1, <3>2
  <2>2. \A x \in PublicationsOf(q) : x \in publications /\ x.definition # t
    BY <1>9 DEF PublicationsOf
  <2>3. CASE r.op = "INITIAL"
    <3>1. PublicationsOf(q)' = {new}
      BY <1>1, <1>14, <2>3, PublishFrame
    <3>2. new.workspace # None
      BY <2>3, RequestFields, NoneAssumption
    <3>3. new \in InitialReceipts(q)'
      BY <3>1, <3>2 DEF InitialReceipts
    <3>4. OneReceipt(q)' /\ Supersedes(q)' /\ NoRivals(q)'
      BY <3>1, <3>2 DEF OneReceipt, Supersedes, NoRivals
    <3>5. OneHead(q)'
      BY <1>3, <1>6, <1>8, <1>15, <3>3 DEF OneHead
    <3> QED
      BY <2>1, <3>4, <3>5
  <2>4. CASE r.op = "SUCCESSOR"
    <3>1. PublicationsOf(q) # {}
      BY <1>1, <2>4, PublishFrame
    <3>2. PICK d \in Current(q) \ {t} :
             definitions[d].status = "PUBLISHED" /\ definitions[t].supersedes = d
      BY <1>1, <2>4, PublishFrame
    <3>3. new.workspace = None
      BY <2>4, RequestFields
    <3>4. d \in InProject(q) /\ definitions[d].current
      BY <3>2 DEF Current
    <3>5. \A x \in PublicationsOf(q) : x.workspace = None => definitions[x.definition].supersedes # d
      BY <2>0, <3>4 DEF Supersedes
    <3>6. OneReceipt(q)'
      BY <1>14, <2>0, <2>2, <3>3 DEF OneReceipt
    <3>7. Supersedes(q)'
      <4> SUFFICES ASSUME NEW x \in PublicationsOf(q)', x.workspace = None,
                          NEW s, s = definitions'[x.definition].supersedes
                   PROVE  /\ s \in InProject(q)
                          /\ definitions'[s].status = "PUBLISHED"
                          /\ ~definitions'[s].current
        BY <1>3, <1>8 DEF Supersedes
      <4>1. CASE x = new
        BY <1>5, <1>7, <1>16, <3>2, <3>4, <4>1 DEF InProject
      <4>2. CASE x \in PublicationsOf(q)
        <5>1. s \in InProject(q) /\ definitions[s].status = "PUBLISHED"
          BY <1>9, <2>0, <2>2, <4>2 DEF Supersedes
        <5>2. s # t /\ s \in Definition
          BY <1>6, <5>1 DEF InProject
        <5> QED
          BY <1>7, <5>1, <5>2 DEF InProject
      <4> QED
        BY <1>14, <4>1, <4>2
    <3>8. NoRivals(q)'
      <4>1. \A x \in PublicationsOf(q) :
               definitions'[x.definition].supersedes = definitions[x.definition].supersedes
        BY <1>9, <2>2
      <4>2. definitions'[new.definition].supersedes = d
        BY <1>5, <3>2
      <4> QED
        BY <1>14, <2>0, <3>5, <4>1, <4>2 DEF NoRivals
    <3>9. OneHead(q)'
      <4>1. InitialReceipts(q)' # {}
        BY <1>14, <2>0, <3>1 DEF OneHead, InitialReceipts
      <4> QED
        BY <1>3, <1>6, <1>8, <1>15, <4>1 DEF OneHead
    <3> QED
      BY <2>1, <3>6, <3>7, <3>8, <3>9
  <2> QED
    BY <2>3, <2>4 DEF PublicationOp
<1>18. PublishedChain'
  BY <1>13, <1>17 DEF PublishedChain, Agrees, OneReceipt, Supersedes, NoRivals, OneHead
<1> QED
  BY <1>10, <1>18

\* Every operation keeps the chains of all projects.
LEMMA ChainStep ==
    ASSUME ChainInv, [LifecycleNext]_dbvars
    PROVE  ChainInv'
<1>0. TypeOK'
  BY RowTypesStep DEF ChainInv
<1>1. CASE LifecycleNext
  <2>1. PICK r \in Request : Operation(r)
    BY <1>1 DEF LifecycleNext
  <2> QED
    BY <1>0, <2>1, OperationWrites, HumanWriteKeepsChain, PublishKeepsChain DEF ChainInv
<1>2. CASE UNCHANGED dbvars
  BY <1>0, <1>2 DEF dbvars, ChainInv, Grounded, PublishedChain, InProject, Exists,
                   PublicationsOf, InitialReceipts, Current, IsPublished
<1> QED
  BY <1>1, <1>2

\* The chain invariant is inductive.
LEMMA ChainInductive == LifecycleSpec => []ChainInv
<1>1. LifecycleInit => ChainInv
  BY DEF LifecycleInit, ChainInv, TypeOK, Grounded, PublishedChain, InProject, Exists,
         PublicationsOf
<1>2. ChainInv /\ [LifecycleNext]_dbvars => ChainInv'
  BY ChainStep
<1> QED
  BY <1>1, <1>2, PTL DEF LifecycleSpec

\* Publications and definition rows tell one story: one initial receipt, one
\* head, and a line of successors, each of the head of its time.
THEOREM ChainHolds == LifecycleSpec => []PublishedChain
<1>1. ChainInv => PublishedChain
  BY DEF ChainInv
<1> QED
  BY <1>1, ChainInductive, PTL

-----------------------------------------------------------------------------
(* Pins and reviewed bytes.                                                *)

\* Statuses never go back from PUBLISHED, and its bytes and project stay.
LEMMA PublishedStays ==
    ASSUME TypeOK, LifecycleNext, NEW d \in Definition, Exists(d),
           definitions[d].status = "PUBLISHED"
    PROVE  /\ Exists(d)'
           /\ definitions'[d].status = "PUBLISHED"
           /\ definitions'[d].project = definitions[d].project
           /\ definitions'[d].manifest = definitions[d].manifest
<1>1. definitions'[d] # None
  BY FrozenStep
<1>2. PICK s \in {definitions[d].status, "PUBLISHED"}, c \in BOOLEAN :
         definitions'[d] = [definitions[d] EXCEPT !.status = s, !.current = c]
  BY FrozenStep
<1>3. definitions[d] \in DefinitionRow
  BY RowType
<1> QED
  BY <1>1, <1>2, <1>3 DEF Exists, DefinitionRow

\* Every operation keeps the pins exact.
LEMMA PinsStep ==
    ASSUME TypeOK, PinsExact, [LifecycleNext]_dbvars
    PROVE  PinsExact'
<1>1. CASE LifecycleNext
  <2> SUFFICES ASSUME NEW w \in Workspace, workspaces'[w] # None,
                      NEW pin, pin = workspaces'[w]
               PROVE  /\ pin.definition \in InProject(pin.project)'
                      /\ definitions'[pin.definition].status = "PUBLISHED"
                      /\ definitions'[pin.definition].manifest = pin.manifest
                      /\ \E row \in InitialReceipts(pin.project)' :
                            row.workspace = w /\ row.definition = pin.definition
    BY DEF PinsExact
  <2>1. PICK r \in Request : Operation(r)
    BY <1>1 DEF LifecycleNext
  <2>2. publications \subseteq publications'
    BY <1>1, FrozenStep
  <2>3. CASE workspaces[w] # None
    <3>1. pin = workspaces[w]
      BY <1>1, <2>3, FrozenStep
    <3>2. /\ pin.definition \in InProject(pin.project)
          /\ definitions[pin.definition].status = "PUBLISHED"
          /\ definitions[pin.definition].manifest = pin.manifest
          /\ \E row \in InitialReceipts(pin.project) :
                row.workspace = w /\ row.definition = pin.definition
      BY <2>3, <3>1 DEF PinsExact
    <3>3. pin.definition \in Definition /\ Exists(pin.definition)
      BY <3>2 DEF InProject
    <3>4. /\ pin.definition \in InProject(pin.project)'
          /\ definitions'[pin.definition].status = "PUBLISHED"
          /\ definitions'[pin.definition].manifest = pin.manifest
      BY <1>1, <3>2, <3>3, PublishedStays DEF InProject
    <3>5. InitialReceipts(pin.project) \subseteq InitialReceipts(pin.project)'
      BY <2>2 DEF InitialReceipts, PublicationsOf
    <3> QED
      BY <3>2, <3>4, <3>5
  <2>4. CASE workspaces[w] = None
    <3>1. r.op = "INITIAL" /\ Publish(r, AfterRow(r)) /\ Allowed(r)
      <4>1. workspaces' # workspaces
        BY <2>4
      <4> QED
        BY <2>1, <4>1, OperationWrites DEF HumanWrite, Publish, PublicationOp
    <3>2. /\ definitions[r.target] \in DefinitionRow
          /\ definitions[r.target].project = r.project
          /\ definitions'[r.target] =
                [definitions[r.target] EXCEPT !.status = "PUBLISHED", !.current = TRUE]
      BY <3>1, PublishFrame DEF PublicationOp
    <3>3. definitions'[r.target] = AfterRow(r)
      BY <3>1, RequestFields DEF Publish
    <3>4. /\ definitions'[r.target] \in DefinitionRow
          /\ definitions'[r.target].project = r.project
          /\ definitions'[r.target].status = "PUBLISHED"
      BY <3>2 DEF DefinitionRow
    <3>5. /\ w = r.workspace
          /\ pin = [project |-> r.project, definition |-> r.target,
                    manifest |-> definitions'[r.target].manifest]
      BY <2>4, <3>1, <3>3, RequestFields DEF Publish, TypeOK
    <3>6. [project |-> r.project, definition |-> r.target, key |-> r.key,
           request |-> r, workspace |-> r.workspace] \in InitialReceipts(r.project)'
      BY <3>1, RequestFields, NoneAssumption DEF Publish, InitialReceipts, PublicationsOf
    <3>7. r.target \in InProject(r.project)'
      BY <3>4, RequestFields, NoneAssumption DEF InProject, Exists
    <3> QED
      BY <3>4, <3>5, <3>6, <3>7
  <2> QED
    BY <2>3, <2>4
<1>2. CASE UNCHANGED dbvars
  BY <1>2 DEF dbvars, PinsExact, InProject, Exists, InitialReceipts, PublicationsOf
<1> QED
  BY <1>1, <1>2

\* A workspace pins the bytes of a published definition of its own project.
THEOREM PinsAreExact == LifecycleSpec => []PinsExact
<1>1. LifecycleInit => PinsExact
  BY DEF LifecycleInit, PinsExact
<1>2. TypeOK /\ PinsExact /\ [LifecycleNext]_dbvars => PinsExact'
  BY PinsStep
<1> QED
  BY <1>1, <1>2, LifecycleTypes, PTL DEF LifecycleSpec

\* What ReviewedBytes says of one definition.
Reviewed(d) ==
    /\ definitions[d].manifest \in ValidManifest
    /\ \/ \E row \in receipts :
             /\ row.request.op = "VALIDATE_DEFINITION"
             /\ row.request.target = d
             /\ row.request.ifMatch = definitions[d].manifest
       \/ \E row \in publications :
             /\ row.request.op = "INITIAL"
             /\ row.definition = d
             /\ row.request.ifMatch = definitions[d].manifest
    /\ \A row \in publications :
          row.definition = d => row.request.ifMatch = definitions[d].manifest

\* A row that was reviewed stays reviewed if it keeps its bytes and is not
\* published once more.
LEMMA ReviewStays ==
    ASSUME NEW d \in Definition, Reviewed(d),
           definitions'[d].manifest = definitions[d].manifest,
           receipts \subseteq receipts', publications \subseteq publications',
           \A row \in publications' \ publications :
              row.definition = d => row.request.ifMatch = definitions[d].manifest
    PROVE  Reviewed(d)'
  BY DEF Reviewed

\* Whoever moved a definition out of DRAFT had its exact, valid bytes in the
\* If-Match of the request.
THEOREM BytesAreReviewed == LifecycleSpec => []ReviewedBytes
<1>1. ReviewedBytes <=>
         \A d \in Definition : Exists(d) /\ definitions[d].status # "DRAFT" => Reviewed(d)
  BY DEF ReviewedBytes, Reviewed
<1>2. LifecycleInit => ReviewedBytes
  BY DEF LifecycleInit, ReviewedBytes, Exists
<1>3. ChainInv /\ ReviewedBytes /\ [LifecycleNext]_dbvars => ReviewedBytes'
  <2> SUFFICES ASSUME ChainInv, ReviewedBytes, [LifecycleNext]_dbvars PROVE ReviewedBytes'
    OBVIOUS
  <2>0. TypeOK
    BY DEF ChainInv
  <2>1. CASE LifecycleNext
    <3> SUFFICES ASSUME NEW d \in Definition, Exists(d)', definitions'[d].status # "DRAFT"
                 PROVE  Reviewed(d)'
      BY DEF ReviewedBytes, Reviewed
    <3>1. PICK r \in Request : Operation(r)
      BY <2>1 DEF LifecycleNext
    <3>2. Allowed(r)
      BY <3>1, OperationWrites
    <3>3. receipts \subseteq receipts' /\ publications \subseteq publications'
      BY <2>0, <2>1, FrozenStep
    <3>4. CASE r.op \in WriteOp /\ HumanWrite(r, AfterRow(r))
      <4>1. publications' = publications
        BY <3>4 DEF HumanWrite
      <4>2. CASE d # r.target
        <5>1. definitions'[d] = definitions[d]
          BY <2>0, <3>2, <3>4, <4>2, HumanWriteFrame
        <5>2. Reviewed(d)
          BY <1>1, <5>1 DEF Exists
        <5> QED
          BY <3>3, <4>1, <5>1, <5>2, ReviewStays
      <4>3. CASE d = r.target
        <5>1. r.op \notin InsertOp
          BY <2>0, <3>2, <3>4, <4>3, HumanWriteFrame
        <5>2. /\ r.op = "VALIDATE_DEFINITION"
              /\ definitions[d] \in DefinitionRow
              /\ definitions[d].project = r.project
              /\ definitions[d].status = "DRAFT"
              /\ definitions[d].manifest = r.ifMatch
              /\ definitions'[d].manifest = definitions[d].manifest
              /\ definitions'[d].manifest \in ValidManifest
          BY <2>0, <3>2, <3>4, <4>3, <5>1, HumanWriteFrame
        <5>3. [key |-> r.key, request |-> r, after |-> AfterRow(r)] \in receipts'
          BY <3>4 DEF HumanWrite
        <5>4. ~IsPublished(d)
          <6>1. d \in InProject(r.project) /\ r.project \in Project
            BY <5>2, RequestFields, NoneAssumption DEF InProject, Exists
          <6> QED
            BY <5>2, <6>1, ChainParts DEF ChainInv, Agrees
        <5> QED
          BY <4>1, <4>3, <5>2, <5>3, <5>4 DEF Reviewed, IsPublished
      <4> QED
        BY <4>2, <4>3
    <3>5. CASE r.op \in PublicationOp /\ Publish(r, AfterRow(r))
      <4> DEFINE new == [project |-> r.project, definition |-> r.target, key |-> r.key,
                         request |-> r, workspace |-> r.workspace]
      <4>1. publications' = publications \cup {new}
        BY <3>5 DEF Publish
      <4>2. CASE d # r.target
        <5>1. definitions'[d] = Demoted(r.project, d)
          BY <2>0, <3>2, <3>5, <4>2, PublishFrame
        <5>2. Exists(d)
          BY <5>1 DEF Demoted, Exists
        <5>3. /\ definitions'[d].manifest = definitions[d].manifest
              /\ definitions'[d].status = definitions[d].status
          BY <2>0, <5>1, <5>2, RowType DEF Demoted, DefinitionRow
        <5>4. Reviewed(d)
          BY <1>1, <5>2, <5>3
        <5>5. new.definition # d
          BY <4>2
        <5>6. \A row \in publications' \ publications : row.definition # d
          BY <4>1, <5>5
        <5> HIDE DEF new
        <5> QED
          BY <3>3, <5>3, <5>4, <5>6, ReviewStays
      <4>3. CASE d = r.target
        <5>1. /\ definitions[d] \in DefinitionRow
              /\ definitions[d].manifest = r.ifMatch
              /\ ~IsPublished(d)
              /\ definitions'[d] = [definitions[d] EXCEPT !.status = "PUBLISHED", !.current = TRUE]
              /\ r.op = "INITIAL" => definitions[d].manifest \in ValidManifest
              /\ r.op = "SUCCESSOR" => definitions[d].status = "VALIDATED"
          BY <2>0, <3>2, <3>5, <4>3, PublishFrame
        <5>2. definitions'[d].manifest = definitions[d].manifest
          BY <5>1 DEF DefinitionRow
        <5>3. new \in publications' /\ new.request = r /\ new.definition = d
          BY <4>1, <4>3
        <5>4. \A row \in publications' : row.definition = d => row = new
          BY <4>1, <5>1 DEF IsPublished
        <5>5. CASE r.op = "INITIAL"
          BY <5>1, <5>2, <5>3, <5>4, <5>5 DEF Reviewed
        <5>6. CASE r.op = "SUCCESSOR"
          <6>1. Reviewed(d)
            BY <1>1, <5>1, <5>6, NoneAssumption DEF Exists
          <6>2. \A row \in publications' \ publications :
                   row.definition = d => row.request.ifMatch = definitions[d].manifest
            BY <5>1, <5>3, <5>4
          <6> QED
            BY <3>3, <5>2, <6>1, <6>2, ReviewStays
        <5> QED
          BY <3>5, <5>5, <5>6 DEF PublicationOp
      <4> QED
        BY <4>2, <4>3
    <3> QED
      BY <3>1, <3>4, <3>5, OperationWrites
  <2>2. CASE UNCHANGED dbvars
    BY <2>2 DEF dbvars, ReviewedBytes, Exists
  <2> QED
    BY <2>1, <2>2
<1> QED
  BY <1>2, <1>3, ChainInductive, PTL DEF LifecycleSpec

-----------------------------------------------------------------------------
(* The promise to readers.                                                 *)

\* A published definition has one receipt, which PublicationOf finds.
LEMMA OneReceiptEach ==
    ChainInv => \A row \in publications : PublicationOf(row.definition) = row
<1> SUFFICES ASSUME ChainInv, NEW row \in publications
             PROVE  PublicationOf(row.definition) = row
  OBVIOUS
<1>1. \A x \in publications : x.definition \in InProject(x.project) /\ x.project \in Project
  BY DEF ChainInv, Grounded, TypeOK, PublicationRow
<1>2. \A x \in publications : x.definition = row.definition => x = row
  <2> SUFFICES ASSUME NEW x \in publications, x.definition = row.definition PROVE x = row
    OBVIOUS
  <2>1. x.project = row.project
    BY <1>1 DEF InProject
  <2> QED
    BY <1>1, <2>1, ChainParts DEF ChainInv, OneReceipt, PublicationsOf
<1> QED
  BY <1>2 DEF PublicationOf

\* The head of a project with one current definition.
LEMMA HeadOfOne == \A p, d : Current(p) = {d} => HeadOf(p) = d
  BY DEF HeadOf

\* The head moves only with the flag.
LEMMA SameHead ==
    ASSUME ChainInv, NEW p \in Project, Current(p)' = Current(p)
    PROVE  HeadOf(p)' = HeadOf(p)
<1>1. CASE Current(p) = {}
  BY <1>1 DEF HeadOf
<1>2. CASE Current(p) # {}
  <2>1. PublicationsOf(p) # {}
    BY <1>2, NoHeadBefore
  <2>2. PICK d : Current(p) = {d}
    BY <2>1, ChainParts DEF ChainInv, OneHead
  <2>3. HeadOf(p) = d
    BY <2>2 DEF HeadOf
  <2>4. HeadOf(p)' = d
    BY <2>2 DEF HeadOf
  <2> QED
    BY <2>3, <2>4
<1> QED
  BY <1>1, <1>2

\* Readers see nothing of a HUMAN write.
LEMMA HumanWriteUnseen ==
    ASSUME ChainInv, NEW r \in Request, Allowed(r), r.op \in WriteOp,
           HumanWrite(r, AfterRow(r))
    PROVE  UNCHANGED <<[p \in Project |-> HeadOf(p)],
                       [d \in Definition |-> SnapshotOf(d)], workspaces>>
<1>1. workspaces' = workspaces /\ publications' = publications
  BY DEF HumanWrite
<1>2. ASSUME NEW p \in Project PROVE HeadOf(p)' = HeadOf(p)
  <2>1. Current(p)' = Current(p)
    BY HumanWriteRows
  <2> QED
    BY <2>1, SameHead
<1>3. ASSUME NEW d \in Definition PROVE SnapshotOf(d)' = SnapshotOf(d)
  <2>1. PublicationOf(d)' = PublicationOf(d) /\ (IsPublished(d)' <=> IsPublished(d))
    BY <1>1 DEF PublicationOf, IsPublished
  <2>2. CASE IsPublished(d)
    <3>1. definitions'[d] = definitions[d]
      BY <2>2, HumanWriteRows DEF IsPublished
    <3> QED
      BY <2>1, <3>1 DEF SnapshotOf
  <2>3. CASE ~IsPublished(d)
    BY <2>1, <2>3 DEF SnapshotOf
  <2> QED
    BY <2>2, <2>3
<1> QED
  BY <1>1, <1>2, <1>3

\* A publication writes one snapshot, whose parent is the head it replaces.
LEMMA PublishWrites ==
    ASSUME ChainInv, ChainInv', NEW r \in Request, Allowed(r), r.op \in PublicationOp,
           Publish(r, AfterRow(r))
    PROVE  /\ SnapshotOf(r.target) = None
           /\ HeadOf(r.project)' = r.target
           /\ \A p \in Project \ {r.project} : HeadOf(p)' = HeadOf(p)
           /\ SnapshotOf(r.target)' =
                 [project |-> r.project, manifest |-> definitions[r.target].manifest,
                  parent |-> HeadOf(r.project)]
           /\ \A d \in Definition \ {r.target} : SnapshotOf(d)' = SnapshotOf(d)
           /\ r.op = "INITIAL" => HeadOf(r.project) = None
           /\ r.op = "SUCCESSOR" => HeadOf(r.project) # None
<1> DEFINE t == r.target
           q == r.project
           new == [project |-> q, definition |-> t, key |-> r.key,
                   request |-> r, workspace |-> r.workspace]
<1>0. TypeOK /\ t \in Definition /\ q \in Project
  BY RequestFields DEF ChainInv
<1>1. /\ publications' = publications \cup {new}
      /\ ~IsPublished(t)
      /\ definitions'[t].project = q
      /\ definitions'[t].supersedes = definitions[t].supersedes
      /\ definitions'[t].manifest = definitions[t].manifest
  BY PublishRows
<1>11. OnlyFlagsChange(r) /\ OtherProjectsKeep(r)
  BY PublishRows
<1>12. \A d \in Definition \ {t} : IsPublished(d)' <=> IsPublished(d)
  BY PublishRows
<1>13. \A row \in publications : row.definition \in InProject(row.project)
  BY DEF ChainInv, Grounded
<1>2. \A row \in publications' : PublicationOf(row.definition)' = row
  <2>1. (ChainInv => \A row \in publications : PublicationOf(row.definition) = row)'
    BY OneReceiptEach, PTL
  <2> QED
    BY <2>1
<1>3. SnapshotOf(t) = None
  BY <1>1 DEF SnapshotOf
<1>4. HeadOf(q)' = t
  <2>1. Current(q)' = {t}
    BY PublishRows
  <2> QED
    BY <2>1 DEF HeadOf
<1>5. ASSUME NEW p \in Project \ {q} PROVE HeadOf(p)' = HeadOf(p)
  <2>1. Current(p)' = Current(p)
    BY <1>5, <1>11 DEF OtherProjectsKeep
  <2> QED
    BY <2>1, SameHead
<1>6. ASSUME NEW d \in Definition, d # t PROVE SnapshotOf(d)' = SnapshotOf(d)
  <2>1. IsPublished(d)' <=> IsPublished(d)
    BY <1>6, <1>12
  <2>2. CASE IsPublished(d)
    <3>1. PICK row \in publications : row.definition = d
      BY <2>2 DEF IsPublished
    <3>2. PublicationOf(d) = row /\ PublicationOf(d)' = row
      BY <1>1, <1>2, <3>1, OneReceiptEach
    <3>3. Exists(d)
      BY <3>1, <1>13 DEF InProject
    <3>4. /\ definitions'[d].project = definitions[d].project
          /\ definitions'[d].supersedes = definitions[d].supersedes
          /\ definitions'[d].manifest = definitions[d].manifest
      BY <1>6, <1>11, <3>3 DEF OnlyFlagsChange
    <3> QED
      BY <2>1, <3>2, <3>4 DEF SnapshotOf
  <2>3. CASE ~IsPublished(d)
    BY <2>1, <2>3 DEF SnapshotOf
  <2> QED
    BY <2>2, <2>3
<1>7. /\ IsPublished(t)'
      /\ PublicationOf(t)' = new
  <2>1. new \in publications' /\ new.definition = t
    BY <1>1
  <2> QED
    BY <1>2, <2>1 DEF IsPublished
<1>8. SnapshotOf(t)' =
         [project |-> q, manifest |-> definitions[t].manifest,
          parent |-> IF r.workspace # None THEN None ELSE definitions[t].supersedes]
  BY <1>1, <1>7 DEF SnapshotOf
<1>9. CASE r.op = "INITIAL"
  <2>1. HeadOf(q) = None
    BY <1>0, <1>9, PublishFrame, NoHeadBefore DEF HeadOf
  <2>2. r.workspace # None
    BY <1>9, RequestFields, NoneAssumption
  <2> QED
    BY <1>3, <1>4, <1>5, <1>6, <1>8, <1>9, <2>1, <2>2
<1>10. CASE r.op = "SUCCESSOR"
  <2>1. PICK d \in Current(q) \ {t} : definitions[t].supersedes = d
    BY <1>0, <1>10, PublishFrame
  <2>2. PublicationsOf(q) # {}
    BY <1>0, <1>10, PublishFrame
  <2>3. Current(q) = {d}
    BY <1>0, <2>1, <2>2, ChainParts DEF ChainInv, OneHead
  <2>4. HeadOf(q) = d /\ d # None
    BY <2>3, HeadOfOne, NoneAssumption DEF Current, InProject
  <2>5. r.workspace = None
    BY <1>10, RequestFields
  <2> QED
    BY <1>3, <1>4, <1>5, <1>6, <1>8, <1>10, <2>1, <2>4, <2>5
<1> QED
  BY <1>9, <1>10 DEF PublicationOp

\* Every publication is a step of PublishedSnapshots.
LEMMA PublishIsSnapshotStep ==
    ASSUME ChainInv, ChainInv', NEW r \in Request, Allowed(r), r.op \in PublicationOp,
           Publish(r, AfterRow(r))
    PROVE  Snapshots!SnapshotNext
<1> DEFINE m == definitions[r.target].manifest
<1>1. r.target \in Definition /\ r.project \in Project /\ m \in Manifest
  BY PublishFrame, RequestFields DEF ChainInv, DefinitionRow
<1>2. Snapshots!Write(r.project, r.target, m)
  BY <1>1, PublishWrites DEF Snapshots!Write
<1>3. AfterRow(r).manifest = m
  <2>1. definitions[r.target] \in DefinitionRow
    BY PublishFrame DEF ChainInv
  <2>2. AfterRow(r) = [definitions[r.target] EXCEPT !.status = "PUBLISHED", !.current = TRUE]
    BY DEF AfterRow, PublicationOp
  <2> QED
    BY <2>1, <2>2 DEF DefinitionRow
<1>4. CASE r.op = "INITIAL"
  <2>1. r.workspace \in Workspace /\ workspaces[r.workspace] = None
    BY <1>4, RequestFields, PublishFrame DEF ChainInv
  <2>2. workspaces' = [workspaces EXCEPT ![r.workspace] =
                         [project |-> r.project, definition |-> r.target, manifest |-> m]]
    BY <1>3, <1>4 DEF Publish
  <2>3. HeadOf(r.project) = None
    BY <1>4, PublishWrites
  <2>4. Snapshots!First(r.project, r.target, m, r.workspace)
    BY <1>1, <1>2, <2>1, <2>2, <2>3 DEF Snapshots!First
  <2> QED
    BY <1>1, <2>1, <2>4 DEF Snapshots!SnapshotNext
<1>5. CASE r.op = "SUCCESSOR"
  <2>1. workspaces' = workspaces
    BY <1>5 DEF Publish
  <2>2. HeadOf(r.project) # None
    BY <1>5, PublishWrites
  <2>3. Snapshots!Successor(r.project, r.target, m)
    BY <1>1, <1>2, <2>1, <2>2 DEF Snapshots!Successor
  <2> QED
    BY <1>1, <2>3 DEF Snapshots!SnapshotNext
<1> QED
  BY <1>4, <1>5 DEF PublicationOp

\* Every operation is a step of PublishedSnapshots or unseen.
LEMMA SnapshotsStep ==
    ASSUME ChainInv, ChainInv', [LifecycleNext]_dbvars
    PROVE  Snapshots!SnapshotNext \/ UNCHANGED Snapshots!svars
<1>1. CASE LifecycleNext
  <2>1. PICK r \in Request : Operation(r)
    BY <1>1 DEF LifecycleNext
  <2>2. CASE r.op \in WriteOp /\ HumanWrite(r, AfterRow(r))
    <3>1. Allowed(r)
      BY <2>1, OperationWrites
    <3> QED
      BY <2>2, <3>1, HumanWriteUnseen DEF Snapshots!svars
  <2>3. CASE r.op \in PublicationOp /\ Publish(r, AfterRow(r))
    BY <2>1, <2>3, OperationWrites, PublishIsSnapshotStep
  <2> QED
    BY <2>1, <2>2, <2>3, OperationWrites
<1>2. CASE UNCHANGED dbvars
  <2>1. ASSUME NEW p \in Project PROVE HeadOf(p)' = HeadOf(p)
    <3>1. Current(p)' = Current(p)
      BY <1>2 DEF dbvars, Current, InProject, Exists
    <3> QED
      BY <3>1, SameHead
  <2>2. \A d \in Definition : SnapshotOf(d)' = SnapshotOf(d)
    BY <1>2 DEF dbvars, SnapshotOf, PublicationOf, IsPublished
  <2> QED
    BY <1>2, <2>1, <2>2 DEF dbvars, Snapshots!svars
<1> QED
  BY <1>1, <1>2

\* Whatever the operations do to drafts, readers see PublishedSnapshots.
THEOREM SnapshotsImplemented == LifecycleSpec => ImplementsSnapshots
<1>1. LifecycleInit => Snapshots!SnapshotInit
  <2> SUFFICES ASSUME LifecycleInit PROVE Snapshots!SnapshotInit
    OBVIOUS
  <2>1. \A p \in Project : HeadOf(p) = None
    BY DEF LifecycleInit, HeadOf, Current, InProject, Exists
  <2>2. \A d \in Definition : SnapshotOf(d) = None
    BY DEF LifecycleInit, SnapshotOf, IsPublished
  <2> QED
    BY <2>1, <2>2 DEF LifecycleInit, Snapshots!SnapshotInit
<1>2. ChainInv /\ ChainInv' /\ [LifecycleNext]_dbvars => [Snapshots!SnapshotNext]_(Snapshots!svars)
  BY SnapshotsStep
<1> QED
  BY <1>1, <1>2, ChainInductive, PTL DEF LifecycleSpec, ImplementsSnapshots, Snapshots!SnapshotSpec

-----------------------------------------------------------------------------
(* Readiness.                                                              *)

\* The converse of PinsExact: an initial receipt keeps its pin.
InitialPinned(row) ==
    workspaces[row.workspace] =
        [project |-> row.project, definition |-> row.definition,
         manifest |-> definitions[row.definition].manifest]
ReadyInv == ChainInv /\ \A row \in publications : row.workspace # None => InitialPinned(row)

LEMMA PinsStay ==
    ASSUME ReadyInv, LifecycleNext, NEW row \in publications, row.workspace # None
    PROVE  InitialPinned(row)'
<1>0. TypeOK /\ InitialPinned(row)
  BY DEF ReadyInv, ChainInv
<1>1. /\ row.workspace \in Workspace /\ row.definition \in InProject(row.project)
      /\ row.project \in Project
  BY <1>0 DEF ReadyInv, ChainInv, Grounded, TypeOK, PublicationRow
<1>2. /\ row.definition \in Definition /\ Exists(row.definition)
      /\ definitions[row.definition].status = "PUBLISHED"
  BY <1>1, ChainParts DEF ReadyInv, ChainInv, Agrees, IsPublished, InProject
<1>3. definitions'[row.definition].manifest = definitions[row.definition].manifest
  BY <1>0, <1>2, PublishedStays
<1>4. workspaces[row.workspace] # None
  <2>1. workspaces[row.workspace] \in WorkspaceRow
    <3>1. definitions[row.definition] \in DefinitionRow
      BY <1>0, <1>2, RowType
    <3> QED
      BY <1>0, <1>1, <1>2, <3>1 DEF InitialPinned, WorkspaceRow, DefinitionRow
  <2> QED
    BY <2>1, NoneAssumption
<1>5. workspaces'[row.workspace] = workspaces[row.workspace]
  BY <1>0, <1>1, <1>4, FrozenStep
<1> QED
  BY <1>0, <1>3, <1>5 DEF InitialPinned

LEMMA NewPin ==
    ASSUME ReadyInv, LifecycleNext, NEW row \in publications', row \notin publications,
           row.workspace # None
    PROVE  InitialPinned(row)'
<1>0. TypeOK
  BY DEF ReadyInv, ChainInv
<1>1. PICK r \in Request : Operation(r)
  BY DEF LifecycleNext
<1>2. /\ r.op \in PublicationOp /\ Publish(r, AfterRow(r)) /\ Allowed(r)
  BY <1>1, OperationWrites DEF HumanWrite
<1>3. /\ row.project = r.project /\ row.definition = r.target /\ row.workspace = r.workspace
  BY <1>2 DEF Publish
<1>4. r.op = "INITIAL" /\ r.workspace \in Workspace /\ r.target \in Definition
  BY <1>3, RequestFields
<1>5. definitions'[r.target] = AfterRow(r)
  BY <1>2, <1>4 DEF Publish
<1>6. workspaces'[r.workspace] =
         [project |-> r.project, definition |-> r.target, manifest |-> AfterRow(r).manifest]
  BY <1>0, <1>2, <1>4 DEF Publish, TypeOK
<1> QED
  BY <1>3, <1>5, <1>6 DEF InitialPinned

LEMMA ReadyStep ==
    ASSUME ReadyInv, ChainInv', [LifecycleNext]_dbvars
    PROVE  ReadyInv'
<1>1. ASSUME LifecycleNext, NEW row \in publications', row.workspace # None
      PROVE  InitialPinned(row)'
  BY <1>1, PinsStay, NewPin
<1>2. CASE LifecycleNext
  BY <1>1, <1>2 DEF ReadyInv
<1>3. CASE UNCHANGED dbvars
  BY <1>3 DEF dbvars, ReadyInv, InitialPinned
<1> QED
  BY <1>2, <1>3

\* The two authorities agree on a successor.
LEMMA SuccessorAdvice ==
    ASSUME ReadyInv, NEW r \in Request, Resolves(r), r.op = "SUCCESSOR",
           r.ifMatch = definitions[r.target].manifest
    PROVE  RequiredNextAction(r.target) = "SUCCESSOR_PUBLISH" <=> Refusal(r) = Accepted
<1> DEFINE d == r.target
           p == r.project
<1>0. /\ d \in InProject(p) /\ definitions[d].project = p /\ d \in Definition /\ p \in Project
      /\ definitions[d] \in DefinitionRow
  BY RequestFields, RowType DEF Resolves, InProject, ReadyInv, ChainInv
<1>1. ValidInitialReceipts(p) = InitialReceipts(p)
  <2>1. ASSUME NEW row \in InitialReceipts(p)
        PROVE  row \in ValidInitialReceipts(p)
    <3>1. row \in publications /\ row.project = p /\ row.workspace # None
      BY DEF InitialReceipts, PublicationsOf
    <3>2. row.definition \in InProject(p)
      BY <3>1 DEF ReadyInv, ChainInv, Grounded
    <3>3. definitions[row.definition].status = "PUBLISHED"
      BY <1>0, <3>1, <3>2, ChainParts DEF ReadyInv, ChainInv, Agrees, IsPublished
    <3>4. InitialPinned(row)
      BY <3>1 DEF ReadyInv
    <3> QED
      BY <3>1, <3>3, <3>4 DEF InitialPinned, ValidInitialReceipts
  <2> QED
    BY <2>1 DEF ValidInitialReceipts
<1>2. PublicationsOf(p) # {} => \E c \in InProject(p) : Current(p) = {c}
  BY <1>0, ChainParts DEF ReadyInv, ChainInv, OneHead
<1>3. Refusal(r) = Accepted <=> ~IsPublished(d) /\ SuccessorLifecycleAllows(r)
  BY DEF Refusal, SuccessorRefusal, Accepted
<1>4. SuccessorLifecycleAllows(r) <=>
         /\ definitions[d].status = "VALIDATED"
         /\ PublicationsOf(p) # {}
         /\ Cardinality(InitialReceipts(p)) = 1
         /\ \E c \in Current(p) \ {d} :
               definitions[c].status = "PUBLISHED" /\ definitions[d].supersedes = c
  BY DEF SuccessorLifecycleAllows
<1>5. SuccessorBlockers(d) = {} <=>
         /\ PublicationsOf(p) # {}
         /\ Cardinality(InitialReceipts(p)) = 1
         /\ \E c \in Current(p) : definitions[c].status = "PUBLISHED"
         /\ \A c \in Current(p) : definitions[d].supersedes = c
  BY <1>0, <1>1 DEF SuccessorBlockers
<1>6. RequiredNextAction(d) = "SUCCESSOR_PUBLISH" <=>
         /\ ~IsPublished(d) /\ definitions[d].status \notin {"PUBLISHED", "DRAFT"}
         /\ definitions[d].supersedes # None
         /\ SuccessorBlockers(d) = {}
  BY DEF RequiredNextAction, Blockers
<1>7. definitions[d].status \in {"DRAFT", "VALIDATED", "PUBLISHED"}
  BY <1>0 DEF DefinitionRow
<1>8. \A c \in Current(p) : c \in Definition /\ c # None
  BY NoneAssumption DEF Current, InProject
<1> HIDE DEF d, p
<1>9. ASSUME RequiredNextAction(d) = "SUCCESSOR_PUBLISH"
      PROVE  Refusal(r) = Accepted
  <2>1. PICK c \in Current(p) : definitions[c].status = "PUBLISHED"
    BY <1>5, <1>6, <1>9
  <2>2. definitions[d].supersedes = c /\ c # d /\ definitions[d].status = "VALIDATED"
    BY <1>5, <1>6, <1>7, <1>9, <2>1
  <2> QED
    BY <1>3, <1>4, <1>5, <1>6, <1>9, <2>1, <2>2
<1>10. ASSUME Refusal(r) = Accepted
       PROVE  RequiredNextAction(d) = "SUCCESSOR_PUBLISH"
  <2>1. SuccessorLifecycleAllows(r) /\ ~IsPublished(d)
    BY <1>3, <1>10
  <2>2. PICK c \in Current(p) \ {d} :
           definitions[c].status = "PUBLISHED" /\ definitions[d].supersedes = c
    BY <1>4, <2>1
  <2>3. Current(p) = {c}
    BY <1>2, <1>4, <2>1
  <2>4. SuccessorBlockers(d) = {}
    BY <1>4, <1>5, <2>1, <2>2, <2>3
  <2>5. definitions[d].supersedes # None /\ definitions[d].status = "VALIDATED"
    BY <1>4, <1>8, <2>1, <2>2
  <2> QED
    BY <1>6, <2>1, <2>4, <2>5
<1> QED
  BY <1>9, <1>10 DEF d

\* What readiness advises the publication path accepts, and for a successor it
\* advises all that would be accepted: two pieces of code that share no check.
THEOREM ReadinessAlwaysAgrees == LifecycleSpec => []ReadinessAgrees
<1>1. LifecycleInit => ChainInv /\ ReadyInv
  <2>1. LifecycleInit => ChainInv
    BY DEF LifecycleInit, ChainInv, TypeOK, Grounded, PublishedChain, InProject, Exists,
           PublicationsOf
  <2> QED
    BY <2>1 DEF LifecycleInit, ReadyInv
<1>2. ReadyInv /\ ChainInv' /\ [LifecycleNext]_dbvars => ReadyInv'
  BY ReadyStep
<1>3. ReadyInv => ReadinessAgrees
  <2> SUFFICES ASSUME ReadyInv, NEW r \in Request, Resolves(r), BoundRequests(r) = {},
                      r.ifMatch = definitions[r.target].manifest,
                      r.op \in {"INITIAL", "SUCCESSOR", "VALIDATE_DEFINITION"}
               PROVE  /\ /\ RequiredNextAction(r.target) = "PREVIEW_OR_INITIAL_PUBLISH"
                         /\ r.op = "INITIAL" /\ workspaces[r.workspace] = None
                         /\ r.ifMatch \in ValidManifest
                         => Refusal(r) = Accepted
                      /\ /\ RequiredNextAction(r.target) = "VALIDATE"
                         /\ r.op = "VALIDATE_DEFINITION" /\ r.ifMatch \in ValidManifest
                         => Refusal(r) = Accepted
                      /\ r.op = "SUCCESSOR" =>
                         (RequiredNextAction(r.target) = "SUCCESSOR_PUBLISH" <=> Refusal(r) = Accepted)
    BY DEF ReadinessAgrees
  <2> DEFINE d == r.target
             p == r.project
  <2>0. definitions[d].project = p
    BY DEF Resolves, InProject
  <2>1. ASSUME RequiredNextAction(d) = "PREVIEW_OR_INITIAL_PUBLISH",
               r.op = "INITIAL", workspaces[r.workspace] = None, r.ifMatch \in ValidManifest
        PROVE  Refusal(r) = Accepted
    <3>1. ~IsPublished(d) /\ InitialBlockers(d) = {}
      BY <2>1 DEF RequiredNextAction, Blockers
    <3>2. /\ definitions[d].status = "DRAFT" /\ PublicationsOf(p) = {}
          /\ WorkspacesOf(p) = {} /\ Current(p) = {}
      BY <2>0, <3>1 DEF InitialBlockers
    <3>3. InitialLifecycleAllows(r)
      BY <2>1, <3>2 DEF InitialLifecycleAllows
    <3> QED
      BY <2>1, <3>1, <3>2, <3>3 DEF Refusal, InitialRefusal
  <2>2. ASSUME RequiredNextAction(d) = "VALIDATE",
               r.op = "VALIDATE_DEFINITION", r.ifMatch \in ValidManifest
        PROVE  Refusal(r) = Accepted
    <3>1. definitions[d].status = "DRAFT"
      BY <2>2 DEF RequiredNextAction
    <3> QED
      BY <2>2, <3>1 DEF Refusal, ValidateRefusal
  <2>3. r.op = "SUCCESSOR" =>
           (RequiredNextAction(r.target) = "SUCCESSOR_PUBLISH" <=> Refusal(r) = Accepted)
    BY SuccessorAdvice
  <2> QED
    BY <2>1, <2>2, <2>3
<1> QED
  BY <1>1, <1>2, <1>3, ChainInductive, PTL DEF LifecycleSpec
=============================================================================
